---- MODULE WorkflowProgress_proofs ----
EXTENDS WorkflowProgress, TLAPS, WellFoundedInduction, NaturalsInduction,
        SequenceTheorems

-----------------------------------------------------------------------------
(* The plan, names and largest numbers.                                     *)

\* What the plan offers.
LEMMA PlanFacts ==
  /\ N \in Nat /\ N > 0
  /\ \A s \in Steps :
       /\ Plan[s].kind \in StepKinds
       /\ Plan[s].gate \in 0..(s - 1)
       /\ Budget(s) \in 1..MaxTry
<1>1. N \in Nat /\ N > 0 /\ Steps = DOMAIN Plan
  BY PlanAssumption DEF N, Steps
<1>2. ASSUME NEW s \in Steps
      PROVE  /\ Plan[s].kind \in StepKinds
             /\ Plan[s].gate \in 0..(s - 1)
             /\ Budget(s) \in 1..MaxTry
  <2>1. Plan[s] \in [kind : StepKinds, max : Nat, gate : Nat]
    BY PlanAssumption, ElementOfSeq DEF N, Steps
  <2>2. s \in Nat
    BY <1>1 DEF Steps
  <2>3. Plan[s].gate = 0 \/ Plan[s].gate < s
    BY <1>2, PlanAssumption DEF ValidateApprovalRequirements
  <2>4. Plan[s].gate \in 0..(s - 1)
    BY <1>2, <2>1, <2>2, <2>3 DEF Steps
  <2>5. Budget(s) \in 1..MaxTry
    BY <1>2, <2>1, BoundAssumption DEF Budget
  <2> QED
    BY <2>1, <2>4, <2>5
<1>3. QED
  BY <1>1, <1>2

\* The largest of a set of bounded numbers is one of them.
LEMMA MaxIn ==
  ASSUME NEW k \in Nat, NEW S \in SUBSET (0..k), S # {}
  PROVE  Max(S) \in S /\ \A n \in S : n <= Max(S)
<1> DEFINE R == OpToRel(<, Nat)
           T == {k - n : n \in S}
<1>1. IsWellFoundedOn(R, Nat)
  BY NatLessThanWellFounded
<1>2. T \subseteq Nat /\ T # {}
  <2>1. \A n \in S : n \in 0..k /\ k - n \in Nat
    OBVIOUS
  <2>2. PICK n \in S : TRUE
    OBVIOUS
  <2>3. QED
    BY <2>1, <2>2
<1>3. PICK m \in T : \A y \in T : ~(<<y, m>> \in R)
  BY <1>1, <1>2, WFMin
<1>4. \A y \in T : ~(y < m)
  BY <1>2, <1>3 DEF OpToRel
<1>5. PICK x \in S : m = k - x
  OBVIOUS
<1>6. \A n \in S : x >= n
  <2>1. ASSUME NEW n \in S PROVE x >= n
    <3>1. n \in 0..k /\ x \in 0..k
      OBVIOUS
    <3>2. ~(k - n < k - x)
      BY <1>4, <1>5
    <3>3. QED
      BY <3>1, <3>2
  <2>2. QED
    BY <2>1
<1>7. Max(S) \in S /\ \A n \in S : Max(S) >= n
  BY <1>6 DEF Max
<1>8. QED
  <2>1. \A n \in S : n \in Nat
    OBVIOUS
  <2>2. QED
    BY <1>7, <2>1

\* An attempt is its step, iteration and try.
LEMMA Names ==
  /\ \A s \in Steps, i \in Iterations, n \in 1..MaxTry : attemptName(s, i, n) \in Attempts
  /\ \A s, i, n : /\ attemptName(s, i, n).step = s /\ attemptName(s, i, n).iter = i
                  /\ attemptName(s, i, n).try = n
  /\ \A a \in Attempts : /\ a.step \in Steps /\ a.iter \in Iterations /\ a.try \in 1..MaxTry
                         /\ a = attemptName(a.step, a.iter, a.try)
  /\ NoAttempt \notin Attempts
<1>1. NoAttempt \notin Attempts
  BY PlanFacts DEF NoAttempt, Attempts, Steps
<1>2. QED
  BY <1>1 DEF Attempts, attemptName

\* A reconciliation has chosen an attempt and goes on to write.
InFlight == at \in {"create", "execution", "observe", "reference", "status"}

\* An attempt that a status names is one of the workflow, of the step the status is at.
Placed(w) == w.attempt # NoAttempt => w.step = w.attempt.step /\ w.attempt.iter <= w.iter

\* Every status anyone holds is in its place.
PlaceInv ==
  /\ Placed(wf) /\ Placed(wfCache) /\ Placed(seen)
  /\ wfCache.iter <= wf.iter
  /\ seen.iter <= wf.iter
  /\ target.iter <= wf.iter
  /\ InFlight => target \in Attempts

\* The types, and the attempts named by statuses in their places.
TypeInv == TypeOK /\ PlaceInv

\* The next retry number of a step is a number.
LEMMA NextTry ==
  ASSUME NEW s, NEW i
  PROVE  NextRetryNumber(s, i) \in Nat \ {0}
<1> DEFINE S == {0} \cup {n \in 1..MaxTry : phase[attemptName(s, i, n)] # "Absent"}
<1>1. S \in SUBSET (0..MaxTry) /\ S # {}
  BY BoundAssumption
<1>2. Max(S) \in 0..MaxTry
  <2> HIDE DEF S
  <2> QED BY <1>1, MaxIn, BoundAssumption
<1>3. QED
  BY <1>2 DEF NextRetryNumber

-----------------------------------------------------------------------------
(* Types.                                                                   *)

\* What a status says, and how its updates keep it a status.
LEMMA StatusFacts ==
  /\ NewWorkflow \in Statuses
  /\ NewWorkflow.attempt = NoAttempt /\ NewWorkflow.iter = 0 /\ NoAttempt.iter = 0
  /\ \A w \in Statuses :
       /\ w.phase \in WorkflowPhases /\ w.iter \in Nat /\ w.iter <= MaxRewinds
       /\ w.step \in 0..N /\ w.attempt \in Attempts \cup {NoAttempt}
       /\ w.observed \in Nat \X Nat
<1>1. NoAttempt.iter = 0 /\ NewWorkflow.attempt = NoAttempt /\ NewWorkflow.iter = 0
  BY DEF NoAttempt, NewWorkflow
<1>2. NewWorkflow \in Statuses
  BY PlanFacts, BoundAssumption
     DEF NewWorkflow, Nothing, Statuses, WorkflowPhases, Iterations
<1>3. QED
  BY <1>1, <1>2, BoundAssumption DEF Statuses, Iterations

\* An update of one field

\* An update of one field leaves the place in the plan alone.
LEMMA Updated ==
  ASSUME NEW w \in Statuses
  PROVE  /\ \A p \in WorkflowPhases :
              /\ [w EXCEPT !.phase = p] \in Statuses
              /\ [w EXCEPT !.phase = p].attempt = w.attempt
              /\ [w EXCEPT !.phase = p].step = w.step
              /\ [w EXCEPT !.phase = p].iter = w.iter
         /\ \A n \in Nat \X Nat :
              /\ [w EXCEPT !.observed = n] \in Statuses
              /\ [w EXCEPT !.observed = n].attempt = w.attempt
              /\ [w EXCEPT !.observed = n].step = w.step
              /\ [w EXCEPT !.observed = n].iter = w.iter
BY DEF Statuses

\* A reconciliation returns, with or without a last write.
LEMMA Returned ==
  ASSUME TypeInv, Return, wf' \in Statuses, Placed(wf)', wf.iter <= wf'.iter,
         UNCHANGED <<wfCache, inputVars, attemptVars, execVars>>,
         crashes' \in 0..MaxCrashes, deletes' \in 0..MaxDeletes
  PROVE  TypeInv'
<1>1. PlaceInv' /\ seen' \in Statuses /\ target' \in Attempts \cup {NoAttempt}
         /\ at' \in Stages /\ bound' \in Nat
  BY StatusFacts DEF TypeInv, TypeOK, PlaceInv, Placed, Return, InFlight, Stages
<1>2. TypeOK'
  BY <1>1 DEF TypeInv, TypeOK, inputVars, attemptVars, execVars
<1>3. QED
  BY <1>1, <1>2 DEF TypeInv

\* A reconciliation returns after its last write, the status.
LEMMA StatusWritten ==
  ASSUME TypeInv, NEW latest \in Statuses, UpdateStatus(latest),
         Placed(latest), wf.iter <= latest.iter
  PROVE  TypeInv'
<1>1. Placed(wf)'
  BY DEF UpdateStatus, Placed
<1>2. QED
  BY <1>1, Returned DEF UpdateStatus, countVars, TypeInv, TypeOK

\* A last write that marks the workflow.
LEMMA PhaseWritten ==
  ASSUME TypeInv, NEW p \in WorkflowPhases, UpdateStatus([wf EXCEPT !.phase = p])
  PROVE  TypeInv'
<1>1. wf \in Statuses /\ Placed(wf) /\ wf.iter <= wf.iter
  BY StatusFacts DEF TypeInv, TypeOK, PlaceInv
<1> DEFINE latest == [wf EXCEPT !.phase = p]
<1>2. latest \in Statuses /\ Placed(latest) /\ wf.iter <= latest.iter
  <2>1. /\ latest \in Statuses
        /\ latest.attempt = wf.attempt
        /\ latest.step = wf.step
        /\ latest.iter = wf.iter
    BY <1>1, Updated
  <2> HIDE DEF latest
  <2>2. QED
    BY <1>1, <2>1 DEF Placed
<1>3. UpdateStatus(latest)
  OBVIOUS
<1> HIDE DEF latest
<1>4. QED
  BY <1>2, <1>3, StatusWritten

\* A reconciliation has chosen the attempt it establishes.
LEMMA Chosen ==
  ASSUME TypeInv, NEW a \in Attempts, a.iter <= seen.iter, createAttempt(a)
  PROVE  TypeInv'
<1>1. a.iter <= wf.iter
  BY StatusFacts, Names, BoundAssumption DEF TypeInv, TypeOK, PlaceInv, Iterations
<1>2. PlaceInv'
  BY <1>1 DEF TypeInv, TypeOK, PlaceInv, Placed, createAttempt, InFlight, wfVars
<1>3. TypeOK'
  BY DEF TypeInv, TypeOK, createAttempt, Stages, wfVars, inputVars, attemptVars,
         execVars, countVars
<1>4. QED
  BY <1>2, <1>3 DEF TypeInv

\* Every step keeps the types, and every attempt named by a status in its place.
LEMMA TypeStep == TypeInv /\ [Next]_vars => TypeInv'
<1> SUFFICES ASSUME TypeInv, [Next]_vars PROVE TypeInv'
  OBVIOUS
<1> USE DEF wfVars, inputVars, attemptVars, execVars, flightVars, countVars
<1>1. /\ wf \in Statuses /\ Placed(wf) /\ wf.iter <= wf.iter
      /\ seen \in Statuses /\ Placed(seen) /\ seen.iter <= wf.iter
      /\ crashes \in 0..MaxCrashes /\ deletes \in 0..MaxDeletes
  BY StatusFacts DEF TypeInv, TypeOK, PlaceInv
<1>2. seen.attempt # NoAttempt => seen.attempt \in Attempts /\ seen.step \in Steps
  BY <1>1, StatusFacts, Names DEF Placed
<1>3. CASE Read
  <2>1. PlaceInv'
    BY <1>3, <1>1 DEF Read, Seen, TypeInv, PlaceInv, Placed, InFlight
  <2>2. TypeOK'
    BY <1>3 DEF Read, Seen, TypeInv, TypeOK, Stages
  <2>3. QED
    BY <2>1, <2>2 DEF TypeInv
<1>4. CASE Initialize
  BY <1>4, PhaseWritten DEF Initialize, WorkflowPhases
<1>5. CASE AwaitBootstrap
  BY <1>5, <1>1, Returned DEF AwaitBootstrap, Placed
<1>6. CASE BootstrapFails
  BY <1>6, PhaseWritten DEF BootstrapFails, WorkflowPhases, FailWorkflow
<1>7. CASE AlreadyDone
  BY <1>7, <1>1, Returned DEF AlreadyDone, Placed
<1>8. CASE Begin
  <2> DEFINE s == IF seen.step = 0 THEN 1 ELSE seen.step
  <2>1. s \in Steps /\ seen.iter \in Iterations /\ 1 \in 1..MaxTry
    BY <1>1, StatusFacts, PlanFacts, BoundAssumption DEF Steps, Iterations
  <2>2. createAttempt(attemptName(s, seen.iter, 1))
    BY <1>8 DEF Begin
  <2> HIDE DEF s
  <2>3. QED
    BY <2>1, <2>2, Names, <1>1, StatusFacts, Chosen
<1>9. CASE LostAttempt
  <2> DEFINE s == seen.step
             n == NextRetryNumber(seen.step, seen.iter)
  <2>1. s \in Steps /\ seen.iter \in Iterations /\ n \in 1..MaxTry
    BY <1>9, <1>1, <1>2, NextTry, StatusFacts, BoundAssumption
       DEF LostAttempt, Steps, Iterations
  <2>2. createAttempt(attemptName(s, seen.iter, n))
    BY <1>9 DEF LostAttempt
  <2> HIDE DEF s, n
  <2>3. QED
    BY <2>1, <2>2, Names, <1>1, StatusFacts, Chosen
<1>10. CASE Advance
  <2> DEFINE s == seen.attempt.step + 1
             n == 1
  <2>1. s \in Steps /\ seen.iter \in Iterations /\ n \in 1..MaxTry
    <3>1. seen.attempt.step \in Steps /\ seen.attempt.step < N
      BY <1>10, <1>2, Names DEF Advance, Active
    <3>2. s \in Steps
      BY <3>1, PlanFacts DEF Steps
    <3>3. seen.iter \in Iterations
      BY <1>1, StatusFacts, BoundAssumption DEF Iterations
    <3> QED
      BY <3>2, <3>3, BoundAssumption
  <2>2. createAttempt(attemptName(s, seen.iter, n))
    BY <1>10 DEF Advance
  <2> HIDE DEF s, n
  <2>3. QED
    BY <2>1, <2>2, Names, <1>1, StatusFacts, Chosen
<1>11. CASE Retry
  <2> DEFINE s == seen.attempt.step
             n == seen.attempt.try + 1
  <2>1. s \in Steps /\ seen.iter \in Iterations /\ n \in 1..MaxTry
    <3>1. seen.attempt \in Attempts /\ seen.attempt.try < Budget(seen.attempt.step)
      BY <1>11, <1>2 DEF Retry, AttemptFailed, Active, MayRetry
    <3>2. seen.attempt.step \in Steps /\ seen.attempt.try \in 1..MaxTry
      BY <3>1, Names
    <3>3. Budget(seen.attempt.step) \in 1..MaxTry
      BY <3>2, PlanFacts
    <3>4. n \in 1..MaxTry
      BY <3>1, <3>2, <3>3, BoundAssumption
    <3>5. seen.iter \in Iterations
      BY <1>1, StatusFacts, BoundAssumption DEF Iterations
    <3> QED
      BY <3>2, <3>4, <3>5
  <2>2. createAttempt(attemptName(s, seen.iter, n))
    BY <1>11 DEF Retry
  <2> HIDE DEF s, n
  <2>3. QED
    BY <2>1, <2>2, Names, <1>1, StatusFacts, Chosen
<1>12. CASE MarkAwaiting
  <2>1. CASE seen.phase = "AwaitingApproval"
    BY <1>12, <2>1, <1>1, Returned DEF MarkAwaiting, Placed
  <2>2. CASE seen.phase # "AwaitingApproval"
    BY <1>12, <2>2, PhaseWritten DEF MarkAwaiting, WorkflowPhases
  <2>3. QED
    BY <2>1, <2>2
<1>13. CASE NothingToDo
  BY <1>13, <1>1, Returned DEF NothingToDo, Placed
<1>14. CASE Succeed
  <2> DEFINE latest == [wf EXCEPT !.phase = "Succeeded", !.step = 0, !.attempt = NoAttempt]
  <2>1. UpdateStatus(latest)
    BY <1>14 DEF Succeed
  <2>2. 0 \in 0..N
    BY PlanFacts
  <2>3. latest \in Statuses /\ latest.attempt = NoAttempt /\ latest.iter = wf.iter
    BY <1>1, <2>2 DEF Statuses, WorkflowPhases
  <2> HIDE DEF latest
  <2>4. QED
    BY <2>1, <2>3, <1>1, StatusWritten DEF Placed
<1>15. CASE RejectOutputs
  BY <1>15, PhaseWritten DEF RejectOutputs, WorkflowPhases, FailWorkflow
<1>16. CASE AwaitOutputs
  BY <1>16, <1>1, Returned DEF AwaitOutputs, Placed
<1>17. CASE FailStep
  BY <1>17, PhaseWritten DEF FailStep, WorkflowPhases, FailWorkflow
<1>18. CASE beginWorkflowRetry
  <2>1. CASE UpdateStatus(wf)
    BY <2>1, <1>1, StatusWritten
  <2>2. CASE UpdateStatus(Rewound(seen.attempt)) /\ wf.iter = seen.attempt.iter
    <3>1. seen.attempt \in Attempts /\ wf.iter + 1 \in Iterations /\ RewindTo \in 0..N
      <4>1. /\ seen.attempt \in Attempts
            /\ seen.attempt.step = RewindFrom
            /\ wf.iter <= seen.iter
            /\ seen.iter < MaxRewinds
        BY <1>18, <2>2, <1>1, <1>2
           DEF beginWorkflowRetry, AttemptFailed, Active, RewindPolicy, Placed
      <4>2. RewindFrom \in 1..N /\ RewindTo \in 1..(RewindFrom - 1)
        BY <4>1, Names, RewindAssumption DEF Steps
      <4>3. QED
        BY <4>1, <4>2, <1>1, StatusFacts, PlanFacts, BoundAssumption
           DEF Iterations
    <3> DEFINE latest == Rewound(seen.attempt)
    <3>2. latest \in Statuses /\ latest.attempt = NoAttempt /\ latest.iter = wf.iter + 1
      BY <3>1, <1>1 DEF Rewound, Nothing, Statuses, WorkflowPhases
    <3>3. UpdateStatus(latest)
      BY <2>2
    <3> HIDE DEF latest
    <3>4. QED
      BY <3>2, <3>3, <1>1, StatusFacts, StatusWritten DEF Placed
  <2>3. QED
    BY <1>18, <2>1, <2>2 DEF beginWorkflowRetry
<1>19. CASE CreateAttempt
  <2>1. target \in Attempts /\ InFlight
    BY <1>19 DEF CreateAttempt, TypeInv, PlaceInv, InFlight
  <2>2. PlaceInv'
    BY <1>19, <2>1 DEF CreateAttempt, TypeInv, PlaceInv, Placed, InFlight
  <2>3. phase' \in [Attempts -> AttemptPhases] /\ uid' \in [Attempts -> Nat] /\ ref' = ref
    BY <1>19, <2>1 DEF CreateAttempt, TypeInv, TypeOK, AttemptPhases
  <2>4. bound' \in Nat
    BY <1>19, <2>1, <2>3 DEF CreateAttempt
  <2>5. TypeOK'
    BY <1>19, <2>3, <2>4 DEF CreateAttempt, TypeInv, TypeOK, Stages
  <2>6. QED
    BY <2>2, <2>5 DEF TypeInv
<1>20. CASE CreateExecution
  <2>1. target \in Attempts /\ InFlight
    BY <1>20 DEF CreateExecution, TypeInv, PlaceInv, InFlight
  <2>2. PlaceInv'
    BY <1>20, <2>1
       DEF CreateExecution, TypeInv, PlaceInv, Placed, InFlight, Proceed
  <2>3. TypeOK'
    BY <1>20, <2>1
       DEF CreateExecution, TypeInv, TypeOK, Stages, Proceed, ExecPhases
  <2>4. QED
    BY <2>2, <2>3 DEF TypeInv
<1>21. CASE NotApproved
  BY <1>21, <1>1, Returned DEF NotApproved, Placed
<1>22. CASE RecordRetry
  <2>1. /\ wf' \in Statuses /\ wf'.attempt = wf.attempt /\ wf'.step = wf.step
        /\ wf'.iter = wf.iter
    <3>1. CASE wf' = wf
      BY <3>1, <1>1
    <3>2. CASE wf' = [wf EXCEPT !.observed = Observation]
      <4>1. target \in Attempts
        BY <1>22 DEF RecordRetry, TypeInv, PlaceInv, InFlight
      <4>2. Observation \in Nat \X Nat
        BY <4>1 DEF Observation, TypeInv, TypeOK
      <4>3. QED
        BY <3>2, <4>2, <1>1, Updated
    <3>3. QED
      BY <1>22, <3>1, <3>2 DEF RecordRetry
  <2>2. PlaceInv'
    BY <1>22, <2>1 DEF RecordRetry, TypeInv, PlaceInv, Placed, InFlight, Proceed
  <2>3. TypeOK'
    BY <1>22, <2>1 DEF RecordRetry, TypeInv, TypeOK, Stages, Proceed
  <2>4. QED
    BY <2>2, <2>3 DEF TypeInv
<1>23. CASE RetryMismatch
  BY <1>23, <1>1, Returned DEF RetryMismatch, Placed
<1>24. CASE recordAttemptExecutionRef
  <2>1. PlaceInv'
    BY <1>24
       DEF recordAttemptExecutionRef, TypeInv, PlaceInv, Placed, InFlight, Proceed
  <2>2. TypeOK'
    BY <1>24 DEF recordAttemptExecutionRef, TypeInv, TypeOK, Stages, Proceed
  <2>3. QED
    BY <2>1, <2>2 DEF TypeInv
<1>25. CASE AttemptGone
  BY <1>25, <1>1, Returned DEF AttemptGone, Placed
<1>26. CASE RecordActive
  <2> DEFINE latest == [wf EXCEPT !.phase = "Running", !.step = target.step,
                                !.attempt = target]
  <2>1. UpdateStatus(latest)
    BY <1>26 DEF RecordActive
  <2>2. target \in Attempts /\ target.iter <= wf.iter
    BY <1>26 DEF RecordActive, TypeInv, PlaceInv, InFlight
  <2>3. target.step \in 0..N
    BY <2>2, Names, PlanFacts DEF Steps
  <2>4. /\ latest \in Statuses
        /\ latest.attempt = target
        /\ latest.iter = wf.iter
        /\ latest.step = target.step
    BY <1>1, <2>2, <2>3 DEF Statuses, WorkflowPhases
  <2> HIDE DEF latest
  <2>5. QED
    BY <2>1, <2>2, <2>4, <1>1, StatusWritten DEF Placed
<1>27. CASE Crash
  BY <1>27, <1>1, Returned, BoundAssumption DEF Crash, Placed
<1>28. CASE Bootstrap
  <2>1. PlaceInv'
    BY <1>28, <1>1 DEF Bootstrap, TypeInv, PlaceInv, Placed, InFlight
  <2>2. TypeOK'
    BY <1>28 DEF Bootstrap, TypeInv, TypeOK
  <2>3. QED
    BY <2>1, <2>2 DEF TypeInv
<1>29. CASE LoseInput
  <2>1. PlaceInv'
    BY <1>29, <1>1 DEF LoseInput, TypeInv, PlaceInv, Placed, InFlight
  <2>2. TypeOK'
    BY <1>29 DEF LoseInput, TypeInv, TypeOK
  <2>3. QED
    BY <2>1, <2>2 DEF TypeInv
<1>30. CASE AcceptOutputs
  <2>1. PlaceInv'
    BY <1>30, <1>1 DEF AcceptOutputs, TypeInv, PlaceInv, Placed, InFlight
  <2>2. TypeOK'
    BY <1>30 DEF AcceptOutputs, TypeInv, TypeOK
  <2>3. QED
    BY <2>1, <2>2 DEF TypeInv
<1>31. CASE Sync
  <2>1. PlaceInv'
    BY <1>31, <1>1 DEF Sync, TypeInv, PlaceInv, Placed, InFlight
  <2>2. TypeOK'
    BY <1>31 DEF Sync, TypeInv, TypeOK
  <2>3. QED
    BY <2>1, <2>2 DEF TypeInv
<1>32. ASSUME NEW a \in Attempts, Project(a) PROVE TypeInv'
  <2>1. PlaceInv'
    BY <1>32 DEF Project, TypeInv, PlaceInv, Placed, InFlight
  <2>2. TypeOK'
    BY <1>32, BoundAssumption
       DEF Project, TypeInv, TypeOK, Projection, Owned, AttemptPhases, ExecPhases,
           Ended
  <2>3. QED
    BY <2>1, <2>2 DEF TypeInv
<1>33. ASSUME NEW a \in Attempts, Admit(a) PROVE TypeInv'
  <2>1. PlaceInv'
    BY <1>33 DEF Admit, TypeInv, PlaceInv, Placed, InFlight, EndExec
  <2>2. \E p \in {"Active", "Failed"} : EndExec(a, p)
    BY <1>33 DEF Admit
  <2>3. TypeOK'
    BY <1>33, <2>2 DEF Admit, TypeInv, TypeOK, EndExec, ExecPhases, Ended
  <2>4. QED
    BY <2>1, <2>3 DEF TypeInv
<1>34. ASSUME NEW a \in Attempts, Finish(a) PROVE TypeInv'
  <2>1. PlaceInv'
    BY <1>34 DEF Finish, TypeInv, PlaceInv, Placed, InFlight, EndExec
  <2>2. TypeOK'
    BY <1>34, BoundAssumption
       DEF Finish, TypeInv, TypeOK, EndExec, ExecPhases, Ended
  <2>3. QED
    BY <2>1, <2>2 DEF TypeInv
<1>35. ASSUME NEW a \in Attempts, resolveDecision(a) PROVE TypeInv'
  <2>1. PlaceInv'
    BY <1>35 DEF resolveDecision, TypeInv, PlaceInv, Placed, InFlight, EndExec
  <2>2. TypeOK'
    BY <1>35, BoundAssumption
       DEF resolveDecision, TypeInv, TypeOK, EndExec, ExecPhases, Ended
  <2>3. QED
    BY <2>1, <2>2 DEF TypeInv
<1>36. ASSUME NEW a \in Attempts, Collect(a) PROVE TypeInv'
  <2>1. PlaceInv'
    BY <1>36 DEF Collect, TypeInv, PlaceInv, Placed, InFlight, EndExec
  <2>2. TypeOK'
    BY <1>36, BoundAssumption DEF Collect, TypeInv, TypeOK, EndExec, ExecPhases
  <2>3. QED
    BY <2>1, <2>2 DEF TypeInv
<1>37. ASSUME NEW a \in Attempts, Decide(a) PROVE TypeInv'
  <2>1. PlaceInv'
    BY <1>37 DEF Decide, TypeInv, PlaceInv, Placed, InFlight
  <2>2. TypeOK'
    BY <1>37, BoundAssumption DEF Decide, TypeInv, TypeOK
  <2>3. QED
    BY <2>1, <2>2 DEF TypeInv
<1>38. ASSUME NEW a \in Attempts, DeleteAttempt(a) PROVE TypeInv'
  <2>1. PlaceInv'
    BY <1>38 DEF DeleteAttempt, TypeInv, PlaceInv, Placed, InFlight
  <2>2. TypeOK'
    BY <1>38, BoundAssumption DEF DeleteAttempt, TypeInv, TypeOK, AttemptPhases
  <2>3. QED
    BY <2>1, <2>2 DEF TypeInv
<1>39. ASSUME NEW a \in Attempts, DeleteExec(a) PROVE TypeInv'
  <2>1. PlaceInv'
    BY <1>39 DEF DeleteExec, TypeInv, PlaceInv, Placed, InFlight
  <2>2. TypeOK'
    BY <1>39, BoundAssumption DEF DeleteExec, TypeInv, TypeOK, ExecPhases
  <2>3. QED
    BY <2>1, <2>2 DEF TypeInv
<1>40. CASE UNCHANGED vars
  BY <1>40 DEF vars, TypeInv, TypeOK, PlaceInv, Placed, InFlight
<1>41. QED
  BY <1>3, <1>4, <1>5, <1>6, <1>7, <1>8, <1>9, <1>10, <1>11, <1>12, <1>13, <1>14,
     <1>15, <1>16, <1>17, <1>18, <1>19, <1>20, <1>21, <1>22, <1>23, <1>24, <1>25,
     <1>26, <1>27, <1>28, <1>29, <1>30, <1>31, <1>32, <1>33, <1>34, <1>35, <1>36,
     <1>37, <1>38, <1>39, <1>40
     DEF Next, Reconcile, Progress

\* The initial state is typed.
LEMMA InitTyped == Init => TypeInv
<1> SUFFICES ASSUME Init PROVE TypeInv
  OBVIOUS
<1>1. PlaceInv
  BY StatusFacts DEF Init, PlaceInv, Placed, InFlight
<1>2. TypeOK
  BY StatusFacts, BoundAssumption
     DEF Init, TypeOK, AttemptPhases, ExecPhases, Stages
<1>3. QED
  BY <1>1, <1>2 DEF TypeInv

\* The status of the workflow and of its attempts, and every stage of a
\* reconciliation, are what the API types allow, whatever is lost or deleted.
THEOREM TypeCorrect == Spec => []TypeOK
<1>1. TypeInv => TypeOK
  BY DEF TypeInv
<1>2. QED
  BY <1>1, InitTyped, TypeStep, PTL DEF Spec

-----------------------------------------------------------------------------
(* The inductive invariant.                                                 *)

\* The attempt is in the API server.
Exists(a) == phase[a] # "Absent"

\* The attempt that a reconciliation which read the status w would establish next: the
\* first of the iteration, the one of the next step, or the next try of a step that may
\* be tried again.
Follows(w, a) ==
  /\ w.phase # "Succeeded"
  /\ \/ /\ w.attempt = NoAttempt
        /\ a = attemptName(IF w.step = 0 THEN 1 ELSE w.step, w.iter, 1)
     \/ /\ w.attempt # NoAttempt
        /\ phase[w.attempt] = "Succeeded"
        /\ w.attempt.step < N
        /\ a = attemptName(w.attempt.step + 1, w.iter, 1)
     \/ /\ w.attempt # NoAttempt
        /\ ~RewindPolicy(w.attempt)
        /\ MayRetry(w.attempt)
        /\ a = attemptName(w.attempt.step, w.iter, w.attempt.try + 1)

\* What the stored status says of itself and of the objects: it names an attempt of its
\* step and iteration that exists, nothing exists before the inputs are decided, and a
\* succeeded workflow has an attempt of its last step that succeeded.
StatusInv ==
  /\ wf.attempt # NoAttempt => /\ wf.attempt.step = wf.step
                               /\ wf.attempt.iter = wf.iter
                               /\ Exists(wf.attempt)
                               /\ wf.phase \notin {"New", "Succeeded"}
  /\ wf.attempt = NoAttempt /\ wf.phase \notin Terminal =>
       wf.step = IF wf.iter = 0 THEN 0 ELSE RewindTo
  /\ wf.iter > 0 => RewindFrom > 0
  /\ wf.phase = "New" => wf.iter = 0 /\ bootstrap = "pending"
  /\ bootstrap = "pending" => /\ \A a \in Attempts : ~Exists(a)
                              /\ wf.phase \in {"New", "Pending"}
  /\ wf.phase = "Succeeded" =>
       /\ wf.step = 0
       /\ \E a \in Attempts : /\ a.step = N /\ a.iter = wf.iter
                              /\ phase[a] = "Succeeded"

\* The causes for which a workflow fails.
FailedFor ==
  \/ bootstrap \in {"rejected", "lost"}
  \/ /\ wf.attempt # NoAttempt
     /\ \/ /\ phase[wf.attempt] = "Succeeded"
           /\ wf.attempt.step = N
           /\ outputs = "rejected"
        \/ /\ phase[wf.attempt] \in {"Failed", "Retryable", "Interrupted"}
           /\ IF RewindPolicy(wf.attempt) THEN wf.iter >= MaxRewinds
                                          ELSE ~MayRetry(wf.attempt)

\* A failed workflow still has its cause: what it failed for does not change any more.
FailedInv == wf.phase = "Failed" => FailedFor

\* The workflow has reached the attempt or gone beyond it.
Passed(a) ==
  \/ a.iter < wf.iter
  \/ /\ a.iter = wf.iter
     /\ \/ wf.phase \in Terminal
        \/ /\ wf.attempt # NoAttempt
           /\ a.step < wf.step \/ (a.step = wf.step /\ a.try <= wf.attempt.try)

\* Nothing exists beyond the attempt the workflow follows next, and only the attempt it
\* is at and the one that follows may still change.
FrontierInv ==
  \A a \in Attempts : Exists(a) =>
    /\ Passed(a) \/ Follows(wf, a)
    /\ phase[a] \in Ended \/ a = wf.attempt \/ Follows(wf, a)

\* How each attempt came to be: the tries before it exist and may all be tried again, and
\* a step before it succeeded in its iteration.
HistoryInv ==
  \A a \in Attempts : Exists(a) =>
    /\ a.try > 1 => /\ a.try <= Budget(a.step)
                    /\ Exists(attemptName(a.step, a.iter, a.try - 1))
    /\ \A b \in Attempts :
         Exists(b) /\ b.step = a.step /\ b.iter = a.iter /\ b.try < a.try =>
           phase[b] \in {"Retryable", "Interrupted"}
    /\ \/ a.step = FirstStep(a.iter)
       \/ \E b \in Attempts : /\ b.step = a.step - 1 /\ b.iter = a.iter
                              /\ phase[b] = "Succeeded"

\* A copy of the status names what the stored status names.
InStep(w) == w.iter = wf.iter /\ w.step = wf.step /\ w.attempt = wf.attempt

\* The phases in which reconciliations write.
Working == {"Pending", "Running", "AwaitingApproval"}

\* The attempt that follows the stored status does not exist yet.
NoFollower == \A a \in Attempts : Follows(wf, a) => ~Exists(a)

\* A copy that is as good as the stored status: nothing a reconciliation decides with was
\* written after it.
CopyNow(w) ==
  /\ InStep(w)
  /\ w.phase = "New" => wf.phase \in {"New", "Pending"}
  /\ wf.phase = "New" => w.phase = "New"
  /\ w.phase \in Terminal => wf.phase \in Terminal
  /\ wf.phase = "Succeeded" => w.phase = "Succeeded"

\* A copy from before the last attempt was recorded: that attempt is the one a
\* reconciliation reading the copy establishes again.
CopyBefore(w) ==
  /\ w.phase \in Working
  /\ wf.phase = "Running"
  /\ wf.attempt # NoAttempt
  /\ Follows(w, wf.attempt)
  /\ w.iter = wf.iter
  /\ w.attempt # NoAttempt => Exists(w.attempt)
  /\ NoFollower

\* A copy from before the last rewind: the attempt it names failed and is the one the
\* rewind was for.
CopyBeforeRewind(w) ==
  /\ w.phase \in Working /\ w.attempt # NoAttempt
  /\ wf.phase = "Running" /\ wf.attempt = NoAttempt
  /\ wf.iter = w.iter + 1
  /\ w.attempt.step = RewindFrom
  /\ phase[w.attempt] \in {"Failed", "Retryable"}

\* A copy from before the workflow succeeded.
CopyBeforeSuccess(w) ==
  /\ w.phase \in Working /\ w.attempt # NoAttempt
  /\ wf.phase = "Succeeded" /\ wf.attempt = NoAttempt
  /\ wf.iter = w.iter
  /\ w.attempt.step = N
  /\ phase[w.attempt] = "Succeeded"
  /\ outputs = "accepted"

\* A cached copy of the status is current or exactly one write behind.
Copy(w) == CopyNow(w) \/ CopyBefore(w) \/ CopyBeforeRewind(w) \/ CopyBeforeSuccess(w)

\* The next reconciliation reads such a copy.
CacheInv == Copy(Seen)

\* So did the one that is deciding.
SeenInv == at = "decide" => Copy(seen) /\ (InStep(seen) => InStep(Seen))

\* What a reconciliation that goes on to write has in hand: an attempt it may establish,
\* and the identity of that attempt.
FlightInv ==
  InFlight =>
    /\ wf.phase \in Working
    /\ bootstrap # "pending"
    /\ (target = wf.attempt /\ NoFollower) \/ (Follows(wf, target) /\ InStep(Seen))
    /\ at # "create" => Exists(target) /\ bound = uid[target]

\* The invariants of the stored objects.
StateInv == StatusInv /\ FailedInv /\ FrontierInv /\ HistoryInv
\* The inductive invariant: the stored objects, what the cache may hold of them, and what
\* a reconciliation under way has read and is about to write.
PlanInv == TypeInv /\ StateInv /\ CacheInv /\ SeenInv /\ FlightInv

\* No attempt is deleted from under its workflow.
AttemptsStay == "deleteAttempt" \notin Env

\* The facts about types the proofs below need.
LEMMA Typed ==
  ASSUME TypeInv
  PROVE  /\ \A w \in {wf, wfCache, seen} :
              /\ w \in Statuses
              /\ w.phase \in WorkflowPhases /\ w.iter \in Nat /\ w.iter <= MaxRewinds
              /\ w.step \in 0..N /\ w.attempt \in Attempts \cup {NoAttempt}
              /\ w.attempt # NoAttempt => w.step = w.attempt.step
         /\ Seen \in {wf, wfCache}
         /\ \A a \in Attempts : /\ phase[a] \in AttemptPhases
                                /\ a.step \in 1..N /\ a.iter \in Nat /\ a.try \in 1..MaxTry
         /\ InFlight => target \in Attempts
         /\ N \in Nat \ {0} /\ MaxTry \in Nat \ {0} /\ MaxRewinds \in Nat
<1>1. \A w \in {wf, wfCache, seen} : w \in Statuses /\ Placed(w)
  BY DEF TypeInv, TypeOK, PlaceInv
<1>2. \A a \in Attempts : /\ phase[a] \in AttemptPhases
                          /\ a.step \in 1..N /\ a.iter \in Nat /\ a.try \in 1..MaxTry
  BY Names, BoundAssumption DEF TypeInv, TypeOK, Steps, Iterations
<1>3. InFlight => target \in Attempts
  BY DEF TypeInv, PlaceInv
<1>4. QED
  BY <1>1, <1>2, <1>3, StatusFacts, PlanFacts, BoundAssumption DEF Placed, Seen

\* A reconciliation establishes one attempt.
LEMMA FollowsOne ==
  ASSUME NEW w, NEW a, NEW b, Follows(w, a), Follows(w, b)
  PROVE  a = b
BY DEF Follows, MayRetry

\* That attempt has a name, in the iteration the reconciliation read.
LEMMA FollowsNamed ==
  ASSUME TypeInv, NEW w \in {wf, wfCache, seen}, NEW a, Follows(w, a)
  PROVE  a \in Attempts /\ a.iter = w.iter
<1>1. w.iter \in Iterations /\ 1 \in 1..MaxTry
  BY Typed, BoundAssumption DEF Iterations
<1>2. CASE w.attempt = NoAttempt
  <2> DEFINE s == IF w.step = 0 THEN 1 ELSE w.step
  <2>1. a = attemptName(s, w.iter, 1)
    BY <1>2 DEF Follows
  <2>2. s \in Steps
    BY Typed DEF Steps
  <2> HIDE DEF s
  <2>3. QED
    BY <2>1, <2>2, <1>1, Names
<1>3. CASE w.attempt # NoAttempt
  <2>1. w.attempt \in Attempts
    BY <1>3, Typed
  <2>2. CASE a = attemptName(w.attempt.step + 1, w.iter, 1) /\ w.attempt.step < N
    <3>1. w.attempt.step + 1 \in Steps
      BY <2>1, <2>2, Typed DEF Steps
    <3>2. QED
      BY <3>1, <2>2, <1>1, Names
  <2>3. CASE /\ a = attemptName(w.attempt.step, w.iter, w.attempt.try + 1)
             /\ MayRetry(w.attempt)
    <3>1. w.attempt.try + 1 \in 1..MaxTry
      BY <2>1, <2>3, Typed, Names, PlanFacts DEF MayRetry
    <3>2. QED
      BY <2>1, <3>1, <2>3, <1>1, Names
  <2>4. QED
    BY <1>3, <2>2, <2>3 DEF Follows
<1>4. QED
  BY <1>2, <1>3

\* The invariants of the state are about the status, the phases and the inputs.
LEMMA Untouched ==
  ASSUME UNCHANGED <<wf, wfCache, phase, bootstrap, outputs>>
  PROVE  /\ StateInv => StateInv'
         /\ CacheInv => CacheInv'
<1>1. StateInv => StateInv'
  BY DEF StateInv, StatusInv, FailedInv, FrontierInv, HistoryInv, FailedFor,
         Passed, Follows, Exists, RewindPolicy, MayRetry
<1>2. CacheInv => CacheInv'
  BY DEF CacheInv, Copy, CopyNow, CopyBefore, CopyBeforeRewind, CopyBeforeSuccess,
         Seen, InStep, NoFollower, Follows, Exists, RewindPolicy, MayRetry
<1>3. QED
  BY <1>1, <1>2

\* A reconciliation that has returned holds nothing.
LEMMA Answered == Return => SeenInv' /\ FlightInv'
BY DEF Return, SeenInv, FlightInv, InFlight

\* The phase of the workflow is written, its place in the plan is not.
LEMMA Marked ==
  ASSUME PlanInv,
         wf'.iter = wf.iter, wf'.step = wf.step, wf'.attempt = wf.attempt,
         UNCHANGED <<wfCache, phase, bootstrap, outputs>>, Fresh,
         \/ wf'.phase = "Pending" /\ wf.phase \in {"New", "Pending"}
         \/ /\ wf'.phase \in {"Running", "AwaitingApproval"} /\ wf.phase \in Working 
            /\ wf.attempt # NoAttempt
         \/ wf'.phase = "Failed" /\ wf.phase # "New" /\ FailedFor /\ bootstrap # "pending"
  PROVE  StateInv' /\ CacheInv'
<1>1. TypeInv /\ StateInv
  BY DEF PlanInv
<1>2. wf.attempt \in Attempts \cup {NoAttempt}
  BY <1>1, Typed
<1>3. \A a : Follows(wf, a) => Follows(wf, a)'
  BY DEF Follows, RewindPolicy, MayRetry
<1>4. StatusInv'
  BY <1>1, <1>2 DEF StateInv, StatusInv, Exists, Terminal, Working
<1>5. FailedInv'
  BY <1>1 DEF StateInv, FailedInv, FailedFor, RewindPolicy, MayRetry, Working
<1>6. HistoryInv'
  BY <1>1 DEF StateInv, HistoryInv, Exists
<1>7. FrontierInv'
  <2>1. \A a \in Attempts : Passed(a) => Passed(a)'
    BY <1>1 DEF Passed, Terminal, Working, StateInv, StatusInv
  <2>2. QED
    BY <1>1, <1>3, <2>1 DEF StateInv, FrontierInv, Exists
<1>8. CacheInv'
  BY <1>1 DEF CacheInv, Copy, CopyNow, InStep, Seen, Fresh, Working, Terminal
<1>9. QED
  BY <1>4, <1>5, <1>6, <1>7, <1>8 DEF StateInv

-----------------------------------------------------------------------------
(* The decisions of a reconciliation.                                       *)

\* What a reconciliation that decides knows of the workflow.
LEMMA Decided ==
  ASSUME PlanInv, Deciding
  PROVE  /\ seen.attempt # NoAttempt => Exists(seen.attempt) /\ seen.attempt \in Attempts
         /\ \/ CopyNow(seen) /\ InStep(Seen) /\ wf.phase \notin {"New", "Succeeded"}
            \/ CopyBefore(seen) \/ CopyBeforeRewind(seen) \/ CopyBeforeSuccess(seen)
<1>1. Copy(seen) /\ (InStep(seen) => InStep(Seen)) /\ seen.phase \notin {"New", "Succeeded"}
  BY DEF PlanInv, SeenInv, Deciding
<1>2. CopyNow(seen) => InStep(Seen) /\ wf.phase \notin {"New", "Succeeded"}
  BY <1>1 DEF CopyNow
<1>3. seen.attempt # NoAttempt => Exists(seen.attempt)
  BY <1>1
     DEF Copy, CopyNow, CopyBefore, CopyBeforeRewind, CopyBeforeSuccess, InStep,
         PlanInv, StateInv, StatusInv, Exists
<1>4. seen.attempt \in Attempts \cup {NoAttempt}
  BY Typed DEF PlanInv
<1>5. QED
  BY <1>1, <1>2, <1>3, <1>4 DEF Copy

\* What a reconciliation establishes is the attempt that is due, or the one
\* that another reconciliation has established in the meantime.
LEMMA Established ==
  ASSUME PlanInv, Deciding, NEW a, Follows(seen, a), createAttempt(a)
  PROVE  StateInv' /\ CacheInv' /\ SeenInv' /\ FlightInv'
<1>1. StateInv' /\ CacheInv'
  BY Untouched DEF createAttempt, PlanInv, wfVars, attemptVars, inputVars
<1>2. /\ wf.phase \in Working
      /\ (a = wf.attempt /\ NoFollower) \/ (Follows(wf, a) /\ InStep(Seen))
  <2>1. CASE CopyNow(seen) /\ InStep(Seen) /\ wf.phase \notin {"New", "Succeeded"}
    <3>1. Follows(wf, a)
      BY <2>1 DEF CopyNow, InStep, Follows
    <3>2. ~FailedFor
      BY <3>1, PlanFacts DEF FailedFor, Deciding, Follows, MayRetry
    <3>3. wf.phase \in WorkflowPhases
      BY Typed DEF PlanInv
    <3>4. QED
      BY <2>1, <3>1, <3>2, <3>3
         DEF PlanInv, StateInv, FailedInv, WorkflowPhases, Working
  <2>2. CASE CopyBefore(seen)
    BY <2>2, FollowsOne DEF CopyBefore, Working
  <2>3. CASE CopyBeforeRewind(seen) \/ CopyBeforeSuccess(seen)
    BY <2>3, PlanFacts
       DEF CopyBeforeRewind, CopyBeforeSuccess, Follows, RewindPolicy, MayRetry
  <2>4. QED
    BY <2>1, <2>2, <2>3, Decided
<1>3. SeenInv'
  BY DEF createAttempt, SeenInv
<1>4. FlightInv'
  BY <1>2
     DEF createAttempt, FlightInv, InFlight, NoFollower, Follows, RewindPolicy,
         MayRetry, Exists, InStep, Seen, wfVars, attemptVars, inputVars, Deciding
<1>5. QED
  BY <1>1, <1>3, <1>4

\* The first attempt of an iteration is established.
LEMMA BeginStep ==
  PlanInv /\ Begin => StateInv' /\ CacheInv' /\ SeenInv' /\ FlightInv'
BY Established DEF Begin, Follows, Deciding

\* The next step is established.
LEMMA AdvanceStep ==
  PlanInv /\ Advance => StateInv' /\ CacheInv' /\ SeenInv' /\ FlightInv'
BY Established DEF Advance, Active, Follows, Deciding

\* A retry is established.
LEMMA RetryStep ==
  PlanInv /\ Retry => StateInv' /\ CacheInv' /\ SeenInv' /\ FlightInv'
BY Established DEF Retry, AttemptFailed, Active, Follows, Deciding

\* The attempt of a workflow is there while nobody deletes one.
LEMMA NotLost == PlanInv => ~LostAttempt
BY Decided DEF LostAttempt, Exists

\* A decision that ends the workflow or its iteration is about its attempt.
LEMMA Failing ==
  ASSUME PlanInv, Deciding, seen.attempt # NoAttempt,
         \/ /\ phase[seen.attempt] = "Succeeded"
            /\ seen.attempt.step = N
            /\ outputs = "rejected"
         \/ /\ phase[seen.attempt] \in {"Failed", "Retryable", "Interrupted"}
            /\ IF RewindPolicy(seen.attempt) THEN seen.iter >= MaxRewinds
                                             ELSE ~MayRetry(seen.attempt)
  PROVE  FailedFor /\ wf.phase # "New"
<1>1. CASE CopyNow(seen) /\ wf.phase # "New"
  BY <1>1 DEF CopyNow, InStep, FailedFor
<1>2. CASE CopyBefore(seen)
  BY <1>2, PlanFacts DEF CopyBefore, Follows, MayRetry
<1>3. CASE CopyBeforeRewind(seen)
  <2>1. seen.iter < MaxRewinds
    BY <1>3, Typed DEF CopyBeforeRewind, PlanInv
  <2>2. RewindPolicy(seen.attempt)
    BY <1>3 DEF CopyBeforeRewind, RewindPolicy
  <2>3. QED
    BY <1>3, <2>1, <2>2, Typed DEF CopyBeforeRewind, PlanInv
<1>4. CASE CopyBeforeSuccess(seen)
  BY <1>4 DEF CopyBeforeSuccess
<1>5. QED
  BY <1>1, <1>2, <1>3, <1>4, Decided

\* A workflow is marked as waiting for a human only while its attempt does.
LEMMA Awaiting ==
  ASSUME PlanInv, MarkAwaiting
  PROVE  \/ wf' = wf
         \/ /\ wf.phase \in Working /\ wf'.phase = "AwaitingApproval" /\ wf'.iter = wf.iter
            /\ wf'.step = wf.step /\ wf'.attempt = wf.attempt /\ wf.attempt # NoAttempt
<1>1. CASE seen.phase = "AwaitingApproval"
  BY <1>1 DEF MarkAwaiting, wfVars
<1>2. CASE seen.phase # "AwaitingApproval"
  <2>1. UpdateStatus([wf EXCEPT !.phase = "AwaitingApproval"])
    BY <1>2 DEF MarkAwaiting
  <2>2. wf \in Statuses
    BY DEF PlanInv, TypeInv, TypeOK
  <2>3. /\ wf'.phase = "AwaitingApproval" /\ wf'.iter = wf.iter /\ wf'.step = wf.step
        /\ wf'.attempt = wf.attempt
    BY <2>1, <2>2 DEF UpdateStatus, Statuses
  <2>4. CopyNow(seen) /\ wf.phase \notin {"New", "Succeeded"}
    BY Decided
       DEF MarkAwaiting, Active, CopyBefore, CopyBeforeRewind, CopyBeforeSuccess,
           Follows, MayRetry
  <2>5. wf.attempt = seen.attempt /\ wf.attempt # NoAttempt
    BY <2>4 DEF CopyNow, InStep, MarkAwaiting, Active
  <2>6. ~FailedFor
    BY <2>5 DEF MarkAwaiting, Active, Deciding, FailedFor
  <2>7. wf.phase \in Working
    BY <2>4, <2>6, Typed DEF PlanInv, StateInv, FailedInv, WorkflowPhases, Working
  <2>8. QED
    BY <2>3, <2>5, <2>7
<1>3. QED
  BY <1>1, <1>2

\* A gate is reached.
LEMMA MarkAwaitingStep ==
  PlanInv /\ MarkAwaiting => StateInv' /\ CacheInv' /\ SeenInv' /\ FlightInv'
<1> SUFFICES ASSUME PlanInv, MarkAwaiting
             PROVE  StateInv' /\ CacheInv' /\ SeenInv' /\ FlightInv'
  OBVIOUS
<1>1. UNCHANGED <<wfCache, phase, bootstrap, outputs>> /\ Return
  BY DEF MarkAwaiting, UpdateStatus, wfVars, attemptVars, inputVars
<1>2. CASE wf' = wf
  BY <1>1, <1>2, Untouched, Answered DEF PlanInv
<1>3. CASE wf' # wf
  <2>1. Fresh
    BY <1>3 DEF MarkAwaiting, UpdateStatus, wfVars
  <2>2. QED
    BY <1>1, <1>3, <2>1, Awaiting, Marked, Answered
<1>4. QED
  BY <1>2, <1>3

\* A workflow is initialised once.
LEMMA Initializing ==
  ASSUME PlanInv, Initialize
  PROVE  /\ wf.phase \in {"New", "Pending"} /\ wf'.phase = "Pending" /\ wf'.iter = wf.iter
         /\ wf'.step = wf.step /\ wf'.attempt = wf.attempt /\ phase' = phase
<1>1. wf \in Statuses
  BY DEF PlanInv, TypeInv, TypeOK
<1>2. /\ wf'.phase = "Pending" /\ wf'.iter = wf.iter /\ wf'.step = wf.step
      /\ wf'.attempt = wf.attempt /\ phase' = phase
  BY <1>1 DEF Initialize, UpdateStatus, Statuses, attemptVars
<1>3. wf.phase \in {"New", "Pending"}
  BY DEF PlanInv, SeenInv, Initialize, Copy, CopyNow, CopyBefore,
         CopyBeforeRewind, CopyBeforeSuccess, Working
<1>4. QED
  BY <1>2, <1>3

\* The workflow is initialised.
LEMMA InitializeStep ==
  PlanInv /\ Initialize => StateInv' /\ CacheInv' /\ SeenInv' /\ FlightInv'
<1>1. Initialize =>
        UNCHANGED <<wfCache, phase, bootstrap, outputs>> /\ Fresh /\ Return
  BY DEF Initialize, UpdateStatus, attemptVars, inputVars
<1>2. QED
  BY <1>1, Initializing, Marked, Answered

\* The workflow fails, with a reason.
LEMMA FailWritten ==
  ASSUME PlanInv, FailWorkflow, FailedFor, wf.phase # "New", bootstrap # "pending"
  PROVE  StateInv' /\ CacheInv' /\ SeenInv' /\ FlightInv'
<1>1. wf \in Statuses
  BY DEF PlanInv, TypeInv, TypeOK
<1>2. /\ wf'.phase = "Failed" /\ wf'.iter = wf.iter /\ wf'.step = wf.step
      /\ wf'.attempt = wf.attempt
  BY <1>1 DEF FailWorkflow, UpdateStatus, Statuses
<1>3. UNCHANGED <<wfCache, phase, bootstrap, outputs>> /\ Fresh /\ Return
  BY DEF FailWorkflow, UpdateStatus, attemptVars, inputVars
<1>4. QED
  BY <1>2, <1>3, Marked, Answered

\* The workflow fails: its input, its outputs or its attempt was refused.
LEMMA FailSteps ==
  PlanInv /\ (BootstrapFails \/ RejectOutputs \/ FailStep) =>
    StateInv' /\ CacheInv' /\ SeenInv' /\ FlightInv'
<1>1. ASSUME PlanInv, BootstrapFails
      PROVE  StateInv' /\ CacheInv' /\ SeenInv' /\ FlightInv'
  <2>1. wf.phase # "New" /\ FailedFor /\ bootstrap # "pending"
    BY <1>1
       DEF PlanInv, SeenInv, BootstrapFails, Copy, CopyNow, CopyBefore,
           CopyBeforeRewind, CopyBeforeSuccess, FailedFor
  <2>2. QED
    BY <1>1, <2>1, FailWritten DEF BootstrapFails
<1>2. ASSUME PlanInv, RejectOutputs
      PROVE  StateInv' /\ CacheInv' /\ SeenInv' /\ FlightInv'
  <2>1. wf.phase # "New" /\ FailedFor /\ bootstrap # "pending"
    BY <1>2, Failing DEF RejectOutputs, LastStepDone, Active, Deciding
  <2>2. QED
    BY <1>2, <2>1, FailWritten DEF RejectOutputs
<1>3. ASSUME PlanInv, FailStep
      PROVE  StateInv' /\ CacheInv' /\ SeenInv' /\ FlightInv'
  <2>1. wf.phase # "New" /\ FailedFor /\ bootstrap # "pending"
    BY <1>3, Failing DEF FailStep, AttemptFailed, Active, Deciding
  <2>2. QED
    BY <1>3, <2>1, FailWritten DEF FailStep
<1>4. QED
  BY <1>1, <1>2, <1>3

\* The workflow succeeds on the attempt of its last step, and once.
LEMMA Succeeding ==
  ASSUME PlanInv, Succeed
  PROVE  \/ /\ wf.phase \in Working /\ wf.attempt \in Attempts /\ wf.step = N
            /\ wf.attempt.step = N
            /\ wf.attempt.iter = wf.iter
            /\ phase[wf.attempt] = "Succeeded"
         \/ wf' = wf
<1>1. wf \in Statuses /\ seen.attempt \in Attempts
  BY Decided DEF PlanInv, TypeInv, TypeOK, Succeed, LastStepDone, Active
<1>2. /\ phase[seen.attempt] = "Succeeded"
      /\ seen.attempt.step = N
      /\ outputs = "accepted"
      /\ bootstrap = "ready"
  BY DEF Succeed, LastStepDone, Active, Deciding
<1>3. CASE CopyNow(seen) /\ wf.phase \notin {"New", "Succeeded"}
  <2>1. wf.attempt = seen.attempt /\ wf.attempt # NoAttempt
    BY <1>3 DEF CopyNow, InStep, Succeed, LastStepDone, Active
  <2>2. ~FailedFor
    BY <2>1, <1>2 DEF FailedFor
  <2>3. wf.phase \in Working
    BY <1>3, <2>2, Typed DEF PlanInv, StateInv, FailedInv, WorkflowPhases, Working
  <2>4. QED
    BY <1>1, <1>2, <2>1, <2>3 DEF PlanInv, StateInv, StatusInv
<1>4. CASE CopyBeforeSuccess(seen)
  <2>1. wf.phase = "Succeeded" /\ wf.attempt = NoAttempt /\ wf.step = 0
    BY <1>4 DEF CopyBeforeSuccess, PlanInv, StateInv, StatusInv
  <2>2. QED
    BY <2>1, <1>1 DEF Succeed, UpdateStatus, Statuses
<1>5. CASE CopyBefore(seen) \/ CopyBeforeRewind(seen)
  BY <1>2, <1>5, PlanFacts
     DEF CopyBefore, CopyBeforeRewind, Follows, MayRetry, Succeed, LastStepDone,
         Active
<1>6. QED
  BY <1>3, <1>4, <1>5, Decided DEF Succeed, LastStepDone, Active

\* The workflow succeeds.
LEMMA SucceedStep ==
  PlanInv /\ Succeed => StateInv' /\ CacheInv' /\ SeenInv' /\ FlightInv'
<1> SUFFICES ASSUME PlanInv, Succeed
             PROVE  StateInv' /\ CacheInv' /\ SeenInv' /\ FlightInv'
  OBVIOUS
<1>1. wf \in Statuses
  BY DEF PlanInv, TypeInv, TypeOK
<1>2. /\ wf'.phase = "Succeeded" /\ wf'.iter = wf.iter /\ wf'.step = 0
      /\ wf'.attempt = NoAttempt
  <2>1. wf' = [wf EXCEPT !.phase = "Succeeded", !.step = 0, !.attempt = NoAttempt]
    BY DEF Succeed, UpdateStatus
  <2>2. QED
    BY <1>1, <2>1 DEF Statuses
<1>3. UNCHANGED <<wfCache, phase, bootstrap, outputs>> /\ Fresh /\ Return
  BY DEF Succeed, UpdateStatus, attemptVars, inputVars
<1>4. outputs = "accepted"
  BY DEF Succeed
<1>5. CASE /\ wf.phase \in Working /\ wf.attempt \in Attempts /\ wf.step = N
           /\ wf.attempt.step = N /\ wf.attempt.iter = wf.iter
           /\ phase[wf.attempt] = "Succeeded"
  <2>1. wf.attempt # NoAttempt
    BY <1>5, Names
  <2>2. \A a : ~Follows(wf, a)
    BY <2>1, <1>5, PlanFacts DEF Follows, MayRetry
  <2>3. StatusInv'
    BY <2>1, <1>2, <1>3, <1>5 DEF PlanInv, StateInv, StatusInv, Exists, Terminal
  <2>4. FailedInv' /\ HistoryInv'
    BY <1>2, <1>3 DEF PlanInv, StateInv, FailedInv, HistoryInv, Exists
  <2>5. FrontierInv'
    <3>1. \A a \in Attempts : Exists(a) => Passed(a) /\ phase[a] \in Ended
      BY <2>1, <2>2, <1>5 DEF PlanInv, StateInv, FrontierInv, Ended
    <3>2. QED
      BY <3>1, <1>2, <1>3 DEF FrontierInv, Passed, Exists, Terminal, Ended
  <2>6. CacheInv'
    <3>1. Seen' = wf' \/ Seen' = wf
      BY <1>3 DEF Seen, Fresh
    <3>2. CASE Seen' = wf'
      BY <3>2 DEF CacheInv, Copy, CopyNow, InStep, Terminal, Working
    <3>3. CASE Seen' = wf
      BY <3>3, <1>2, <1>3, <1>4, <1>5, <2>1 DEF CacheInv, Copy, CopyBeforeSuccess
    <3>4. QED
      BY <3>1, <3>2, <3>3
  <2>7. QED
    BY <2>3, <2>4, <2>5, <2>6, <1>3, Answered DEF StateInv
<1>6. CASE wf' = wf
  BY <1>3, <1>6, Untouched, Answered DEF PlanInv
<1>7. QED
  BY <1>5, <1>6, Succeeding

\* A failed candidate begins a new iteration.
LEMMA RewindStep ==
  PlanInv /\ beginWorkflowRetry => StateInv' /\ CacheInv' /\ SeenInv' /\ FlightInv'
<1> SUFFICES ASSUME PlanInv, beginWorkflowRetry
             PROVE  StateInv' /\ CacheInv' /\ SeenInv' /\ FlightInv'
  OBVIOUS
<1>1. wf \in Statuses /\ seen.attempt \in Attempts /\ TypeInv /\ StateInv
  BY Decided
     DEF PlanInv, TypeInv, TypeOK, beginWorkflowRetry, AttemptFailed, Active
<1>2. UNCHANGED <<wfCache, phase, bootstrap, outputs>> /\ Fresh /\ Return
  BY DEF beginWorkflowRetry, UpdateStatus, attemptVars, inputVars
<1>3. /\ seen.attempt.step = RewindFrom
      /\ phase[seen.attempt] \in {"Failed", "Retryable"}
      /\ bootstrap = "ready"
  BY DEF beginWorkflowRetry, AttemptFailed, Active, Deciding, RewindPolicy
<1>4. CASE wf' = wf
  BY <1>4, <1>2, Untouched, Answered DEF PlanInv
<1>5. CASE /\ wf.phase \notin Terminal
           /\ wf.attempt = seen.attempt
           /\ wf' = Rewound(seen.attempt)
  <2>1. /\ wf'.phase = "Running" /\ wf'.iter = wf.iter + 1 /\ wf'.step = RewindTo
        /\ wf'.attempt = NoAttempt
    BY <1>1, <1>5 DEF Rewound, Statuses
  <2>2. /\ wf.attempt # NoAttempt
        /\ wf.attempt \in Attempts
        /\ RewindFrom > 0
        /\ wf.iter \in Nat
    BY <1>1, <1>3, <1>5, Typed, Names
  <2>3. \A a : ~Follows(wf, a)
    BY <1>3, <1>5, <2>2 DEF Follows, RewindPolicy
  <2>4. wf.phase \in Working /\ Exists(wf.attempt)
    BY <1>1, <1>5, <2>2, Typed
       DEF StateInv, StatusInv, Working, Terminal, WorkflowPhases
  <2>5. StatusInv'
    BY <1>1, <1>2, <2>1, <2>2, <2>4
       DEF StateInv, StatusInv, Exists, Terminal, Working
  <2>6. FailedInv' /\ HistoryInv'
    BY <1>1, <1>2, <2>1 DEF StateInv, FailedInv, HistoryInv, Exists
  <2>7. FrontierInv'
    <3>1. \A a \in Attempts : Exists(a) => Passed(a) /\ phase[a] \in Ended
      BY <1>1, <1>3, <1>5, <2>3 DEF StateInv, FrontierInv, Ended
    <3>2. \A a \in Attempts : a.iter \in Nat
      BY <1>1, Typed
    <3>3. QED
      BY <3>1, <3>2, <1>2, <2>1, <2>2 DEF FrontierInv, Passed, Exists, Ended
  <2>8. CacheInv'
    <3>1. Seen' = wf' \/ Seen' = wf
      BY <1>2 DEF Seen, Fresh
    <3>2. CASE Seen' = wf'
      BY <3>2 DEF CacheInv, Copy, CopyNow, InStep, Terminal, Working
    <3>3. CASE Seen' = wf
      BY <3>3, <1>2, <1>3, <1>5, <2>1, <2>2, <2>4
         DEF CacheInv, Copy, CopyBeforeRewind
    <3>4. QED
      BY <3>1, <3>2, <3>3
  <2>9. QED
    BY <2>5, <2>6, <2>7, <2>8, <1>2, Answered DEF StateInv
<1>6. QED
  BY <1>4, <1>5 DEF beginWorkflowRetry, UpdateStatus

\* Where the attempt that is due stands: it begins the iteration, follows a
\* step that succeeded or retries one that failed, within its budget.
LEMMA FollowsPlace ==
  ASSUME TypeInv, StateInv, wf.phase \in Working, NEW a, Follows(wf, a)
  PROVE  /\ a \in Attempts /\ a.iter = wf.iter
         /\ wf.attempt = NoAttempt =>
              a.try = 1 /\ a.step = FirstStep(a.iter)
         /\ wf.attempt # NoAttempt =>
              /\ phase[wf.attempt] \in {"Succeeded", "Retryable", "Interrupted"}
              /\ \/ a.step = wf.step + 1 /\ a.try = 1 /\ phase[wf.attempt] = "Succeeded"
                 \/ /\ a.step = wf.step
                    /\ a.try = wf.attempt.try + 1
                    /\ a.try <= Budget(a.step)
                    /\ phase[wf.attempt] # "Succeeded"
<1>1. a \in Attempts /\ a.iter = wf.iter
  BY FollowsNamed
<1>2. CASE wf.attempt = NoAttempt
  <2> DEFINE s == IF wf.step = 0 THEN 1 ELSE wf.step
  <2>1. a = attemptName(s, wf.iter, 1)
    BY <1>2 DEF Follows
  <2>2. s = FirstStep(wf.iter)
    <3>1. wf.step = IF wf.iter = 0 THEN 0 ELSE RewindTo
      BY <1>2 DEF StateInv, StatusInv, Working, Terminal
    <3>2. CASE wf.iter = 0
      BY <3>1, <3>2 DEF FirstStep
    <3>3. CASE wf.iter # 0
      <4>1. RewindFrom > 0
        BY <3>3, Typed DEF StateInv, StatusInv
      <4>2. RewindTo \in 1..(RewindFrom - 1)
        BY <4>1, RewindAssumption
      <4>3. RewindTo # 0
        BY <4>2
      <4>4. QED
        BY <3>1, <3>3, <4>3 DEF FirstStep
    <3>4. QED
      BY <3>2, <3>3
  <2> HIDE DEF s
  <2>3. QED
    BY <1>1, <1>2, <2>1, <2>2, Names
<1>3. CASE wf.attempt # NoAttempt
  <2>1. wf.attempt.step = wf.step /\ wf.attempt \in Attempts
    BY <1>3, Typed
  <2>2. CASE /\ a = attemptName(wf.attempt.step + 1, wf.iter, 1)
             /\ phase[wf.attempt] = "Succeeded"
    BY <1>1, <1>3, <2>1, <2>2, Names
  <2>3. CASE /\ a = attemptName(wf.attempt.step, wf.iter, wf.attempt.try + 1)
             /\ MayRetry(wf.attempt)
    <3>1. a.step = wf.step /\ a.try = wf.attempt.try + 1
      BY <2>1, <2>3, Names
    <3>2. a.try <= Budget(a.step)
      <4>1. /\ wf.attempt.try < Budget(wf.step)
            /\ Budget(wf.step) \in Nat
            /\ wf.attempt.try \in Nat
        BY <2>1, <2>3, Typed, Names, PlanFacts DEF MayRetry
      <4>2. QED
        BY <3>1, <4>1
    <3>3. QED
      BY <1>1, <1>3, <2>3, <3>1, <3>2 DEF MayRetry
  <2>4. QED
    BY <1>3, <2>2, <2>3 DEF Follows
<1>4. QED
  BY <1>2, <1>3

-----------------------------------------------------------------------------
(* The steps that create and end attempts.                                  *)

\* The attempt established becomes the active one.
LEMMA RecordActiveStep ==
  PlanInv /\ RecordActive => StateInv' /\ CacheInv' /\ SeenInv' /\ FlightInv'
<1> SUFFICES ASSUME PlanInv, RecordActive
             PROVE  StateInv' /\ CacheInv' /\ SeenInv' /\ FlightInv'
  OBVIOUS
<1>1. /\ wf \in Statuses /\ TypeInv /\ StateInv /\ target \in Attempts /\ Exists(target)
      /\ wf.phase \in Working /\ bootstrap # "pending"
      /\ (target = wf.attempt /\ NoFollower) \/ (Follows(wf, target) /\ InStep(Seen))
  BY Typed DEF PlanInv, TypeInv, TypeOK, RecordActive, FlightInv, InFlight
<1>2. UNCHANGED <<wfCache, phase, bootstrap, outputs>> /\ Fresh /\ Return
  BY DEF RecordActive, UpdateStatus, attemptVars, inputVars
<1>3. /\ wf'.phase = "Running"
      /\ wf'.iter = wf.iter
      /\ wf'.step = target.step
      /\ wf'.attempt = target
  <2>1. wf' = [wf EXCEPT !.phase = "Running", !.step = target.step, !.attempt = target]
    BY DEF RecordActive, UpdateStatus
  <2>2. QED
    BY <1>1, <2>1 DEF Statuses
<1>4. target # NoAttempt
  BY <1>1, Names
<1>5. CASE target = wf.attempt
  <2>1. wf'.step = wf.step
    BY <1>1, <1>3, <1>5, <1>4 DEF StateInv, StatusInv
  <2>2. QED
    BY <1>1, <1>2, <1>3, <1>4, <1>5, <2>1, Marked, Answered
<1>6. CASE Follows(wf, target)
  <2>1. /\ target.iter = wf.iter
        /\ wf.attempt = NoAttempt => /\ target.try = 1
                                        /\ target.step = FirstStep(target.iter)
        /\ wf.attempt # NoAttempt =>
              /\ phase[wf.attempt] \in {"Succeeded", "Retryable", "Interrupted"}
              /\ \/ target.step = wf.step + 1 /\ target.try = 1
                 \/ target.step = wf.step /\ target.try = wf.attempt.try + 1
    BY <1>1, <1>6, FollowsPlace
  <2>2. \A a \in Attempts : a.iter \in Nat /\ a.step \in Nat /\ a.try \in Nat /\ a.try > 0
    BY <1>1, Typed
  <2>3. wf.step \in Nat /\ wf.iter \in Nat /\ wf.attempt \in Attempts \cup {NoAttempt}
    BY <1>1, Typed
  <2>4. \A a \in Attempts : Exists(a) =>
          \/ a.iter < wf.iter
          \/ a.iter = wf.iter /\ a.step < target.step
          \/ a.iter = wf.iter /\ a.step = target.step /\ a.try <= target.try
    <3> SUFFICES ASSUME NEW a \in Attempts, Exists(a)
                 PROVE  \/ a.iter < wf.iter
                        \/ a.iter = wf.iter /\ a.step < target.step
                        \/ a.iter = wf.iter /\ a.step = target.step /\ a.try <= target.try
      OBVIOUS
    <3>1. CASE Passed(a)
      BY <3>1, <1>1, <2>1, <2>2, <2>3 DEF Passed, Working, Terminal
    <3>2. CASE Follows(wf, a)
      <4>1. a = target
        BY <3>2, <1>6, FollowsOne
      <4>2. QED
        BY <4>1, <2>1, <2>2
    <3>3. QED
      BY <3>1, <3>2, <1>1 DEF StateInv, FrontierInv
  <2>5. NoFollower'
    <3> SUFFICES ASSUME NEW a \in Attempts, Follows(wf, a)', Exists(a) PROVE FALSE
      BY <1>2 DEF NoFollower, Exists
    <3>1. \/ a = attemptName(target.step + 1, wf.iter, 1)
          \/ a = attemptName(target.step, wf.iter, target.try + 1)
      BY <1>3, <1>4 DEF Follows
    <3>2. /\ a.iter = wf.iter
          /\ (a.step = target.step + 1 \/ (a.step = target.step /\ a.try = target.try + 1))
      BY <3>1 DEF attemptName
    <3>3. QED
      BY <3>2, <2>2, <2>3, <2>4, <1>1
  <2>6. StatusInv'
    BY <1>1, <1>2, <1>3, <1>4, <2>1
       DEF StateInv, StatusInv, Exists, Terminal, Working
  <2>7. FailedInv' /\ HistoryInv'
    BY <1>1, <1>2, <1>3 DEF StateInv, FailedInv, HistoryInv, Exists
  <2>8. FrontierInv'
    <3>1. \A a \in Attempts : Exists(a) => phase[a] \in Ended \/ a = target
      <4> SUFFICES ASSUME NEW a \in Attempts, Exists(a), phase[a] \notin Ended
                   PROVE  a = target
        OBVIOUS
      <4>1. a = wf.attempt \/ Follows(wf, a)
        BY <1>1 DEF StateInv, FrontierInv
      <4>2. a # wf.attempt
        BY <2>1, Names DEF Ended
      <4>3. QED
        BY <4>1, <4>2, <1>6, FollowsOne
    <3>2. \A a \in Attempts : Exists(a) => Passed(a)'
      BY <2>4, <1>3, <1>4 DEF Passed
    <3>3. QED
      BY <3>1, <3>2, <1>2, <1>3 DEF FrontierInv, Exists
  <2>9. CacheInv'
    <3>1. Seen' = wf' \/ Seen' = wf
      BY <1>2 DEF Seen, Fresh
    <3>2. CASE Seen' = wf'
      BY <3>2 DEF CacheInv, Copy, CopyNow, InStep, Terminal, Working
    <3>3. CASE Seen' = wf
      <4>1. wf.attempt # NoAttempt => Exists(wf.attempt)
        BY <1>1 DEF StateInv, StatusInv
      <4>2. CopyBefore(Seen)'
        BY <3>3, <1>1, <1>2, <1>3, <1>4, <1>6, <2>1, <2>5, <4>1
           DEF CopyBefore, Follows, RewindPolicy, MayRetry, Exists
      <4>3. QED
        BY <4>2 DEF CacheInv, Copy
    <3>4. QED
      BY <3>1, <3>2, <3>3
  <2>10. QED
    BY <2>6, <2>7, <2>8, <2>9, <1>2, Answered DEF StateInv
<1>7. QED
  BY <1>1, <1>5, <1>6

\* The attempt that is due is created: nothing of a later try or step exists.
LEMMA CreateAttemptStep ==
  PlanInv /\ CreateAttempt => StateInv' /\ CacheInv' /\ SeenInv' /\ FlightInv'
<1> SUFFICES ASSUME PlanInv, CreateAttempt
             PROVE  StateInv' /\ CacheInv' /\ SeenInv' /\ FlightInv'
  OBVIOUS
<1>1. /\ TypeInv /\ StateInv /\ CacheInv /\ target \in Attempts /\ InFlight
      /\ wf.phase \in Working /\ bootstrap # "pending"
      /\ (target = wf.attempt /\ NoFollower) \/ (Follows(wf, target) /\ InStep(Seen))
  BY Typed DEF PlanInv, CreateAttempt, FlightInv, InFlight
<1>2. /\ UNCHANGED <<wf, wfCache, bootstrap, outputs, target, seen>>
      /\ at' = "execution"
      /\ bound' = uid'[target]
  BY DEF CreateAttempt, wfVars, inputVars
<1>3. phase' \in [Attempts -> AttemptPhases] /\ phase \in [Attempts -> AttemptPhases]
  BY <1>1 DEF TypeInv, TypeOK, CreateAttempt, attemptVars, AttemptPhases
<1>4. Exists(target)'
  BY <1>1, <1>2, <1>3 DEF CreateAttempt, Exists, attemptVars
<1>5. SeenInv'
  BY <1>2 DEF SeenInv
<1>6. CASE phase' = phase
  <2>1. StateInv' /\ CacheInv'
    BY <1>1, <1>2, <1>6, Untouched
  <2>2. FlightInv'
    BY <1>1, <1>2, <1>4, <1>6
       DEF FlightInv, InFlight, NoFollower, Follows, RewindPolicy, MayRetry,
           Exists, InStep, Seen
  <2>3. QED
    BY <1>5, <2>1, <2>2
<1>7. CASE phase' # phase
  <2>1. ~Exists(target) /\ phase' = [phase EXCEPT ![target] = "Active"]
    BY <1>7 DEF CreateAttempt, Exists, attemptVars
  <2>2. Follows(wf, target) /\ InStep(Seen)
    BY <1>1, <2>1, Names DEF StateInv, StatusInv
  <2>3. /\ wf.attempt \in Attempts \cup {NoAttempt}
        /\ (wf.attempt # NoAttempt => wf.attempt # target)
    BY <1>1, <2>1, Typed DEF StateInv, StatusInv
  <2>4. \A a \in Attempts : a # target => phase'[a] = phase[a]
    BY <2>1, <1>3
  <2>5. phase'[target] = "Active"
    BY <2>1, <1>3, <1>1
  <2> HIDE <2>1
  <2>6. \A a : Follows(wf, a)' <=> Follows(wf, a)
    BY <1>2, <2>3, <2>4 DEF Follows, RewindPolicy, MayRetry
  <2>7. \A a \in Attempts : Exists(a)' <=> Exists(a) \/ a = target
    BY <2>4, <2>5 DEF Exists
  <2>8. ~Exists(target)
    BY <2>1
  <2>9. StatusInv'
    <3>1. \A a \in Attempts : phase[a] = "Succeeded" => phase'[a] = "Succeeded"
      BY <2>4, <2>8 DEF Exists
    <3>2. QED
      BY <1>1, <1>2, <2>3, <2>7, <3>1 DEF StateInv, StatusInv
  <2>10. FailedInv'
    BY <1>1, <1>2 DEF FailedInv, Working
  <2>11. FrontierInv'
    <3>1. \A a \in Attempts : Exists(a) => Passed(a)' \/ Follows(wf, a)'
      BY <1>1, <1>2, <2>6 DEF StateInv, FrontierInv, Passed
    <3>2. \A a \in Attempts :
            Exists(a) => phase'[a] \in Ended \/ a = wf.attempt \/ Follows(wf, a)'
      BY <1>1, <1>2, <2>4, <2>6, <2>8 DEF StateInv, FrontierInv
    <3>3. QED
      BY <3>1, <3>2, <2>2, <2>6, <2>7, <1>2 DEF FrontierInv
  <2>12. HistoryInv'
    <3>1. /\ target.iter = wf.iter
          /\ wf.attempt = NoAttempt => /\ target.try = 1
                                        /\ target.step = FirstStep(target.iter)
          /\ wf.attempt # NoAttempt =>
                /\ phase[wf.attempt] \in {"Succeeded", "Retryable", "Interrupted"}
                /\ \/ /\ target.step = wf.step + 1
                      /\ target.try = 1
                      /\ phase[wf.attempt] = "Succeeded"
                   \/ /\ target.step = wf.step
                      /\ target.try = wf.attempt.try + 1
                      /\ target.try <= Budget(target.step)
                      /\ phase[wf.attempt] # "Succeeded"
      BY <1>1, <2>2, FollowsPlace
    <3>2. \A a \in Attempts : a.iter \in Nat /\ a.step \in Nat /\ a.try \in Nat /\ a.try > 0
      BY <1>1, Typed
    <3>3. wf.attempt # NoAttempt => /\ wf.attempt.step = wf.step
                                    /\ wf.attempt.iter = wf.iter
                                    /\ Exists(wf.attempt)
      BY <1>1 DEF StateInv, StatusInv
    <3>4. \A a \in Attempts : Exists(a) =>
            ~(a.step = target.step /\ a.iter = target.iter /\ a.try > target.try)
      <4> SUFFICES ASSUME NEW a \in Attempts,
                          Exists(a), a.step = target.step, a.iter = target.iter,
                          a.try > target.try
                   PROVE  FALSE
        OBVIOUS
      <4>1. ~Follows(wf, a)
        BY <2>2, <3>2, FollowsOne
      <4>2. Passed(a)
        BY <4>1, <1>1 DEF StateInv, FrontierInv
      <4>3. QED
        BY <4>2, <3>1, <3>2, <3>3, <2>3, <1>1, Typed DEF Passed, Working, Terminal
    <3>5. \A b \in Attempts :
            Exists(b) /\ b.step = target.step /\ b.iter = target.iter /\ b.try < target.try =>
              phase[b] \in {"Retryable", "Interrupted"}
      <4> SUFFICES ASSUME NEW b \in Attempts,
                          Exists(b), b.step = target.step, b.iter = target.iter,
                          b.try < target.try
                   PROVE phase[b] \in {"Retryable", "Interrupted"}
        OBVIOUS
      <4>1. /\ wf.attempt # NoAttempt
            /\ wf.attempt \in Attempts
            /\ target.step = wf.step
            /\ target.try = wf.attempt.try + 1
            /\ phase[wf.attempt] \in {"Retryable", "Interrupted"}
        BY <3>1, <3>2, <2>3
      <4>2. CASE b.try < wf.attempt.try
        BY <4>1, <4>2, <3>1, <3>3, <1>1 DEF StateInv, HistoryInv
      <4>3. CASE b.try = wf.attempt.try
        <5>1. b = wf.attempt
          BY <4>1, <4>3, <3>1, <3>3, Names
        <5>2. QED
          BY <5>1, <4>1
      <4>4. QED
        BY <4>1, <4>2, <4>3, <3>2
    <3>6. target.try > 1 => /\ target.try <= Budget(target.step)
                            /\ Exists(attemptName(target.step, target.iter, target.try - 1))
      <4> SUFFICES ASSUME target.try > 1
                   PROVE  /\ target.try <= Budget(target.step)
                          /\ Exists(attemptName(target.step, target.iter, target.try - 1))
        OBVIOUS
      <4>1. /\ wf.attempt # NoAttempt
            /\ wf.attempt \in Attempts
            /\ target.step = wf.step
            /\ target.try = wf.attempt.try + 1
            /\ target.try <= Budget(target.step)
        BY <3>1, <3>2, <2>3
      <4>2. target.try - 1 = wf.attempt.try
        BY <4>1, <3>2
      <4>3. attemptName(target.step, target.iter, target.try - 1) = wf.attempt
        BY <4>1, <4>2, <3>1, <3>3, Names
      <4>4. QED
        BY <4>1, <4>3, <3>3
    <3>7. \/ target.step = FirstStep(target.iter)
          \/ \E b \in Attempts : /\ b.step = target.step - 1 /\ b.iter = target.iter
                                 /\ phase[b] = "Succeeded"
      <4>1. CASE wf.attempt = NoAttempt
        BY <3>1, <4>1
      <4>2. CASE /\ wf.attempt # NoAttempt
                 /\ target.step = wf.step + 1
                 /\ phase[wf.attempt] = "Succeeded"
        BY <4>2, <3>1, <3>2, <3>3, <2>3
      <4>3. CASE wf.attempt # NoAttempt /\ target.step = wf.step
        BY <4>3, <3>1, <3>3, <2>3, <1>1 DEF StateInv, HistoryInv
      <4>4. QED
        BY <4>1, <4>2, <4>3, <3>1
    <3>8. ASSUME NEW a \in Attempts, Exists(a)', a.try > 1
          PROVE  a.try <= Budget(a.step) /\ Exists(attemptName(a.step, a.iter, a.try - 1))'
      <4>1. a.try <= Budget(a.step) /\ Exists(attemptName(a.step, a.iter, a.try - 1))
        BY <3>6, <3>8, <2>7, <1>1 DEF StateInv, HistoryInv
      <4>2. a.step \in Steps /\ a.iter \in Iterations /\ a.try - 1 \in 1..MaxTry
        BY <3>8, Names, BoundAssumption
      <4>3. attemptName(a.step, a.iter, a.try - 1) \in Attempts
        BY <4>2, Names
      <4> DEFINE b == attemptName(a.step, a.iter, a.try - 1)
      <4>4. Exists(b) /\ b \in Attempts
        BY <4>1, <4>3
      <4>5. Exists(b)'
        BY <4>4, <2>7
      <4>6. QED
        BY <4>1, <4>5
    <3>9. ASSUME NEW a \in Attempts, Exists(a)', NEW b \in Attempts, Exists(b)',
                 b.step = a.step, b.iter = a.iter, b.try < a.try
          PROVE  phase'[b] \in {"Retryable", "Interrupted"}
      <4>1. CASE b = target
        <5>1. a # target /\ Exists(a)
          BY <3>2, <3>9, <4>1, <2>7
        <5>2. QED
          BY <5>1, <3>4, <3>2, <3>9, <4>1
      <4>2. CASE b # target /\ a = target
        BY <4>2, <3>5, <3>9, <2>4, <2>7
      <4>3. CASE b # target /\ a # target
        BY <4>3, <3>9, <2>4, <2>7, <1>1 DEF StateInv, HistoryInv
      <4>4. QED
        BY <4>1, <4>2, <4>3
    <3>10. ASSUME NEW a \in Attempts, Exists(a)'
           PROVE  \/ a.step = FirstStep(a.iter)
                  \/ \E b \in Attempts : /\ b.step = a.step - 1 /\ b.iter = a.iter
                                         /\ phase'[b] = "Succeeded"
      <4>1. \A b \in Attempts : phase[b] = "Succeeded" => phase'[b] = "Succeeded"
        BY <2>4, <2>8 DEF Exists
      <4>2. CASE a = target
        BY <4>1, <4>2, <3>7
      <4>3. CASE a # target
        BY <4>1, <4>3, <3>10, <2>7, <1>1 DEF StateInv, HistoryInv
      <4>4. QED
        BY <4>2, <4>3
    <3>11. QED
      BY <3>8, <3>9, <3>10 DEF HistoryInv
  <2>13. CacheInv'
    <3>1. CopyNow(Seen)
      BY <1>1, <2>2
         DEF CacheInv, Copy, CopyNow, CopyBefore, CopyBeforeRewind,
             CopyBeforeSuccess, Working, Terminal
    <3>2. CopyNow(Seen)'
      BY <3>1, <1>2 DEF CopyNow, InStep, Seen
    <3>3. QED
      BY <3>2 DEF CacheInv, Copy
  <2>14. FlightInv'
    BY <1>1, <1>2, <1>4, <2>2, <2>6 DEF FlightInv, InFlight, InStep, Seen
  <2>15. QED
    BY <1>5, <2>9, <2>10, <2>11, <2>12, <2>13, <2>14 DEF StateInv
<1>8. QED
  BY <1>6, <1>7

\* An attempt takes over the phase of its execution.
LEMMA ProjectStep ==
  ASSUME PlanInv, NEW a \in Attempts, Project(a)
  PROVE  StateInv' /\ CacheInv' /\ SeenInv' /\ FlightInv'
<1>1. TypeInv /\ StateInv /\ CacheInv /\ SeenInv /\ FlightInv
  BY DEF PlanInv
<1>2. UNCHANGED <<wf, wfCache, bootstrap, outputs, target, seen, at, bound, uid>>
  BY DEF Project, wfVars, inputVars, flightVars
<1>3. phase[a] \in {"Active", "AwaitingApproval"} /\ Exists(a)
  BY DEF Project, Exists
<1>4. /\ phase'[a] # "Absent"
      /\ \A b \in Attempts : b # a => phase'[b] = phase[b]
  <2>1. /\ phase' = [phase EXCEPT ![a] = Projection(a)]
        /\ phase \in [Attempts -> AttemptPhases]
    BY <1>1 DEF Project, TypeInv, TypeOK
  <2>2. Projection(a) # "Absent"
    BY DEF Projection
  <2>3. QED
    BY <2>1, <2>2
<1>5. \A b \in Attempts : Exists(b)' <=> Exists(b)
  BY <1>3, <1>4 DEF Exists
<1>6. \A b \in Attempts : phase[b] \in Ended => phase'[b] = phase[b]
  BY <1>3, <1>4 DEF Ended
<1>7. (a = wf.attempt /\ \A b : ~Follows(wf, b)) \/ (a # wf.attempt /\ Follows(wf, a))
  <2>1. a = wf.attempt => \A b : ~Follows(wf, b)
    BY <1>3, Names DEF Follows, MayRetry
  <2>2. a = wf.attempt \/ Follows(wf, a)
    BY <1>1, <1>3 DEF StateInv, FrontierInv, Ended
  <2>3. QED
    BY <2>1, <2>2
<1>8. wf.attempt \in Attempts \cup {NoAttempt} /\ Seen.attempt \in Attempts \cup {NoAttempt}
      /\ seen.attempt \in Attempts \cup {NoAttempt}
  BY <1>1, Typed
<1>9. ASSUME NEW w, w.attempt \in Attempts \cup {NoAttempt}, NEW b
      PROVE  Follows(w, b) => phase'[w.attempt] = phase[w.attempt] \/ w.attempt = NoAttempt
  BY <1>9, <1>6 DEF Follows, MayRetry, Ended
<1>10. a # wf.attempt => \A b : Follows(wf, b)' <=> Follows(wf, b)
  BY <1>2, <1>4, <1>8 DEF Follows, RewindPolicy, MayRetry
<1>11. wf.phase \in Working /\ NoFollower => NoFollower'
  <2> SUFFICES ASSUME wf.phase \in Working,
                      NoFollower, NEW b \in Attempts, Follows(wf, b)', Exists(b)
               PROVE  FALSE
    BY <1>5 DEF NoFollower
  <2>1. CASE a # wf.attempt
    BY <2>1, <1>10 DEF NoFollower
  <2>2. CASE a = wf.attempt
    <3>1. \/ b = attemptName(a.step + 1, wf.iter, 1)
          \/ b = attemptName(a.step, wf.iter, a.try + 1)
      BY <2>2, <1>2, Names DEF Follows
    <3>2. /\ b.iter = wf.iter
          /\ (b.step = a.step + 1 \/ (b.step = a.step /\ b.try = a.try + 1))
      BY <3>1 DEF attemptName
    <3>3. Passed(b)
      BY <1>1, <1>7, <2>2 DEF StateInv, FrontierInv
    <3>4. a.step = wf.step /\ a.step \in Nat /\ a.try \in Nat /\ wf.iter \in Nat
      BY <1>1, <2>2, Typed, Names
    <3>5. QED
      BY <3>2, <3>3, <3>4, <2>2 DEF Passed, Working, Terminal
  <2>3. QED
    BY <2>1, <2>2
<1>12. StatusInv'
  BY <1>1, <1>2, <1>5, <1>6, <1>8 DEF StateInv, StatusInv, Ended
<1>13. FailedInv'
  <2> SUFFICES ASSUME wf.phase = "Failed", FailedFor PROVE FailedFor'
    BY <1>1, <1>2 DEF StateInv, FailedInv
  <2>1. CASE bootstrap \in {"rejected", "lost"}
    BY <2>1, <1>2 DEF FailedFor
  <2>2. CASE /\ wf.attempt # NoAttempt
             /\ phase[wf.attempt] \in {"Succeeded", "Failed", "Retryable", "Interrupted"}
    <3>1. phase'[wf.attempt] = phase[wf.attempt]
      BY <2>2, <1>6, <1>8 DEF Ended
    <3>2. QED
      BY <3>1, <1>2 DEF FailedFor, RewindPolicy, MayRetry
  <2>3. QED
    BY <2>1, <2>2 DEF FailedFor
<1>14. FrontierInv'
  <2>1. \A b \in Attempts : Exists(b) => Passed(b)' \/ Follows(wf, b)'
    BY <1>1, <1>2, <1>7, <1>10 DEF StateInv, FrontierInv, Passed
  <2>2. \A b \in Attempts :
          Exists(b) => phase'[b] \in Ended \/ b = wf.attempt \/ Follows(wf, b)'
    BY <1>1, <1>6, <1>7, <1>10 DEF StateInv, FrontierInv
  <2>3. QED
    BY <2>1, <2>2, <1>2, <1>5 DEF FrontierInv
<1>15. HistoryInv'
  <2>1. \A b \in Attempts : phase[b] \in {"Retryable", "Interrupted"} =>
                              phase'[b] \in {"Retryable", "Interrupted"}
    BY <1>6 DEF Ended
  <2>2. \A b \in Attempts : phase[b] = "Succeeded" => phase'[b] = "Succeeded"
    BY <1>6 DEF Ended
  <2>3. ASSUME NEW c \in Attempts, c.try > 1, Exists(attemptName(c.step, c.iter, c.try - 1))
        PROVE  Exists(attemptName(c.step, c.iter, c.try - 1))'
    <3>1. c.step \in Steps /\ c.iter \in Iterations /\ c.try - 1 \in 1..MaxTry
      BY <2>3, Names, BoundAssumption
    <3> DEFINE d == attemptName(c.step, c.iter, c.try - 1)
    <3>2. d \in Attempts /\ Exists(d)
      BY <2>3, <3>1, Names
    <3> HIDE DEF d
    <3>3. Exists(d)'
      BY <3>2, <1>5
    <3>4. QED
      BY <3>3 DEF d
  <2>4. QED
    BY <2>1, <2>2, <2>3, <1>1, <1>5 DEF StateInv, HistoryInv
<1>16. CacheInv'
  <2>1. Seen' = Seen
    BY <1>2 DEF Seen
  <2>2. CASE CopyNow(Seen)
    BY <2>1, <2>2, <1>2 DEF CacheInv, Copy, CopyNow, InStep
  <2>3. CASE CopyBefore(Seen)
    <3>1. Follows(Seen, wf.attempt)'
      BY <1>2, <1>8, <1>9, <2>1, <2>3
         DEF CopyBefore, Follows, RewindPolicy, MayRetry
    <3>2. QED
      BY <2>1, <2>3, <3>1, <1>2, <1>5, <1>8, <1>11
         DEF CacheInv, Copy, CopyBefore, Working
  <2>4. CASE CopyBeforeRewind(Seen) \/ CopyBeforeSuccess(Seen)
    <3>1. phase'[Seen.attempt] = phase[Seen.attempt]
      BY <2>4, <1>6, <1>8 DEF CopyBeforeRewind, CopyBeforeSuccess, Ended
    <3>2. QED
      BY <2>1, <2>4, <3>1, <1>2
         DEF CacheInv, Copy, CopyBeforeRewind, CopyBeforeSuccess
  <2>5. QED
    BY <2>2, <2>3, <2>4, <1>1 DEF CacheInv, Copy
<1>17. SeenInv'
  <2> SUFFICES ASSUME at = "decide", Copy(seen), InStep(seen) => InStep(Seen)
               PROVE  Copy(seen)' /\ (InStep(seen)' => InStep(Seen)')
    BY <1>1, <1>2 DEF SeenInv
  <2>1. InStep(seen)' => InStep(Seen)'
    BY <1>2 DEF InStep, Seen
  <2>2. CASE CopyNow(seen)
    BY <2>1, <2>2, <1>2 DEF Copy, CopyNow, InStep
  <2>3. CASE CopyBefore(seen)
    <3>1. Follows(seen, wf.attempt)'
      BY <1>2, <1>8, <1>9, <2>3 DEF CopyBefore, Follows, RewindPolicy, MayRetry
    <3>2. QED
      BY <2>1, <2>3, <3>1, <1>2, <1>5, <1>8, <1>11 DEF Copy, CopyBefore, Working
  <2>4. CASE CopyBeforeRewind(seen) \/ CopyBeforeSuccess(seen)
    <3>1. phase'[seen.attempt] = phase[seen.attempt]
      BY <2>4, <1>6, <1>8 DEF CopyBeforeRewind, CopyBeforeSuccess, Ended
    <3>2. QED
      BY <2>1, <2>4, <3>1, <1>2 DEF Copy, CopyBeforeRewind, CopyBeforeSuccess
  <2>5. QED
    BY <2>1, <2>2, <2>3, <2>4 DEF Copy
<1>18. FlightInv'
  <2> SUFFICES ASSUME InFlight PROVE FlightInv'
    BY <1>2 DEF FlightInv, InFlight
  <2>1. target \in Attempts
    BY <1>1, Typed
  <2>2. Follows(wf, target) => Follows(wf, target)'
    BY <1>2, <1>7, <1>10 DEF Follows, RewindPolicy, MayRetry
  <2>3. QED
    BY <1>1, <1>2, <1>5, <1>11, <2>1, <2>2 DEF FlightInv, InStep, Seen
<1>19. QED
  BY <1>12, <1>13, <1>14, <1>15, <1>16, <1>17, <1>18 DEF StateInv

-----------------------------------------------------------------------------
(* The other steps.                                                         *)

\* Steps that leave the workflow and its attempts alone.
LEMMA Quiet ==
  ASSUME PlanInv,
         UNCHANGED <<wf, wfCache, phase, bootstrap, outputs, uid, seen, target, bound>>,
         \/ at' = at
         \/ /\ at \in {"execution", "observe", "reference"}
            /\ at' \in {"observe", "reference", "status"}
  PROVE  StateInv' /\ CacheInv' /\ SeenInv' /\ FlightInv'
<1>1. StateInv' /\ CacheInv'
  BY Untouched DEF PlanInv
<1>2. SeenInv'
  BY DEF PlanInv, SeenInv, Copy, CopyNow, CopyBefore, CopyBeforeRewind,
         CopyBeforeSuccess, Seen, InStep, NoFollower, Follows, Exists,
         RewindPolicy, MayRetry
<1>3. FlightInv'
  BY DEF PlanInv, FlightInv, InFlight, Seen, InStep, NoFollower, Follows, Exists,
         RewindPolicy, MayRetry
<1>4. QED
  BY <1>1, <1>2, <1>3

\* The replacement of a rewound attempt is recorded.
LEMMA RecordRetryStep ==
  PlanInv /\ RecordRetry => StateInv' /\ CacheInv' /\ SeenInv' /\ FlightInv'
<1> SUFFICES ASSUME PlanInv, RecordRetry
             PROVE  StateInv' /\ CacheInv' /\ SeenInv' /\ FlightInv'
  OBVIOUS
<1>1. /\ wf'.phase = wf.phase
      /\ wf'.iter = wf.iter
      /\ wf'.step = wf.step
      /\ wf'.attempt = wf.attempt
  <2>1. wf \in Statuses
    BY DEF PlanInv, TypeInv, TypeOK
  <2>2. wf' = wf \/ wf' = [wf EXCEPT !.observed = Observation]
    BY DEF RecordRetry
  <2>3. QED
    BY <2>1, <2>2 DEF Statuses
<1>2. /\ UNCHANGED <<wfCache, phase, bootstrap, outputs, uid, seen, target, bound>>
      /\ at = "observe"
      /\ at' = "reference"
  BY DEF RecordRetry, Proceed, inputVars, attemptVars
<1>3. \A a : Follows(wf, a)' <=> Follows(wf, a)
  BY <1>1, <1>2 DEF Follows, RewindPolicy, MayRetry
<1>4. StateInv'
  <2>1. StatusInv'
    BY <1>1, <1>2 DEF PlanInv, StateInv, StatusInv, Exists
  <2>2. FailedInv'
    BY <1>1, <1>2
       DEF PlanInv, StateInv, FailedInv, FailedFor, RewindPolicy, MayRetry
  <2>3. FrontierInv'
    BY <1>1, <1>2, <1>3 DEF PlanInv, StateInv, FrontierInv, Passed, Exists
  <2>4. HistoryInv'
    BY <1>2 DEF PlanInv, StateInv, HistoryInv, Exists
  <2>5. QED
    BY <2>1, <2>2, <2>3, <2>4 DEF StateInv
<1>5. CacheInv'
  <2>1. CASE Seen' = wf'
    BY <2>1 DEF CacheInv, Copy, CopyNow, InStep, Terminal
  <2>2. CASE Seen' = wfCache /\ Seen = wfCache
    BY <1>1, <1>2, <2>2
       DEF PlanInv, CacheInv, Copy, CopyNow, CopyBefore, CopyBeforeRewind,
           CopyBeforeSuccess, InStep, NoFollower, Follows, Exists, RewindPolicy,
           MayRetry
  <2>3. QED
    BY <1>2, <2>1, <2>2 DEF Seen
<1>6. SeenInv'
  BY <1>2 DEF SeenInv
<1>7. FlightInv'
  <2>1. InFlight /\ FlightInv
    BY <1>2 DEF InFlight, PlanInv
  <2>2. NoFollower => NoFollower'
    BY <1>2, <1>3 DEF NoFollower, Exists
  <2>3. Follows(wf, target) => Follows(wf, target)'
    BY <1>1, <1>2 DEF Follows, RewindPolicy, MayRetry
  <2>4. InStep(Seen) => InStep(Seen)'
    BY <1>1, <1>2 DEF InStep, Seen
  <2>5. QED
    BY <1>1, <1>2, <2>1, <2>2, <2>3, <2>4 DEF FlightInv, Exists
<1>8. QED
  BY <1>4, <1>5, <1>6, <1>7

\* The inputs and outputs of the workflow are judged or lost.
LEMMA InputSteps ==
  PlanInv /\ (Bootstrap \/ LoseInput \/ AcceptOutputs) =>
    StateInv' /\ CacheInv' /\ SeenInv' /\ FlightInv'
<1> SUFFICES ASSUME PlanInv, Bootstrap \/ LoseInput \/ AcceptOutputs
             PROVE  StateInv' /\ CacheInv' /\ SeenInv' /\ FlightInv'
  OBVIOUS
<1>1. /\ UNCHANGED <<wf, wfCache, phase, uid, at, seen, target, bound>>
      /\ \/ /\ UNCHANGED bootstrap
            /\ outputs = "pending"
            /\ outputs' \in {"accepted", "rejected"}
         \/ /\ UNCHANGED outputs
            /\ bootstrap \in {"pending", "ready"}
            /\ bootstrap' # "pending"
            /\ bootstrap' = "ready" => bootstrap = "pending"
            /\ bootstrap = "pending" => wf.phase # "New"
  BY DEF Bootstrap, LoseInput, AcceptOutputs, attemptVars, flightVars
<1>2. StatusInv'
  BY <1>1 DEF PlanInv, StateInv, StatusInv, Exists
<1>3. FailedInv'
  BY <1>1
     DEF PlanInv, StateInv, StatusInv, FailedInv, FailedFor, RewindPolicy,
         MayRetry
<1>4. FrontierInv' /\ HistoryInv'
  BY <1>1
     DEF PlanInv, StateInv, FrontierInv, HistoryInv, Passed, Follows, Exists,
         RewindPolicy, MayRetry
<1>5. CacheInv'
  BY <1>1
     DEF PlanInv, CacheInv, Copy, CopyNow, CopyBefore, CopyBeforeRewind,
         CopyBeforeSuccess, Seen, InStep, NoFollower, Follows, Exists,
         RewindPolicy, MayRetry
<1>6. SeenInv'
  BY <1>1
     DEF PlanInv, SeenInv, Copy, CopyNow, CopyBefore, CopyBeforeRewind,
         CopyBeforeSuccess, Seen, InStep, NoFollower, Follows, Exists,
         RewindPolicy, MayRetry
<1>7. FlightInv'
  BY <1>1
     DEF PlanInv, FlightInv, InFlight, Seen, InStep, NoFollower, Follows, Exists,
         RewindPolicy, MayRetry
<1>8. QED
  BY <1>2, <1>3, <1>4, <1>5, <1>6, <1>7 DEF StateInv

\* The watch delivers the current workflow.
LEMMA SyncStep ==
  PlanInv /\ Sync => StateInv' /\ CacheInv' /\ SeenInv' /\ FlightInv'
<1> SUFFICES ASSUME PlanInv, Sync
             PROVE  StateInv' /\ CacheInv' /\ SeenInv' /\ FlightInv'
  OBVIOUS
<1>1. /\ UNCHANGED <<wf, phase, bootstrap, outputs, uid, at, seen, target, bound>>
      /\ Seen' = wf'
  BY DEF Sync, inputVars, attemptVars, flightVars, Seen
<1>2. StateInv'
  BY <1>1
     DEF PlanInv, StateInv, StatusInv, FailedInv, FrontierInv, HistoryInv,
         FailedFor, Passed, Follows, Exists, RewindPolicy, MayRetry
<1>3. InStep(Seen)'
  BY <1>1 DEF InStep
<1>4. CacheInv'
  BY <1>1 DEF CacheInv, Copy, CopyNow, InStep, Terminal
<1>5. SeenInv'
  BY <1>1, <1>3
     DEF PlanInv, SeenInv, Copy, CopyNow, CopyBefore, CopyBeforeRewind,
         CopyBeforeSuccess, InStep, NoFollower, Follows, Exists, RewindPolicy,
         MayRetry
<1>6. FlightInv'
  BY <1>1, <1>3
     DEF PlanInv, FlightInv, InFlight, InStep, NoFollower, Follows, Exists,
         RewindPolicy, MayRetry
<1>7. QED
  BY <1>2, <1>4, <1>5, <1>6

\* A reconciliation reads the copy in the cache.
LEMMA ReadStep ==
  PlanInv /\ Read => StateInv' /\ CacheInv' /\ SeenInv' /\ FlightInv'
<1> SUFFICES ASSUME PlanInv, Read
             PROVE  StateInv' /\ CacheInv' /\ SeenInv' /\ FlightInv'
  OBVIOUS
<1>1. /\ UNCHANGED <<wf, wfCache, phase, bootstrap, outputs, uid, target, bound>>
      /\ seen' = Seen
      /\ at' = "decide"
  BY DEF Read, wfVars, inputVars, attemptVars
<1>2. StateInv' /\ CacheInv'
  BY <1>1, Untouched DEF PlanInv
<1>3. seen' = Seen'
  BY <1>1 DEF Seen
<1>4. SeenInv' /\ FlightInv'
  BY <1>1, <1>2, <1>3
     DEF SeenInv, CacheInv, Copy, CopyNow, CopyBefore, CopyBeforeRewind,
         CopyBeforeSuccess, InStep, Follows, FlightInv, InFlight
<1>5. QED
  BY <1>2, <1>4

-----------------------------------------------------------------------------
(* The invariant, and the retries it allows.                                *)

\* Every step keeps the invariant while nobody deletes an attempt.
LEMMA PlanStep == AttemptsStay /\ PlanInv /\ [Next]_vars => PlanInv'
<1> SUFFICES ASSUME AttemptsStay, PlanInv, [Next]_vars
             PROVE  StateInv' /\ CacheInv' /\ SeenInv' /\ FlightInv'
  BY TypeStep DEF PlanInv
<1>1. CASE \/ AwaitBootstrap \/ AlreadyDone \/ NothingToDo \/ AwaitOutputs
           \/ NotApproved \/ RetryMismatch \/ AttemptGone \/ Crash
  <2>1. Return /\ UNCHANGED <<wf, wfCache, phase, bootstrap, outputs>>
    BY <1>1
       DEF AwaitBootstrap, AlreadyDone, NothingToDo, AwaitOutputs, NotApproved,
           RetryMismatch, AttemptGone, Crash, wfVars, inputVars, attemptVars
  <2>2. QED
    BY <2>1, Untouched, Answered DEF PlanInv
<1>2. CASE CreateExecution \/ recordAttemptExecutionRef
  BY <1>2, Quiet
     DEF CreateExecution, recordAttemptExecutionRef, Proceed, wfVars, inputVars,
         attemptVars
<1>3. ASSUME NEW a \in Attempts, Progress(a) \/ Decide(a) \/ DeleteExec(a)
      PROVE  StateInv' /\ CacheInv' /\ SeenInv' /\ FlightInv'
  <2>1. UNCHANGED <<wfVars, attemptVars, flightVars>>
    BY <1>3
       DEF Progress, Admit, Finish, resolveDecision, Collect, Decide, DeleteExec,
           EndExec
  <2>2. QED
    BY <2>1, Quiet DEF wfVars, inputVars, attemptVars, flightVars
<1>4. CASE UNCHANGED vars
  BY <1>4, Quiet DEF vars, wfVars, inputVars, attemptVars, flightVars
<1>5. CASE Reconcile \/ Crash
  BY <1>1, <1>2, <1>5, ReadStep, InitializeStep, FailSteps, BeginStep, NotLost,
     MarkAwaitingStep, AdvanceStep, SucceedStep, RetryStep, RewindStep,
     CreateAttemptStep, RecordRetryStep, RecordActiveStep
     DEF Reconcile
<1>6. ASSUME NEW a \in Attempts,
             Project(a) \/ Progress(a) \/ Decide(a) \/ DeleteAttempt(a) \/ DeleteExec(a)
      PROVE  StateInv' /\ CacheInv' /\ SeenInv' /\ FlightInv'
  BY <1>3, <1>6, ProjectStep DEF DeleteAttempt, AttemptsStay
<1>7. QED
  BY <1>4, <1>5, <1>6, InputSteps, SyncStep DEF Next

\* The invariant holds in the initial state.
LEMMA PlanInit == Init => PlanInv
<1> SUFFICES ASSUME Init PROVE PlanInv
  OBVIOUS
<1>1. wf.phase = "New" /\ wf.iter = 0 /\ wf.step = 0 /\ wf.attempt = NoAttempt /\ Seen = wf
  BY DEF Init, NewWorkflow, Seen
<1>2. at = "idle" /\ bootstrap = "pending" /\ \A a \in Attempts : ~Exists(a)
  BY DEF Init, Exists
<1>3. TypeInv
  BY InitTyped
<1>4. StateInv
  <2>1. \A a \in Attempts : phase[a] = "Absent"
    BY <1>2 DEF Exists
  <2>2. QED
    BY <1>1, <1>2 DEF StateInv, StatusInv, FailedInv, FrontierInv, HistoryInv
<1>5. CacheInv
  BY <1>1 DEF CacheInv, Copy, CopyNow, InStep, Terminal
<1>6. QED
  BY <1>2, <1>3, <1>4, <1>5 DEF PlanInv, SeenInv, FlightInv, InFlight

\* The invariant holds for ever.
LEMMA PlanKept == ASSUME AttemptsStay PROVE Spec => []PlanInv
BY PlanInit, PlanStep, PTL DEF Spec

\* No stale read, crash or conflict makes a retry beyond the budget of its step
\* (decideFailure), or one whose predecessor has not failed retryably.
THEOREM RetriesEarned ==
  ASSUME AttemptsStay PROVE Spec => []RetriesAreEarned
<1>1. PlanInv => RetriesAreEarned
  <2> SUFFICES ASSUME PlanInv, NEW a \in Attempts, Exists(a), a.try > 1
               PROVE  /\ a.try <= Budget(a.step)
                      /\ phase[attemptName(a.step, a.iter, a.try - 1)] \in {"Retryable", "Interrupted"}
    BY DEF RetriesAreEarned, Exists
  <2> DEFINE b == attemptName(a.step, a.iter, a.try - 1)
  <2>1. a.try <= Budget(a.step) /\ Exists(b)
    BY DEF PlanInv, StateInv, HistoryInv
  <2>2. /\ a.step \in Steps
        /\ a.iter \in Iterations
        /\ a.try - 1 \in 1..MaxTry
        /\ a.try - 1 < a.try
    BY Names, BoundAssumption
  <2>3. b \in Attempts /\ b.step = a.step /\ b.iter = a.iter /\ b.try < a.try
    BY <2>2, Names
  <2> HIDE DEF b
  <2>4. phase[b] \in {"Retryable", "Interrupted"}
    BY <2>1, <2>3 DEF PlanInv, StateInv, HistoryInv
  <2>5. QED
    BY <2>1, <2>4 DEF b
<1>2. QED
  BY <1>1, PlanKept, PTL

(* Which actions write the status of the workflow, the phases of its        *)
(* attempts and the executions.                                             *)

\* Who writes the status of the workflow.
LEMMA StatusWriters ==
  [Next]_vars =>
    \/ wf' = wf
    \/ Initialize \/ MarkAwaiting \/ BootstrapFails \/ RejectOutputs \/ FailStep
    \/ Succeed \/ beginWorkflowRetry \/ RecordRetry \/ RecordActive
<1>1. ASSUME NEW a \in Attempts,
             \/ Project(a) \/ Progress(a) \/ Decide(a)
             \/ DeleteAttempt(a) \/ DeleteExec(a)
      PROVE  wf' = wf
  BY <1>1 DEF Project, Progress, Admit, Finish, resolveDecision, Collect, Decide,
              DeleteAttempt, DeleteExec, EndExec, wfVars
<1>2. Bootstrap \/ LoseInput \/ AcceptOutputs \/ Sync \/ UNCHANGED vars => wf' = wf
  BY DEF Bootstrap, LoseInput, AcceptOutputs, Sync, vars, wfVars
<1>3. QED
  BY <1>1, <1>2
     DEF Next, Reconcile, Crash, Read, AwaitBootstrap, AlreadyDone, Begin,
         LostAttempt, NothingToDo, Advance, AwaitOutputs, Retry, CreateAttempt,
         CreateExecution, NotApproved, RetryMismatch, recordAttemptExecutionRef,
         AttemptGone, createAttempt, wfVars

\* Who writes the phases of attempts.
LEMMA PhaseWriters ==
  [Next]_vars =>
    \/ phase' = phase
    \/ CreateAttempt
    \/ \E a \in Attempts : Project(a) \/ DeleteAttempt(a)
<1>1. ASSUME NEW a \in Attempts, Progress(a) \/ Decide(a) \/ DeleteExec(a)
      PROVE  phase' = phase
  BY <1>1
     DEF Progress, Admit, Finish, resolveDecision, Collect, Decide, DeleteExec,
              EndExec, attemptVars
<1>2. Bootstrap \/ LoseInput \/ AcceptOutputs \/ Sync \/ UNCHANGED vars => phase' = phase
  BY DEF Bootstrap, LoseInput, AcceptOutputs, Sync, vars, attemptVars
<1>3. QED
  BY <1>1, <1>2
     DEF Next, Reconcile, Crash, Read, Initialize, AwaitBootstrap, BootstrapFails,
         AlreadyDone, Begin, LostAttempt, MarkAwaiting, NothingToDo, Advance, Succeed,
         RejectOutputs, AwaitOutputs, Retry, FailStep, beginWorkflowRetry,
         CreateExecution, NotApproved, RecordRetry, RetryMismatch,
         recordAttemptExecutionRef, AttemptGone, RecordActive, createAttempt,
         FailWorkflow, UpdateStatus, attemptVars

\* Who writes executions and decisions.
LEMMA ExecWriters ==
  [Next]_vars =>
    \/ UNCHANGED execVars
    \/ CreateExecution
    \/ \E a \in Attempts : Progress(a) \/ Decide(a) \/ DeleteExec(a)
<1>1. \A a \in Attempts : Project(a) \/ DeleteAttempt(a) => UNCHANGED execVars
  BY DEF Project, DeleteAttempt
<1>2. Bootstrap \/ LoseInput \/ AcceptOutputs \/ Sync \/ UNCHANGED vars =>
        UNCHANGED execVars
  BY DEF Bootstrap, LoseInput, AcceptOutputs, Sync, vars
<1>3. QED
  BY <1>1, <1>2
     DEF Next, Reconcile, Crash, Read, Initialize, AwaitBootstrap, BootstrapFails,
         AlreadyDone, Begin, LostAttempt, MarkAwaiting, NothingToDo, Advance, Succeed,
         RejectOutputs, AwaitOutputs, Retry, FailStep, beginWorkflowRetry,
         CreateAttempt, NotApproved, RecordRetry, RetryMismatch,
         recordAttemptExecutionRef, AttemptGone, RecordActive, createAttempt,
         FailWorkflow, UpdateStatus

-----------------------------------------------------------------------------
(* Rewinds.                                                                 *)

\* An attempt that has ended stays as it is.
LEMMA EndedStay ==
  ASSUME AttemptsStay, PlanInv, [Next]_vars, NEW a \in Attempts, Exists(a)
  PROVE  Exists(a)' /\ (phase[a] \in Ended => phase'[a] = phase[a])
<1>1. phase \in [Attempts -> AttemptPhases]
  BY DEF PlanInv, TypeInv, TypeOK
<1>2. CASE UNCHANGED phase
  BY <1>2 DEF Exists
<1>3. CASE CreateAttempt
  BY <1>1, <1>3, Typed DEF CreateAttempt, Exists, attemptVars, PlanInv
<1>4. ASSUME NEW b \in Attempts, Project(b)
      PROVE  Exists(a)' /\ (phase[a] \in Ended => phase'[a] = phase[a])
  <2>1. phase' = [phase EXCEPT ![b] = Projection(b)] /\ phase[b] \notin Ended
    BY <1>4 DEF Project, Ended
  <2>2. Projection(b) # "Absent"
    BY <1>4 DEF Projection
  <2>3. QED
    BY <1>1, <2>1, <2>2 DEF Exists
<1>5. QED
  BY <1>2, <1>3, <1>4, PhaseWriters DEF DeleteAttempt, AttemptsStay

\* The iteration of the workflow grows by rewinds only.
LEMMA IterationGrows ==
  ASSUME PlanInv, [Next]_vars
  PROVE  \/ wf'.iter = wf.iter
         \/ /\ wf'.iter = wf.iter + 1
            /\ \E a \in Attempts : /\ a.step = RewindFrom /\ a.iter = wf.iter
                                   /\ phase[a] \in {"Failed", "Retryable"}
<1>1. wf \in Statuses
  BY DEF PlanInv, TypeInv, TypeOK
<1>2. CASE beginWorkflowRetry /\ wf' # wf
  <2>1. /\ wf' = Rewound(seen.attempt) /\ wf.attempt = seen.attempt
        /\ seen.attempt.step = RewindFrom /\ phase[seen.attempt] \in {"Failed", "Retryable"}
        /\ seen.attempt # NoAttempt
    BY <1>2
       DEF beginWorkflowRetry, UpdateStatus, AttemptFailed, Active, RewindPolicy
  <2>2. wf'.iter = wf.iter + 1
    BY <1>1, <2>1 DEF Rewound, Statuses
  <2>3. wf.attempt \in Attempts /\ wf.attempt.iter = wf.iter
    BY <2>1, Typed DEF PlanInv, StateInv, StatusInv
  <2>4. QED
    BY <2>1, <2>2, <2>3
<1>3. CASE wf' = wf
  BY <1>3
<1>4. CASE \/ Initialize \/ BootstrapFails \/ MarkAwaiting \/ Succeed \/ RejectOutputs
           \/ FailStep \/ RecordRetry \/ RecordActive
  <2>1. \/ wf' = wf
        \/ \E p \in WorkflowPhases : wf' = [wf EXCEPT !.phase = p]
        \/ wf' = [wf EXCEPT !.observed = Observation]
        \/ wf' = [wf EXCEPT !.phase = "Succeeded", !.step = 0, !.attempt = NoAttempt]
        \/ wf' = [wf EXCEPT !.phase = "Running", !.step = target.step, !.attempt = target]
    BY <1>4
       DEF Initialize, BootstrapFails, MarkAwaiting, Succeed, RejectOutputs,
           FailStep, RecordRetry, RecordActive, FailWorkflow, UpdateStatus,
           WorkflowPhases, wfVars
  <2>2. QED
    BY <1>1, <2>1 DEF Statuses
<1>5. QED
  BY <1>2, <1>3, <1>4, StatusWriters

\* beginWorkflowRetry never counts one failure of the candidate twice: every
\* iteration but the first has a failed candidate of its own before it.
THEOREM RewindsEarned ==
  ASSUME AttemptsStay PROVE Spec => []RewindsAreEarned
<1>1. Init => RewindsAreEarned
  BY DEF Init, NewWorkflow, RewindsAreEarned
<1>2. PlanInv /\ RewindsAreEarned /\ [Next]_vars => RewindsAreEarned'
  <2> SUFFICES ASSUME PlanInv, RewindsAreEarned, [Next]_vars, NEW i \in 1..wf'.iter
               PROVE  \E a \in Attempts : /\ a.step = RewindFrom /\ a.iter = i - 1
                                          /\ phase'[a] \in {"Failed", "Retryable"}
    BY DEF RewindsAreEarned
  <2>1. \E a \in Attempts : /\ a.step = RewindFrom /\ a.iter = i - 1
                            /\ phase[a] \in {"Failed", "Retryable"}
    <3>1. wf.iter \in Nat
      BY Typed DEF PlanInv
    <3>2. CASE i \in 1..wf.iter
      BY <3>2 DEF RewindsAreEarned
    <3>3. CASE wf'.iter = wf.iter + 1 /\ i = wf'.iter
      BY <3>1, <3>3, IterationGrows
    <3>4. QED
      BY <3>1, <3>2, <3>3, IterationGrows
  <2>2. QED
    BY <2>1, EndedStay DEF Exists, Ended
<1>3. QED
  BY <1>1, <1>2, PlanKept, PTL DEF Spec

-----------------------------------------------------------------------------
(* Gates.                                                                   *)

\* An execution exists only for an attempt that exists, and only if the gate of its step
\* was approved in its iteration.
GateInv ==
  \A a \in Attempts : exec[a] # "Absent" =>
    /\ Exists(a)
    /\ Plan[a.step].gate # 0 =>
         \E b \in Attempts : /\ b.step = Plan[a.step].gate /\ b.iter = a.iter
                             /\ phase[b] = "Succeeded"
                             /\ decision[b] = "Approved"

\* The gate of an attempt
Gated(a) == \E b \in Attempts : /\ b.step = Plan[a.step].gate /\ b.iter = a.iter
                                /\ phase[b] = "Succeeded"
                                /\ decision[b] = "Approved"

\* What ResolveRequiredApproval accepts is an approved gate of the iteration.
LEMMA ApprovedGate ==
  ASSUME NEW a \in Attempts, Plan[a.step].gate # 0, Approved(a)
  PROVE  Gated(a)
<1> DEFINE gate == Plan[a.step].gate
           tries == {n \in 1..MaxTry : phase[attemptName(gate, a.iter, n)] # "Absent"}
           b == attemptName(gate, a.iter, Max(tries))
<1>1. tries # {} /\ phase[b] = "Succeeded" /\ decision[b] = "Approved"
  BY DEF Approved
<1>2. gate \in Steps
  BY Names, PlanFacts DEF Steps
<1>3. Max(tries) \in 1..MaxTry
  <2>1. tries \subseteq 1..MaxTry /\ tries \in SUBSET (0..MaxTry)
    BY BoundAssumption
  <2> HIDE DEF tries
  <2>2. QED
    BY <1>1, <2>1, MaxIn, BoundAssumption
<1>4. b \in Attempts /\ b.step = gate /\ b.iter = a.iter
  BY <1>2, <1>3, Names
<1>5. QED
  BY <1>1, <1>4 DEF Gated

\* No attempt of a later step exists while a reconciliation establishes one.
LEMMA TargetIsLast ==
  ASSUME PlanInv, InFlight, NEW a \in Attempts, Exists(a), a.iter = target.iter
  PROVE  a.step <= target.step
<1>1. TypeInv /\ StateInv /\ wf.phase \in Working /\ target \in Attempts
  BY Typed DEF PlanInv, FlightInv
<1>2. Passed(a) \/ Follows(wf, a)
  BY DEF PlanInv, StateInv, FrontierInv
<1>3. a.step \in Nat /\ target.step \in Nat /\ wf.step \in Nat /\ a.iter \in Nat
  BY <1>1, Typed
<1>4. CASE target = wf.attempt /\ NoFollower
  <2>1. target.step = wf.step /\ target.iter = wf.iter
    BY <1>1, <1>4, Names DEF StateInv, StatusInv
  <2>2. Passed(a)
    BY <1>2, <1>4 DEF NoFollower
  <2>3. QED
    BY <1>1, <1>3, <2>1, <2>2 DEF Passed, Working, Terminal
<1>5. CASE Follows(wf, target)
  <2>1. target.iter = wf.iter /\ (wf.attempt # NoAttempt => target.step >= wf.step)
    BY <1>1, <1>3, <1>5, FollowsPlace
  <2>2. CASE Follows(wf, a)
    BY <1>3, <1>5, <2>2, FollowsOne
  <2>3. CASE Passed(a)
    BY <1>1, <1>3, <2>1, <2>3 DEF Passed, Working, Terminal
  <2>4. QED
    BY <1>2, <2>2, <2>3
<1>6. QED
  BY <1>4, <1>5 DEF PlanInv, FlightInv

\* An execution keeps the approval it was created on.
LEMMA GateStep ==
  ASSUME AttemptsStay, PlanInv, GateInv, [Next]_vars
  PROVE  GateInv'
<1>1. /\ exec \in [Attempts -> ExecPhases]
      /\ decision \in [Attempts -> {"none", "Approved", "Denied"}]
      /\ \A a \in Attempts :
            exec[a] # "Absent" => Exists(a) /\ (Plan[a.step].gate # 0 => Gated(a))
      /\ \A a \in Attempts : Exists(a) => Exists(a)'
      /\ \A a \in Attempts : phase[a] = "Succeeded" => phase'[a] = "Succeeded"
  BY EndedStay DEF PlanInv, TypeInv, TypeOK, GateInv, Gated, Ended, Exists
<1>2. CASE /\ \A a \in Attempts : exec'[a] # "Absent" => exec[a] # "Absent"
           /\ \A a \in Attempts : decision[a] = "Approved" => decision'[a] = "Approved"
  BY <1>1, <1>2 DEF GateInv, Gated
<1>3. CASE CreateExecution
  <2>1. CASE UNCHANGED execVars
    BY <1>2, <2>1 DEF execVars
  <2>2. CASE exec[target] = "Absent" /\ ~UNCHANGED execVars
    <3>1. /\ target \in Attempts /\ InFlight /\ Approved(target) /\ Exists(target)
          /\ UNCHANGED phase
          /\ exec' = [exec EXCEPT ![target] = "Waiting"]
          /\ decision' = [decision EXCEPT ![target] = "none"]
      BY <1>3, <2>2, Typed
         DEF CreateExecution, InFlight, PlanInv, FlightInv, attemptVars
    <3>2. ASSUME NEW a \in Attempts, exec'[a] # "Absent"
          PROVE  Exists(a) /\ (Plan[a.step].gate # 0 => Gated(a))
      <4>1. CASE a = target
        BY <3>1, <4>1, ApprovedGate
      <4>2. CASE a # target
        BY <1>1, <3>1, <3>2, <4>2
      <4>3. QED
        BY <4>1, <4>2
    <3>3. ASSUME NEW a \in Attempts, Exists(a), Plan[a.step].gate # 0, Gated(a)
          PROVE  Gated(a)'
      <4>1. PICK b \in Attempts : /\ b.step = Plan[a.step].gate /\ b.iter = a.iter
                                  /\ phase[b] = "Succeeded" /\ decision[b] = "Approved"
        BY <3>3 DEF Gated
      <4>2. b.step < a.step /\ a.step \in Nat /\ b.step \in Nat
        BY <3>3, <4>1, Names, PlanFacts DEF Steps
      <4>3. b # target
        BY <3>1, <3>3, <4>1, <4>2, TargetIsLast
      <4>4. decision'[b] = "Approved"
        BY <1>1, <3>1, <4>1, <4>3
      <4>5. QED
        BY <3>1, <4>1, <4>4 DEF Gated
    <3>4. QED
      BY <3>1, <3>2, <3>3 DEF GateInv, Gated, Exists
  <2>3. QED
    BY <1>3, <2>1, <2>2 DEF CreateExecution
<1>4. ASSUME NEW a \in Attempts, Progress(a) \/ Decide(a) \/ DeleteExec(a)
      PROVE  /\ \A b \in Attempts : exec'[b] # "Absent" => exec[b] # "Absent"
             /\ \A b \in Attempts : decision[b] = "Approved" => decision'[b] = "Approved"
  BY <1>1, <1>4
     DEF Progress, Admit, Finish, resolveDecision, Collect, Decide, DeleteExec,
         EndExec
<1>5. CASE UNCHANGED execVars
  BY <1>2, <1>5 DEF execVars
<1>6. QED
  BY <1>2, <1>3, <1>4, <1>5, ExecWriters

\* ensureExecution never creates a privileged execution without the approval of
\* its gate in the same iteration, and the approval outlives it.
THEOREM OperationsApproved ==
  ASSUME AttemptsStay PROVE Spec => []ApprovedBeforeOperation
<1>1. Init => GateInv
  BY DEF Init, GateInv
<1>2. GateInv => ApprovedBeforeOperation
  BY DEF GateInv, ApprovedBeforeOperation
<1>3. QED
  BY <1>1, <1>2, GateStep, PlanKept, PTL DEF Spec

-----------------------------------------------------------------------------
(* Executions.                                                              *)

\* An execution carries the identity of its attempt, an attempt that ended recorded how its
\* execution ended, and what refers to an execution finds it.
ExecInv ==
  /\ \A a \in Attempts :
       /\ exec[a] # "Absent" => Exists(a) /\ owner[a] = uid[a]
       /\ ref[a] => exec[a] # "Absent"
       /\ phase[a] \in Ended => exec[a] = phase[a]
  /\ at \in {"observe", "reference", "status"} => exec[target] # "Absent"

\* Neither an attempt nor an execution is deleted from under its workflow.
ObjectsStay == {"deleteAttempt", "deleteExec"} \cap Env = {}

\* An execution belongs to its attempt, and ends with it.
LEMMA ExecStep ==
  ASSUME ObjectsStay, PlanInv, ExecInv, [Next]_vars
  PROVE  ExecInv'
<1>1. /\ exec \in [Attempts -> ExecPhases]
      /\ owner \in [Attempts -> Nat]
      /\ uid \in [Attempts -> Nat]
      /\ phase \in [Attempts -> AttemptPhases] /\ ref \in [Attempts -> BOOLEAN]
      /\ InFlight => target \in Attempts
  BY Typed DEF PlanInv, TypeInv, TypeOK
<1>2. CASE /\ UNCHANGED <<attemptVars, execVars>>
           /\ at' \in {"observe", "reference", "status"} =>
                at \in {"observe", "reference", "status"} /\ target' = target
  BY <1>2 DEF ExecInv, Exists, attemptVars, execVars
<1>3. CASE CreateAttempt
  <2>1. /\ target \in Attempts /\ UNCHANGED <<exec, owner>> /\ at' = "execution"
        /\ IF phase[target] = "Absent"
           THEN /\ phase' = [phase EXCEPT ![target] = "Active"]
                /\ uid' = [uid EXCEPT ![target] = @ + 1]
                /\ UNCHANGED ref
           ELSE UNCHANGED <<phase, ref, uid>>
    BY <1>1, <1>3 DEF CreateAttempt, InFlight, attemptVars, execVars
  <2>2. QED
    BY <1>1, <2>1 DEF ExecInv, Exists, Ended
<1>4. CASE CreateExecution
  <2>1. /\ target \in Attempts /\ target' = target /\ UNCHANGED <<phase, ref, uid>>
        /\ IF exec[target] = "Absent"
           THEN /\ exec' = [exec EXCEPT ![target] = "Waiting"]
                /\ owner' = [owner EXCEPT ![target] = bound]
           ELSE UNCHANGED <<exec, owner>>
        /\ Exists(target) /\ bound = uid[target]
    BY <1>1, <1>4
       DEF CreateExecution, Proceed, InFlight, attemptVars, execVars, PlanInv,
           FlightInv
  <2>2. QED
    BY <1>1, <2>1 DEF ExecInv, Exists, Ended
<1>5. CASE recordAttemptExecutionRef
  <2>1. /\ target \in Attempts /\ target' = target /\ UNCHANGED <<phase, uid, exec, owner>>
        /\ ref' = [ref EXCEPT ![target] = TRUE] /\ at = "reference"
    BY <1>1, <1>5 DEF recordAttemptExecutionRef, Proceed, InFlight, execVars
  <2>2. QED
    BY <1>1, <2>1 DEF ExecInv, Exists
<1>6. ASSUME NEW a \in Attempts, Project(a) PROVE ExecInv'
  <2>1. /\ ref[a] /\ phase[a] \in {"Active", "AwaitingApproval"}
        /\ phase' = [phase EXCEPT ![a] = Projection(a)]
        /\ UNCHANGED <<ref, uid, exec, owner, at, target>>
    BY <1>6 DEF Project, execVars, flightVars
  <2>2. exec[a] # "Absent" /\ owner[a] = uid[a] /\ Exists(a)
    BY <2>1 DEF ExecInv
  <2>3. Projection(a) # "Absent" /\ (Projection(a) \in Ended => exec[a] = Projection(a))
    BY <2>2 DEF Projection, Owned, Exists, Ended
  <2>4. QED
    BY <1>1, <2>1, <2>2, <2>3 DEF ExecInv, Exists
<1>7. ASSUME NEW a \in Attempts, Progress(a) PROVE ExecInv'
  <2>1. UNCHANGED <<attemptVars, owner, at, target>>
    BY <1>7
       DEF Progress, Admit, Finish, resolveDecision, Collect, EndExec, flightVars
  <2>2. ~Collect(a)
    BY DEF Collect, ExecInv, Exists
  <2>3. /\ exec[a] \in {"Waiting", "Active"}
        /\ \E p \in ExecPhases \ {"Absent"} : exec' = [exec EXCEPT ![a] = p]
    BY <1>7, <2>2
       DEF Progress, Admit, Finish, resolveDecision, EndExec, ExecPhases, Ended
  <2>4. phase[a] \notin Ended
    BY <2>3 DEF ExecInv, Ended
  <2>5. QED
    BY <1>1, <2>1, <2>3, <2>4 DEF ExecInv, Exists, attemptVars
<1>8. ASSUME NEW a \in Attempts, Decide(a) PROVE ExecInv'
  BY <1>8 DEF Decide, ExecInv, Exists, attemptVars, flightVars
<1>9. CASE Reconcile \/ Crash
  BY <1>2, <1>3, <1>4, <1>5, <1>9
     DEF Reconcile, Crash, Read, Initialize, AwaitBootstrap, BootstrapFails,
         AlreadyDone, Begin, LostAttempt, MarkAwaiting, NothingToDo, Advance,
         Succeed, RejectOutputs, AwaitOutputs, Retry, FailStep,
         beginWorkflowRetry, NotApproved, RecordRetry, RetryMismatch, AttemptGone,
         RecordActive, createAttempt, FailWorkflow, UpdateStatus, Return, Proceed
<1>10. CASE Bootstrap \/ LoseInput \/ AcceptOutputs \/ Sync \/ UNCHANGED vars
  BY <1>2, <1>10 DEF Bootstrap, LoseInput, AcceptOutputs, Sync, vars, flightVars
<1>11. QED
  BY <1>6, <1>7, <1>8, <1>9, <1>10
     DEF Next, DeleteAttempt, DeleteExec, ObjectsStay

\* Executions belong to their attempts for ever.
LEMMA ExecKept == ASSUME ObjectsStay PROVE Spec => []ExecInv
<1>1. AttemptsStay
  BY DEF ObjectsStay, AttemptsStay
<1>2. Init => ExecInv
  BY DEF Init, ExecInv, Ended
<1>3. QED
  BY <1>1, <1>2, ExecStep, PlanKept, PTL DEF Spec

\* However reconciliations overlap with stale reads and crashes, at most one
\* execution of a workflow is admitted and unfinished.
THEOREM OneExecution ==
  ASSUME ObjectsStay PROVE Spec => []OneActiveExecution
<1>1. AttemptsStay
  BY DEF ObjectsStay, AttemptsStay
<1>2. ASSUME PlanInv, ExecInv PROVE OneActiveExecution
  <2> SUFFICES ASSUME NEW a \in Attempts,
                      NEW b \in Attempts, exec[a] = "Active", exec[b] = "Active"
               PROVE  a = b
    BY DEF OneActiveExecution
  <2>1. \A c \in {a, b} : Exists(c) /\ phase[c] \notin Ended
    BY <1>2 DEF ExecInv, Ended
  <2>2. \A c \in {a, b} : c = wf.attempt \/ Follows(wf, c)
    BY <1>2, <2>1 DEF PlanInv, StateInv, FrontierInv
  <2>3. CASE wf.attempt \in {a, b}
    <3>1. \A c : ~Follows(wf, c)
      BY <2>1, <2>3, Names DEF Follows, MayRetry, Ended
    <3>2. QED
      BY <2>2, <3>1
  <2>4. CASE wf.attempt \notin {a, b}
    BY <2>2, <2>4, FollowsOne
  <2>5. QED
    BY <2>3, <2>4
<1>3. QED
  BY <1>1, <1>2, ExecKept, PlanKept, PTL

-----------------------------------------------------------------------------
(* The refinement of PlanExecution.                                         *)

\* The change request of a workflow is not lost.
InputStays == "loseInput" \notin Env

\* Without a change request nothing is established.
InputInv == /\ bootstrap # "lost"
            /\ bootstrap \in {"pending", "rejected"} =>
                  ~InFlight /\ \A a \in Attempts : ~Exists(a)

\* Nothing is established for a change request that was not accepted.
LEMMA InputStep ==
  ASSUME InputStays, PlanInv, InputInv, [Next]_vars
  PROVE  InputInv'
<1>1. CASE Bootstrap
  BY <1>1
     DEF Bootstrap, InputInv, InFlight, PlanInv, StateInv, StatusInv, FlightInv,
         Exists, attemptVars, flightVars
<1>2. CASE Begin \/ LostAttempt \/ Advance \/ Retry
  BY <1>2
     DEF Begin, LostAttempt, Advance, Retry, AttemptFailed, Active, Deciding,
         createAttempt, InputInv, wfVars, inputVars
<1>3. CASE CreateAttempt
  BY <1>3 DEF CreateAttempt, InputInv, InFlight, wfVars, inputVars
<1>4. CASE /\ UNCHANGED <<bootstrap, phase>>
           /\ (at' = at \/ at' \in {"idle", "decide"} \/ InFlight)
  BY <1>4 DEF InputInv, InFlight, Exists
<1>5. ASSUME NEW a \in Attempts, Project(a) \/ DeleteAttempt(a) PROVE InputInv'
  BY <1>5
     DEF Project, DeleteAttempt, InputInv, InFlight, Exists, wfVars, inputVars,
         flightVars
<1>6. ASSUME NEW a \in Attempts, Progress(a) \/ Decide(a) \/ DeleteExec(a)
      PROVE  UNCHANGED <<bootstrap, phase, at>>
  BY <1>6
     DEF Progress, Admit, Finish, resolveDecision, Collect, Decide, DeleteExec,
         EndExec, wfVars, inputVars, attemptVars, flightVars
<1>7. CASE LoseInput \/ AcceptOutputs \/ Sync \/ UNCHANGED vars
  BY <1>4, <1>7
     DEF LoseInput, InputStays, AcceptOutputs, Sync, vars, wfVars, inputVars,
         attemptVars, flightVars
<1>8. CASE Reconcile \/ Crash
  BY <1>2, <1>3, <1>4, <1>8
     DEF Reconcile, Crash, Read, Initialize, AwaitBootstrap, BootstrapFails,
         AlreadyDone, MarkAwaiting, NothingToDo, Succeed, RejectOutputs,
         AwaitOutputs, FailStep, beginWorkflowRetry, CreateExecution, NotApproved,
         RecordRetry, RetryMismatch, recordAttemptExecutionRef, AttemptGone,
         RecordActive, FailWorkflow, UpdateStatus, Return, Proceed, wfVars,
         inputVars, attemptVars, InFlight
<1>9. QED
  BY <1>1, <1>4, <1>5, <1>6, <1>7, <1>8 DEF Next

\* The same, for ever.
LEMMA InputKept == ASSUME InputStays, AttemptsStay PROVE Spec => []InputInv
<1>1. Init => InputInv
  BY DEF Init, InputInv, InFlight, Exists
<1>2. QED
  BY <1>1, InputStep, PlanKept, PTL DEF Spec

\* A workflow that has ended has nothing left to do.
LEMMA AllEnded ==
  ASSUME PlanInv, InputInv, wf.phase \in Terminal
  PROVE  \A a \in Attempts : Exists(a) => phase[a] \in Ended
<1>1. \A a : ~Follows(wf, a) \/ bootstrap = "rejected"
  <2>1. CASE wf.phase = "Succeeded"
    BY <2>1 DEF Follows
  <2>2. CASE wf.phase = "Failed"
    BY <2>2, PlanFacts
       DEF PlanInv, StateInv, FailedInv, FailedFor, Follows, InputInv, MayRetry
  <2>3. QED
    BY <2>1, <2>2 DEF Terminal
<1>2. bootstrap = "rejected" \/ wf.attempt = NoAttempt \/ phase[wf.attempt] \in Ended
  BY DEF PlanInv, StateInv, StatusInv, FailedInv, FailedFor, InputInv, Terminal,
         Ended
<1>3. QED
  BY <1>1, <1>2, Names DEF PlanInv, StateInv, FrontierInv, InputInv

\* Steps at which the execution of the plan stands still.
LEMMA Still ==
  ASSUME UNCHANGED Done, wf'.iter = wf.iter, wf'.step = wf.step,
         \/ wf'.phase = wf.phase
         \/ wf.phase \notin Terminal /\ wf'.phase \notin Terminal
  PROVE  UNCHANGED PE!vars
BY DEF PE!vars, Terminal

\* A workflow that fails stays in its place, and had not succeeded.
LEMMA FailImplemented ==
  ASSUME PlanInv, InputInv, BootstrapFails \/ RejectOutputs \/ FailStep
  PROVE  /\ wf'.phase = "Failed"
         /\ wf'.iter = wf.iter
         /\ wf'.step = wf.step
         /\ wf'.attempt = wf.attempt
         /\ wf.phase # "Succeeded"
<1>1. wf \in Statuses /\ FailWorkflow
  BY DEF PlanInv, TypeInv, TypeOK, BootstrapFails, RejectOutputs, FailStep
<1>2. /\ wf'.phase = "Failed" /\ wf'.iter = wf.iter /\ wf'.step = wf.step
      /\ wf'.attempt = wf.attempt
  BY <1>1 DEF FailWorkflow, UpdateStatus, Statuses
<1>3. CASE BootstrapFails
  BY <1>2, <1>3 DEF BootstrapFails, InputInv, PlanInv, StateInv, StatusInv, Exists
<1>4. CASE RejectOutputs \/ FailStep
  <2>1. FailedFor /\ bootstrap = "ready"
    BY <1>4, Failing
       DEF RejectOutputs, FailStep, AttemptFailed, LastStepDone, Active, Deciding
  <2>2. wf.attempt # NoAttempt
    BY <2>1 DEF FailedFor
  <2>3. QED
    BY <1>2, <2>2 DEF PlanInv, StateInv, StatusInv
<1>5. QED
  BY <1>3, <1>4

\* The steps completed change when an attempt is seen to have succeeded.
LEMMA CompleteImplemented ==
  ASSUME PlanInv, InputInv, NEW a \in Attempts, Project(a)
  PROVE  PE!Next \/ UNCHANGED PE!vars
<1>1. /\ wf' = wf /\ phase[a] \in {"Active", "AwaitingApproval"}
      /\ phase' = [phase EXCEPT ![a] = Projection(a)]
      /\ phase \in [Attempts -> AttemptPhases]
  BY DEF Project, wfVars, PlanInv, TypeInv, TypeOK
<1>2. CASE phase'[a] # "Succeeded"
  <2>1. Done' = Done
    BY <1>1, <1>2 DEF Done
  <2>2. QED
    BY <1>1, <2>1, Still
<1>3. CASE phase'[a] = "Succeeded"
  <2>1. Done' = Done \cup {<<a.step, a.iter>>}
    BY <1>1, <1>3 DEF Done
  <2>2. Exists(a) /\ phase[a] \notin Ended
    BY <1>1 DEF Exists, Ended
  <2>3. wf.phase \notin Terminal
    BY <2>2, AllEnded
  <2>4. a.iter = wf.iter
    <3>1. a = wf.attempt \/ Follows(wf, a)
      BY <2>2 DEF PlanInv, StateInv, FrontierInv
    <3>2. QED
      BY <3>1, FollowsNamed, Names DEF PlanInv, StateInv, StatusInv
  <2>5. a.step = FirstStep(wf.iter) \/ <<a.step - 1, wf.iter>> \in Done
    BY <2>2, <2>4 DEF PlanInv, StateInv, HistoryInv, Done
  <2>6. a.step \in 1..N
    BY Names DEF Steps
  <2>7. PE!Complete(a.step)
    BY <1>1, <2>1, <2>3, <2>4, <2>5
       DEF PE!Complete, PE!Open, PE!First, FirstStep, Terminal
  <2>8. QED
    BY <2>6, <2>7 DEF PE!Next
<1>4. QED
  BY <1>2, <1>3

\* A status that names the next step is an advance.
LEMMA AdvanceImplemented ==
  ASSUME PlanInv, RecordActive
  PROVE  PE!Next \/ UNCHANGED PE!vars
<1>1. /\ wf \in Statuses /\ TypeInv /\ StateInv /\ target \in Attempts
      /\ wf.phase \in Working
      /\ (target = wf.attempt /\ NoFollower) \/ (Follows(wf, target) /\ InStep(Seen))
  BY Typed DEF PlanInv, TypeInv, TypeOK, RecordActive, FlightInv, InFlight
<1>2. wf'.phase = "Running" /\ wf'.iter = wf.iter /\ wf'.step = target.step
  <2>1. wf' = [wf EXCEPT !.phase = "Running", !.step = target.step, !.attempt = target]
    BY DEF RecordActive, UpdateStatus
  <2>2. QED
    BY <1>1, <2>1 DEF Statuses
<1>3. Done' = Done
  BY DEF RecordActive, UpdateStatus, attemptVars, Done
<1>4. CASE target.step = wf.step
  BY <1>1, <1>2, <1>3, <1>4, Still DEF Working, Terminal
<1>5. CASE target.step # wf.step
  <2>1. target # wf.attempt /\ Follows(wf, target)
    BY <1>1, <1>5, Names DEF StateInv, StatusInv
  <2>2. target.step = wf.step + 1 /\ (wf.step = 0 \/ <<wf.step, wf.iter>> \in Done)
    <3>1. CASE wf.attempt = NoAttempt
      <4>1. target.step = IF wf.step = 0 THEN 1 ELSE wf.step
        BY <2>1, <3>1, Names DEF Follows
      <4>2. QED
        BY <1>5, <4>1
    <3>2. CASE wf.attempt # NoAttempt
      <4>1. target.step = wf.step + 1 /\ phase[wf.attempt] = "Succeeded"
        BY <1>1, <1>5, <2>1, <3>2, FollowsPlace
      <4>2. /\ wf.attempt \in Attempts
            /\ wf.attempt.step = wf.step
            /\ wf.attempt.iter = wf.iter
        BY <1>1, <3>2, Typed DEF StateInv, StatusInv
      <4>3. QED
        BY <4>1, <4>2 DEF Done
    <3>3. QED
      BY <3>1, <3>2
  <2>3. wf.step < N
    BY <1>1, <2>2, Typed
  <2>4. PE!Advance
    BY <1>1, <1>2, <1>3, <2>2, <2>3 DEF PE!Advance, PE!Open, Working
  <2>5. QED
    BY <2>4 DEF PE!Next
<1>6. QED
  BY <1>4, <1>5

\* A new iteration is a rewind: the candidate has not succeeded in the old one.
LEMMA RewindImplemented ==
  ASSUME PlanInv, beginWorkflowRetry
  PROVE  PE!Next \/ UNCHANGED PE!vars
<1>1. Done' = Done
  BY DEF beginWorkflowRetry, UpdateStatus, attemptVars, Done
<1>2. CASE wf' = wf
  BY <1>1, <1>2, Still
<1>3. CASE /\ wf.phase \notin Terminal
           /\ wf.attempt = seen.attempt
           /\ wf' = Rewound(seen.attempt)
           /\ wf.iter = seen.attempt.iter
  <2>1. /\ wf \in Statuses /\ seen.attempt \in Attempts /\ TypeInv /\ StateInv
        /\ seen.attempt # NoAttempt /\ seen.attempt.step = RewindFrom
        /\ phase[seen.attempt] \in {"Failed", "Retryable"} /\ seen.iter < MaxRewinds
    BY Decided
       DEF PlanInv, TypeInv, TypeOK, beginWorkflowRetry, AttemptFailed, Active,
           RewindPolicy
  <2>2. wf'.phase = "Running" /\ wf'.iter = wf.iter + 1 /\ wf'.step = RewindTo
    BY <1>3, <2>1 DEF Rewound, Statuses
  <2>3. /\ wf.step = RewindFrom
        /\ wf.iter = wf.attempt.iter
        /\ Exists(wf.attempt)
        /\ wf.phase # "Succeeded"
    BY <1>3, <2>1 DEF StateInv, StatusInv
  <2>4. wf.iter < MaxRewinds
    <3>1. seen.attempt.iter <= seen.iter /\ seen.iter \in Nat
      BY <2>1, Typed DEF TypeInv, PlaceInv, Placed
    <3>2. wf.iter <= seen.iter /\ wf.iter \in Nat
      BY <1>3, <2>1, <3>1, Typed
    <3>3. QED
      BY <2>1, <3>1, <3>2, Typed
  <2>5. \A a : ~Follows(wf, a)
    BY <1>3, <2>1 DEF Follows, RewindPolicy
  <2>6. <<wf.step, wf.iter>> \notin Done
    <3> SUFFICES ASSUME NEW a \in Attempts,
                        phase[a] = "Succeeded", a.step = wf.step, a.iter = wf.iter
                 PROVE  FALSE
      BY DEF Done
    <3>1. Passed(a) /\ Exists(a)
      BY <2>1, <2>5 DEF StateInv, FrontierInv, Exists
    <3>2. a.try <= wf.attempt.try /\ wf.attempt \in Attempts
      BY <1>3, <2>1, <2>3, <3>1, Typed DEF Passed
    <3>3. CASE a.try = wf.attempt.try
      <4>1. a = wf.attempt
        BY <1>3, <2>1, <2>3, <3>2, <3>3, Names
      <4>2. QED
        BY <4>1, <1>3, <2>1
    <3>4. CASE a.try < wf.attempt.try
      BY <1>3, <2>1, <2>3, <3>1, <3>2, <3>4 DEF StateInv, HistoryInv
    <3>5. QED
      BY <2>1, <3>2, <3>3, <3>4, Typed
  <2>7. PE!Rewind
    BY <1>1, <1>3, <2>2, <2>3, <2>4, <2>6 DEF PE!Rewind, PE!Open, Terminal
  <2>8. QED
    BY <2>7 DEF PE!Next
<1>4. QED
  BY <1>2, <1>3 DEF beginWorkflowRetry, UpdateStatus

\* A workflow that succeeds has completed its last step.
LEMMA SucceedImplemented ==
  ASSUME PlanInv, Succeed
  PROVE  PE!Next \/ UNCHANGED PE!vars
<1>1. Done' = Done
  BY DEF Succeed, LastStepDone, Active, UpdateStatus, attemptVars, Done
<1>2. CASE wf' = wf
  BY <1>1, <1>2, Still
<1>3. CASE /\ wf.phase \in Working /\ wf.attempt \in Attempts /\ wf.step = N
           /\ wf.attempt.step = N
           /\ wf.attempt.iter = wf.iter
           /\ phase[wf.attempt] = "Succeeded"
  <2>1. wf'.phase = "Succeeded" /\ wf'.iter = wf.iter
    <3>1. wf' = [wf EXCEPT !.phase = "Succeeded", !.step = 0, !.attempt = NoAttempt]
      BY DEF Succeed, UpdateStatus
    <3>2. wf \in Statuses
      BY DEF PlanInv, TypeInv, TypeOK
    <3>3. QED
      BY <3>1, <3>2 DEF Statuses
  <2>2. <<wf.step, wf.iter>> \in Done
    BY <1>3 DEF Done
  <2>3. PE!Succeed
    BY <1>1, <1>3, <2>1, <2>2 DEF PE!Succeed, PE!Open, Working
  <2>4. QED
    BY <2>3 DEF PE!Next
<1>4. QED
  BY <1>2, <1>3, Succeeding

\* Every step is one of the execution of a plan, or none.
LEMMA PlanExecutionStep ==
  ASSUME AttemptsStay, InputStays, PlanInv, InputInv, [Next]_vars
  PROVE  PE!Next \/ UNCHANGED PE!vars
<1>1. CASE UNCHANGED <<wf, phase>>
  BY <1>1, Still DEF Done
<1>2. CASE Initialize
  <2>1. /\ wf.phase \in {"New", "Pending"}
        /\ wf'.phase = "Pending"
        /\ wf'.iter = wf.iter
        /\ wf'.step = wf.step
        /\ phase' = phase
    BY <1>2, Initializing
  <2>2. QED
    BY <2>1, Still DEF Done, Terminal
<1>3. CASE MarkAwaiting
  <2>1. phase' = phase
    BY <1>3 DEF MarkAwaiting, UpdateStatus, attemptVars
  <2>2. QED
    BY <1>3, <2>1, Awaiting, Still DEF Done, Terminal, Working
<1>4. CASE BootstrapFails \/ RejectOutputs \/ FailStep
  <2>1. phase' = phase
    BY <1>4
       DEF BootstrapFails, RejectOutputs, FailStep, FailWorkflow, UpdateStatus,
           attemptVars
  <2>2. CASE wf.phase = "Failed"
    BY <1>4, <2>1, <2>2, FailImplemented, Still DEF Done
  <2>3. CASE wf.phase # "Failed"
    <3>1. PE!Fail
      BY <1>4, <2>1, <2>3, FailImplemented DEF PE!Fail, PE!Open, Done
    <3>2. QED
      BY <3>1 DEF PE!Next
  <2>4. QED
    BY <2>2, <2>3
<1>5. CASE CreateAttempt
  <2>1. /\ wf' = wf
        /\ target \in Attempts
        /\ \/ phase' = phase
            \/ /\ phase[target] = "Absent"
               /\ phase' = [phase EXCEPT ![target] = "Active"]
    BY <1>5, Typed DEF CreateAttempt, InFlight, PlanInv, wfVars, attemptVars
  <2>2. Done' = Done
    BY <2>1 DEF Done, PlanInv, TypeInv, TypeOK
  <2>3. QED
    BY <2>1, <2>2, Still
<1>6. CASE RecordRetry
  <2>1. /\ phase' = phase
        /\ (wf' = wf \/ wf' = [wf EXCEPT !.observed = Observation])
        /\ wf \in Statuses
    BY <1>6 DEF RecordRetry, attemptVars, PlanInv, TypeInv, TypeOK
  <2>2. wf'.phase = wf.phase /\ wf'.iter = wf.iter /\ wf'.step = wf.step
    BY <2>1 DEF Statuses
  <2>3. QED
    BY <2>1, <2>2, Still DEF Done
<1>7. ASSUME NEW a \in Attempts, Project(a) PROVE PE!Next \/ UNCHANGED PE!vars
  BY <1>7, CompleteImplemented
<1>8. QED
  BY <1>1, <1>2, <1>3, <1>4, <1>5, <1>6, <1>7, StatusWriters, PhaseWriters,
     SucceedImplemented, RewindImplemented, AdvanceImplemented
     DEF DeleteAttempt, AttemptsStay

\* The controllers execute the plan as PlanExecution promises: in order, one
\* iteration after the other, with bounded rewinds, and with success only after the
\* last step, whatever is stale, repeated or cut short.
THEOREM PlanExecuted ==
  ASSUME AttemptsStay, InputStays PROVE Spec => ImplementsPlanExecution
<1>1. Init => PE!Init
  BY DEF Init, PE!Init, NewWorkflow, Done
<1>2. PlanInv /\ InputInv /\ [Next]_vars => [PE!Next]_(PE!vars)
  BY PlanExecutionStep
<1>3. QED
  BY <1>1, <1>2, PlanKept, InputKept, PTL
     DEF Spec, ImplementsPlanExecution, PE!Spec

-----------------------------------------------------------------------------
(* What never happens.                                                      *)

\* A reconciliation that starts from an old copy never changes a workflow that
\* has ended (updateWorkflowStatus), as long as its change request is kept.
THEOREM EndIsFinal ==
  ASSUME AttemptsStay, InputStays PROVE Spec => TerminalIsFinal
<1>1. ASSUME PlanInv, InputInv, [Next]_vars, wf.phase \in Terminal
      PROVE  wf' = wf
  <2>1. /\ wf \in Statuses
        /\ wf.phase \notin Working
        /\ wf.phase # "New"
        /\ (InFlight => wf.phase \in Working)
    BY <1>1 DEF PlanInv, TypeInv, TypeOK, FlightInv, Terminal, Working
  <2>2. CASE BootstrapFails \/ RejectOutputs \/ FailStep
    <3>1. wf.phase = "Failed"
      BY <1>1, <2>2, FailImplemented DEF Terminal
    <3>2. wf' = [wf EXCEPT !.phase = "Failed"]
      BY <2>2
         DEF BootstrapFails, RejectOutputs, FailStep, FailWorkflow, UpdateStatus
    <3>3. QED
      BY <2>1, <3>1, <3>2 DEF Statuses
  <2>3. CASE beginWorkflowRetry
    BY <1>1, <2>3 DEF beginWorkflowRetry, UpdateStatus
  <2>4. ~RecordRetry /\ ~RecordActive /\ ~Initialize
    BY <1>1, <2>1, Initializing DEF RecordRetry, RecordActive, InFlight, Terminal
  <2>5. QED
    BY <1>1, <2>1, <2>2, <2>3, <2>4, Awaiting, Succeeding, StatusWriters
<1>2. PlanInv /\ InputInv /\ [Next]_vars => [wf.phase \in Terminal => wf' = wf]_vars
  BY <1>1
<1>3. QED
  BY <1>2, PlanKept, InputKept, PTL DEF Spec, TerminalIsFinal

\* The StepAttempt controller fails an attempt only because its own execution
\* has failed, as long as nobody deletes either.
THEOREM FailuresEarned ==
  ASSUME ObjectsStay PROVE Spec => FailuresAreEarned
<1>1. AttemptsStay
  BY DEF ObjectsStay, AttemptsStay
<1>2. ASSUME PlanInv,
             ExecInv, [Next]_vars, NEW a \in Attempts, phase[a] # "Failed",
             phase'[a] = "Failed"
      PROVE  exec[a] = "Failed" /\ owner[a] = uid[a]
  <2>1. phase \in [Attempts -> AttemptPhases] /\ (InFlight => target \in Attempts)
    BY <1>2, Typed DEF PlanInv, TypeInv, TypeOK
  <2>2. phase' # phase
    BY <1>2
  <2>3. ~CreateAttempt
    BY <1>2, <2>1 DEF CreateAttempt, InFlight, attemptVars
  <2>4. CASE Project(a)
    BY <1>2, <2>1, <2>4 DEF Project, Projection, Owned, ExecInv, Exists
  <2>5. ASSUME NEW b \in Attempts, b # a, Project(b) PROVE FALSE
    BY <1>2, <2>1, <2>5 DEF Project
  <2>6. QED
    BY <1>1, <1>2, <2>2, <2>3, <2>4, <2>5, PhaseWriters
       DEF DeleteAttempt, AttemptsStay
<1>3. ASSUME PlanInv, ExecInv, [Next]_vars
      PROVE [\A a \in Attempts : phase[a] # "Failed" /\ phase'[a] = "Failed" =>
               exec[a] = "Failed" /\ owner[a] = uid[a]]_vars
  BY <1>2, <1>3
<1>4. QED
  BY <1>1, <1>3, ExecKept, PlanKept, PTL DEF FailuresAreEarned, Spec
====
