-------------------------- MODULE WorkflowProgress --------------------------
(***************************************************************************)
(* The progress of one SovereignWorkflow through its plan: the workflow    *)
(* controller (internal/controllers/workflow), the StepAttempt controller  *)
(* (internal/controllers/stepattempt), the human gates                     *)
(* (internal/controllers/approvalrequest_controller.go and                 *)
(* approval_binding.go) and, as the environment they observe, the          *)
(* execution objects (AgentRun, UtilityOperation, ValidationRun).          *)
(*                                                                         *)
(* A reconciliation of the workflow reads the workflow from the informer   *)
(* cache (seen), decides, and then makes API writes one by one; every      *)
(* write is an action, at says how far it has come and Crash abandons it.  *)
(* Attempts are read from the API server.  The status of the workflow is   *)
(* written by compare-and-swap on the cached copy.                         *)
(***************************************************************************)
EXTENDS Naturals, Sequences, FiniteSetsExt

CONSTANTS
  Plan,        \* spec.steps: kind, maxAttempts, and the gate a step requires
  RewindFrom,  \* index of "test-candidate" in the plan, 0 if it has none
  RewindTo,    \* index of "test-author"
  MaxRewinds,  \* spec.maxWorkflowAttempt
  MaxTry,      \* bound on the retry numbers of a step
  MaxCrashes,  \* bound on the abandoned reconciliations of a behaviour
  MaxDeletes,  \* bound on the objects deleted by somebody
  Env          \* the environment events that may happen

N     == Len(Plan)
Steps == 1..N

StepKinds == {"Work", "HumanGate"}

EnvEvents == {"lag",            \* the cached workflow may be old
              "reject",         \* bootstrap or the final outputs are refused
              "deny",           \* a human denies a gate
              "loseInput",      \* the accepted change request is deleted
              "deleteAttempt",  \* somebody deletes a StepAttempt
              "deleteExec"}     \* somebody deletes an execution object

\* The gate an operation requires is an earlier step of the plan.
ValidateApprovalRequirements ==
  \A s \in Steps :
    \/ Plan[s].gate = 0
    \/ /\ Plan[s].gate < s
       /\ Plan[s].kind = "Work"
       /\ Plan[Plan[s].gate].kind = "HumanGate"

ASSUME PlanAssumption ==
  /\ Plan \in Seq([kind : StepKinds, max : Nat, gate : Nat])
  /\ N > 0
  /\ ValidateApprovalRequirements
ASSUME RewindAssumption ==
  /\ RewindFrom \in 0..N
  /\ RewindFrom > 0 =>
       RewindTo \in 1..(RewindFrom - 1) /\ Plan[RewindTo].kind = "Work"
ASSUME BoundAssumption ==
  /\ MaxRewinds \in Nat /\ MaxCrashes \in Nat /\ MaxDeletes \in Nat
  /\ MaxTry \in Nat \ {0}
  /\ \A s \in Steps : Plan[s].max <= MaxTry
ASSUME EnvAssumption == Env \subseteq EnvEvents

VARIABLES
  wf,        \* status of the workflow
  wfCache,   \* the informer's copy of it
  bootstrap, \* the change request: "pending", "ready", "rejected", "lost"
  outputs,   \* the artifacts of the last step: "pending", "accepted", "rejected"
  phase,     \* status.phase of each StepAttempt
  ref,       \* its status.executionRef is set
  uid,       \* how often an attempt of this name was created
  exec,      \* status.phase of the execution object of this name
  owner,     \* uid of the attempt that controls it
  made,      \* how often an execution of this name was created
  decision,  \* the ApprovalDecision of a gate
  at,        \* progress of the reconciliation of the workflow in flight
  seen,      \* the workflow it read
  target,    \* the attempt it creates
  bound,     \* the uid of that attempt, once read
  crashes,
  deletes

attemptVars == <<phase, ref, uid>>
execVars    == <<exec, owner, made, decision>>
flightVars  == <<at, seen, target, bound>>
inputVars   == <<bootstrap, outputs>>
wfVars      == <<wf, wfCache, inputVars>>
countVars   == <<crashes, deletes>>
vars == <<wfVars, attemptVars, execVars, flightVars, countVars>>

-----------------------------------------------------------------------------
(* An attempt has a deterministic name made of its step, the iteration of   *)
(* the workflow and the retry number.                                       *)

Iterations == 0..MaxRewinds
Attempts   == [step : Steps, iter : Iterations, try : 1..MaxTry]
NoAttempt  == [step |-> 0, iter |-> 0, try |-> 0]

attemptName(s, i, n) == [step |-> s, iter |-> i, try |-> n]

\* "Active" stands for the empty phase, Pending, Preparing and Running;
\* "Failed" is not retryable, "Retryable" is Failed with status.retryable.
Ended         == {"Succeeded", "Failed", "Retryable", "Interrupted"}
AttemptPhases == {"Absent", "Active", "AwaitingApproval"} \cup Ended
ExecPhases    == {"Absent", "Waiting", "Active"} \cup Ended

WorkflowPhases == {"New", "Pending", "Running", "AwaitingApproval",
                   "Succeeded", "Failed"}
Terminal == {"Succeeded", "Failed"}

\* trigger and observed are status.refinement: the attempt whose failure
\* began the iteration, and the attempt and execution recorded to replace it.
Statuses == [phase : WorkflowPhases, iter : Iterations, step : 0..N,
             attempt : Attempts \cup {NoAttempt},
             trigger : Attempts \cup {NoAttempt}, observed : Nat \X Nat]

Nothing == <<0, 0>>

NewWorkflow == [phase |-> "New", iter |-> 0, step |-> 0, attempt |-> NoAttempt,
                trigger |-> NoAttempt, observed |-> Nothing]

Stages == {"idle", "decide", "create", "execution", "observe", "reference",
           "status"}

TypeOK ==
  /\ wf \in Statuses
  /\ wfCache \in Statuses
  /\ bootstrap \in {"pending", "ready", "rejected", "lost"}
  /\ outputs \in {"pending", "accepted", "rejected"}
  /\ phase \in [Attempts -> AttemptPhases]
  /\ ref \in [Attempts -> BOOLEAN]
  /\ uid \in [Attempts -> Nat]
  /\ exec \in [Attempts -> ExecPhases]
  /\ owner \in [Attempts -> Nat]
  /\ made \in [Attempts -> Nat]
  /\ decision \in [Attempts -> {"none", "Approved", "Denied"}]
  /\ at \in Stages
  /\ seen \in Statuses
  /\ target \in Attempts \cup {NoAttempt}
  /\ bound \in Nat
  /\ crashes \in 0..MaxCrashes
  /\ deletes \in 0..MaxDeletes

Init ==
  /\ wf = NewWorkflow
  /\ wfCache = NewWorkflow
  /\ bootstrap = "pending"
  /\ outputs = "pending"
  /\ phase = [a \in Attempts |-> "Absent"]
  /\ ref = [a \in Attempts |-> FALSE]
  /\ uid = [a \in Attempts |-> 0]
  /\ exec = [a \in Attempts |-> "Absent"]
  /\ owner = [a \in Attempts |-> 0]
  /\ made = [a \in Attempts |-> 0]
  /\ decision = [a \in Attempts |-> "none"]
  /\ at = "idle"
  /\ seen = NewWorkflow
  /\ target = NoAttempt
  /\ bound = 0
  /\ crashes = 0
  /\ deletes = 0

-----------------------------------------------------------------------------
(* One reconciliation of the workflow.                                      *)

Seen  == IF "lag" \in Env THEN wfCache ELSE wf

\* Status().Update succeeds on the current version only.
Fresh == Seen = wf

Proceed(stage) ==
  /\ at' = stage
  /\ UNCHANGED <<seen, target, bound>>

Return ==
  /\ at' = "idle"
  /\ seen' = NewWorkflow
  /\ target' = NoAttempt
  /\ bound' = 0

\* The last write of a reconciliation: updateWorkflowStatus re-reads the
\* workflow, changes what the caller changes and returns.
UpdateStatus(latest) ==
  /\ Fresh
  /\ wf' = latest
  /\ Return
  /\ UNCHANGED <<wfCache, inputVars, attemptVars, execVars, countVars>>

Read ==
  /\ at = "idle"
  /\ Seen.phase # "Failed"
  /\ at' = "decide"
  /\ seen' = Seen
  /\ UNCHANGED <<target, bound, wfVars, attemptVars, execVars, countVars>>

Initialize ==
  /\ at = "decide"
  /\ seen.phase = "New"
  /\ UpdateStatus([wf EXCEPT !.phase = "Pending"])

FailWorkflow == UpdateStatus([wf EXCEPT !.phase = "Failed"])

\* ensureBootstrap runs in every reconciliation, also of a workflow that has
\* succeeded: the change request must have been accepted and still be there.
AwaitBootstrap ==
  /\ at = "decide"
  /\ seen.phase # "New"
  /\ bootstrap = "pending"
  /\ Return
  /\ UNCHANGED <<wfVars, attemptVars, execVars, countVars>>

BootstrapFails ==
  /\ at = "decide"
  /\ seen.phase # "New"
  /\ bootstrap \in {"rejected", "lost"}
  /\ FailWorkflow

AlreadyDone ==
  /\ at = "decide"
  /\ seen.phase = "Succeeded"
  /\ bootstrap = "ready"
  /\ Return
  /\ UNCHANGED <<wfVars, attemptVars, execVars, countVars>>

Deciding ==
  /\ at = "decide"
  /\ seen.phase \notin {"New", "Succeeded"}
  /\ bootstrap = "ready"

\* createAttempt: the writes that follow establish attempt a.
createAttempt(a) ==
  /\ at' = "create"
  /\ target' = a
  /\ UNCHANGED <<seen, bound, wfVars, attemptVars, execVars, countVars>>

\* No attempt is active: the first step, or the one a rewind goes back to.
Begin ==
  /\ Deciding
  /\ seen.attempt = NoAttempt
  /\ createAttempt(attemptName(IF seen.step = 0 THEN 1 ELSE seen.step,
                               seen.iter, 1))

NextRetryNumber(s, i) ==
  Max({0} \cup {n \in 1..MaxTry : phase[attemptName(s, i, n)] # "Absent"}) + 1

\* The active attempt is gone.
LostAttempt ==
  /\ Deciding
  /\ seen.attempt # NoAttempt
  /\ phase[seen.attempt] = "Absent"
  /\ NextRetryNumber(seen.step, seen.iter) <= MaxTry
  /\ createAttempt(attemptName(seen.step, seen.iter,
                               NextRetryNumber(seen.step, seen.iter)))

\* The active attempt is in phase p.
Active(p) ==
  /\ Deciding
  /\ seen.attempt # NoAttempt
  /\ phase[seen.attempt] \in p

MarkAwaiting ==
  /\ Active({"AwaitingApproval"})
  /\ IF seen.phase = "AwaitingApproval"
     THEN Return /\ UNCHANGED <<wfVars, attemptVars, execVars, countVars>>
     ELSE UpdateStatus([wf EXCEPT !.phase = "AwaitingApproval"])

NothingToDo ==
  /\ Active({"Active"})
  /\ Return
  /\ UNCHANGED <<wfVars, attemptVars, execVars, countVars>>

\* Deviation: the next step gets a new attempt each time it is reached.
AdvanceAnew ==
  /\ Active({"Succeeded"})
  /\ seen.attempt.step < N
  /\ LET s == seen.attempt.step + 1
         n == NextRetryNumber(s, seen.iter)
     IN n <= MaxTry /\ createAttempt(attemptName(s, seen.iter, n))

Advance ==
  /\ Active({"Succeeded"})
  /\ seen.attempt.step < N
  /\ createAttempt(attemptName(seen.attempt.step + 1, seen.iter, 1))

\* finalStepOutputsAccepted
LastStepDone == Active({"Succeeded"}) /\ seen.attempt.step = N

Succeed ==
  /\ LastStepDone
  /\ outputs = "accepted"
  /\ UpdateStatus([wf EXCEPT !.phase = "Succeeded", !.step = 0,
                             !.attempt = NoAttempt])

RejectOutputs ==
  /\ LastStepDone
  /\ outputs = "rejected"
  /\ FailWorkflow

AwaitOutputs ==
  /\ LastStepDone
  /\ outputs = "pending"
  /\ Return
  /\ UNCHANGED <<wfVars, attemptVars, execVars, countVars>>

\* Deviation: an interrupted candidate rewinds too.
RewindPolicyAny(a) == a.step = RewindFrom

\* decideFailure: only a failed, not an interrupted, candidate rewinds.
RewindPolicy(a) == a.step = RewindFrom /\ phase[a] # "Interrupted"

\* A budget of 0 is a budget of 1.
Budget(s) == IF Plan[s].max = 0 THEN 1 ELSE Plan[s].max

MayRetry(a) ==
  phase[a] \in {"Retryable", "Interrupted"} /\ a.try < Budget(a.step)

AttemptFailed == Active({"Failed", "Retryable", "Interrupted"})

Retry ==
  /\ AttemptFailed
  /\ ~RewindPolicy(seen.attempt)
  /\ MayRetry(seen.attempt)
  /\ createAttempt(attemptName(seen.attempt.step, seen.iter,
                               seen.attempt.try + 1))

FailStep ==
  /\ AttemptFailed
  /\ IF RewindPolicy(seen.attempt) THEN seen.iter >= MaxRewinds
                                   ELSE ~MayRetry(seen.attempt)
  /\ FailWorkflow

\* Deviation: the rewind forgets where to go back to.
RewoundInPlace(a) ==
  [wf EXCEPT !.iter = @ + 1, !.attempt = NoAttempt, !.phase = "Running",
             !.trigger = a, !.observed = Nothing]

Rewound(a) ==
  [wf EXCEPT !.iter = @ + 1, !.step = RewindTo, !.attempt = NoAttempt,
             !.phase = "Running", !.trigger = a, !.observed = Nothing]

\* Deviation: the rewinds are not counted.
beginWorkflowRetryUnbounded ==
  /\ AttemptFailed
  /\ RewindPolicy(seen.attempt)
  /\ UpdateStatus(Rewound(seen.attempt))

\* A rewind that is already there is not applied again.
beginWorkflowRetry ==
  /\ AttemptFailed
  /\ RewindPolicy(seen.attempt)
  /\ seen.iter < MaxRewinds
  /\ UpdateStatus(IF /\ wf.phase \notin Terminal
                     /\ wf.attempt = seen.attempt
                     /\ wf.iter = seen.attempt.iter
                  THEN Rewound(seen.attempt) ELSE wf)

-----------------------------------------------------------------------------
(* createAttemptWithFeedback, write by write.                               *)

\* Objects that exist already are taken as they are; the uid is read back.
CreateAttempt ==
  /\ at = "create"
  /\ IF phase[target] = "Absent"
     THEN /\ phase' = [phase EXCEPT ![target] = "Active"]
          /\ uid' = [uid EXCEPT ![target] = @ + 1]
          /\ UNCHANGED ref
     ELSE UNCHANGED attemptVars
  /\ at' = "execution"
  /\ bound' = uid'[target]
  /\ UNCHANGED <<seen, target, wfVars, execVars, countVars>>

\* Deviation: the gate may have been passed in any iteration.
ApprovedInAnyIteration(a) ==
  LET gate == Plan[a.step].gate IN
  gate # 0 => \E b \in Attempts : /\ b.step = gate
                                  /\ phase[b] = "Succeeded"
                                  /\ decision[b] = "Approved"

\* ResolveRequiredApproval: the latest attempt of the gate in this iteration.
Approved(a) ==
  LET gate == Plan[a.step].gate
      tries == {n \in 1..MaxTry : phase[attemptName(gate, a.iter, n)] # "Absent"}
      b == attemptName(gate, a.iter, Max(tries))
  IN gate # 0 => /\ tries # {}
                 /\ phase[b] = "Succeeded"
                 /\ ref[b]
                 /\ exec[b] = "Succeeded"
                 /\ owner[b] = uid[b]
                 /\ decision[b] = "Approved"

CreateExecution ==
  /\ at = "execution"
  /\ Approved(target)
  /\ IF exec[target] = "Absent"
     THEN /\ exec' = [exec EXCEPT ![target] = "Waiting"]
          /\ owner' = [owner EXCEPT ![target] = bound]
          /\ made' = [made EXCEPT ![target] = @ + 1]
          /\ decision' = [decision EXCEPT ![target] = "none"]
     ELSE UNCHANGED execVars
  /\ Proceed("observe")
  /\ UNCHANGED <<wfVars, attemptVars, countVars>>

NotApproved ==
  /\ at = "execution"
  /\ ~Approved(target)
  /\ Return
  /\ UNCHANGED <<wfVars, attemptVars, execVars, countVars>>

\* recordWorkflowRetry: the first attempt of an iteration that a rewind began is
\* recorded in the workflow, which is read from the API server here, with its
\* execution, once and for all.
Replacement(a) == a.iter > 0 /\ a.step = RewindTo /\ a.try = 1

Observation == <<bound, made[target]>>

Replaces ==
  /\ exec[target] # "Absent" /\ owner[target] = bound
  /\ wf.iter = target.iter
  /\ wf.observed \in {Nothing, Observation}

RecordRetry ==
  /\ at = "observe"
  /\ IF Replacement(target)
     THEN Replaces /\ wf' = [wf EXCEPT !.observed = Observation]
     ELSE UNCHANGED wf
  /\ Proceed("reference")
  /\ UNCHANGED <<wfCache, inputVars, attemptVars, execVars, countVars>>

\* The replacement is not the one recorded, or its execution is not its own.
RetryMismatch ==
  /\ at = "observe"
  /\ Replacement(target)
  /\ ~Replaces
  /\ Return
  /\ UNCHANGED <<wfVars, attemptVars, execVars, countVars>>

\* Deviation: the attempt becomes active before its execution is authorised.
recordActiveFirst ==
  /\ at = "reference"
  /\ Proceed("status")
  /\ UNCHANGED <<wfVars, attemptVars, execVars, countVars>>

recordAttemptExecutionRef ==
  /\ at = "reference"
  /\ phase[target] # "Absent"
  /\ ref' = [ref EXCEPT ![target] = TRUE]
  /\ Proceed("status")
  /\ UNCHANGED <<wfVars, phase, uid, execVars, countVars>>

\* The attempt was deleted since it was created.
AttemptGone ==
  /\ at = "reference"
  /\ phase[target] = "Absent"
  /\ Return
  /\ UNCHANGED <<wfVars, attemptVars, execVars, countVars>>

RecordActive ==
  /\ at = "status"
  /\ UpdateStatus([wf EXCEPT !.phase = "Running", !.step = target.step,
                             !.attempt = target])

\* An error, a conflict or a controller restart between two writes.
Crash ==
  /\ crashes < MaxCrashes
  /\ at # "idle"
  /\ crashes' = crashes + 1
  /\ Return
  /\ UNCHANGED <<wfVars, attemptVars, execVars, deletes>>

-----------------------------------------------------------------------------
(* The StepAttempt controller projects the execution it is bound to.        *)

Owned(a) == exec[a] # "Absent" /\ owner[a] = uid[a] /\ phase[a] # "Absent"

Projection(a) ==
  IF exec[a] = "Absent" THEN "Interrupted"  \* ExecutionPrimitiveLost
  ELSE IF ~Owned(a) THEN "Failed"           \* InvalidDomainAuthority
  ELSE IF exec[a] = "Waiting" THEN "Active"
  ELSE IF exec[a] = "Active" /\ Plan[a.step].kind = "HumanGate"
       THEN "AwaitingApproval" ELSE exec[a]

Project(a) ==
  /\ phase[a] \in {"Active", "AwaitingApproval"}
  /\ ref[a]
  /\ Projection(a) # phase[a]
  /\ phase' = [phase EXCEPT ![a] = Projection(a)]
  /\ UNCHANGED <<wfVars, ref, uid, execVars, flightVars, countVars>>

-----------------------------------------------------------------------------
(* The executions.  An execution waits until its attempt names it, and      *)
(* fails when the attempt of that name is not its owner; a gate also fails   *)
(* when its attempt has ended.                                              *)

EndExec(a, p) ==
  /\ exec' = [exec EXCEPT ![a] = p]
  /\ UNCHANGED <<owner, made, wfVars, attemptVars, flightVars, countVars>>

Admit(a) ==
  /\ exec[a] = "Waiting"
  /\ phase[a] # "Absent"
  /\ IF Owned(a) /\ (Plan[a.step].kind = "Work" \/ phase[a] \notin Ended)
     THEN ref[a] /\ EndExec(a, "Active")
     ELSE EndExec(a, "Failed")
  /\ UNCHANGED decision

\* A run ends one way or the other; a failure may be retryable.
Finish(a) ==
  /\ exec[a] = "Active"
  /\ Plan[a.step].kind = "Work"
  /\ \E p \in Ended : EndExec(a, p)
  /\ UNCHANGED decision

\* The API server takes a decision on the gate that the workflow's status names.
\* It checks that first: by the time it writes, the workflow may be further on.
activeApproval(a) ==
  \/ wf.iter > a.iter
  \/ wf.iter = a.iter /\ (wf.step >= a.step \/ wf.phase = "Succeeded")

Decide(a) ==
  /\ exec[a] = "Active"
  /\ Plan[a.step].kind = "HumanGate"
  /\ activeApproval(a)
  /\ decision[a] = "none"
  /\ \E d \in {"Approved"} \cup (IF "deny" \in Env THEN {"Denied"} ELSE {}) :
       decision' = [decision EXCEPT ![a] = d]
  /\ UNCHANGED <<exec, owner, made, wfVars, attemptVars, flightVars, countVars>>

\* The decision is consumed only while the gate is the workflow's active one.
ActiveGate(a) ==
  /\ Owned(a) /\ ref[a]
  /\ phase[a] \notin Ended
  /\ Seen.phase \notin Terminal
  /\ Seen.attempt = a
  /\ Seen.step = a.step
  /\ Seen.iter = a.iter

resolveDecision(a) ==
  /\ exec[a] = "Active"
  /\ Plan[a.step].kind = "HumanGate"
  /\ decision[a] # "none"
  /\ EndExec(a, IF ActiveGate(a) /\ decision[a] = "Approved" THEN "Succeeded"
                                                            ELSE "Failed")
  /\ UNCHANGED decision

\* The garbage collector removes the execution of an attempt that is gone.
Collect(a) ==
  /\ exec[a] # "Absent"
  /\ phase[a] = "Absent" \/ owner[a] # uid[a]
  /\ EndExec(a, "Absent")
  /\ UNCHANGED decision

-----------------------------------------------------------------------------
(* The artifacts of the last step, the people and the watch.                *)

\* The bootstrap job has stored the change request and it has been judged.
Bootstrap ==
  /\ bootstrap = "pending"
  /\ wf.phase # "New"
  /\ bootstrap' \in {"ready"} \cup
                    (IF "reject" \in Env THEN {"rejected"} ELSE {})
  /\ UNCHANGED <<wf, wfCache, outputs, attemptVars, execVars, flightVars,
                 countVars>>

LoseInput ==
  /\ "loseInput" \in Env
  /\ bootstrap = "ready"
  /\ bootstrap' = "lost"
  /\ UNCHANGED <<wf, wfCache, outputs, attemptVars, execVars, flightVars,
                 countVars>>

AcceptOutputs ==
  /\ outputs = "pending"
  /\ \E a \in Attempts : a.step = N /\ exec[a] = "Succeeded"
  /\ outputs' \in {"accepted"} \cup
                  (IF "reject" \in Env THEN {"rejected"} ELSE {})
  /\ UNCHANGED <<wf, wfCache, bootstrap, attemptVars, execVars, flightVars, countVars>>

DeleteAttempt(a) ==
  /\ "deleteAttempt" \in Env
  /\ deletes < MaxDeletes
  /\ phase[a] # "Absent"
  /\ phase' = [phase EXCEPT ![a] = "Absent"]
  /\ ref' = [ref EXCEPT ![a] = FALSE]
  /\ deletes' = deletes + 1
  /\ UNCHANGED <<wfVars, uid, execVars, flightVars, crashes>>

DeleteExec(a) ==
  /\ "deleteExec" \in Env
  /\ deletes < MaxDeletes
  /\ exec[a] # "Absent"
  /\ exec' = [exec EXCEPT ![a] = "Absent"]
  /\ deletes' = deletes + 1
  /\ UNCHANGED <<owner, made, decision, wfVars, attemptVars, flightVars, crashes>>

Sync ==
  /\ "lag" \in Env
  /\ wfCache # wf
  /\ wfCache' = wf
  /\ UNCHANGED <<wf, inputVars, attemptVars, execVars, flightVars, countVars>>

-----------------------------------------------------------------------------
Reconcile ==
  \/ Read \/ Initialize \/ AwaitBootstrap \/ BootstrapFails \/ AlreadyDone
  \/ Begin \/ LostAttempt
  \/ MarkAwaiting \/ NothingToDo \/ Advance
  \/ Succeed \/ RejectOutputs \/ AwaitOutputs
  \/ Retry \/ FailStep \/ beginWorkflowRetry
  \/ CreateAttempt \/ CreateExecution \/ NotApproved
  \/ RecordRetry \/ RetryMismatch
  \/ recordAttemptExecutionRef \/ AttemptGone \/ RecordActive

Progress(a) == Admit(a) \/ Finish(a) \/ resolveDecision(a) \/ Collect(a)

Next ==
  \/ Reconcile \/ Crash
  \/ \E a \in Attempts : \/ Project(a) \/ Progress(a) \/ Decide(a)
                         \/ DeleteAttempt(a) \/ DeleteExec(a)
  \/ Bootstrap \/ LoseInput \/ AcceptOutputs \/ Sync

Spec == Init /\ [][Next]_vars

\* A reconciliation that returns or fails is run again, executions end, humans
\* decide, artifacts are judged, garbage is collected and watches deliver.
Fairness ==
  /\ WF_vars(Reconcile)
  /\ WF_vars(Bootstrap)
  /\ WF_vars(AcceptOutputs)
  /\ WF_vars(Sync)
  /\ \A a \in Attempts :
       /\ WF_vars(Project(a))
       /\ WF_vars(Progress(a))
       /\ WF_vars(Decide(a))

FairSpec == Spec /\ Fairness

-----------------------------------------------------------------------------
(* Properties.                                                              *)

FirstStep(i) == IF i = 0 THEN 1 ELSE RewindTo

\* Reasoning and operations of one workflow never run side by side: at most
\* one of its executions is admitted and unfinished.
OneActiveExecution ==
  \A a, b \in Attempts : exec[a] = "Active" /\ exec[b] = "Active" => a = b

\* The retry budget of a step holds over crashes and stale reads: a retry
\* exists only within the budget and only after the previous try ended in a
\* failure that may be retried.
RetriesAreEarned ==
  \A a \in Attempts : phase[a] # "Absent" /\ a.try > 1 =>
    /\ a.try <= Budget(a.step)
    /\ phase[attemptName(a.step, a.iter, a.try - 1)] \in
         {"Retryable", "Interrupted"}

\* Every iteration but the first was begun by a failure of its own of the
\* candidate: one failure never rewinds the workflow twice.
RewindsAreEarned ==
  \A i \in 1..wf.iter :
    \E a \in Attempts : /\ a.step = RewindFrom /\ a.iter = i - 1
                        /\ phase[a] \in {"Failed", "Retryable"}

\* A privileged step runs only after a human approved the gate it requires, in
\* the same iteration of the workflow (ensureDomainExecution). If the gate's
\* attempt is deleted while the operation runs and a stale reconciliation
\* creates it again, the decision is gone with the old one.
ApprovedBeforeOperation ==
  \A a \in Attempts :
    LET gate == Plan[a.step].gate IN
    exec[a] \in {"Active", "Succeeded"} /\ gate # 0 =>
      \E b \in Attempts : /\ b.step = gate /\ b.iter = a.iter
                          /\ decision[b] = "Approved"

\* A workflow that has succeeded or failed stays as it is, whatever stale copy
\* a later reconciliation starts from.
TerminalIsFinal == [][wf.phase \in Terminal => wf' = wf]_vars

\* An attempt fails only because the execution it created has failed.
FailuresAreEarned ==
  [][\A a \in Attempts : phase[a] # "Failed" /\ phase'[a] = "Failed" =>
       exec[a] = "Failed" /\ owner[a] = uid[a]]_vars

\* A gate that a human has approved does not fail.
ApprovedGatesPass ==
  \A a \in Attempts : decision[a] = "Approved" => exec[a] # "Failed"

\* Every workflow that was begun ends.
WorkflowEnds == wf.phase = "Pending" ~> wf.phase \in Terminal

Done == {<<a.step, a.iter>> : a \in {b \in Attempts : phase[b] = "Succeeded"}}

PE == INSTANCE PlanExecution
        WITH at <- IF wf.phase = "Succeeded" THEN N ELSE wf.step,
             iter <- wf.iter, done <- Done,
             outcome <- CASE wf.phase = "Succeeded" -> "succeeded"
                          [] wf.phase = "Failed" -> "failed"
                          [] OTHER -> "open"

\* The plan is executed as promised: in order, with bounded rewinds, and the
\* workflow succeeds only when its last step has.
ImplementsPlanExecution == PE!Spec
=============================================================================
