-------------------------- MODULE LineageEvidence --------------------------
(***************************************************************************)
(* Who writes the audit log, and when: the workflow controller that        *)
(* creates attempts and rewinds, the agents and operations that leave a    *)
(* receipt before they act, the API server and the approval controller     *)
(* between which a human decision passes.  Every one of them may be cut    *)
(* short between two writes, and repeats itself.                           *)
(*                                                                         *)
(* The workflow has three steps: an author whose candidate is reviewed at  *)
(* a gate and then pushed.  A failed push rewinds to the author.           *)
(***************************************************************************)
EXTENDS AuditLog, Sequences

CONSTANTS
  Users,         \* members of a group the gate requires
  MaxIteration,  \* workflow attempts
  Reviews,       \* the workflow attempts whose gate each user answers
  MaxFaults,     \* how often work is cut short or an event happens
  Env            \* which of EnvEvents may happen

EnvEvents == {"deleteAttempt",      \* somebody deletes an attempt
              "deleteReplacement",  \* ... one that replaces a rewound one
              "failWorkflow"}       \* the workflow fails for another reason

ASSUME EvidenceAssumption ==
  /\ MaxIteration \in Nat \ {0} /\ MaxFaults \in Nat
  /\ Env \subseteq EnvEvents /\ Reviews \in [Users -> SUBSET (1 .. MaxIteration)]

Steps == <<"author", "gate", "push">>
None == <<>>
Choices == {"Approved", "Denied"}

VARIABLES
  log,        \* the audit log
  snapshots,  \* the units whose initial context is stored
  artifacts,  \* the authors whose candidate is kept, at most one per iteration
  wf,         \* the status of the workflow
  objects,    \* the attempts that exist, with their executions
  born,       \* every attempt ever created
  decisions,  \* the ApprovalDecision of a gate, never looked up once it is gone
  pc,         \* where each controller is
  session,    \* what the API server does for each user
  reply,      \* the last decision each user was told is recorded
  faults      \* what has gone wrong so far

outside == <<session, reply, artifacts>>
vars == <<log, snapshots, wf, objects, born, decisions, pc, outside, faults>>

Controllers == {"workflow", "attempt", "approval", "agent", "utility"}
Idle == [at |-> "idle", unit |-> None]
NoSession == [at |-> "idle", gate |-> None, choice |-> "Approved"]
NoReply == [gate |-> None, choice |-> "Approved"]

At(c, place) == pc[c].at = place
Goes(c, place, u) == pc' = [pc EXCEPT ![c] = [at |-> place, unit |-> u]]

Exists(u) == u \in DOMAIN objects
Becomes(u, o) == objects' = [x \in DOMAIN objects \cup {u} |-> IF x = u THEN o ELSE objects[x]]
Named(n) == {u \in DOMAIN objects : Name(u) = n}
Candidate(i) == <<"candidate", i>>
Pins(u) == IF u[1] = "author" THEN {<<"change", 0>>} ELSE {Candidate(u[2])}
Terminal == {"Succeeded", "Failed"}

\* An unborn execution of an unpublished attempt.
Fresh ==
  [phase |-> "Pending", attempt |-> "open", ref |-> FALSE, decided |-> FALSE,
   binding |-> None, policy |-> FALSE, job |-> "none"]

Init ==
  /\ log = EmptyLog /\ snapshots = {} /\ artifacts = {}
  /\ objects = [u \in {} |-> Fresh] /\ born = {}
  /\ wf = [stage |-> "author", iter |-> 1, active |-> None, recovery |-> None,
           observed |-> None, phase |-> "Running"]
  /\ decisions = [g \in {} |-> NoReply]
  /\ pc = [c \in Controllers |-> Idle]
  /\ session = [u \in Users |-> NoSession] /\ reply = [u \in Users |-> NoReply]
  /\ faults = 0

-----------------------------------------------------------------------------
(* The workflow controller.                                                *)

Running == wf.phase = "Running"

Fault == faults < MaxFaults /\ faults' = faults + 1

Index(stage) == CHOOSE k \in 1 .. Len(Steps) : Steps[k] = stage

\* The step whose attempt the controller creates next.
Target ==
  IF \E a \in Named(wf.active) : objects[a].attempt = "Succeeded"
  THEN Steps[Index(wf.stage) + 1] ELSE wf.stage

\* An attempt is due: the first of a step, or one for a deleted attempt.
AttemptDue ==
  \/ Named(wf.active) = {}
  \/ wf.stage # "push" /\ \E a \in Named(wf.active) : objects[a].attempt = "Succeeded"

RecoveryEvent ==
  [target |-> Name(wf.recovery.trigger), trigger |-> wf.recovery.trigger,
   next |-> <<"author", wf.iter>>, previous |-> wf.recovery.previous,
   events |-> wf.recovery.events, missing |-> wf.recovery.missing]

DecisionID == RecoveryID(wf.recovery.trigger, wf.iter)

\* The decision of the last rewind is appended before anything else.
recordWorkflowRecovery ==
  log' = IF wf.recovery = None THEN log ELSE AppendEvent(log, DecisionID, RecoveryEvent)

StartReconcile ==
  /\ At("workflow", "idle") /\ wf.phase # "Failed"
  /\ recordWorkflowRecovery
  /\ IF Running /\ AttemptDue THEN Goes("workflow", "create", None) ELSE pc' = pc
  /\ UNCHANGED <<snapshots, wf, objects, born, decisions, outside, faults>>

\* The decision that allows a push: of the gate of this iteration, admitted,
\* approved, and about the artifact that would be pushed.
Approves(g) ==
  /\ Exists(g) /\ Name(g) = <<"gate", wf.iter>>
  /\ objects[g].attempt = "Succeeded" /\ objects[g].phase = "Succeeded"
  /\ objects[g].decided /\ g \in DOMAIN decisions /\ decisions[g].choice = "Approved"
  /\ Candidate(wf.iter) \in Pins(g)

Submitted(g) == UnitID("ApprovalDecisionSubmitted", g)
Admitted(g) == UnitID("ApprovalDecisionAdmitted", g)

SubmissionEvent(g) ==
  [request |-> g, user |-> decisions[g].user, choice |-> decisions[g].choice,
   reviewed |-> Pins(g), input |-> NameID("InputsResolved", g), submission |-> None]

RecordApprovalSubmission(l, g) == AppendEvent(l, Submitted(g), SubmissionEvent(g))

RecordApprovalAdmission(l, g) ==
  AppendEvent(RecordApprovalSubmission(l, g), Admitted(g),
              [SubmissionEvent(g) EXCEPT !.submission = Submitted(g)])

ResolvedApproval(g) ==
  [request |-> g, admission |-> Admitted(g), subject |-> Candidate(wf.iter)]

\* The attempt of a name, found or made, which gets a new UID each time.
NewAttempt(n) == <<n[1], n[2], Cardinality({b \in born : Name(b) = n}) + 1>>

AttemptFor(n) == IF Named(n) = {} THEN NewAttempt(n) ELSE CHOOSE x \in Named(n) : TRUE

\* The gate and the push take the candidate of an author that has succeeded.
inputCandidateForArtifact ==
  Target # "author" =>
    \E a \in Named(<<"author", wf.iter>>) : objects[a].attempt = "Succeeded"

\* The attempt is created with its execution.
CreateAttempt ==
  /\ At("workflow", "create") /\ inputCandidateForArtifact
  /\ LET u == AttemptFor(<<Target, wf.iter>>)
         binds(o) == IF Exists(u) THEN objects' = objects ELSE Becomes(u, o)
     IN  /\ born' = born \cup {u}
         /\ Goes("workflow", "observe", u)
         /\ \/ Target # "push" /\ binds(Fresh) /\ log' = log
            \/ /\ Target = "push"
               /\ \E g \in DOMAIN objects :
                    /\ Approves(g)
                    /\ binds([Fresh EXCEPT !.binding = ResolvedApproval(g)])
                    /\ log' = RecordApprovalAdmission(log, g)
  /\ UNCHANGED <<snapshots, wf, decisions, outside, faults>>

\* The replacement of a rewind is observed before it gets authority; another
\* one under the same name is refused, for as long as the observation stands.
Replaces(u) == wf.recovery # None /\ u[1] = "author"

\* Deviation: an observation that is there is not recognised as one's own.
MayObserveOnce(u) == wf.observed = None

MayObserve(u) == wf.observed \in {None, u}

persistRetryObservation ==
  /\ At("workflow", "observe")
  /\ LET u == pc["workflow"].unit IN
       /\ Exists(u)
       /\ IF Replaces(u)
          THEN /\ MayObserve(u)
               /\ wf' = [wf EXCEPT !.observed = u]
               /\ Goes("workflow", "retry", u)
          ELSE wf' = wf /\ Goes("workflow", "publish", u)
  /\ UNCHANGED <<log, snapshots, objects, born, decisions, outside, faults>>

recordWorkflowRetry ==
  /\ At("workflow", "retry")
  /\ LET u == pc["workflow"].unit IN
       /\ log' = AppendEvent(log, RetryID(DecisionID, u),
                   [attempt |-> u, trigger |-> wf.recovery.trigger, decision |-> DecisionID,
                    previous |-> wf.recovery.previous, inputs |-> Pins(u)])
       /\ Goes("workflow", "publish", u)
  /\ UNCHANGED <<snapshots, wf, objects, born, decisions, outside, faults>>

recordAttemptExecutionRef ==
  /\ At("workflow", "publish")
  /\ LET u == pc["workflow"].unit IN
       /\ Exists(u)
       /\ Becomes(u, [objects[u] EXCEPT !.ref = TRUE])
       /\ Goes("workflow", "activate", u)
  /\ UNCHANGED <<log, snapshots, wf, born, decisions, outside, faults>>

Activate ==
  /\ At("workflow", "activate")
  /\ wf' = IF Running
           THEN [wf EXCEPT !.stage = pc["workflow"].unit[1],
                              !.active = Name(pc["workflow"].unit)]
           ELSE wf
  /\ Goes("workflow", "idle", None)
  /\ UNCHANGED <<log, snapshots, objects, born, decisions, outside, faults>>

\* What the rewind can prove about itself is fixed when it is chosen.
FailureEvents(failed) == {NameID("StepAttemptFailed", failed)} \cap DOMAIN log

\* The failed push took the candidate of its iteration, which names its author.
Producers(failed) == {a \in artifacts : Name(a) = <<"author", failed[2]>>}

captureWorkflowRecovery(failed) ==
  LET found == FailureEvents(failed)
      authors == {a \in Producers(failed) : Exists(a)}
  IN  [trigger |-> failed, events |-> found,
       previous |-> IF authors = {} THEN None ELSE CHOOSE a \in authors : TRUE,
       missing |-> (IF found = {} THEN {"failure event"} ELSE {})
                   \cup (IF authors = {} THEN {"prior attempt"} ELSE {})]

\* A producer that was deleted and created again is not the one the candidate
\* names: the path is refused, and with it the rewind.
recoveryInputPath(failed) == \A a \in Producers(failed) : Exists(a) \/ Named(Name(a)) = {}

Conclude ==
  /\ At("workflow", "idle") /\ Running
  /\ \E a \in Named(wf.active) :
       LET phase == objects[a].attempt
           rewind == a[1] = "push" /\ wf.iter < MaxIteration
       IN  \/ /\ phase = "Failed" /\ rewind /\ recoveryInputPath(a)
              /\ wf' = [wf EXCEPT !.stage = "author", !.iter = @ + 1, !.active = None,
                                  !.recovery = captureWorkflowRecovery(a), !.observed = None]
           \/ /\ phase = "Failed" /\ ~ rewind
              /\ wf' = [wf EXCEPT !.phase = "Failed"]
           \/ /\ phase = "Succeeded" /\ a[1] = "push"
              /\ wf' = [wf EXCEPT !.phase = "Succeeded", !.active = None]
  /\ UNCHANGED <<log, snapshots, objects, born, decisions, pc, outside, faults>>

\* What stands in the way is found again by every later reconciliation.
WorkflowErrs ==
  /\ LET u == pc["workflow"].unit IN
       \/ At("workflow", "create") /\ ~ inputCandidateForArtifact
       \/ /\ At("workflow", "create") /\ Target = "push"
          /\ ~ \E g \in DOMAIN objects : Approves(g)
       \/ /\ At("workflow", "observe")
          /\ ~ Exists(u) \/ (Replaces(u) /\ wf.observed \notin {None, u})
       \/ At("workflow", "publish") /\ ~ Exists(u)
  /\ Goes("workflow", "idle", None)
  /\ UNCHANGED <<log, snapshots, wf, objects, born, decisions, outside, faults>>

Workflow ==
  \/ StartReconcile \/ CreateAttempt \/ persistRetryObservation \/ recordWorkflowRetry
  \/ recordAttemptExecutionRef \/ Activate \/ Conclude \/ WorkflowErrs

-----------------------------------------------------------------------------
(* The StepAttempt controller copies the end of an execution to the        *)
(* attempt; the event of a failure follows, once.                          *)

ObserveEnd ==
  /\ At("attempt", "idle")
  /\ \E u \in DOMAIN objects :
       /\ objects[u].ref /\ objects[u].attempt = "open" /\ objects[u].phase \in Terminal
       /\ Becomes(u, [objects[u] EXCEPT !.attempt = objects[u].phase])
       /\ IF objects[u].phase = "Failed" THEN Goes("attempt", "failed", u) ELSE pc' = pc
  /\ UNCHANGED <<log, snapshots, wf, born, decisions, outside, faults>>

appendPhaseEvent ==
  /\ At("attempt", "failed")
  /\ LET u == pc["attempt"].unit IN
       log' = AppendEvent(log, NameID("StepAttemptFailed", u), [target |-> Name(u)])
  /\ Goes("attempt", "idle", None)
  /\ UNCHANGED <<snapshots, wf, objects, born, decisions, outside, faults>>

-----------------------------------------------------------------------------
(* The approval controller.                                                *)

\* The gate is the attempt the workflow waits for.
HasAuthority(u) == Exists(u) /\ objects[u].ref /\ objects[u].attempt = "open"
IsActive(u) == HasAuthority(u) /\ wf.active = Name(u) /\ Running

InputsEvent(u) == [consumer |-> u, inputs |-> Pins(u)]

ResolveGateInputs ==
  /\ At("approval", "idle")
  /\ \E g \in DOMAIN objects :
       /\ g[1] = "gate" /\ objects[g].phase = "Pending" /\ HasAuthority(g)
       /\ log' = AppendEvent(log, NameID("InputsResolved", g), InputsEvent(g))
       /\ Goes("approval", "await", g)
  /\ UNCHANGED <<snapshots, wf, objects, born, decisions, outside, faults>>

\* A status write finds the request as it was read, or changes nothing.
Writes(g, from, o) ==
  IF Exists(g) /\ objects[g].phase = from THEN Becomes(g, o) ELSE objects' = objects

setAwaiting ==
  /\ At("approval", "await")
  /\ LET g == pc["approval"].unit
     IN  Writes(g, "Pending", [objects[g] EXCEPT !.phase = "Awaiting"])
  /\ Goes("approval", "idle", None)
  /\ UNCHANGED <<log, snapshots, wf, born, decisions, outside, faults>>

\* A decision is consumed only for the active gate, and is recorded as
\* submitted before the request shows it.
resolveDecision ==
  /\ At("approval", "idle")
  /\ \E g \in DOMAIN objects \cap DOMAIN decisions :
       /\ objects[g].phase = "Awaiting"
       /\ \/ /\ IsActive(g)
             /\ log' = RecordApprovalSubmission(log, g)
             /\ Goes("approval", "decide", g) /\ objects' = objects
          \/ /\ ~ IsActive(g)
             /\ Becomes(g, [objects[g] EXCEPT !.phase = "Failed"])
             /\ UNCHANGED <<log, pc>>
  /\ UNCHANGED <<snapshots, wf, born, decisions, outside, faults>>

finishApproval ==
  /\ At("approval", "decide")
  /\ LET g == pc["approval"].unit
         phase == IF decisions[g].choice = "Approved" THEN "Succeeded" ELSE "Failed"
     IN  /\ Writes(g, "Awaiting", [objects[g] EXCEPT !.phase = phase, !.decided = TRUE])
         /\ Goes("approval", "idle", None)
  /\ UNCHANGED <<log, snapshots, wf, born, decisions, outside, faults>>

\* Reconciling a finished request appends its admission if it is missing.
recordAdmittedDecision ==
  /\ At("approval", "idle")
  /\ \E g \in DOMAIN objects \cap DOMAIN decisions :
       /\ objects[g].decided
       /\ Admitted(g) \notin DOMAIN log
       /\ log' = RecordApprovalAdmission(log, g)
  /\ UNCHANGED <<snapshots, wf, objects, born, decisions, pc, outside, faults>>

Approval ==
  \/ ResolveGateInputs \/ setAwaiting \/ resolveDecision \/ finishApproval
  \/ recordAdmittedDecision

-----------------------------------------------------------------------------
(* The API server.                                                         *)

\* The gate that waits, or whose decision is already there.  A user asks again
\* until told that the answer is recorded.
activeApproval(u, choice) ==
  /\ session[u].at = "idle"
  /\ \E g \in DOMAIN objects :
       /\ g[1] = "gate" /\ g[2] \in Reviews[u] /\ IsActive(g) /\ reply[u].gate # g
       /\ objects[g].phase = "Awaiting" \/ g \in DOMAIN decisions
       /\ session' = [session EXCEPT ![u] = [at |-> "read", gate |-> g, choice |-> choice]]
  /\ UNCHANGED <<log, snapshots, wf, objects, born, decisions, pc, reply, artifacts, faults>>

\* Deviation: the last decision replaces the one that is there.
LastDecision(g, mine) == mine

\* Deviation: any decision that is there answers for the user's.
AnyDecision(stored, mine) == TRUE

SameDecision(stored, mine) == stored = mine

\* One decision per request: the first one created stays.
DecisionFor(g, mine) == IF g \in DOMAIN decisions THEN decisions[g] ELSE mine

\* Only the author of a decision may submit it again.
SubmitApproval(u) ==
  /\ session[u].at = "read"
  /\ LET g == session[u].gate
         mine == [user |-> u, choice |-> session[u].choice]
     IN  /\ decisions' = [x \in DOMAIN decisions \cup {g} |->
                            IF x = g THEN DecisionFor(g, mine) ELSE decisions[x]]
         /\ session' = [session EXCEPT ![u] =
              IF SameDecision(decisions'[g], mine) THEN [@ EXCEPT !.at = "record"] ELSE NoSession]
  /\ UNCHANGED <<log, snapshots, wf, objects, born, pc, reply, artifacts, faults>>

recordApprovalSubmission(u) ==
  /\ session[u].at = "record"
  /\ log' = RecordApprovalSubmission(log, session[u].gate)
  /\ reply' = [reply EXCEPT ![u] = [gate |-> session[u].gate, choice |-> session[u].choice]]
  /\ session' = [session EXCEPT ![u] = NoSession]
  /\ UNCHANGED <<snapshots, wf, objects, born, decisions, pc, artifacts, faults>>

Serve(u) ==
  \/ \E choice \in Choices : activeApproval(u, choice)
  \/ SubmitApproval(u) \/ recordApprovalSubmission(u)

-----------------------------------------------------------------------------
(* Agent runs: three events before the pod, and a stored context before    *)
(* the first inference.                                                    *)

Authority(u) == NameID("ExecutionAuthorityEstablished", u)

\* Deviation: the authority is named with the UID its event's id leaves out.
AgentEventsByUID(u) ==
  << [id |-> NameID("InputsResolved", u), event |-> InputsEvent(u)],
     [id |-> Authority(u), event |-> [primitive |-> u]],
     [id |-> NameID("AgentExecutionAuthorized", u),
      event |-> [primitive |-> u, authority |-> UnitID("ExecutionAuthorityEstablished", u),
                 input |-> NameID("InputsResolved", u)]] >>

\* The events an agent run needs before its pod, in order.
AgentEvents(u) ==
  << [id |-> NameID("InputsResolved", u), event |-> InputsEvent(u)],
     [id |-> Authority(u), event |-> [primitive |-> u]],
     [id |-> NameID("AgentExecutionAuthorized", u),
      event |-> [primitive |-> u, authority |-> Authority(u),
                 input |-> NameID("InputsResolved", u)]] >>

\* The same for an operation, whose inputs alone are named without its UID.
UtilityEvents(u) ==
  LET admission == UnitID("UtilityOperationAdmitted", u)
      established == UnitID("ExecutionAuthorityEstablished", u)
      resolved == NameID("InputsResolved", u)
  IN  << [id |-> established, event |-> [primitive |-> u]],
         [id |-> resolved, event |-> InputsEvent(u)],
         [id |-> UnitID("UtilityExecutionAuthorized", u),
          event |-> [primitive |-> u, evidence |-> {admission}, authority |-> established,
                     input |-> resolved]] >>

StartAgent ==
  /\ At("agent", "idle")
  /\ \E u \in DOMAIN objects :
       /\ u[1] = "author" /\ HasAuthority(u) /\ objects[u].job = "none"
       /\ Goes("agent", "1", u)
  /\ UNCHANGED <<log, snapshots, wf, objects, born, decisions, outside, faults>>

Places == <<"1", "2", "3", "job">>

\* The next event of a list, each appended before the next step is taken.
AppendNext(c, events) ==
  \E k \in 1 .. 3 :
    /\ At(c, Places[k])
    /\ log' = AppendEvent(log, events[k].id, events[k].event)
    /\ Goes(c, Places[k + 1], pc[c].unit)
    /\ UNCHANGED <<snapshots, wf, objects, born, decisions, outside, faults>>

\* The pod or job is created, and found again if it was.
ensureWorkload(c) ==
  /\ At(c, "job")
  /\ LET u == pc[c].unit
     IN  IF Exists(u) THEN Becomes(u, [objects[u] EXCEPT !.job = "running"])
         ELSE objects' = objects
  /\ Goes(c, "idle", None)
  /\ UNCHANGED <<log, snapshots, wf, born, decisions, outside, faults>>

Agent == StartAgent \/ AppendNext("agent", AgentEvents(pc["agent"].unit)) \/ ensureWorkload("agent")

\* An agent without a stored context fails.
Unsaved(u) == [objects EXCEPT ![u].phase = "Failed", ![u].job = "ended"]

\* The bytes and their receipt are written in one transaction.  An upload that
\* is not acknowledged is repeated, or gives the run up; a refused one does.
StoreContextSnapshot(u, acknowledged) ==
  /\ Exists(u) /\ u[1] = "author" /\ objects[u].job = "running"
  /\ faults' = faults + (IF acknowledged THEN 0 ELSE 1) /\ faults' <= MaxFaults
  /\ IF IsActive(u)
     THEN /\ snapshots' = snapshots \cup {u}
          /\ log' = AppendEvent(log, UnitID("ContextSnapshotSaved", u), [attempt |-> u])
          /\ objects' = IF acknowledged
                        THEN [objects EXCEPT ![u].job = "inferring"] ELSE objects
     ELSE /\ objects' = Unsaved(u)
          /\ UNCHANGED <<log, snapshots>>
  /\ UNCHANGED <<wf, born, decisions, pc, outside>>

\* An agent that heard nothing three times has used up its uploads.
GiveUp(u) ==
  /\ Exists(u) /\ u[1] = "author" /\ objects[u].job = "running"
  /\ Fault
  /\ objects' = Unsaved(u)
  /\ UNCHANGED <<log, snapshots, wf, born, decisions, pc, outside>>

\* The agent or the operation ends; a push may fail.  The candidate of an author
\* that was created again replaces none: it is the same, or is not collected.
WorkEnds(u) ==
  /\ Exists(u)
  /\ \E phase \in Terminal :
       /\ objects' = [objects EXCEPT ![u].phase = phase, ![u].job = "ended"]
       /\ \/ /\ objects[u].job = "inferring"
             /\ phase = "Failed" => Producers(u) # {}
             /\ artifacts' = artifacts \cup (IF Producers(u) = {} THEN {u} ELSE {})
          \/ u[1] = "push" /\ objects[u].job = "running" /\ artifacts' = artifacts
  /\ UNCHANGED <<log, snapshots, wf, born, decisions, pc, session, reply, faults>>

-----------------------------------------------------------------------------
(* Utility operations.                                                     *)

\* The approval is resolved again and must be the one the operation carries.
ValidateOperationApproval(u) ==
  /\ HasAuthority(u) /\ u[2] = wf.iter
  /\ \E g \in DOMAIN objects :
       /\ Approves(g) /\ objects[u].binding = ResolvedApproval(g)
       /\ log' = RecordApprovalAdmission(log, g)

\* An operation is admitted until its admission is in the log and its policy
\* decision in its status.
ensureValidOperation ==
  /\ At("utility", "idle")
  /\ \E u \in DOMAIN objects :
       /\ u[1] = "push" /\ objects[u].job = "none" /\ objects[u].phase = "Pending"
       /\ ValidateOperationApproval(u)
       /\ Goes("utility", IF /\ objects[u].policy
                             /\ UnitID("UtilityOperationAdmitted", u) \in DOMAIN log
                          THEN "1" ELSE "admit", u)
  /\ UNCHANGED <<snapshots, wf, objects, born, decisions, outside, faults>>

appendAdmission ==
  /\ At("utility", "admit")
  /\ LET u == pc["utility"].unit IN
       /\ Exists(u)
       /\ \/ /\ log' = AppendEvent(log, UnitID("UtilityOperationAdmitted", u),
                        [primitive |-> u, binding |-> objects[u].binding,
                         evidence |-> {objects[u].binding.admission}])
             /\ Goes("utility", "policy", u) /\ objects' = objects
          \/ /\ log' = AppendEvent(log, UnitID("UtilityOperationRejected", u), [primitive |-> u])
             /\ Goes("utility", "idle", None)
             /\ Becomes(u, [objects[u] EXCEPT !.phase = "Failed"])
  /\ UNCHANGED <<snapshots, wf, born, decisions, outside, faults>>

recordPolicyDecision ==
  /\ At("utility", "policy")
  /\ LET u == pc["utility"].unit
     IN  /\ Exists(u)
         /\ Becomes(u, [objects[u] EXCEPT !.policy = TRUE])
         /\ Goes("utility", "1", u)
  /\ UNCHANGED <<log, snapshots, wf, born, decisions, outside, faults>>

Utility ==
  \/ ensureValidOperation \/ appendAdmission \/ recordPolicyDecision
  \/ AppendNext("utility", UtilityEvents(pc["utility"].unit)) \/ ensureWorkload("utility")

-----------------------------------------------------------------------------
(* The environment.                                                        *)

\* A refused append, a conflict or a restart ends a reconciliation or a call;
\* only what has been written stays.
CutShort ==
  /\ Fault
  /\ \/ \E c \in Controllers :
          ~ At(c, "idle") /\ Goes(c, "idle", None) /\ session' = session
     \/ \E u \in Users :
          /\ session[u].at # "idle"
          /\ session' = [session EXCEPT ![u] = NoSession] /\ pc' = pc
  /\ UNCHANGED <<log, snapshots, wf, objects, born, decisions, reply, artifacts>>

\* A controller whose unit is gone reads an error and starts over.
Vanished ==
  /\ At("utility", "admit") \/ At("utility", "policy")
  /\ ~ Exists(pc["utility"].unit)
  /\ Goes("utility", "idle", None)
  /\ UNCHANGED <<log, snapshots, wf, objects, born, decisions, outside, faults>>

IsReplacement(u) == wf.observed = u

\* Deleting an attempt deletes its execution, its request and its job.
Intervene ==
  /\ Fault
  /\ \/ /\ \E u \in DOMAIN objects :
             /\ (IF IsReplacement(u) THEN "deleteReplacement" ELSE "deleteAttempt") \in Env
             /\ objects' = [x \in DOMAIN objects \ {u} |-> objects[x]]
        /\ wf' = wf
     \/ /\ "failWorkflow" \in Env /\ Running
        /\ wf' = [wf EXCEPT !.phase = "Failed"] /\ objects' = objects
  /\ UNCHANGED <<log, snapshots, born, decisions, pc, outside>>

Next ==
  \/ Workflow \/ ObserveEnd \/ appendPhaseEvent \/ Approval \/ Agent \/ Utility
  \/ Vanished \/ CutShort \/ Intervene
  \/ \E u \in Users : Serve(u)
  \/ \E u \in born : \/ \E heard \in BOOLEAN : StoreContextSnapshot(u, heard)
                     \/ GiveUp(u) \/ WorkEnds(u)

Spec == Init /\ [][Next]_vars

\* Controllers requeue what they have not finished; agents and jobs run.
Fairness ==
  /\ WF_vars(Workflow) /\ WF_vars(ObserveEnd) /\ WF_vars(appendPhaseEvent)
  /\ WF_vars(Approval) /\ WF_vars(Agent) /\ WF_vars(Utility \/ Vanished)
  /\ WF_vars(\E u \in born : StoreContextSnapshot(u, TRUE) \/ WorkEnds(u))

FairSpec == Spec /\ Fairness

-----------------------------------------------------------------------------
(* Properties.                                                             *)

\* Every variable holds a value of its type: the attempts that exist were
\* created once, and each controller works for one of them.
TypeOK ==
  /\ DOMAIN objects \subseteq born /\ DOMAIN decisions \subseteq born
  /\ artifacts \subseteq snapshots /\ snapshots \subseteq born
  /\ \A n \in {Name(u) : u \in born} : Cardinality(Named(n)) <= 1
  /\ wf.iter \in 1 .. MaxIteration
  /\ wf.active \in {Name(u) : u \in born} \cup {None}
  /\ wf.observed \in born \cup {None}
  /\ \A c \in Controllers : pc[c].unit \in born \cup {None}
  /\ faults \in 0 .. MaxFaults

\* The log never names an event it does not hold: what an event refers to was
\* appended before it, whatever was cut short in between (approval.go:75-109,
\* recovery_audit.go:213-325, utilityoperation_controller.go:536-560).
References(e) ==
  IF e[1] = "ApprovalDecisionAdmitted" THEN {log[e].submission, log[e].input}
  ELSE IF e[1] = "UtilityOperationAdmitted" THEN log[e].evidence
  ELSE IF e[1] = "UtilityExecutionAuthorized" THEN
     log[e].evidence \cup {log[e].authority, log[e].input}
  ELSE IF e[1] = "AgentExecutionAuthorized" THEN {log[e].authority, log[e].input}
  ELSE IF e[1] = "RecoveryDecisionSelected" THEN log[e].events
  ELSE IF e[1] = "StepAttemptRetried" THEN {log[e].decision} ELSE {}

CausesComeFirst == \A e \in DOMAIN log : References(e) \subseteq DOMAIN log

\* Recreated units share the ids of events that hold only their name.
Recreated(u) == u[3] > 1 \/ \E b \in born : Name(b) = Name(u) /\ b[3] > 1

\* A push runs only if the log already explains it: its approval's story is
\* linked from the submission to the authorized inputs.
JobIsExplained ==
  \A u \in DOMAIN objects :
    u[1] = "push" /\ objects[u].job # "none" =>
      LET g == objects[u].binding.request
      IN  \/ Recreated(u) \/ Recreated(g)
          \/ /\ Admitted(g) \in DOMAIN log
             /\ issue(approval(log, Admitted(g))) = "linked"

\* No story is shown as contradictory while every attempt was created once:
\* what repeated, late and interrupted writers leave never disagrees.
NoFalseMismatch ==
  (\A u \in born : u[3] = 1) =>
    LET stories == BuildProjection(log)
    IN  \A root \in DOMAIN stories : stories[root] # Mismatch

\* A replacement that succeeded is explained, but for the gaps its decision
\* declared when it was chosen.
ReplacementIsExplained ==
  \A root \in OfType(log, "StepAttemptRetried") :
    LET u == log[root].attempt
        d == log[root].decision
    IN  Exists(u) /\ objects[u].phase = "Succeeded" /\ ~ Recreated(u) =>
          \/ d \in DOMAIN log /\ log[d].missing # {}
          \/ issue(recovery(log, root)) = "linked"

\* A user told that a decision is recorded finds it in the log as given, and a
\* push was approved in the iteration whose candidate it pushes: no other
\* user's answer, and no earlier iteration's, is taken for it.
AnswersStand ==
  /\ \A u \in Users : reply[u].gate # None =>
       /\ Submitted(reply[u].gate) \in DOMAIN log
       /\ log[Submitted(reply[u].gate)].user = u
       /\ log[Submitted(reply[u].gate)].choice = reply[u].choice
  /\ \A u \in DOMAIN objects : u[1] = "push" /\ objects[u].job # "none" =>
       /\ objects[u].binding.subject = Candidate(u[2])
       /\ log[objects[u].binding.admission].choice = "Approved"
       /\ log[objects[u].binding.admission].reviewed = {Candidate(u[2])}

\* An agent infers only from a context that is stored and in the log.
ContextBeforeInference ==
  \A u \in DOMAIN objects : u[1] = "author" /\ objects[u].job = "inferring" =>
    u \in snapshots /\ UnitID("ContextSnapshotSaved", u) \in DOMAIN log

\* The gates whose decision is consumed and not yet admitted to the log.
Unadmitted == {g \in DOMAIN objects : objects[g].decided /\ Admitted(g) \notin DOMAIN log}

\* A consumed decision is admitted to the log, unless its gate is deleted first
\* (approvalrequest_controller.go:57-62).
DecisionsAreAdmitted == (Unadmitted # {}) ~> (Unadmitted = {})

\* The workflow waits for an attempt that its execution knows of.
Waiting == \E a \in Named(wf.active) : objects[a].ref

\* The author whose candidate the next attempt needs was deleted.
Starved == ~ inputCandidateForArtifact

\* A workflow whose attempt is not created, or not published, gets one that is,
\* unless its input is gone: a rewind never stalls on what it recorded before
\* (recovery_audit.go:277-312).
RewindProceeds == (Running /\ ~ Waiting) ~> (~ Running \/ Waiting \/ Starved)

\* No two occurrences share an id: whenever a gate waits for a decision, the
\* log holds its own inputs.
EventsAreUnique ==
  \A g \in DOMAIN objects : g[1] = "gate" /\ objects[g].phase = "Awaiting" =>
    log[NameID("InputsResolved", g)].consumer = g

\* The log explains what has been done: causes precede their effects, and no
\* job, replacement or inference is without its story.
LogExplains == /\ TypeOK
               /\ CausesComeFirst
               /\ JobIsExplained
               /\ ReplacementIsExplained
               /\ ContextBeforeInference

\* Evidence that is missing after an interruption is supplied, and does not
\* stop the workflow.
EvidenceConverges == DecisionsAreAdmitted /\ RewindProceeds
=============================================================================
