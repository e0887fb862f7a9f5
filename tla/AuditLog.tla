------------------------------ MODULE AuditLog ------------------------------
(***************************************************************************)
(* The audit log and the two stories projected from it.                    *)
(*                                                                         *)
(* A unit is an attempt of a step with its execution: <<step, iteration,   *)
(* incarnation>>.  The Kubernetes UID stands for all three; the name only  *)
(* for the first two, since an attempt deleted and created again keeps its *)
(* name.  An event is found by its id, which some writers make from the    *)
(* UID of the unit and others from its name.                               *)
(***************************************************************************)
EXTENDS Naturals, FiniteSets

Name(u) == <<u[1], u[2]>>

\* The identity of an event about a unit, with and without the unit's UID.
UnitID(type, u) == <<type, u>>
NameID(type, u) == <<type, Name(u)>>

\* The identity of a rewind's decision and of the replacement it led to.
RecoveryID(trigger, iteration) == <<"RecoveryDecisionSelected", trigger, iteration>>
RetryID(decision, u) == <<"StepAttemptRetried", decision, u>>

EmptyLog == [id \in {} |-> id]

\* The first event with an id is kept and every later one is dropped.
AppendEvent(log, id, event) ==
  [x \in DOMAIN log \cup {id} |-> IF x \in DOMAIN log THEN log[x] ELSE event]

OfType(log, type) == {id \in DOMAIN log : id[1] = type}

-----------------------------------------------------------------------------
(* Stories: a set of issues, and the status they amount to.                *)

Missing == "missing evidence"
Mismatch == "evidence mismatch"

issue(issues) ==
  IF Mismatch \in issues THEN Mismatch
  ELSE IF Missing \in issues THEN Missing ELSE "linked"

\* An event another one names: it must be there, and must agree.
source(log, id, agrees) ==
  IF id \notin DOMAIN log THEN {Missing} ELSE IF agrees THEN {} ELSE {Mismatch}

inputs(log, id, consumer, pins) ==
  source(log, id, log[id].consumer = consumer /\ log[id].inputs = pins)

authority(log, id, primitive) == source(log, id, log[id].primitive = primitive)

\* The admissions that name this approval, and the executions they authorized.
Admissions(log, root) ==
  {e \in OfType(log, "UtilityOperationAdmitted") : root \in log[e].evidence}

Authorizations(log, e) ==
  {x \in OfType(log, "UtilityExecutionAuthorized") : e \in log[x].evidence}

\* An admission that claims the approval must carry the binding it approved.
BindingAgrees(log, root, e) ==
  /\ log[root].choice = "Approved"
  /\ log[e].binding.request = log[root].request
  /\ log[e].binding.admission = root
  /\ log[e].binding.subject \in log[root].reviewed

\* The inputs of an authorized execution share the approved subject.
SharesSubject(log, e, x) ==
  /\ log[x].primitive = log[e].primitive
  /\ log[x].input \in DOMAIN log
  /\ log[log[x].input].consumer = log[e].primitive
  /\ log[e].binding.subject \in log[log[x].input].inputs

\* What is wrong with an authorization that names an admission.
AuthorizationIssues(log, e, x) ==
  IF log[x].primitive # log[e].primitive THEN {Mismatch}
  ELSE IF log[x].input \notin DOMAIN log THEN {Missing}
  ELSE IF log[log[x].input].consumer # log[e].primitive THEN {Mismatch}
  ELSE IF ~ SharesSubject(log, e, x) THEN {Mismatch, Missing}
  ELSE authority(log, log[x].authority, log[e].primitive)

\* The admissions that carry what the approval approved.
bound(log, root) == {e \in Admissions(log, root) : BindingAgrees(log, root, e)}

submitted(log, a) ==
  source(log, a.submission, log[a.submission] = [a EXCEPT !.submission = <<>>])

claims(log, root) == IF bound(log, root) # Admissions(log, root) THEN {Mismatch} ELSE {}

executions(log, root) ==
  UNION {UNION {AuthorizationIssues(log, e, x) : x \in Authorizations(log, e)} :
           e \in bound(log, root)}

\* No operation has acted on the approval yet.
unused(log, root) ==
  IF /\ log[root].choice = "Approved"
     /\ ~ \E e \in bound(log, root) : \E x \in Authorizations(log, e) : SharesSubject(log, e, x)
  THEN {Missing} ELSE {}

\* The story of an admitted decision: submission, reviewed inputs, and the
\* operation it allowed.
approval(log, root) ==
  LET a == log[root]
  IN   submitted(log, a) \cup inputs(log, a.input, a.request, a.reviewed)
  \cup claims(log, root) \cup executions(log, root) \cup unused(log, root)

contextFor(log, u) ==
  IF UnitID("ContextSnapshotSaved", u) \in DOMAIN log THEN {} ELSE {Missing}

agentAuthorization(log, retry) ==
  LET found == {e \in OfType(log, "AgentExecutionAuthorized") :
                  log[e].primitive = retry.attempt}
  IN  IF found = {} THEN {Missing}
      ELSE UNION {authority(log, log[e].authority, retry.attempt)
                  \cup inputs(log, log[e].input, retry.attempt, retry.inputs) :
                    e \in found}

\* The decision and the replacement it led to describe the same rewind.
DecisionAgrees(d, retry) ==
  /\ d.next = Name(retry.attempt)
  /\ d.trigger = retry.trigger
  /\ d.previous = retry.previous

failures(log, retry, d) ==
  UNION {source(log, id, log[id].target = Name(retry.trigger)) : id \in d.events}

\* The story of a rewind: its decision, the failure behind it, the attempt it
\* replaces and the execution of the replacement.
recovery(log, root) ==
  LET retry == log[root]
      d == log[retry.decision]
      decided == source(log, retry.decision, DecisionAgrees(d, retry))
  IN  IF decided # {} THEN decided
      ELSE   (IF retry.previous = <<>> THEN {Missing}
              ELSE contextFor(log, retry.previous))
        \cup (IF d.missing # {} THEN {Missing} ELSE {})
        \cup failures(log, retry, d)
        \cup contextFor(log, retry.attempt)
        \cup agentAuthorization(log, retry)

\* The roots of the stories in a log, and the status shown for each.
Roots(log) == OfType(log, "ApprovalDecisionAdmitted") \cup OfType(log, "StepAttemptRetried")

BuildProjection(log) ==
  [root \in Roots(log) |->
     issue(IF root[1] = "StepAttemptRetried" THEN recovery(log, root) ELSE approval(log, root))]
=============================================================================
