-------------------------- MODULE Admission_proofs --------------------------
EXTENDS Admission, TLAPS

-----------------------------------------------------------------------------
(* The inductive invariant.  It holds whatever Env allows: with caches that *)
(* lag in every kind of object, and objects that others remove.             *)

Term(epoch) == [holder |-> "bootstrap", epoch |-> epoch]

\* Bytes reach the store, and a job succeeds, only from the submission.
ContentInv ==
  /\ store \subseteq {"submitted"}
  /\ cluster.job = "succeeded" \/ cache.job = "succeeded" \/ Accepted =>
       "submitted" \in store

\* The term in the status is that of the Lease, and a status that has not seen
\* a term leaves the Lease to whom it names.
TermInv ==
  /\ cluster.lease.holder = "bootstrap" =>
       /\ cluster.lease.epoch > 0
       /\ cluster.workflow.epoch \in {0, cluster.lease.epoch}
       /\ ~cluster.workflow.released /\ ~cache.workflow.released
       /\ ~cluster.workflow.ready
  /\ cache.workflow.epoch \in {0, cluster.workflow.epoch}
  /\ cache.workflow.epoch = 0 =>
       /\ cluster.workflow.epoch > 0 => cluster.lease.holder = "bootstrap"
       /\ Lease.holder = "bootstrap" => cluster.lease = Lease
       /\ ~cluster.workflow.released /\ ~cache.workflow.released
       /\ ~cluster.workflow.ready

Started ==
  \/ cluster.job # "none" \/ cache.job # "none"
  \/ cluster.artifact.phase # "none" \/ cache.artifact.phase # "none"
  \/ ctl.at \in {"deploy", "publish", "release", "released", "decide", "complete"}

\* A job is started only in a term that is recorded and that the controller's
\* copy of the Lease shows, so that a later release is not a release of nothing.
StartedInv ==
  Started => /\ cache.workflow.epoch > 0
             /\ cluster.lease.holder = "bootstrap" => Lease = cluster.lease

\* What the controller carries between its writes is still what holds.
FlightInv ==
  /\ ctl.at = "record" => cluster.lease = Term(ctl.epoch)
  /\ ctl.at \in {"publish", "release"} =>
       /\ ctl.epoch = cluster.workflow.epoch
       /\ ctl.released => cluster.lease.holder # "bootstrap"
  /\ ctl.at \in {"released", "decide", "complete"} =>
       cluster.lease.holder # "bootstrap"

Finished == cache.job \in {"succeeded", "failed"} \/ cache.artifact.phase # "none"

\* As long as nobody removes or kills an object, the term ends only after the
\* controller has seen the end of the job or the artifact made of it, and a job
\* that has ended is not started again.
UnharmedInv ==
  ~harmed =>
    /\ cache.artifact.phase # "none" => cluster.artifact.phase # "none"
    /\ cache.job # "none" => cluster.job # "none" \/ cache.artifact.phase # "none"
    /\ cluster.artifact.phase # "none" => Finished
    /\ Finished => cluster.job # "pending"
    /\ cluster.workflow.epoch > 0 =>
         Finished \/ cluster.lease = Term(cluster.workflow.epoch)
    /\ ctl.at \in {"publish", "release", "released", "decide"} => Finished
    /\ ctl.at \in {"complete", "cleanSource", "cleanJob"} => cache.artifact.phase # "none"
    /\ ctl.then = "complete" => cache.artifact.phase # "none"
    /\ ctl.at = "deploy" =>
         \/ cluster.job # "none"
         \/ cache.job = "none" /\ cluster.artifact.phase = "none"

\* A verdict is written over the version that was read: neither a copy of the
\* artifact nor a validation that has begun can pass for the accepted one.
VersionInv ==
  /\ cache.artifact.version <= cluster.artifact.version
  /\ validator <= cluster.artifact.version
  /\ cache.artifact.version = cluster.artifact.version =>
       cluster.artifact.phase \in {cache.artifact.phase, "none"}
  /\ validator > 0 /\ validator = cluster.artifact.version => ~Accepted

Inductive ==
  ContentInv /\ TermInv /\ StartedInv /\ FlightInv /\ UnharmedInv /\ VersionInv

USE AdmissionAssumption

-----------------------------------------------------------------------------
(* What the operators of the model return.                                 *)

Ats == {"idle", "record", "deploy", "publish", "release", "released", "decide",
        "complete", "cleanSource", "cleanJob", "fail"}
Flights == [at : Ats, epoch : Nat, released : BOOLEAN, then : {"complete", "fail", "idle"}]
Artifact == [phase : {"none", "pending", "accepted", "rejected"}, version : Nat]

\* Where ensureBootstrap goes tells what it has read: a job is deployed in the
\* recorded term, the Lease is acquired or its term recorded only before one is,
\* and it is given back only when the job or its artifact has been seen.
LEMMA Targets ==
  ASSUME TypeOK, NEW W \in Workflow
  PROVE  /\ ensureBootstrap(W) \in {"idle", "record", "acquire", "deploy",
                                    "publish", "release", "cleanSource", "fail"}
         /\ ensureBootstrap(W) = "deploy" =>
              /\ W.epoch > 0 /\ Lease = Term(W.epoch)
              /\ cache.job = "none" /\ cache.artifact.phase = "none"
         /\ ensureBootstrap(W) \in {"record", "acquire"} =>
              /\ W.epoch = 0 /\ ~Finished
              /\ Lease.holder = IF ensureBootstrap(W) = "record" THEN "bootstrap"
                                ELSE "none"
         /\ ensureBootstrap(W) \in {"publish", "release"} => Finished
         /\ ensureBootstrap(W) = "cleanSource" =>
              cache.artifact.phase = "accepted" /\ W.ready
         /\ afterRelease \in {"complete", "fail", "idle"}
         /\ afterRelease = "complete" => cache.artifact.phase = "accepted"
  BY DEF ensureBootstrap, AfterWriter, afterRelease, Finished, Term, TypeOK, Objects, Workflow

\* A synchronisation of the caches copies one kind of object.
LEMMA Synced ==
  ASSUME TypeOK, Sync
  PROVE  /\ \/ cache' = [cache EXCEPT !.workflow = cluster.workflow]
            \/ cache' = [cache EXCEPT !.source = cluster.source]
            \/ cache' = [cache EXCEPT !.lease = cluster.lease] /\ "leaseLag" \in Env
            \/ cache' = [cache EXCEPT !.job = cluster.job]
            \/ cache' = [cache EXCEPT !.artifact = cluster.artifact]
         /\ UNCHANGED <<ApiState, cluster, store, ctl, validator, env>>
<1>1. DOMAIN cluster = {"workflow", "source", "lease", "job", "artifact"}
  BY DEF TypeOK, Objects
<1>2. QED
  BY <1>1 DEF Sync

\* An artifact that is written has a new version, and nothing else changes.
LEMMA NewPhase ==
  ASSUME NEW o \in Objects, NEW p \in {"none", "pending", "accepted", "rejected"}
  PROVE  [o EXCEPT !.artifact.phase = p] \in Objects
BY DEF Objects

LEMMA NewVersion ==
  ASSUME NEW o \in Objects
  PROVE  [o EXCEPT !.artifact.version = @ + 1] \in Objects
<1>1. [o.artifact EXCEPT !.version = @ + 1] \in Artifact
  BY DEF Objects, Artifact
<1>2. QED
  BY <1>1 DEF Objects, Artifact

LEMMA Written ==
  ASSUME NEW o \in Objects, NEW p \in {"none", "pending", "accepted", "rejected"}
  PROVE  [o EXCEPT !.artifact.phase = p, !.artifact.version = @ + 1] \in Objects
<1>1. [o EXCEPT !.artifact.phase = p, !.artifact.version = @ + 1]
        = [[o EXCEPT !.artifact.phase = p] EXCEPT !.artifact.version = @ + 1]
  OBVIOUS
<1>2. QED
  BY <1>1, NewPhase, NewVersion

\* A verdict changes nothing, or it changes the phase and version of an artifact
\* that is there.
LEMMA Judged ==
  ASSUME TypeOK, RecordVerdict
  PROVE  /\ UNCHANGED <<ApiState, cache, store, ctl, env>> /\ validator' = 0
         /\ \/ cluster' = cluster
            \/ /\ cluster.artifact.phase # "none"
               /\ cluster.artifact.version = validator
               /\ cluster'.artifact.phase = validateBootstrapArtifact
               /\ cluster'.artifact.version = cluster.artifact.version + 1
               /\ cluster'.workflow = cluster.workflow
               /\ cluster'.source = cluster.source
               /\ cluster'.lease = cluster.lease /\ cluster'.job = cluster.job
<1>1. CASE cluster' = cluster
  BY <1>1 DEF RecordVerdict
<1>2. CASE /\ VerdictIs(validateBootstrapArtifact)
           /\ cluster.artifact.phase # "none"
           /\ cluster.artifact.version = validator
  <2>1. cluster \in Objects
    BY DEF TypeOK
  <2>2. validateBootstrapArtifact \in {"accepted", "rejected"}
    BY DEF validateBootstrapArtifact
  <2>3. cluster' = [cluster EXCEPT !.artifact.phase = validateBootstrapArtifact,
                                   !.artifact.version = @ + 1]
    BY <1>2 DEF VerdictIs
  <2>4. /\ cluster'.artifact.phase = validateBootstrapArtifact
        /\ cluster'.artifact.version = cluster.artifact.version + 1
        /\ cluster'.workflow = cluster.workflow /\ cluster'.source = cluster.source
        /\ cluster'.lease = cluster.lease /\ cluster'.job = cluster.job
    BY <2>1, <2>3 DEF Objects
  <2>5. QED
    BY <1>2, <2>4 DEF RecordVerdict
<1>3. QED
  BY <1>1, <1>2 DEF RecordVerdict

\* What is recorded is the epoch alone.
LEMMA EpochRecorded ==
  ASSUME TypeOK, RecordEpoch
  PROVE  /\ cluster'.workflow.epoch = ctl.epoch /\ ~cluster'.workflow.released
         /\ cluster'.workflow.ready = cluster.workflow.ready
         /\ cluster'.workflow.phase = cluster.workflow.phase
         /\ cluster'.lease = cluster.lease /\ cluster'.job = cluster.job
         /\ cluster'.artifact = cluster.artifact
         /\ cluster'.source = cluster.source
         /\ ctl' = Idle /\ ctl.at = "record"
         /\ cache.workflow = cluster.workflow
         /\ UNCHANGED <<ApiState, cache, store, validator, env>>
BY DEF RecordEpoch, StatusIs, Goto, TypeOK, Objects, Workflow

\* The statuses the controller writes are statuses.
LEMMA Statuses ==
  ASSUME TypeOK
  PROVE  /\ cluster.workflow \in Workflow /\ cache.workflow \in Workflow
         /\ [cluster.workflow EXCEPT !.epoch = ctl.epoch, !.released = FALSE] \in Workflow
         /\ [cluster.workflow EXCEPT !.released = TRUE] \in Workflow
         /\ [cluster.workflow EXCEPT !.ready = TRUE] \in Workflow
         /\ [cluster.workflow EXCEPT !.phase = "Failed"] \in Workflow
<1>1. cluster.workflow \in Workflow /\ cache.workflow \in Workflow
  BY DEF TypeOK, Objects
<1>2. ctl.epoch \in Nat
  BY DEF TypeOK
<1>3. QED
  BY <1>1, <1>2 DEF Workflow

LEMMA StatusWritten ==
  ASSUME TypeOK, NEW w \in Workflow, StatusIs(w)
  PROVE  cluster' \in Objects
  BY DEF TypeOK, Objects, StatusIs

\* Where the controller goes next is one of its places.
LEMMA Going ==
  ASSUME TypeOK, NEW at \in Ats, Goto(at)
  PROVE  ctl' \in Flights
  BY DEF TypeOK, Goto, Idle, Ats, Flights

\* What happens from outside is counted, and harm is not forgotten.
LEMMA Happening ==
  ASSUME TypeOK, NEW e, Happens(e)
  PROVE  events' \in 0..MaxEvents /\ harmed' \in BOOLEAN /\ stops' = stops
<1>1. events' \in 0..MaxEvents
  BY DEF Happens, TypeOK
<1>2. harmed' \in BOOLEAN
  BY Zenon DEF Happens
<1>3. QED
  BY <1>1, <1>2 DEF Happens

-----------------------------------------------------------------------------
(* Types.                                                                  *)

LEMMA TypeStep == TypeOK /\ [Next]_vars => TypeOK'
<1> SUFFICES ASSUME TypeOK, [Next]_vars PROVE TypeOK'
  OBVIOUS
<1> USE DEF Others, ApiState, env
<1>1. CASE Serve
  BY <1>1 DEF Serve, Validate, CreateNamespace, StageChangeRequest,
              CreateWorkflow, TypeOK, Objects, Workflow
<1>2. CASE rollbackWorkflowNamespace \/ Abandon \/ CleanWorkflow
  BY <1>2, Happening
     DEF rollbackWorkflowNamespace, Abandon, CleanWorkflow, TypeOK
<1>3. CASE EnsureWorkspace
  BY <1>3 DEF EnsureWorkspace, Reconciling, StatusIs, TypeOK, Objects, Workflow
<1>4. CASE Begin
  BY <1>4, Targets DEF Begin, Lease, TypeOK, Objects, Workflow
<1>5. CASE RecordEpoch
  BY <1>5, StatusWritten, Statuses, Going DEF RecordEpoch, TypeOK, Ats, Flights
<1>6. CASE deployBootstrapJob
  BY <1>6, Going DEF deployBootstrapJob, TypeOK, Objects, Ats, Flights
<1>7. CASE createChangeRequest
  <2>1. cluster' \in Objects
    BY <1>7, Written DEF createChangeRequest, TypeOK
  <2>2. QED
    BY <1>7, <2>1, Going DEF createChangeRequest, TypeOK, Ats, Flights
<1>8. CASE releaseBootstrapWriter
  BY <1>8 DEF releaseBootstrapWriter, Goto, Idle, TypeOK, Objects
<1>9. CASE RecordReleased
  BY <1>9, StatusWritten, Statuses, Going DEF RecordReleased, TypeOK, Ats, Flights
<1>10. CASE Decide
  BY <1>10, Going DEF Decide, TypeOK, Ats, Flights
<1>11. CASE completeBootstrap
  BY <1>11, StatusWritten, Statuses, Going DEF completeBootstrap, TypeOK, Ats, Flights
<1>12. CASE cleanupBootstrapResources
  BY <1>12, Going DEF cleanupBootstrapResources, TypeOK, Objects, Ats, Flights
<1>13. CASE CleanupJob
  BY <1>13, Going DEF CleanupJob, TypeOK, Objects, Ats, Flights
<1>14. CASE failWorkflow
  BY <1>14, StatusWritten, Statuses, Going DEF failWorkflow, TypeOK, Ats, Flights
<1>15. CASE CutShort
  <2>1. ctl' \in Flights
    BY <1>15, Going DEF CutShort, Ats, Flights
  <2>2. QED
    BY <1>15, <2>1 DEF CutShort, TypeOK, Ats, Flights
<1>16. CASE bootstrap
  BY <1>16 DEF bootstrap, TypeOK, Objects
<1>17. CASE ReadArtifact
  BY <1>17 DEF ReadArtifact, TypeOK, Objects
<1>18. CASE RecordVerdict
  <2>1. validateBootstrapArtifact \in {"accepted", "rejected"}
    BY DEF validateBootstrapArtifact
  <2>2. cluster \in Objects
    BY DEF TypeOK
  <2>3. VerdictIs(validateBootstrapArtifact) => cluster' \in Objects
    BY <2>1, <2>2, Written DEF VerdictIs
  <2>4. cluster' \in Objects
    BY <1>18, <2>2, <2>3 DEF RecordVerdict
  <2>5. QED
    BY <1>18, <2>4 DEF RecordVerdict, TypeOK
<1>19. CASE Sync
  BY <1>19, Synced DEF TypeOK, Objects
<1>20. CASE Intervene
  <2>1. PICK e : Happens(e)
    BY <1>20 DEF Intervene
  <2>2. cluster' \in Objects
    BY <1>20 DEF Intervene, Become, TypeOK, Objects
  <2>3. QED
    BY <1>20, <2>1, <2>2, Happening DEF Intervene, Become, TypeOK
<1>21. CASE EndSession
  BY <1>21 DEF EndSession, Become, TypeOK, Objects
<1>22. CASE UNCHANGED vars
  BY <1>22 DEF vars, TypeOK
<1>23. QED
  BY <1>1, <1>2, <1>3, <1>4, <1>5, <1>6, <1>7, <1>8, <1>9, <1>10, <1>11, <1>12,
     <1>13, <1>14, <1>15, <1>16, <1>17, <1>18, <1>19, <1>20, <1>21, <1>22
     DEF Next, Reconcile, ReconcileArtifact

\* The objects, the copies of them and what the controllers carry keep their
\* types, whichever writes succeed and in whatever order the caches follow.
THEOREM TypeCorrect == Spec => []TypeOK
<1>1. Init => TypeOK
  <2> SUFFICES ASSUME Init PROVE TypeOK
    OBVIOUS
  <2>1. cluster \in Objects /\ cache \in Objects
    BY DEF Init, Nothing, Objects, Workflow
  <2>2. ctl \in Flights
    BY DEF Init, Idle, Ats, Flights
  <2>3. stops \in 0..MaxStops /\ events \in 0..MaxEvents
    BY DEF Init
  <2>4. harmed \in BOOLEAN
    BY Zenon DEF Init
  <2>5. QED
    BY <2>1, <2>2, <2>3, <2>4 DEF Init, TypeOK, Ats, Flights
<1>2. QED
  BY <1>1, TypeStep, PTL DEF Spec

-----------------------------------------------------------------------------
(* The invariant, step by step.                                            *)

LEMMA InductiveStep == TypeOK /\ Inductive /\ [Next]_vars => Inductive'
<1> SUFFICES ASSUME TypeOK, Inductive, [Next]_vars PROVE Inductive'
  OBVIOUS
<1> USE DEF Inductive, ContentInv, TermInv, StartedInv, FlightInv, UnharmedInv,
            VersionInv, Accepted, Lease, Term, Started, Finished, TypeOK,
            Objects, Workflow, Others, ApiState, env, Goto, Idle, StatusIs, Happens
<1>1. CASE Serve
  BY <1>1 DEF Serve, Validate, CreateNamespace, StageChangeRequest, CreateWorkflow
<1>2. CASE rollbackWorkflowNamespace
  BY <1>2 DEF rollbackWorkflowNamespace
<1>3. CASE Abandon
  BY <1>3 DEF Abandon
<1>4. CASE CleanWorkflow
  BY <1>4 DEF CleanWorkflow
<1>5. CASE EnsureWorkspace
  BY <1>5 DEF EnsureWorkspace
<1>6. CASE Begin
  <2> DEFINE W == cache.workflow
             next == ensureBootstrap(W)
  <2>1. /\ UNCHANGED <<ApiState, cache, store, validator, env>>
        /\ ctl'.at = (IF next = "acquire" THEN "record" ELSE next)
        /\ ctl'.released = W.released /\ ctl'.then = afterRelease
        /\ W \in Workflow /\ next # "idle"
    BY <1>6 DEF Begin
  <2>0. afterRelease = "complete" => cache.artifact.phase # "none"
    BY DEF afterRelease
  <2>2. CASE next = "acquire"
    <3>1. /\ Lease = cluster.lease
          /\ cluster' = [cluster EXCEPT !.lease = [holder |-> "bootstrap",
                                                   epoch |-> @.epoch + 1]]
          /\ ctl'.epoch = Lease.epoch + 1
      BY <1>6, <2>2 DEF Begin
    <3>2. W.epoch = 0 /\ Lease.holder = "none"
      BY <2>1, <2>2, Targets
    <3>3. /\ cluster'.lease = Term(cluster.lease.epoch + 1)
          /\ cluster'.workflow = cluster.workflow
          /\ cluster'.job = cluster.job /\ cluster'.artifact = cluster.artifact
      BY <3>1
    <3>4. ~Started
      BY <3>2
    <3>5. ContentInv' /\ VersionInv'
      BY <2>1, <3>3
    <3>6. TermInv'
      BY <2>1, <3>1, <3>2, <3>3
    <3>7. StartedInv'
      BY <2>1, <2>2, <3>1, <3>2, <3>3, <3>4
    <3>8. FlightInv'
      BY <2>1, <2>2, <3>1, <3>2, <3>3, <3>4
    <3>9. UnharmedInv'
      BY <2>0, <2>1, <2>2, <3>1, <3>2, <3>3, <3>4
    <3>10. QED
      BY <3>5, <3>6, <3>7, <3>8, <3>9
  <2>3. CASE next = "record"
    <3>1. cluster' = cluster /\ ctl'.epoch = Lease.epoch
      BY <1>6, <2>3 DEF Begin
    <3>2. W.epoch = 0 /\ Lease.holder = "bootstrap"
      BY <2>1, <2>3, Targets
    <3>3. QED
      BY <2>0, <2>1, <2>3, <3>1, <3>2
  <2>4. CASE next \notin {"acquire", "record"}
    <3>1. cluster' = cluster /\ ctl'.epoch = W.epoch /\ ctl'.at = next
      BY <1>6, <2>1, <2>4 DEF Begin
    <3>2. ContentInv' /\ TermInv' /\ VersionInv'
      BY <2>1, <3>1
    <3>3. /\ next = "deploy" => /\ W.epoch > 0 /\ Lease = Term(W.epoch)
                                /\ cache.job = "none"
                                /\ cache.artifact.phase = "none"
          /\ next \in {"publish", "release"} => Finished
          /\ next = "cleanSource" => cache.artifact.phase # "none"
          /\ next \in {"deploy", "publish", "release", "cleanSource", "fail"}
      BY <2>1, <2>4, Targets
    <3>4. StartedInv'
      <4>1. CASE next = "deploy"
        BY <2>1, <3>1, <3>3, <4>1
      <4>2. CASE next # "deploy"
        BY <2>1, <3>1, <3>3, <4>2
      <4>3. QED
        BY <4>1, <4>2
    <3>5. FlightInv'
      BY <2>1, <3>1, <3>3
    <3>6. UnharmedInv'
      BY <2>0, <2>1, <3>1, <3>3
    <3>7. QED
      BY <3>2, <3>4, <3>5, <3>6
  <2>5. QED
    BY <2>2, <2>3, <2>4
<1>7. CASE RecordEpoch
  <2>1. /\ cluster'.workflow.epoch = ctl.epoch /\ ~cluster'.workflow.released
        /\ cluster'.workflow.ready = cluster.workflow.ready
        /\ cluster'.lease = cluster.lease /\ cluster'.job = cluster.job
        /\ cluster'.artifact = cluster.artifact
        /\ ctl' = Idle /\ ctl.at = "record"
        /\ cache.workflow = cluster.workflow
        /\ UNCHANGED <<cache, store, validator, harmed>>
    BY <1>7, EpochRecorded
  <2>2. QED
    BY <2>1
<1>8. CASE deployBootstrapJob
  BY <1>8 DEF deployBootstrapJob
<1>9. CASE createChangeRequest
  BY <1>9 DEF createChangeRequest
<1>10. CASE releaseBootstrapWriter
  BY <1>10 DEF releaseBootstrapWriter
<1>11. CASE RecordReleased
  BY <1>11 DEF RecordReleased
<1>12. CASE Decide
  BY <1>12 DEF Decide
<1>13. CASE completeBootstrap
  BY <1>13 DEF completeBootstrap
<1>14. CASE cleanupBootstrapResources \/ CleanupJob
  BY <1>14 DEF cleanupBootstrapResources, CleanupJob
<1>15. CASE failWorkflow
  BY <1>15 DEF failWorkflow
<1>16. CASE CutShort
  BY <1>16 DEF CutShort
<1>17. CASE bootstrap
  BY <1>17 DEF bootstrap
<1>18. CASE ReadArtifact
  BY <1>18 DEF ReadArtifact
<1>19. CASE RecordVerdict
  <2>1. CASE cluster' = cluster
    BY <1>19, <2>1 DEF RecordVerdict
  <2>2. CASE /\ cluster.artifact.phase # "none"
             /\ cluster'.artifact.phase = validateBootstrapArtifact
             /\ cluster'.artifact.version = cluster.artifact.version + 1
             /\ cluster'.workflow = cluster.workflow
             /\ cluster'.lease = cluster.lease /\ cluster'.job = cluster.job
    BY <1>19, <2>2 DEF RecordVerdict, validateBootstrapArtifact
  <2>3. QED
    BY <1>19, <2>1, <2>2, Judged
<1>20. CASE Sync
  BY <1>20, Synced
<1>21. CASE Intervene
  <2>1. CASE Happens("replaceSource") /\ Become("source", "replaced")
    BY <2>1 DEF Become, Outside
  <2>2. CASE /\ Happens("killJob") /\ cluster.job = "pending"
             /\ Become("job", "failed")
    <3>1. harmed'
      BY <2>2 DEF Outside
    <3>2. QED
      BY <2>2, <3>1 DEF Become
  <2>3. CASE Happens("deleteJob") /\ Become("job", "none")
    <3>1. harmed'
      BY <2>3 DEF Outside
    <3>2. QED
      BY <2>3, <3>1 DEF Become
  <2>4. CASE /\ Happens("deleteArtifact") /\ cluster.artifact.phase # "none"
             /\ Become("artifact", [cluster.artifact EXCEPT !.phase = "none"])
    <3>1. harmed'
      BY <2>4 DEF Outside
    <3>2. QED
      BY <2>4, <3>1 DEF Become
  <2>5. CASE /\ Happens("session") /\ cluster.lease.holder = "none"
             /\ Become("lease", [holder |-> "session",
                                 epoch |-> cluster.lease.epoch + 1])
    BY <2>5 DEF Become
  <2>6. QED
    BY <1>21, <2>1, <2>2, <2>3, <2>4, <2>5 DEF Intervene
<1>22. CASE EndSession
  BY <1>22 DEF EndSession, Become
<1>23. CASE UNCHANGED vars
  BY <1>23 DEF vars
<1>24. QED
  BY <1>1, <1>2, <1>5, <1>6, <1>7, <1>8, <1>9, <1>10, <1>11, <1>12, <1>13, <1>14,
     <1>15, <1>16, <1>17, <1>18, <1>19, <1>20, <1>21, <1>22, <1>23, <1>3, <1>4
     DEF Next, Reconcile, ReconcileArtifact

LEMMA Invariance == Spec => []Inductive
<1>1. Init => Inductive
  BY DEF Init, Nothing, Idle, Inductive, ContentInv, TermInv, StartedInv,
         FlightInv, UnharmedInv, VersionInv, Accepted, Started, Finished, Lease
<1>2. QED
  BY <1>1, InductiveStep, TypeCorrect, PTL DEF Spec

-----------------------------------------------------------------------------
(* What the invariant is for.                                              *)

\* An accepted artifact's bytes are in the store and are the ones that were
\* submitted; as long as nobody takes its objects away, the bootstrap job writes
\* only under the term its status will release, and a workflow that may start
\* its steps is free of both (bootstrap, getWorkspaceWriter, completeBootstrap).
\* It holds for caches that lag in any kind of object, Leases included.
THEOREM BootstrapSafe == Spec => []BootstrapInv
<1>1. TypeOK /\ Inductive => AcceptedIsSubmitted
  BY DEF Inductive, ContentInv, AcceptedIsSubmitted, TypeOK
<1>2. TypeOK /\ Inductive => JobHoldsWorkspace
  BY DEF Inductive, TermInv, StartedInv, UnharmedInv, Started, Finished, Term,
         JobHoldsWorkspace, TypeOK, Objects, Workflow
<1>3. TypeOK /\ Inductive => ReadyIsFree
  BY DEF Inductive, TermInv, StartedInv, UnharmedInv, Started, Finished, Term,
         ReadyIsFree, TypeOK, Objects, Workflow
<1>4. QED
  BY <1>1, <1>2, <1>3, TypeCorrect, Invariance, PTL DEF BootstrapInv

\* A validation that began before the acceptance does not take it back: the
\* verdict is dropped for the version it was made of has been written over
\* (ArtifactReconciler.Reconcile).
THEOREM AcceptanceStands == Spec => AcceptedStays
<1>1. TypeOK /\ Inductive /\ [Next]_vars
        => [Accepted => cluster'.artifact.phase # "rejected"]_vars
  <2> SUFFICES ASSUME TypeOK, Inductive, [Next]_vars, Accepted
               PROVE  cluster'.artifact.phase # "rejected"
    OBVIOUS
  <2> USE DEF Accepted, TypeOK, Objects, Workflow, StatusIs
  <2>1. CASE RecordVerdict
    BY <2>1 DEF RecordVerdict, Inductive, VersionInv
  <2>2. CASE Serve \/ EnsureWorkspace
    BY <2>2 DEF Serve, Validate, CreateNamespace, StageChangeRequest,
                CreateWorkflow, EnsureWorkspace
  <2>3. CASE Begin \/ RecordEpoch \/ deployBootstrapJob \/ createChangeRequest
    BY <2>3 DEF Begin, RecordEpoch, deployBootstrapJob, createChangeRequest
  <2>4. CASE releaseBootstrapWriter \/ RecordReleased \/ Decide \/ completeBootstrap
    BY <2>4 DEF releaseBootstrapWriter, RecordReleased, Decide, completeBootstrap
  <2>5. CASE cleanupBootstrapResources \/ CleanupJob \/ failWorkflow \/ bootstrap
    BY <2>5 DEF cleanupBootstrapResources, CleanupJob, failWorkflow, bootstrap
  <2>6. CASE Intervene \/ EndSession
    BY <2>6 DEF Intervene, EndSession, Become
  <2>7. CASE UNCHANGED cluster
    BY <2>7
  <2>8. QED
    BY <2>1, <2>2, <2>3, <2>4, <2>5, <2>6, <2>7
       DEF Next, Reconcile, ReconcileArtifact, Sync, CutShort, ReadArtifact,
           rollbackWorkflowNamespace, Abandon, CleanWorkflow, vars
<1>2. QED
  BY <1>1, TypeCorrect, Invariance, PTL DEF Spec, AcceptedStays

-----------------------------------------------------------------------------
(* Why a workflow fails.                                                   *)

\* A reconciliation finds that the workflow has failed while its copy of the
\* ConfigMap or of the Lease is older than the object.
MisledByCopy ==
  Begin /\ ctl'.at = "fail" /\ (cache.source # cluster.source \/ Lease # cluster.lease)

\* Nothing is reconciled before the workflow has been created.
RequestInv ==
  request # "created" =>
    /\ cluster.workflow.phase = "none" /\ cache.workflow.phase = "none"
    /\ ctl.at = "idle" /\ cluster.job = "none"

AcceptanceSeen == cache.artifact.phase = "accepted"

\* The controller has read the submission: it makes the artifact of it.
Read == \/ ctl.at = "publish"
        \/ cluster.artifact.phase # "none" \/ cache.artifact.phase # "none"

\* As long as nobody takes an object away nothing is found missing: the job
\* finds the submission and succeeds, the validation finds both, and what is
\* removed after the acceptance is removed when the controller has seen that.
CauseInv ==
  ~harmed =>
    /\ ~Failed /\ ctl.at # "fail"
    /\ cluster.job # "failed" /\ cache.job # "failed"
    /\ cluster.artifact.phase # "rejected" /\ cache.artifact.phase # "rejected"
    /\ AcceptanceSeen => Accepted
    /\ cluster.artifact.phase # "none" => cache.job = "succeeded" \/ AcceptanceSeen
    /\ cache.job = "succeeded" => cluster.job = "succeeded" \/ AcceptanceSeen
    /\ request \in {"staged", "created"} => cluster.source = "submitted" \/ AcceptanceSeen
    /\ Read => cache.source = "submitted" \/ AcceptanceSeen
    /\ ctl.then # "fail" /\ (ctl.then = "complete" => AcceptanceSeen)
    /\ cluster.workflow.ready \/ cache.workflow.ready => AcceptanceSeen
    /\ ctl.at \in {"complete", "cleanSource", "cleanJob"} => AcceptanceSeen

LEMMA CauseStep ==
  ASSUME TypeOK, Inductive, RequestInv, CauseInv, [Next]_vars, ~MisledByCopy
  PROVE  RequestInv' /\ CauseInv'
<1> USE DEF Read, Inductive, TermInv, StartedInv, UnharmedInv,
            VersionInv, RequestInv, CauseInv, Accepted, Failed, AcceptanceSeen,
            Lease, Term, Started, Finished, TypeOK, Objects, Workflow, Others,
            ApiState, env, Goto, Idle, StatusIs, Happens
<1>1. CASE Serve
  BY <1>1 DEF Serve, Validate, CreateNamespace, StageChangeRequest, CreateWorkflow
<1>2. CASE rollbackWorkflowNamespace
  BY <1>2 DEF rollbackWorkflowNamespace
<1>3. CASE Abandon
  BY <1>3 DEF Abandon
<1>4. CASE CleanWorkflow
  BY <1>4 DEF CleanWorkflow
<1>5. CASE EnsureWorkspace
  BY <1>5 DEF EnsureWorkspace, Reconciling
<1>6. CASE Begin
  <2> DEFINE next == ensureBootstrap(cache.workflow)
  <2>1. /\ UNCHANGED <<ApiState, cache, store, validator, env>>
        /\ ctl'.at = (IF next = "acquire" THEN "record" ELSE next)
        /\ cluster'.workflow = cluster.workflow /\ cluster'.job = cluster.job
        /\ cluster'.source = cluster.source /\ cluster'.artifact = cluster.artifact
        /\ ctl'.then = afterRelease
        /\ cache.workflow.phase # "none"
    BY <1>6 DEF Begin, Reconciling
  <2>2. next \notin {"complete", "cleanJob"} /\ (next = "cleanSource" => AcceptanceSeen)
    BY Targets
  <2>3. ~harmed => next # "fail" /\ (next = "publish" => cache.source = "submitted")
    <3>1. ASSUME ~harmed, next = "fail"
          PROVE  cache.source = cluster.source /\ Lease = cluster.lease
      BY <1>6, <2>1, <3>1 DEF MisledByCopy
    <3>2. ASSUME ~harmed, next = "fail"
          PROVE  AcceptanceSeen \/ cache.source = "submitted"
      BY <2>1, <3>1, <3>2
    <3>3. ASSUME ~harmed, next = "fail", ~Finished, cache.workflow.epoch > 0
          PROVE  Lease = Term(cache.workflow.epoch)
      BY <3>1, <3>3
    <3>4. ~harmed => next # "fail"
      BY <3>2, <3>3 DEF ensureBootstrap, AfterWriter
    <3>5. next = "publish" => cache.source = "submitted"
      BY DEF ensureBootstrap, AfterWriter
    <3> QED
      BY <3>4, <3>5
  <2>4. ~harmed => afterRelease # "fail" /\ (afterRelease = "complete" => AcceptanceSeen)
    BY DEF afterRelease
  <2>5. QED
    BY <2>1, <2>2, <2>3, <2>4
<1>7. CASE RecordEpoch
  BY <1>7, EpochRecorded
<1>8. CASE deployBootstrapJob
  BY <1>8 DEF deployBootstrapJob
<1>9. CASE createChangeRequest
  BY <1>9 DEF createChangeRequest
<1>10. CASE releaseBootstrapWriter
  BY <1>10 DEF releaseBootstrapWriter
<1>11. CASE RecordReleased
  BY <1>11 DEF RecordReleased
<1>12. CASE Decide
  BY <1>12 DEF Decide
<1>13. CASE completeBootstrap
  BY <1>13 DEF completeBootstrap
<1>14. CASE cleanupBootstrapResources \/ CleanupJob
  BY <1>14 DEF cleanupBootstrapResources, CleanupJob
<1>15. CASE failWorkflow
  BY <1>15 DEF failWorkflow
<1>16. CASE CutShort
  BY <1>16 DEF CutShort
<1>17. CASE bootstrap
  BY <1>17 DEF bootstrap
<1>18. CASE ReadArtifact
  BY <1>18 DEF ReadArtifact
<1>19. CASE RecordVerdict
  <2>1. CASE cluster' = cluster
    BY <1>19, <2>1 DEF RecordVerdict
  <2>2. CASE /\ cluster.artifact.phase # "none"
             /\ cluster.artifact.version = validator
             /\ cluster'.artifact.phase = validateBootstrapArtifact
             /\ cluster'.workflow = cluster.workflow
             /\ cluster'.source = cluster.source /\ cluster'.job = cluster.job
    <3>1. ~harmed => validateBootstrapArtifact = "accepted"
      BY <1>19, <2>2 DEF RecordVerdict, validateBootstrapArtifact
    <3>2. QED
      BY <1>19, <2>2, <3>1 DEF RecordVerdict
  <2>3. QED
    BY <1>19, <2>1, <2>2, Judged
<1>20. CASE Sync
  BY <1>20, Synced
<1>21. CASE Intervene
  <2>1. CASE /\ Happens("session")
             /\ Become("lease", [holder |-> "session",
                                 epoch |-> cluster.lease.epoch + 1])
    BY <2>1 DEF Become
  <2>2. CASE /\ \E e \in Outside : Happens(e)
             /\ cluster'.workflow = cluster.workflow
             /\ cluster.job = "none" => cluster'.job = "none"
             /\ UNCHANGED <<ApiState, cache, ctl>>
    <3>1. harmed'
      BY <2>2
    <3>2. QED
      BY <2>2, <3>1
  <2>3. QED
    BY <1>21, <2>1, <2>2 DEF Intervene, Become, Outside
<1>22. CASE EndSession
  BY <1>22 DEF EndSession, Become
<1>23. CASE UNCHANGED vars
  BY <1>23 DEF vars
<1>24. QED
  BY <1>1, <1>2, <1>3, <1>4, <1>5, <1>6, <1>7, <1>8, <1>9, <1>10, <1>11, <1>12,
     <1>13, <1>14, <1>15, <1>16, <1>17, <1>18, <1>19, <1>20, <1>21, <1>22, <1>23
     DEF Next, Reconcile, ReconcileArtifact

\* A workflow fails in bootstrap only after somebody has removed or replaced one
\* of its objects: no stop between two writes, no session that is in the way and
\* no old copy is taken for that, unless it is the copy of the ConfigMap or of the
\* Lease that a reconciliation finds at fault (failWorkflow).  Copies of both may
\* be old in every other step, and those of the other objects in that one too.
THEOREM FailureHasCause ==
  Spec /\ [][~MisledByCopy]_vars => []FailsForCause
<1>1. Init => RequestInv /\ CauseInv
  BY DEF Init, Nothing, Idle, RequestInv, CauseInv, Accepted, Failed, AcceptanceSeen, Read
<1>2. TypeOK /\ Inductive /\ RequestInv /\ CauseInv /\ [Next]_vars /\ [~MisledByCopy]_vars
        => RequestInv' /\ CauseInv'
  <2> SUFFICES ASSUME TypeOK, Inductive, RequestInv, CauseInv, [Next]_vars,
                      [~MisledByCopy]_vars
               PROVE  RequestInv' /\ CauseInv'
    OBVIOUS
  <2>1. CASE ~MisledByCopy
    BY <2>1, CauseStep
  <2>2. CASE UNCHANGED vars
    BY <2>2 DEF vars, RequestInv, CauseInv, Accepted, Failed, AcceptanceSeen, Read
  <2> QED
    BY <2>1, <2>2
<1>3. CauseInv => FailsForCause
  BY DEF CauseInv, FailsForCause
<1>4. QED
  BY <1>1, <1>2, <1>3, TypeCorrect, Invariance, PTL DEF Spec

=============================================================================
