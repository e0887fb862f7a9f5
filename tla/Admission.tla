------------------------------ MODULE Admission ------------------------------
(***************************************************************************)
(* How a submitted change request becomes the first accepted artifact of a *)
(* new workflow.                                                           *)
(*                                                                         *)
(* The API server makes a namespace, a ConfigMap with the bytes, and the   *)
(* workflow, one after the other.  The workflow controller has a job copy  *)
(* the bytes into the artifact store, under the workspace lease, makes an  *)
(* Artifact of them, lets the artifact controller accept it, and then      *)
(* removes ConfigMap and job.  Either controller may stop between any two  *)
(* of its writes, and reads objects from caches that are older than what   *)
(* the other one has written.                                              *)
(*                                                                         *)
(* Contents are compared with what was submitted and otherwise left out.   *)
(***************************************************************************)
EXTENDS Naturals

CONSTANTS
  MaxStops,   \* how often a reconciliation is cut short
  MaxEvents,  \* bound on what is done from outside
  Env         \* what may be done, and which caches may mislead

Outside == {"replaceSource", "killJob", "deleteJob", "deleteArtifact"}
EnvEvents == Outside \cup {"session", "clean", "apiFails", "leaseLag", "sourceLag"}

ASSUME AdmissionAssumption ==
  MaxStops \in Nat /\ MaxEvents \in Nat /\ Env \subseteq EnvEvents

VARIABLES
  request,    \* how far CreateWorkflow has come
  namespace,
  cluster,    \* the objects in the namespace
  cache,      \* the controllers' copies of them
  store,      \* whether the submitted bytes, or others, are in the store
  ctl,        \* where the workflow controller is in its reconciliation
  validator,  \* the version of the Artifact that is being validated, or 0
  stops, events,
  harmed      \* one of the Outside events has happened

vars == <<request, namespace, cluster, cache, store, ctl, validator, stops,
          events, harmed>>
env  == <<stops, events, harmed>>

-----------------------------------------------------------------------------
Workflow == [phase : {"none", "Pending", "Failed"}, stage : 0..3,
             epoch : Nat, released : BOOLEAN, ready : BOOLEAN]
Objects == [workflow : Workflow,
            source   : {"none", "submitted", "replaced"},
            lease    : [holder : {"none", "bootstrap", "session"}, epoch : Nat],
            job      : {"none", "pending", "succeeded", "failed"},
            artifact : [phase : {"none", "pending", "accepted", "rejected"},
                        version : Nat]]

TypeOK ==
  /\ request \in {"received", "admitted", "namespaced", "staged", "created",
                  "refused", "rolledBack", "abandoned"}
  /\ namespace \in {"none", "active", "terminating"}
  /\ cluster \in Objects /\ cache \in Objects
  /\ store \subseteq {"submitted", "replaced"}
  /\ ctl \in [at : {"idle", "record", "deploy", "publish", "release", "released",
                    "decide", "complete", "cleanSource", "cleanJob", "fail"},
              epoch : Nat, released : BOOLEAN, then : {"complete", "fail", "idle"}]
  /\ validator \in Nat
  /\ stops \in 0..MaxStops /\ events \in 0..MaxEvents /\ harmed \in BOOLEAN

Nothing == [workflow |-> [phase |-> "none", stage |-> 0, epoch |-> 0,
                          released |-> FALSE, ready |-> FALSE],
            source |-> "none", lease |-> [holder |-> "none", epoch |-> 0],
            job |-> "none", artifact |-> [phase |-> "none", version |-> 0]]

Idle == [at |-> "idle", epoch |-> 0, released |-> FALSE, then |-> "idle"]

Init ==
  /\ request = "received" /\ namespace = "none"
  /\ cluster = Nothing /\ cache = Nothing /\ store = {}
  /\ ctl = Idle /\ validator = 0
  /\ stops = 0 /\ events = 0 /\ harmed = FALSE

Happens(e) ==
  /\ e \in Env /\ events < MaxEvents /\ events' = events + 1
  /\ harmed' = (harmed \/ e \in Outside)
  /\ UNCHANGED stops

-----------------------------------------------------------------------------
(* The API server: CreateWorkflow and CleanWorkflow.                       *)

Others == <<store, ctl, validator>>

Validate ==
  /\ request = "received"
  /\ request' \in {"admitted", "refused"}
  /\ UNCHANGED <<namespace, cluster, cache, Others, env>>

CreateNamespace ==
  /\ request = "admitted"
  /\ request' = "namespaced" /\ namespace' = "active"
  /\ UNCHANGED <<cluster, cache, Others, env>>

StageChangeRequest ==
  /\ request = "namespaced" /\ namespace = "active"
  /\ request' = "staged"
  /\ cluster' = [cluster EXCEPT !.source = "submitted"]
  /\ cache' = IF "sourceLag" \in Env THEN cache
              ELSE [cache EXCEPT !.source = "submitted"]
  /\ UNCHANGED <<namespace, Others, env>>

CreateWorkflow ==
  /\ request = "staged" /\ namespace = "active"
  /\ request' = "created"
  /\ cluster' = [cluster EXCEPT !.workflow.phase = "Pending"]
  /\ UNCHANGED <<namespace, cache, Others, env>>

(* A create is refused by the API server: the namespace is removed.        *)
rollbackWorkflowNamespace ==
  /\ Happens("apiFails")
  /\ \/ request = "admitted" /\ request' = "refused" /\ UNCHANGED namespace
     \/ /\ request \in {"namespaced", "staged"}
        /\ request' = "rolledBack" /\ namespace' = "terminating"
  /\ UNCHANGED <<cluster, cache, Others>>

(* The server stops, or the audit event after a step cannot be recorded.   *)
Abandon ==
  /\ Happens("apiFails")
  /\ request \in {"namespaced", "staged"}
  /\ request' = "abandoned"
  /\ UNCHANGED <<namespace, cluster, cache, Others>>

CleanWorkflow ==
  /\ Happens("clean")
  /\ cluster.workflow.phase # "none" /\ namespace = "active"
  /\ namespace' = "terminating"
  /\ UNCHANGED <<request, cluster, cache, Others>>

-----------------------------------------------------------------------------
(* The workflow controller: ensureBootstrap.                               *)

ApiState == <<request, namespace>>
Goto(at) == ctl' = IF at = "idle" THEN Idle ELSE [ctl EXCEPT !.at = at]

(* A status is written on top of the cached copy: a stale one conflicts.   *)
StatusIs(workflow) ==
  /\ cache.workflow = cluster.workflow
  /\ cluster' = [cluster EXCEPT !.workflow = workflow]

Reconciling ==
  /\ ctl.at = "idle" /\ namespace = "active" /\ cache.workflow.phase = "Pending"

(* Pending, then its volume claim, then its lease.                         *)
EnsureWorkspace ==
  /\ Reconciling /\ cache.workflow.stage < 3
  /\ StatusIs([cluster.workflow EXCEPT !.stage = @ + 1])
  /\ UNCHANGED <<ApiState, cache, store, ctl, validator, env>>

Lease == IF "leaseLag" \in Env THEN cache.lease ELSE cluster.lease

(* deployBootstrapJob with the writer it needs, getWorkspaceWriter.        *)
AfterWriter(W) ==
  LET L == Lease IN
  IF W.epoch > 0
  THEN IF L # [holder |-> "bootstrap", epoch |-> W.epoch] THEN "fail"
       ELSE IF cache.job = "none" THEN "deploy" ELSE "idle"
  ELSE CASE L.holder = "bootstrap" -> "record"
         [] L.holder = "none"      -> "acquire"
         [] OTHER                  -> "idle"

(* Deviation: a lease that was released after success is an error.         *)
AuthorityFirst(W) ==
  IF W.ready THEN IF cache.artifact.phase = "accepted" THEN "cleanSource" ELSE "fail"
  ELSE IF cache.artifact.phase # "none" THEN "release"
  ELSE IF cache.source # "submitted" \/ AfterWriter(W) = "fail" THEN "fail"
  ELSE CASE cache.job = "succeeded" -> "publish"
         [] cache.job = "failed"    -> "release"
         [] OTHER                   -> AfterWriter(W)

(* Deviation: the artifact is published while the job still writes.        *)
PublishEarly(W) ==
  IF W.ready THEN IF cache.artifact.phase = "accepted" THEN "cleanSource" ELSE "fail"
  ELSE IF cache.artifact.phase # "none" THEN "release"
  ELSE IF cache.source # "submitted" THEN "fail"
  ELSE CASE cache.job \in {"pending", "succeeded"} -> "publish"
         [] cache.job = "failed" -> "release"
         [] OTHER -> AfterWriter(W)

(* Where a reconciliation that starts with workflow W goes first.          *)
ensureBootstrap(W) ==
  IF W.ready THEN IF cache.artifact.phase = "accepted" THEN "cleanSource" ELSE "fail"
  ELSE IF cache.artifact.phase # "none" THEN "release"
  ELSE IF cache.source # "submitted" THEN "fail"
  ELSE CASE cache.job = "succeeded" -> "publish"
         [] cache.job = "failed"    -> "release"
         [] OTHER                   -> AfterWriter(W)

(* What it will do once the workspace is released: it goes by the artifact *)
(* and the job that it has read, also when the cache shows more by then.   *)
afterRelease ==
  CASE cache.artifact.phase = "accepted" -> "complete"
    [] cache.artifact.phase = "rejected" -> "fail"
    [] cache.artifact.phase = "none" /\ cache.job = "failed" -> "fail"
    [] OTHER -> "idle"

Begin ==
  LET W == cache.workflow
      next == ensureBootstrap(W)
      resume(epoch) == ctl' = [at |-> IF next = "acquire" THEN "record" ELSE next,
                               epoch |-> epoch, released |-> W.released,
                               then |-> afterRelease] IN
  /\ Reconciling /\ W.stage = 3
  /\ \/ /\ next = "acquire"
        /\ Lease = cluster.lease
        /\ cluster' = [cluster EXCEPT !.lease = [holder |-> "bootstrap",
                                                 epoch |-> @.epoch + 1]]
        /\ resume(Lease.epoch + 1)
     \/ /\ next \notin {"acquire", "idle"}
        /\ resume(IF next = "record" THEN Lease.epoch ELSE W.epoch)
        /\ UNCHANGED cluster
  /\ UNCHANGED <<ApiState, cache, store, validator, env>>

(* The epoch of the grant goes into the status.                            *)
RecordEpoch ==
  /\ ctl.at = "record"
  /\ StatusIs([cluster.workflow EXCEPT !.epoch = ctl.epoch, !.released = FALSE])
  /\ Goto("idle")
  /\ UNCHANGED <<ApiState, cache, store, validator, env>>

(* The cache did not show the job; it may exist all the same.              *)
deployBootstrapJob ==
  /\ ctl.at = "deploy"
  /\ cluster' = [cluster EXCEPT !.job = IF @ = "none" THEN "pending" ELSE @]
  /\ Goto("idle")
  /\ UNCHANGED <<ApiState, cache, store, validator, env>>

createChangeRequest ==
  /\ ctl.at = "publish"
  /\ cluster' = IF cluster.artifact.phase # "none" THEN cluster
                ELSE [cluster EXCEPT !.artifact.phase = "pending",
                                     !.artifact.version = @ + 1]
  /\ Goto("release")
  /\ UNCHANGED <<ApiState, cache, store, validator, env>>

(* Only the exact term is given back.                                      *)
releaseBootstrapWriter ==
  /\ ctl.at = "release"
  /\ IF ctl.epoch = 0 \/ ctl.released
     THEN Goto("decide") /\ UNCHANGED cluster
     ELSE /\ Goto("released")
          /\ IF Lease = [holder |-> "bootstrap", epoch |-> ctl.epoch]
             THEN /\ Lease = cluster.lease
                  /\ cluster' = [cluster EXCEPT !.lease.holder = "none"]
             ELSE UNCHANGED cluster
  /\ UNCHANGED <<ApiState, cache, store, validator, env>>

RecordReleased ==
  /\ ctl.at = "released"
  /\ StatusIs([cluster.workflow EXCEPT !.released = TRUE])
  /\ Goto("decide")
  /\ UNCHANGED <<ApiState, cache, store, validator, env>>

Decide ==
  /\ ctl.at = "decide"
  /\ Goto(ctl.then)
  /\ UNCHANGED <<ApiState, cluster, cache, store, validator, env>>

completeBootstrap ==
  /\ ctl.at = "complete"
  /\ StatusIs([cluster.workflow EXCEPT !.ready = TRUE])
  /\ Goto("cleanSource")
  /\ UNCHANGED <<ApiState, cache, store, validator, env>>

(* Deviation: a workflow that is ready is never cleaned up again.          *)
CleanOnce ==
  /\ ctl.at = "cleanSource" /\ ~cache.workflow.ready
  /\ cluster' = IF cache.source = "submitted"
                THEN [cluster EXCEPT !.source = "none"] ELSE cluster
  /\ Goto("cleanJob")
  /\ UNCHANGED <<ApiState, cache, store, validator, env>>

(* The ConfigMap that was submitted is removed, one that was put in its    *)
(* place is left, and so then is the job; but it is deleted by its name,   *)
(* and so is one in its place that the cache does not show.                *)
cleanupBootstrapResources ==
  /\ ctl.at = "cleanSource"
  /\ cluster' = IF cache.source = "submitted"
                THEN [cluster EXCEPT !.source = "none"] ELSE cluster
  /\ Goto(IF cache.source = "replaced" THEN "idle" ELSE "cleanJob")
  /\ UNCHANGED <<ApiState, cache, store, validator, env>>

CleanupJob ==
  /\ ctl.at = "cleanJob"
  /\ cluster' = [cluster EXCEPT !.job = IF cache.job = "none" THEN @ ELSE "none"]
  /\ Goto("idle")
  /\ UNCHANGED <<ApiState, cache, store, validator, env>>

failWorkflow ==
  /\ ctl.at = "fail"
  /\ StatusIs([cluster.workflow EXCEPT !.phase = "Failed"])
  /\ Goto("idle")
  /\ UNCHANGED <<ApiState, cache, store, validator, env>>

(* A write conflicts, an audit event is refused, or the manager stops.     *)
CutShort ==
  /\ ctl.at # "idle" /\ stops < MaxStops /\ stops' = stops + 1
  /\ Goto("idle")
  /\ UNCHANGED <<ApiState, cluster, cache, store, validator, events, harmed>>

-----------------------------------------------------------------------------
(* The bootstrap job and the artifact controller.                          *)

(* The job mounts the ConfigMap by name and stores what it finds if it has *)
(* the admitted digest; without one it runs into its deadline.             *)
bootstrap ==
  /\ cluster.job = "pending"
  /\ IF cluster.source = "submitted"
     THEN /\ store' = store \cup {"submitted"}
          /\ cluster' = [cluster EXCEPT !.job = "succeeded"]
     ELSE /\ cluster' = [cluster EXCEPT !.job = "failed"]
          /\ UNCHANGED store
  /\ UNCHANGED <<ApiState, cache, ctl, validator, env>>

(* What is accepted already is not validated again.                        *)
ReadArtifact ==
  /\ validator = 0 /\ namespace = "active"
  /\ cache.artifact.phase \in {"pending", "rejected"}
  /\ validator' = cache.artifact.version
  /\ UNCHANGED <<ApiState, cluster, cache, store, ctl, env>>

validateBootstrapArtifact ==
  IF cache.source = "submitted" /\ cache.job = "succeeded" THEN "accepted" ELSE "rejected"

VerdictIs(verdict) ==
  cluster' = [cluster EXCEPT !.artifact.phase = verdict, !.artifact.version = @ + 1]

(* The status is written over the version that was read, or not at all.    *)
RecordVerdict ==
  /\ validator > 0 /\ validator' = 0
  /\ IF /\ cluster.artifact.version = validator
        /\ cluster.artifact.phase \notin {"none", validateBootstrapArtifact}
     THEN VerdictIs(validateBootstrapArtifact) ELSE UNCHANGED cluster
  /\ UNCHANGED <<ApiState, cache, store, ctl, env>>

-----------------------------------------------------------------------------
(* Caches, and what others do.                                             *)

Sync ==
  /\ \E kind \in DOMAIN cluster :
       /\ kind # "lease" \/ "leaseLag" \in Env
       /\ cache[kind] # cluster[kind]
       /\ cache' = [cache EXCEPT ![kind] = cluster[kind]]
  /\ UNCHANGED <<ApiState, cluster, store, ctl, validator, env>>

Become(kind, value) ==
  /\ cluster[kind] # value
  /\ cluster' = [cluster EXCEPT ![kind] = value]
  /\ UNCHANGED <<ApiState, cache, store, ctl, validator>>

Intervene ==
  \/ Happens("replaceSource") /\ cluster.source # "none" /\ Become("source", "replaced")
  \/ Happens("killJob") /\ cluster.job = "pending" /\ Become("job", "failed")
  \/ Happens("deleteJob") /\ Become("job", "none")
  \/ /\ Happens("deleteArtifact") /\ cluster.artifact.phase # "none"
     /\ Become("artifact", [cluster.artifact EXCEPT !.phase = "none"])
  \/ /\ Happens("session") /\ cluster.workflow.stage = 3
     /\ cluster.lease.holder = "none"
     /\ Become("lease", [holder |-> "session", epoch |-> cluster.lease.epoch + 1])

EndSession ==
  /\ cluster.lease.holder = "session"
  /\ Become("lease", [cluster.lease EXCEPT !.holder = "none"])
  /\ UNCHANGED env

Serve == Validate \/ CreateNamespace \/ StageChangeRequest \/ CreateWorkflow

Reconcile ==
  \/ EnsureWorkspace \/ Begin \/ RecordEpoch \/ deployBootstrapJob
  \/ createChangeRequest \/ releaseBootstrapWriter \/ RecordReleased \/ Decide
  \/ completeBootstrap \/ cleanupBootstrapResources \/ CleanupJob \/ failWorkflow

ReconcileArtifact == ReadArtifact \/ RecordVerdict

Next ==
  \/ Serve \/ rollbackWorkflowNamespace \/ Abandon \/ CleanWorkflow
  \/ Reconcile \/ CutShort \/ ReconcileArtifact \/ bootstrap
  \/ Sync \/ Intervene \/ EndSession

Spec == Init /\ [][Next]_vars

(* Controllers are requeued, caches catch up, a job ends, and so does a    *)
(* session, by its deadline.                                               *)
FairSpec ==
  /\ Spec
  /\ WF_vars(Serve) /\ WF_vars(Reconcile) /\ WF_vars(ReconcileArtifact)
  /\ WF_vars(bootstrap) /\ WF_vars(Sync) /\ WF_vars(EndSession)

-----------------------------------------------------------------------------
Accepted == cluster.artifact.phase = "accepted"
Failed   == cluster.workflow.phase = "Failed"

(* The bytes of an accepted change request are in the store, and they are  *)
(* the ones that were submitted, whatever stands in the ConfigMap's place  *)
(* (bootstrap, LoadBootstrapChangeRequest, validateBootstrapArtifact).     *)
AcceptedIsSubmitted == Accepted => store = {"submitted"}

(* A validation that began before the acceptance, and fails because the    *)
(* ConfigMap has been removed since, does not undo it                      *)
(* (ArtifactReconciler.Reconcile, cleanupBootstrapResources).              *)
AcceptedStays ==
  [][Accepted => cluster'.artifact.phase # "rejected"]_vars

(* While the job can write, bootstrap holds the workspace, in the term its *)
(* status will release (getWorkspaceWriter, releaseBootstrapWriter).       *)
JobHoldsWorkspace ==
  cluster.job = "pending" /\ ~harmed =>
    cluster.lease = [holder |-> "bootstrap", epoch |-> cluster.workflow.epoch]

(* Once the workflow may start its steps, bootstrap neither holds the      *)
(* workspace nor has anything that could write to it (completeBootstrap).  *)
ReadyIsFree ==
  cluster.workflow.ready =>
    cluster.lease.holder # "bootstrap" /\ (cluster.job # "pending" \/ harmed)

(* Stale copies, stops between two writes and a session that is in the way *)
(* do not fail a workflow ("A reconciler must tolerate: ... stale informer *)
(* cache; child exists but status was not recorded",                       *)
(* failure-model.md:42): somebody has removed or replaced an object.       *)
FailsForCause == Failed => harmed

(* A created workflow is made ready and its submission removed, or fails.  *)
Settled == \/ Failed \/ namespace = "terminating"
           \/ /\ cluster.workflow.ready
              /\ cluster.source # "submitted"
              /\ cluster.job = "none" \/ cluster.source = "replaced"
BootstrapEnds == (request = "created") ~> Settled

(* No namespace is left that no workflow was made in ("Cleanup leaves no   *)
(* ... orphan workflow namespace", mvp.md:224).                            *)
NoOrphanNamespace ==
  request \in {"refused", "rolledBack", "abandoned"} /\ cluster.workflow.phase = "none" =>
    namespace # "active"

(* What bootstrap has accepted is the submission, and it touches the       *)
(* workspace only while it holds it, across stops between any two writes.  *)
BootstrapInv == TypeOK /\ AcceptedIsSubmitted /\ JobHoldsWorkspace /\ ReadyIsFree

(* Bootstrap gets to an end, and its acceptance is never taken back.       *)
BootstrapConverges == AcceptedStays /\ BootstrapEnds
=============================================================================
