------------------------- MODULE ValidationPreview -------------------------
(***************************************************************************)
(* A project, the validation runs of its workflows, and Argo CD.           *)
(*                                                                         *)
(* The SovereignProject controller provisions an AppProject and a          *)
(* repository credential in Argo, and takes them down when the project is  *)
(* deleted.  The ValidationRun controller deploys a preview (an Argo       *)
(* Application) once the project is ready, freezes what it observed in a   *)
(* ConfigMap, has a collector job publish it as an Artifact under the      *)
(* workspace writer lease, and destroys the preview with the run.          *)
(*                                                                         *)
(* Both controllers read their objects, and the lease, the collector and   *)
(* the ConfigMap of a run, from caches.  They write an object only with    *)
(* the resource version they read, and may stop between any two calls.     *)
(***************************************************************************)
EXTENDS Integers, FiniteSets

CONSTANTS
  Runs,           \* validation runs, each of its own workflow
  MaxGeneration,  \* bound on the edits of the project's spec
  MaxEpoch,       \* bound on the terms of a workspace writer lease
  MaxEvents,      \* bound on the environment events of a behaviour
  Env             \* the environment events that may happen

EnvEvents == {"editProject", "deleteProject", "secret", "deleteRun",
              "degrade", "jobFails", "jobGone", "reject", "stop",
              "otherWriter", "authority", "lag"}

ASSUME PreviewAssumption ==
  /\ MaxGeneration \in Nat \ {0} /\ MaxEpoch \in Nat \ {0}
  /\ MaxEvents \in Nat /\ Env \subseteq EnvEvents

VARIABLES
  project, seenProject,  \* the SovereignProject and the cached copy
  pjob,                  \* progress of its reconciliation
  secret,                \* the application repository's credential exists
  argo,                  \* AppProject and repository credential in Argo
  run, seenRun,          \* the ValidationRuns and their cached copies
  vjob,                  \* progress of their reconciliations
  inputs,                \* the pinned input artifacts
  app,                   \* the Argo Application of a run
  config,                \* the ConfigMap with the frozen result
  job, artifact,         \* collector job and published Artifact
  evidence,              \* audit events of a run
  lease,                 \* the workspace writer lease
  seen,                  \* outdated copies of what a run has published
  events

projectVars == <<project, seenProject, pjob, secret, argo>>
runVars     == <<run, seenRun, vjob, inputs, app>>
resultVars  == <<config, job, artifact, evidence, lease, seen>>
vars == <<projectVars, runVars, resultVars, events>>

-----------------------------------------------------------------------------
Condition  == [ok : BOOLEAN, gen : 0..MaxGeneration]
Project    == [present : BOOLEAN, gen : 1..MaxGeneration, valid : BOOLEAN,
               del : BOOLEAN, fin : BOOLEAN, ref : BOOLEAN,
               conf : Condition, prov : Condition]
(* declares: the step of the run declares the output validation-result.    *)
Run        == [present : BOOLEAN, del : BOOLEAN, fin : BOOLEAN, ref : BOOLEAN,
               phase : {"", "Validating", "Succeeded", "Failed"},
               declares : BOOLEAN]
Lease      == [holder : {"nobody", "run", "other"}, epoch : 0..MaxEpoch]
JobStates       == {"none", "active", "succeeded", "failed", "deleting"}
(* The copies of the epoch in the ConfigMap, of the collector job and of   *)
(* the lease; behind: those the cache has not brought up to date.          *)
Cached     == {"epoch", "job", "lease"}
Copies     == [behind : SUBSET Cached,
               epoch : 0..MaxEpoch, job : JobStates, lease : Lease]
NoCopies   == [behind |-> {}, epoch |-> 0, job |-> "none",
               lease |-> [holder |-> "nobody", epoch |-> 0]]
Verdicts   == {"", "passed", "failed", "collectionFailed", "rejected", "lost",
               "degraded"}
NoConfig   == [result |-> "none", epoch |-> 0]

Idle  == [at |-> "idle", gen |-> 0]
VIdle == [at |-> "idle", epoch |-> 0, verdict |-> ""]

TypeOK ==
  /\ project \in Project /\ seenProject \in Project
  /\ pjob \in [at : {"idle", "ensured", "provisioned", "listed"},
               gen : 0..MaxGeneration]
  /\ secret \in BOOLEAN
  /\ argo \in [policy : 0..MaxGeneration, terminating : BOOLEAN,
               credential : BOOLEAN]
  /\ run \in [Runs -> Run] /\ seenRun \in [Runs -> Run]
  /\ vjob \in [Runs -> [at : {"idle", "start", "record", "publish", "granted",
                              "regranted", "evaluate", "collect", "lost",
                              "verdict", "conclude", "destroy"},
                        epoch : 0..MaxEpoch, verdict : Verdicts]]
  /\ inputs \in [Runs -> {"pending", "ready", "invalid"}]
  /\ app \in [Runs -> {"none", "progressing", "healthy", "degraded", "pruning"}]
  /\ config \in [Runs -> [result : {"none", "passed", "failed"},
                          epoch : 0..MaxEpoch]]
  /\ job \in [Runs -> JobStates]
  /\ artifact \in [Runs -> {"none", "pending", "accepted", "rejected"}]
  /\ evidence \in [Runs -> SUBSET {"authority", "inputs", "evaluated"}]
  /\ lease \in [Runs -> Lease]
  /\ seen \in [Runs -> Copies]
  /\ events \in 0..MaxEvents

(* The project has just been created; the runs exist and are authorised by *)
(* their step attempts.  A step may or may not declare the output.         *)
Init ==
  /\ project = [present |-> TRUE, gen |-> 1, valid |-> TRUE, del |-> FALSE,
                fin |-> FALSE, ref |-> FALSE,
                conf |-> [ok |-> FALSE, gen |-> 0],
                prov |-> [ok |-> FALSE, gen |-> 0]]
  /\ seenProject = project
  /\ pjob = Idle
  /\ secret = TRUE
  /\ argo = [policy |-> 0, terminating |-> FALSE, credential |-> FALSE]
  /\ run \in [Runs -> [present : {TRUE}, del : {FALSE}, fin : {FALSE},
                       ref : {FALSE}, phase : {""}, declares : BOOLEAN]]
  /\ seenRun = run
  /\ vjob = [r \in Runs |-> VIdle]
  /\ inputs = [r \in Runs |-> "pending"]
  /\ app = [r \in Runs |-> "none"]
  /\ config = [r \in Runs |-> NoConfig]
  /\ job = [r \in Runs |-> "none"]
  /\ artifact = [r \in Runs |-> "none"]
  /\ evidence = [r \in Runs |-> {}]
  /\ lease = [r \in Runs |-> [holder |-> "nobody", epoch |-> 0]]
  /\ seen = [r \in Runs |-> NoCopies]
  /\ events = 0

Happens(e) == /\ e \in Env /\ events < MaxEvents /\ events' = events + 1

-----------------------------------------------------------------------------
(* The project controller.                                                 *)

ProjectReady(p) == /\ p.present /\ ~p.del /\ p.ref
                   /\ p.conf.ok /\ p.conf.gen = p.gen
                   /\ p.prov.ok /\ p.prov.gen = p.gen

(* An update carries the resource version of the copy it was made from.    *)
UpdateProject(new) == seenProject = project /\ project' = new

Configured(p) == p.conf = [ok |-> p.valid, gen |-> p.gen]

SeesProject == pjob.at = "idle" /\ seenProject.present /\ ~seenProject.del

updateConfigurationStatus ==
  /\ SeesProject /\ ~Configured(seenProject)
  /\ UpdateProject([seenProject EXCEPT !.conf = [ok |-> seenProject.valid,
                                                 gen |-> seenProject.gen]])
  /\ UNCHANGED <<seenProject, pjob, secret, argo, runVars, resultVars, events>>

(* updateValidationProviderStatus(project of generation g, ...): refused   *)
(* when the cached copy has another generation by now, and readiness is    *)
(* never reported for a project that is being deleted.                     *)
updateValidationProviderStatus(g, ok) ==
  LET condition == [ok |-> ok, gen |-> g] IN
  /\ seenProject.gen = g
  /\ ok => ~seenProject.del
  /\ UpdateProject([seenProject EXCEPT !.prov = condition,
                                       !.ref = ok \/ seenProject.ref])

NotProvisionable == ~seenProject.valid \/ (seenProject.fin /\ ~secret)

RefuseProvisioning ==
  /\ SeesProject /\ Configured(seenProject) /\ NotProvisionable
  /\ seenProject.prov # [ok |-> FALSE, gen |-> seenProject.gen]
  /\ updateValidationProviderStatus(seenProject.gen, FALSE)
  /\ UNCHANGED <<seenProject, pjob, secret, argo, runVars, resultVars, events>>

AddProjectFinalizer ==
  /\ SeesProject /\ Configured(seenProject) /\ seenProject.valid
  /\ ~seenProject.fin
  /\ UpdateProject([seenProject EXCEPT !.fin = TRUE])
  /\ UNCHANGED <<seenProject, pjob, secret, argo, runVars, resultVars, events>>

(* EnsureProject writes the AppProject first, then the credential.  It is  *)
(* repeated every projectDriftInterval.                                    *)
Provisioned == /\ seenProject.prov = [ok |-> TRUE, gen |-> seenProject.gen]
               /\ argo.policy = seenProject.gen /\ argo.credential

EnsureAppProject ==
  /\ SeesProject /\ Configured(seenProject) /\ seenProject.fin
  /\ ~NotProvisionable /\ ~Provisioned
  /\ ~argo.terminating
  /\ argo' = [argo EXCEPT !.policy = seenProject.gen]
  /\ pjob' = [at |-> "ensured", gen |-> seenProject.gen]
  /\ UNCHANGED <<project, seenProject, secret, runVars, resultVars, events>>

ensureRepositoryCredential ==
  /\ pjob.at = "ensured"
  /\ argo' = [argo EXCEPT !.credential = TRUE]
  /\ pjob' = [pjob EXCEPT !.at = "provisioned"]
  /\ UNCHANGED <<project, seenProject, secret, runVars, resultVars, events>>

ReportProvisioned ==
  /\ pjob.at = "provisioned"
  /\ updateValidationProviderStatus(pjob.gen, TRUE)
  /\ pjob' = Idle
  /\ UNCHANGED <<seenProject, secret, argo, runVars, resultVars, events>>

(* The status write fails: another generation, a deletion, a conflict.     *)
ReportRefused ==
  /\ pjob.at = "provisioned"
  /\ seenProject.gen # pjob.gen \/ seenProject.del \/ seenProject # project
  /\ pjob' = Idle
  /\ UNCHANGED <<project, seenProject, secret, argo, runVars, resultVars, events>>

(* cleanupValidationProject and DestroyProject: first the Applications are *)
(* listed, then the credential goes, in a later reconciliation the         *)
(* AppProject, and after Argo has removed it the finalizer.                *)
ReportTerminating ==
  /\ pjob.at = "idle" /\ seenProject.present /\ seenProject.del
  /\ seenProject.prov # [ok |-> FALSE, gen |-> seenProject.gen]
  /\ updateValidationProviderStatus(seenProject.gen, FALSE)
  /\ UNCHANGED <<seenProject, pjob, secret, argo, runVars, resultVars, events>>

ListApplications ==
  /\ pjob.at = "idle" /\ seenProject.present /\ seenProject.del
  /\ seenProject.prov = [ok |-> FALSE, gen |-> seenProject.gen]
  /\ ~argo.terminating
  /\ \A r \in Runs : app[r] = "none"
  /\ pjob' = [at |-> "listed", gen |-> seenProject.gen]
  /\ UNCHANGED <<project, seenProject, secret, argo, runVars, resultVars, events>>

DestroyProject ==
  /\ pjob.at = "listed"
  /\ pjob' = Idle
  /\ \/ /\ argo.credential
        /\ argo' = [argo EXCEPT !.credential = FALSE]
        /\ UNCHANGED project
     \/ /\ ~argo.credential /\ argo.policy # 0
        /\ argo' = [argo EXCEPT !.terminating = TRUE]
        /\ UNCHANGED project
     \/ /\ ~argo.credential /\ argo.policy = 0
        /\ UpdateProject([seenProject EXCEPT !.present = FALSE, !.fin = FALSE])
        /\ UNCHANGED argo
  /\ UNCHANGED <<seenProject, secret, runVars, resultVars, events>>

ObserveProject ==
  /\ seenProject # project /\ seenProject' = project
  /\ UNCHANGED <<project, pjob, secret, argo, runVars, resultVars, events>>

EditProject ==
  /\ Happens("editProject")
  /\ project.present /\ ~project.del /\ project.gen < MaxGeneration
  /\ \E valid \in BOOLEAN :
       project' = [project EXCEPT !.gen = @ + 1, !.valid = valid]
  /\ UNCHANGED <<seenProject, pjob, secret, argo, runVars, resultVars>>

DeleteProject ==
  /\ Happens("deleteProject") /\ project.present /\ ~project.del
  /\ project' = [project EXCEPT !.del = TRUE, !.present = project.fin]
  /\ UNCHANGED <<seenProject, pjob, secret, argo, runVars, resultVars>>

ChangeSecret ==
  /\ Happens("secret") /\ secret' = ~secret
  /\ UNCHANGED <<project, seenProject, pjob, argo, runVars, resultVars>>

(* Argo's finalizer on the AppProject.                                     *)
AppProjectGoes ==
  /\ argo.terminating
  /\ argo' = [argo EXCEPT !.policy = 0, !.terminating = FALSE]
  /\ UNCHANGED <<project, seenProject, pjob, secret, runVars, resultVars, events>>

StopProject ==
  /\ pjob.at # "idle" /\ Happens("stop") /\ pjob' = Idle
  /\ UNCHANGED <<project, seenProject, secret, argo, runVars, resultVars>>

-----------------------------------------------------------------------------
(* The ValidationRun controller, for run r.                                *)

Sees(r) == seenRun[r].present /\ ~seenRun[r].del /\ seenRun[r].phase # "Failed"

Updated(r, new) == seenRun[r] = run[r] /\ run' = [run EXCEPT ![r] = new]

Proceed(r, at) == vjob' = [vjob EXCEPT ![r].at = at]
Done(r)        == vjob' = [vjob EXCEPT ![r] = VIdle]
Recorded(r, es) == evidence' = [evidence EXCEPT ![r] = @ \cup es]
Judge(r, verdict) ==
  vjob' = [vjob EXCEPT ![r].at = "verdict", ![r].verdict = verdict]

(* What the cache shows of a run's epoch, collector and lease.             *)
SeenEpoch(r) == IF "epoch" \in seen[r].behind THEN seen[r].epoch ELSE config[r].epoch
SeenJob(r)   == IF "job" \in seen[r].behind THEN seen[r].job ELSE job[r]
SeenLease(r) == IF "lease" \in seen[r].behind THEN seen[r].lease ELSE lease[r]

AddValidationFinalizer(r) ==
  /\ vjob[r].at = "idle" /\ Sees(r) /\ ~seenRun[r].fin
  /\ Updated(r, [seenRun[r] EXCEPT !.fin = TRUE])
  /\ UNCHANGED <<projectVars, seenRun, vjob, inputs, app, resultVars, events>>

Waiting(r) == /\ vjob[r].at = "idle" /\ Sees(r)
              /\ seenRun[r].fin /\ ~seenRun[r].ref

failInvalidInputs(r) ==
  /\ Waiting(r) /\ ProjectReady(seenProject) /\ inputs[r] = "invalid"
  /\ Updated(r, [seenRun[r] EXCEPT !.phase = "Failed"])
  /\ UNCHANGED <<projectVars, seenRun, vjob, inputs, app, resultVars, events>>

(* providerRequest: the project is ready and the pinned inputs are         *)
(* accepted and about one candidate.  What authorises the deployment is    *)
(* recorded before it.                                                     *)
Authorize(r) ==
  /\ Waiting(r) /\ ProjectReady(seenProject) /\ inputs[r] = "ready"
  /\ Recorded(r, {"authority", "inputs"})
  /\ Proceed(r, "start")
  /\ UNCHANGED <<projectVars, run, seenRun, inputs, app, config, job, artifact,
                 lease, seen, events>>

(* ArgoKustomize.Start creates the Application or updates it.  It fails    *)
(* for one that is being deleted, which here only the run itself does.     *)
Start(r) ==
  /\ vjob[r].at = "start"
  /\ app' = [app EXCEPT ![r] = IF @ = "none" THEN "progressing" ELSE @]
  /\ Proceed(r, "record")
  /\ UNCHANGED <<projectVars, run, seenRun, inputs, resultVars, events>>

RecordStart(r) ==
  /\ vjob[r].at = "record"
  /\ \/ Updated(r, [seenRun[r] EXCEPT !.ref = TRUE, !.phase = "Validating"])
     \/ seenRun[r] # run[r] /\ UNCHANGED run
  /\ Done(r)
  /\ UNCHANGED <<projectVars, seenRun, inputs, app, resultVars, events>>

Deployed(r) == vjob[r].at = "idle" /\ Sees(r) /\ seenRun[r].fin /\ seenRun[r].ref

(* A reconciliation that has nothing left to publish.                      *)
Concluded(r) == seenRun[r].declares => /\ artifact[r] = "accepted"
                                       /\ SeenJob(r) = "succeeded"


(* Argo reports a ready preview.                                           *)
ObserveReady(r) ==
  /\ Deployed(r) /\ app[r] = "healthy"
  /\ ~(seenRun[r].phase = "Succeeded" /\ Concluded(r))
  /\ Proceed(r, "publish")
  /\ UNCHANGED <<projectVars, run, seenRun, inputs, app, resultVars, events>>

(* Argo reports an error or a degraded preview: also after the run has     *)
(* succeeded.                                                              *)
ObserveFailed(r) ==
  /\ Deployed(r) /\ app[r] = "degraded"
  /\ {"authority", "inputs"} \subseteq evidence[r]
  /\ Recorded(r, {"evaluated"})
  /\ Judge(r, "degraded")
  /\ UNCHANGED <<projectVars, run, seenRun, inputs, app, config, job, artifact,
                 lease, seen, events>>

(* publishValidationResult.  "Legacy workflows may use a validation step   *)
(* without a declared output": it has passed, and nothing is published.    *)
PassUndeclared(r) ==
  /\ vjob[r].at = "publish" /\ ~seenRun[r].declares
  /\ Judge(r, "passed")
  /\ UNCHANGED <<projectVars, run, seenRun, inputs, app, resultVars, events>>

(* The first time, the endpoint checks run and what they and Argo said is  *)
(* frozen in an immutable ConfigMap.  A copy that does not show it makes   *)
(* the next creation fail, and the reconciliation is repeated.             *)
Freeze(r) ==
  /\ vjob[r].at = "publish" /\ seenRun[r].declares
  /\ config[r].result = "none"
  /\ seenProject.present /\ inputs[r] = "ready"
  /\ \E result \in {"passed", "failed"} :
       config' = [config EXCEPT ![r].result = result]
  /\ UNCHANGED <<projectVars, runVars, job, artifact, evidence, lease, seen,
                 events>>

Frozen(r) == vjob[r].at = "publish" /\ config[r].result # "none"

(* releaseResultWriter: the lease is released if its copy names this run,  *)
(* at whatever epoch, and is the lease itself: an outdated copy is read    *)
(* again until the update succeeds, has nothing to do or fails (Conflict). *)
releaseResultWriter(r) ==
  lease' = IF SeenLease(r) = lease[r] /\ lease[r].holder = "run"
           THEN [lease EXCEPT ![r].holder = "nobody"] ELSE lease

(* Deviation: an artifact that is not judged yet counts as accepted.       *)
VerdictOfJob(r) ==
  LET collector == SeenJob(r) IN
  CASE collector = "failed"                              -> "collectionFailed"
    [] collector = "succeeded" /\ artifact[r] # "rejected" -> config[r].result
    [] collector = "succeeded"                           -> "rejected"
    [] OTHER                                             -> ""

(* The artifact, too, is read from a cache; until that shows the decision  *)
(* the reconciliation waits.                                               *)
Verdict(r) ==
  LET collector == SeenJob(r) IN
  CASE collector = "failed"                                -> "collectionFailed"
    [] collector = "succeeded" /\ artifact[r] = "rejected" -> "rejected"
    [] collector = "succeeded" /\ artifact[r] = "accepted" -> config[r].result
    [] OTHER                                               -> ""

Collected(r) ==
  /\ Frozen(r)
  /\ \/ /\ Verdict(r) # "" /\ releaseResultWriter(r) /\ Judge(r, Verdict(r))
     \/ /\ SeenJob(r) = "succeeded" /\ Verdict(r) = ""
        /\ Done(r) /\ UNCHANGED lease
  /\ UNCHANGED <<projectVars, run, seenRun, inputs, app, config, job, artifact,
                 evidence, seen, events>>

(* AcquireWorkspaceWriter for the epoch the ConfigMap records, if any.     *)
AcquireResultWriter(r) ==
  LET copy == SeenLease(r)
      expected == SeenEpoch(r)
      granted == IF SeenJob(r) = "none" THEN "granted" ELSE "regranted"
      at(state, e) == vjob' = [vjob EXCEPT ![r].at = state, ![r].epoch = e] IN
  /\ Frozen(r) /\ SeenJob(r) \in {"none", "active", "deleting"}
  /\ \/ /\ expected > 0 /\ copy = [holder |-> "run", epoch |-> expected]
        /\ IF SeenJob(r) = "none" THEN at("evaluate", expected) ELSE Done(r)
        /\ UNCHANGED lease
     \/ /\ expected > 0 /\ copy # [holder |-> "run", epoch |-> expected]
        /\ at("lost", 0) /\ UNCHANGED lease
     \/ /\ expected = 0 /\ copy.holder = "run"
        /\ at(granted, copy.epoch) /\ UNCHANGED lease
     \/ /\ expected = 0 /\ copy.holder = "other"
        /\ Done(r) /\ UNCHANGED lease
     \/ /\ expected = 0 /\ copy.holder = "nobody" /\ copy = lease[r]
        /\ copy.epoch < MaxEpoch
        /\ lease' = [lease EXCEPT ![r] = [holder |-> "run", epoch |-> @.epoch + 1]]
        /\ at(granted, copy.epoch + 1)
  /\ UNCHANGED <<projectVars, run, seenRun, inputs, app, config, job, artifact,
                 evidence, seen, events>>

(* An update of the lease from an outdated copy fails.                     *)
Conflict(r) ==
  /\ vjob[r].at \in {"publish", "lost"} /\ SeenLease(r) # lease[r]
  /\ Done(r)
  /\ UNCHANGED <<projectVars, run, seenRun, inputs, app, resultVars, events>>

RecordEpoch(r) ==
  /\ vjob[r].at \in {"granted", "regranted"}
  /\ config' = [config EXCEPT ![r].epoch = vjob[r].epoch]
  /\ IF vjob[r].at = "granted" THEN Proceed(r, "evaluate") ELSE Done(r)
  /\ UNCHANGED <<projectVars, run, seenRun, inputs, app, job, artifact,
                 evidence, lease, seen, events>>

(* Deviation: the evaluation is recorded with the run's success only.      *)
EvaluateLater(r) ==
  /\ vjob[r].at = "evaluate" /\ Proceed(r, "collect")
  /\ UNCHANGED <<projectVars, run, seenRun, inputs, app, resultVars, events>>

(* The evaluation is recorded before the collector can publish.            *)
Evaluate(r) ==
  /\ vjob[r].at = "evaluate"
  /\ {"authority", "inputs"} \subseteq evidence[r]
  /\ Recorded(r, {"evaluated"})
  /\ Proceed(r, "collect")
  /\ UNCHANGED <<projectVars, run, seenRun, inputs, app, config, job, artifact,
                 lease, seen, events>>

Collect(r) ==
  /\ vjob[r].at = "collect"
  /\ job' = [job EXCEPT ![r] = IF @ = "none" THEN "active" ELSE @]
  /\ Done(r)
  /\ UNCHANGED <<projectVars, run, seenRun, inputs, app, config, artifact,
                 evidence, lease, seen, events>>

(* cleanupResultPublication: the collector must be gone, as far as its     *)
(* copy shows, before the lease is released.  It is deleted by its name.   *)
DeleteCollector(r) ==
  /\ SeenJob(r) # "none"
  /\ job' = [job EXCEPT ![r] = IF SeenJob(r) = "deleting" \/ @ = "none"
                               THEN @ ELSE "deleting"]

(* The writer's authority is lost: the run fails once it is cleaned up.    *)
LoseResultWriter(r) ==
  /\ vjob[r].at = "lost"
  /\ \/ DeleteCollector(r) /\ Done(r) /\ UNCHANGED lease
     \/ /\ SeenJob(r) = "none"
        /\ releaseResultWriter(r) /\ Judge(r, "lost") /\ UNCHANGED job
  /\ UNCHANGED <<projectVars, run, seenRun, inputs, app, config, artifact,
                 evidence, seen, events>>

(* The evaluation of a success, which is recorded before it.               *)
RecordSuccess(r) ==
  /\ vjob[r].at = "verdict" /\ vjob[r].verdict = "passed"
  /\ {"authority", "inputs"} \subseteq evidence[r]
  /\ IF seenRun[r].phase = "Succeeded"
     THEN Done(r) /\ UNCHANGED evidence
     ELSE Proceed(r, "conclude") /\ Recorded(r, {"evaluated"})
  /\ UNCHANGED <<projectVars, run, seenRun, inputs, app, config, job, artifact,
                 lease, seen, events>>

(* Success, or failResultPublication.                                      *)
Conclude(r) ==
  LET passed == vjob[r].verdict = "passed"
      phase == IF passed THEN "Succeeded" ELSE "Failed" IN
  /\ vjob[r].at = IF passed THEN "conclude" ELSE "verdict"
  /\ \/ Updated(r, [seenRun[r] EXCEPT !.phase = phase])
     \/ seenRun[r] # run[r] /\ UNCHANGED run
  /\ Done(r)
  /\ UNCHANGED <<projectVars, seenRun, inputs, app, resultVars, events>>

(* Deviation: failed runs are not cleaned up.                              *)
ClosingDeleted(r) == vjob[r].at = "idle" /\ seenRun[r].present /\ seenRun[r].del

Closing(r) == /\ vjob[r].at = "idle" /\ seenRun[r].present
              /\ \/ seenRun[r].del /\ seenRun[r].fin
                 \/ ~seenRun[r].del /\ seenRun[r].phase = "Failed"

(* A failed or deleted run is cleaned up.                                  *)
cleanupResultPublication(r) ==
  /\ Closing(r)
  /\ \/ DeleteCollector(r) /\ job' # job /\ UNCHANGED <<lease, vjob>>
     \/ /\ SeenJob(r) = "none"
        /\ releaseResultWriter(r)
        /\ IF seenRun[r].del THEN Proceed(r, "destroy")
           ELSE lease' # lease /\ UNCHANGED vjob
        /\ UNCHANGED job
  /\ UNCHANGED <<projectVars, run, seenRun, inputs, app, config, artifact,
                 evidence, seen, events>>

(* Deviation: only a recorded preview is looked for.                       *)
DestroyRecorded(r) ==
  /\ vjob[r].at = "destroy"
  /\ \/ /\ app[r] # "none" /\ seenRun[r].ref
        /\ app' = [app EXCEPT ![r] = "pruning"]
        /\ UNCHANGED run
     \/ /\ app[r] = "none" \/ ~seenRun[r].ref
        /\ Updated(r, [seenRun[r] EXCEPT !.present = FALSE, !.fin = FALSE])
        /\ UNCHANGED app
  /\ Done(r)
  /\ UNCHANGED <<projectVars, seenRun, inputs, resultVars, events>>

(* Destroy, then the finalizer once Argo has no such Application: it is    *)
(* looked for under its deterministic name, recorded or not.               *)
Destroy(r) ==
  /\ vjob[r].at = "destroy"
  /\ \/ /\ app[r] # "none"
        /\ app' = [app EXCEPT ![r] = "pruning"]
        /\ UNCHANGED run
     \/ /\ app[r] = "none"
        /\ \/ Updated(r, [seenRun[r] EXCEPT !.present = FALSE, !.fin = FALSE])
           \/ seenRun[r] # run[r] /\ UNCHANGED run
        /\ UNCHANGED app
  /\ Done(r)
  /\ UNCHANGED <<projectVars, seenRun, inputs, resultVars, events>>

-----------------------------------------------------------------------------
(* What happens around a run.                                              *)

(* A reconciliation works on the copy it has read to the end.              *)
ObserveRun(r) ==
  /\ vjob[r].at = "idle"
  /\ seenRun[r] # run[r] /\ seenRun' = [seenRun EXCEPT ![r] = run[r]]
  /\ UNCHANGED <<projectVars, run, vjob, inputs, app, resultVars, events>>

(* The caches may fall behind what the run has published; each catches up. *)
FallBehind(r) ==
  /\ Happens("lag")
  /\ \E new \in SUBSET (Cached \ seen[r].behind) \ {{}} :
       seen' = [seen EXCEPT ![r] =
                  [behind |-> @.behind \cup new,
                   epoch  |-> IF "epoch" \in new THEN config[r].epoch ELSE @.epoch,
                   job    |-> IF "job" \in new THEN job[r] ELSE @.job,
                   lease  |-> IF "lease" \in new THEN lease[r] ELSE @.lease]]
  /\ UNCHANGED <<projectVars, runVars, config, job, artifact, evidence, lease>>

CatchUp(r, copy) ==
  /\ copy \in seen[r].behind
  /\ seen' = [seen EXCEPT ![r].behind = @ \ {copy},
                          ![r][copy] = NoCopies[copy]]
  /\ UNCHANGED <<projectVars, runVars, config, job, artifact, evidence, lease,
                 events>>

(* ValidateDomainAuthority refuses a run whose step attempt is another one *)
(* by now, or authorises something else.                                   *)
AuthorityFails(r) ==
  /\ vjob[r].at = "idle" /\ Sees(r) /\ seenRun[r].fin
  /\ Happens("authority")
  /\ Updated(r, [seenRun[r] EXCEPT !.phase = "Failed"])
  /\ UNCHANGED <<projectVars, seenRun, vjob, inputs, app, resultVars>>

StopRun(r) ==
  /\ vjob[r].at # "idle" /\ Happens("stop") /\ Done(r)
  /\ UNCHANGED <<projectVars, run, seenRun, inputs, app, resultVars>>

DeleteRun(r) ==
  /\ Happens("deleteRun") /\ run[r].present /\ ~run[r].del
  /\ run' = [run EXCEPT ![r].del = TRUE, ![r].present = run[r].fin]
  /\ UNCHANGED <<projectVars, seenRun, vjob, inputs, app, resultVars>>

(* The pinned inputs are accepted, or do not belong together.              *)
InputsSettle(r) ==
  /\ inputs[r] = "pending"
  /\ \E resolution \in {"ready", "invalid"} :
       inputs' = [inputs EXCEPT ![r] = resolution]
  /\ UNCHANGED <<projectVars, run, seenRun, vjob, app, resultVars, events>>

(* Argo CD synchronises a preview with the project's credential, and       *)
(* needs it again to prune the preview.                                    *)
ArgoSyncs(r) ==
  /\ app[r] = "progressing" /\ argo.credential /\ argo.policy # 0
  /\ app' = [app EXCEPT ![r] = "healthy"]
  /\ UNCHANGED <<projectVars, run, seenRun, vjob, inputs, resultVars, events>>

Degrade(r) ==
  /\ Happens("degrade") /\ app[r] \in {"progressing", "healthy"}
  /\ app' = [app EXCEPT ![r] = "degraded"]
  /\ UNCHANGED <<projectVars, run, seenRun, vjob, inputs, resultVars>>

ArgoPrunes(r) ==
  /\ app[r] = "pruning" /\ argo.credential /\ argo.policy # 0
  /\ app' = [app EXCEPT ![r] = "none"]
  /\ UNCHANGED <<projectVars, run, seenRun, vjob, inputs, resultVars, events>>

(* The collector job creates the Artifact, under its one name, and ends.   *)
JobPublishes(r) ==
  /\ job[r] \in {"active", "deleting"} /\ artifact[r] = "none"
  /\ artifact' = [artifact EXCEPT ![r] = "pending"]
  /\ UNCHANGED <<projectVars, runVars, config, job, evidence, lease, seen,
                 events>>

JobEnds(r) ==
  /\ \/ job[r] = "active" /\ artifact[r] # "none"
        /\ job' = [job EXCEPT ![r] = "succeeded"] /\ UNCHANGED events
     \/ job[r] = "active" /\ Happens("jobFails")
        /\ job' = [job EXCEPT ![r] = "failed"]
     \/ job[r] = "deleting"
        /\ job' = [job EXCEPT ![r] = "none"] /\ UNCHANGED events
     \/ job[r] \in {"succeeded", "failed"} /\ Happens("jobGone")
        /\ job' = [job EXCEPT ![r] = "none"]
  /\ UNCHANGED <<projectVars, runVars, config, artifact, evidence, lease, seen>>

(* The artifact controller accepts the Artifact, or rejects it.            *)
ArtifactSettles(r) ==
  /\ artifact[r] = "pending"
  /\ \/ artifact' = [artifact EXCEPT ![r] = "accepted"] /\ UNCHANGED events
     \/ artifact' = [artifact EXCEPT ![r] = "rejected"] /\ Happens("reject")
  /\ UNCHANGED <<projectVars, runVars, config, job, evidence, lease, seen>>

(* Another execution unit of the workflow takes or releases the lease.     *)
OtherWriter(r) ==
  /\ \/ /\ lease[r].holder = "nobody" /\ lease[r].epoch < MaxEpoch
        /\ Happens("otherWriter")
        /\ lease' = [lease EXCEPT ![r] = [holder |-> "other", epoch |-> @.epoch + 1]]
     \/ /\ lease[r].holder = "other" /\ UNCHANGED events
        /\ lease' = [lease EXCEPT ![r].holder = "nobody"]
  /\ UNCHANGED <<projectVars, runVars, config, job, artifact, evidence, seen>>

-----------------------------------------------------------------------------
ProjectStep ==
  \/ updateConfigurationStatus \/ RefuseProvisioning \/ AddProjectFinalizer
  \/ EnsureAppProject \/ ensureRepositoryCredential
  \/ ReportProvisioned \/ ReportRefused
  \/ ReportTerminating \/ ListApplications \/ DestroyProject

RunStep(r) ==
  \/ AddValidationFinalizer(r) \/ failInvalidInputs(r) \/ Authorize(r)
  \/ Start(r) \/ RecordStart(r) \/ ObserveReady(r) \/ ObserveFailed(r)
  \/ PassUndeclared(r) \/ Freeze(r) \/ Collected(r)
  \/ AcquireResultWriter(r) \/ RecordEpoch(r) \/ Evaluate(r) \/ Collect(r)
  \/ LoseResultWriter(r) \/ RecordSuccess(r) \/ Conclude(r)
  \/ cleanupResultPublication(r) \/ Destroy(r)

(* What the caches bring.                                                  *)
Observe(r) == ObserveRun(r) \/ \E copy \in Cached : CatchUp(r, copy)

(* What others do without being asked for, and what may happen.            *)
Surroundings(r) ==
  \/ InputsSettle(r) \/ ArgoSyncs(r) \/ ArgoPrunes(r)
  \/ JobPublishes(r) \/ JobEnds(r) \/ ArtifactSettles(r) \/ OtherWriter(r)

Next ==
  \/ ProjectStep \/ ObserveProject \/ AppProjectGoes
  \/ EditProject \/ DeleteProject \/ ChangeSecret \/ StopProject
  \/ \E r \in Runs :
       \/ RunStep(r) \/ Observe(r) \/ Surroundings(r) \/ Conflict(r)
       \/ FallBehind(r) \/ AuthorityFails(r) \/ StopRun(r) \/ DeleteRun(r) \/ Degrade(r)

Spec == Init /\ [][Next]_vars

(* The work queues retry what has failed, caches catch up with what they   *)
(* watch, jobs end, and Argo prunes what it has the means to prune.        *)
Fairness ==
  /\ WF_vars(ProjectStep) /\ SF_vars(ObserveProject) /\ WF_vars(AppProjectGoes)
  /\ \A r \in Runs :
       /\ WF_vars(RunStep(r)) /\ SF_vars(ObserveRun(r))
       /\ \A copy \in Cached : WF_vars(CatchUp(r, copy))
       /\ WF_vars(JobPublishes(r)) /\ WF_vars(JobEnds(r)) /\ SF_vars(ArgoPrunes(r))

FairSpec == Spec /\ Fairness

-----------------------------------------------------------------------------
(* A project is ready only if what it now declares is provisioned in Argo. *)
(* A spec edited while EnsureProject ran must not be reported as ready     *)
(* (updateValidationProviderStatus, project_controller.go:185).            *)
ReadyMeansProvisioned ==
  ProjectReady(project) => /\ argo.policy = project.gen
                           /\ argo.credential /\ ~argo.terminating

(* A ValidationRun is never gone while its preview still exists: Start may *)
(* have created the Application without its name being recorded            *)
(* (validationrun_controller.go:57-73).                                    *)
NoOrphanPreview ==
  \A r \in Runs : ~run[r].present => app[r] = "none"

(* Nothing of a validation result is published before the decision about   *)
(* it, and what authorised it, is recorded (result_publication.go:180).    *)
EvaluatedBeforePublished ==
  \A r \in Runs :
    artifact[r] # "none" => evidence[r] = {"authority", "inputs", "evaluated"}

(* A run of a step that declares the result succeeds only on a passed one  *)
(* that has been accepted (publishValidationResult, :109-140); one of a    *)
(* legacy step has nothing to publish (:49).  Both succeed only after the  *)
(* evaluation, and what authorised it, is recorded.                        *)
SuccessIsPublished ==
  [][\A r \in Runs :
       run'[r].phase = "Succeeded" /\ run[r].phase # "Succeeded" =>
         /\ evidence[r] = {"authority", "inputs", "evaluated"}
         /\ IF run[r].declares
            THEN config[r].result = "passed" /\ artifact[r] = "accepted"
            ELSE config[r] = NoConfig /\ artifact[r] = "none"]_vars

(* No run leaves the workspace locked behind it (releaseResultWriter).     *)
(* Not kept: a copy of the lease may not show the term.                    *)
WriterReleased ==
  \A r \in Runs : ~run[r].present => lease[r].holder # "run"

(* "Keep repository access available until every Application using the     *)
(* project is gone, so Argo can finish pruning preview resources."         *)
(* (argocd_project.go:222)                                                 *)
AccessOutlivesPreviews ==
  argo.credential \/ \A r \in Runs : app[r] \notin {"healthy", "degraded", "pruning"}

(* A deleted run ends, and a failed one that stays gives the workspace     *)
(* back, whatever failed on the way; unless Argo has lost its access to    *)
(* the repository.                                                         *)
RunEnds ==
  \A r \in Runs :
    /\ run[r].del ~> (~run[r].present \/ ~argo.credential)
    /\ run[r].phase = "Failed" ~> (lease[r].holder # "run" \/ run[r].del)

(* What a project or a run has in Argo always has an owner that will take  *)
(* it away: provisioning is reported only of what is there, and no preview *)
(* outlives its run.                                                       *)
PreviewsAreOwned ==
  TypeOK /\ ReadyMeansProvisioned /\ NoOrphanPreview
=============================================================================
