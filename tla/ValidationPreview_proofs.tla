---- MODULE ValidationPreview_proofs ----
EXTENDS ValidationPreview, TLAPS

-----------------------------------------------------------------------------
(* The invariants.                                                          *)

\* The condition of the project that says that Argo has what the spec declares.
ReportsProvisioned == project.prov.ok /\ project.prov.gen = project.gen

\* A copy of the project is not newer than the project; provisioning is reported only of the
\* generation that Argo has, and what the controller has in hand is what it has written.
ProjectInv ==
  /\ project.prov.gen <= seenProject.gen /\ seenProject.gen <= project.gen
  /\ seenProject.prov.gen <= seenProject.gen
  /\ seenProject.del => project.del
  /\ argo.terminating \/ pjob.at = "listed" => project.del
  /\ ~project.del =>
       /\ ReportsProvisioned => argo.policy = project.gen /\ argo.credential
       /\ pjob.at \in {"ensured", "provisioned"} =>
            argo.policy = pjob.gen /\ pjob.gen <= seenProject.gen
       /\ pjob.at = "provisioned" => argo.credential

\* The stages of a reconciliation that publishes, and of one that deploys, publishes or
\* concludes.
Publishing == {"granted", "regranted", "evaluate", "collect", "lost"}
Working    == Publishing \cup {"start", "record", "publish", "verdict", "conclude"}

\* A run that can leave has no preview, and no reconciliation that works for it is under way:
\* such a one has read a copy that has the finalizer and is not being deleted.
RunInv(r) ==
  /\ ~run[r].present => ~run[r].fin
  /\ ~run[r].fin => /\ app[r] = "none"
                    /\ seenRun[r].fin => seenRun[r].del
  /\ vjob[r].at # "idle" => seenRun[r].fin
  /\ vjob[r].at \in Working => ~seenRun[r].del
  /\ vjob[r].at = "destroy" => seenRun[r].del
  /\ seenRun[r].declares = run[r].declares

\* A collector, what it publishes, and a success come after the evidence.
EvidenceInv(r) ==
  job[r] # "none" \/ artifact[r] # "none" \/ vjob[r].at \in {"collect", "conclude"} =>
    evidence[r] = {"authority", "inputs", "evaluated"}

\* A verdict stands on what was published.
VerdictInv(r) ==
  vjob[r].at \in {"verdict", "conclude"} /\ vjob[r].verdict = "passed" /\ seenRun[r].declares =>
    config[r].result = "passed" /\ artifact[r] = "accepted"

\* Nothing is published for a step that declares no result.
LegacyInv(r) ==
  ~run[r].declares =>
    /\ config[r] = NoConfig /\ job[r] = "none" /\ artifact[r] = "none"
    /\ vjob[r].at \notin Publishing

-----------------------------------------------------------------------------
(* The project.                                                             *)

\* The types of the project's side, and of what it has in Argo.
ProjectTypes ==
  /\ project \in Project /\ seenProject \in Project
  /\ pjob \in [at : {"idle", "ensured", "provisioned", "listed"},
               gen : 0..MaxGeneration]
  /\ secret \in BOOLEAN
  /\ argo \in [policy : 0..MaxGeneration, terminating : BOOLEAN,
               credential : BOOLEAN]

\* What a step of the project, its controller or Argo's side of it may be.
ProjectMoves ==
  \/ ProjectStep \/ ObserveProject \/ AppProjectGoes
  \/ EditProject \/ DeleteProject \/ ChangeSecret \/ StopProject

\* What a step of one run, of its controller or of what is around it may be.
RunMoves(r) ==
  \/ RunStep(r) \/ Observe(r) \/ Surroundings(r) \/ Conflict(r)
  \/ FallBehind(r) \/ AuthorityFails(r) \/ StopRun(r) \/ DeleteRun(r) \/ Degrade(r)

\* A step is one of the project or one of a run, and neither writes what is the other's.
LEMMA Apart ==
  /\ Next <=> ProjectMoves \/ \E r \in Runs : RunMoves(r)
  /\ ProjectMoves => UNCHANGED <<runVars, resultVars>>
  /\ \A r \in Runs : RunMoves(r) => UNCHANGED projectVars
<1>1. Next <=> ProjectMoves \/ \E r \in Runs : RunMoves(r)
  BY DEF Next, ProjectMoves, RunMoves
<1>2. ProjectMoves => UNCHANGED <<runVars, resultVars>>
  BY DEF ProjectMoves, ProjectStep, updateConfigurationStatus, RefuseProvisioning,
         AddProjectFinalizer, EnsureAppProject, ensureRepositoryCredential,
         ReportProvisioned, ReportRefused, ReportTerminating, ListApplications,
         DestroyProject, ObserveProject, AppProjectGoes, EditProject, DeleteProject,
         ChangeSecret, StopProject
<1>3. ASSUME NEW r \in Runs, RunMoves(r) PROVE UNCHANGED projectVars
  BY <1>3 DEF RunMoves, RunStep, Surroundings, AddValidationFinalizer,
     failInvalidInputs, Authorize, Start, RecordStart, ObserveReady, ObserveFailed,
     PassUndeclared, Freeze, Collected, AcquireResultWriter, RecordEpoch, Evaluate,
     Collect, LoseResultWriter, RecordSuccess, Conclude, cleanupResultPublication,
     Destroy, Observe, ObserveRun, CatchUp, FallBehind, Conflict, AuthorityFails,
     InputsSettle, ArgoSyncs, ArgoPrunes, JobPublishes, JobEnds, ArtifactSettles,
     OtherWriter, StopRun, DeleteRun, Degrade
<1>4. QED
  BY <1>1, <1>2, <1>3

\* Updating a copy of the project of a project's type gives one.
LEMMA ProjectUpdate ==
  ASSUME ProjectTypes
  PROVE  /\ \A ok \in BOOLEAN, g \in 0..MaxGeneration :
              /\ [seenProject EXCEPT !.conf = [ok |-> ok, gen |-> g]] \in Project
              /\ \A ref \in BOOLEAN :
                   [seenProject EXCEPT !.prov = [ok |-> ok, gen |-> g], !.ref = ref]
                     \in Project
         /\ [seenProject EXCEPT !.fin = TRUE] \in Project
         /\ [seenProject EXCEPT !.present = FALSE, !.fin = FALSE] \in Project
         /\ \A valid \in BOOLEAN :
              project.gen < MaxGeneration =>
                [project EXCEPT !.gen = @ + 1, !.valid = valid] \in Project
         /\ [project EXCEPT !.del = TRUE, !.present = project.fin] \in Project
         /\ seenProject.gen \in 0..MaxGeneration /\ seenProject.valid \in BOOLEAN
         /\ pjob.gen \in 0..MaxGeneration /\ seenProject.ref \in BOOLEAN
<1>1. ASSUME NEW ok \in BOOLEAN, NEW g \in 0..MaxGeneration
      PROVE  [ok |-> ok, gen |-> g] \in Condition
  BY DEF Condition
<1>2. seenProject \in Project /\ project \in Project
  BY DEF ProjectTypes
<1>3. /\ seenProject.gen \in 0..MaxGeneration /\ seenProject.valid \in BOOLEAN
      /\ pjob.gen \in 0..MaxGeneration /\ seenProject.ref \in BOOLEAN
  BY PreviewAssumption DEF ProjectTypes, Project
<1>4. ASSUME NEW c \in Condition, NEW ref \in BOOLEAN
      PROVE  /\ [seenProject EXCEPT !.conf = c] \in Project
             /\ [seenProject EXCEPT !.prov = c, !.ref = ref] \in Project
  BY <1>2 DEF Project
<1>5. /\ [seenProject EXCEPT !.fin = TRUE] \in Project
      /\ [seenProject EXCEPT !.present = FALSE, !.fin = FALSE] \in Project
      /\ [project EXCEPT !.del = TRUE, !.present = project.fin] \in Project
  BY <1>2 DEF Project
<1>6. ASSUME NEW valid \in BOOLEAN, project.gen < MaxGeneration
      PROVE  [project EXCEPT !.gen = @ + 1, !.valid = valid] \in Project
  <2>1. project.gen + 1 \in 1..MaxGeneration
    BY <1>2, <1>6, PreviewAssumption DEF Project
  <2>2. QED
    BY <1>2, <2>1 DEF Project
<1>7. QED
  BY <1>1, <1>3, <1>4, <1>5, <1>6

\* The project's steps keep the types.
LEMMA ProjectTyped ==
  ASSUME ProjectTypes, ProjectMoves
  PROVE  ProjectTypes'
<1>1. CASE updateConfigurationStatus
  BY <1>1, ProjectUpdate DEF updateConfigurationStatus, UpdateProject, ProjectTypes
<1>2. CASE RefuseProvisioning
  BY <1>2, ProjectUpdate DEF RefuseProvisioning, updateValidationProviderStatus,
     UpdateProject, ProjectTypes
<1>3. CASE AddProjectFinalizer
  BY <1>3, ProjectUpdate DEF AddProjectFinalizer, UpdateProject, ProjectTypes
<1>4. CASE EnsureAppProject
  BY <1>4, ProjectUpdate DEF EnsureAppProject, ProjectTypes
<1>5. CASE ensureRepositoryCredential
  BY <1>5 DEF ensureRepositoryCredential, ProjectTypes
<1>6. CASE ReportProvisioned
  <2>1. Idle \in [at : {"idle", "ensured", "provisioned", "listed"}, gen : 0..MaxGeneration]
    BY PreviewAssumption DEF Idle
  <2>2. project' \in Project
    BY <1>6, ProjectUpdate DEF ReportProvisioned, updateValidationProviderStatus,
       UpdateProject, ProjectTypes
  <2>3. QED
    BY <1>6, <2>1, <2>2 DEF ReportProvisioned, ProjectTypes
<1>7. CASE ReportRefused \/ StopProject
  BY <1>7, PreviewAssumption DEF ReportRefused, StopProject, ProjectTypes, Idle
<1>8. CASE ReportTerminating
  BY <1>8, ProjectUpdate DEF ReportTerminating, updateValidationProviderStatus,
     UpdateProject, ProjectTypes
<1>9. CASE ListApplications
  BY <1>9, ProjectUpdate DEF ListApplications, ProjectTypes
<1>10. CASE DestroyProject
  <2>1. Idle \in [at : {"idle", "ensured", "provisioned", "listed"}, gen : 0..MaxGeneration]
    BY PreviewAssumption DEF Idle
  <2>2. QED
    BY <1>10, <2>1, ProjectUpdate DEF DestroyProject, UpdateProject, ProjectTypes
<1>11. CASE ObserveProject
  BY <1>11 DEF ObserveProject, ProjectTypes
<1>12. CASE AppProjectGoes
  <2>1. 0 \in 0..MaxGeneration
    BY PreviewAssumption
  <2>2. QED
    BY <1>12, <2>1 DEF AppProjectGoes, ProjectTypes
<1>13. CASE EditProject
  BY <1>13, ProjectUpdate DEF EditProject, ProjectTypes
<1>14. CASE DeleteProject
  BY <1>14, ProjectUpdate DEF DeleteProject, ProjectTypes
<1>15. CASE ChangeSecret
  BY <1>15 DEF ChangeSecret, ProjectTypes
<1>16. QED
  BY <1>1, <1>2, <1>3, <1>4, <1>5, <1>6, <1>7, <1>8, <1>9, <1>10, <1>11, <1>12,
     <1>13, <1>14, <1>15 DEF ProjectMoves, ProjectStep

\* What the project declares, has and reports stays consistent.
LEMMA ProjectKept ==
  ASSUME ProjectTypes, ProjectInv, ProjectMoves
  PROVE  ProjectInv'
<1> USE DEF ProjectInv, ReportsProvisioned
<1>1. /\ project.gen \in Nat /\ seenProject.gen \in Nat /\ pjob.gen \in Nat
      /\ project.prov.gen \in Nat /\ seenProject.prov.gen \in Nat
      /\ project \in Project /\ seenProject \in Project
  BY PreviewAssumption DEF ProjectTypes, Project, Condition
<1>2. CASE updateConfigurationStatus
  BY <1>2, <1>1 DEF updateConfigurationStatus, UpdateProject, Project
<1>3. CASE RefuseProvisioning
  BY <1>3, <1>1 DEF RefuseProvisioning, updateValidationProviderStatus, UpdateProject, Project
<1>4. CASE AddProjectFinalizer
  BY <1>4, <1>1 DEF AddProjectFinalizer, UpdateProject, Project
<1>5. CASE EnsureAppProject
  BY <1>5, <1>1 DEF EnsureAppProject, ProjectTypes
<1>6. CASE ensureRepositoryCredential
  BY <1>6, <1>1 DEF ensureRepositoryCredential, ProjectTypes
<1>7. CASE ReportProvisioned
  BY <1>7, <1>1 DEF ReportProvisioned, updateValidationProviderStatus, UpdateProject,
     Project, Idle
<1>8. CASE ReportRefused \/ StopProject
  BY <1>8, <1>1 DEF ReportRefused, StopProject, Idle
<1>9. CASE ReportTerminating
  BY <1>9, <1>1 DEF ReportTerminating, updateValidationProviderStatus, UpdateProject, Project
<1>10. CASE ListApplications
  BY <1>10, <1>1 DEF ListApplications
<1>11. CASE DestroyProject
  BY <1>11, <1>1 DEF DestroyProject, UpdateProject, Project, Idle, ProjectTypes
<1>12. CASE ObserveProject
  BY <1>12, <1>1 DEF ObserveProject
<1>13. CASE AppProjectGoes
  BY <1>13, <1>1 DEF AppProjectGoes, ProjectTypes
<1>14. CASE EditProject
  BY <1>14, <1>1 DEF EditProject, Project
<1>15. CASE DeleteProject
  BY <1>15, <1>1 DEF DeleteProject, Project
<1>16. CASE ChangeSecret
  BY <1>16, <1>1 DEF ChangeSecret
<1>17. QED
  BY <1>2, <1>3, <1>4, <1>5, <1>6, <1>7, <1>8, <1>9, <1>10, <1>11, <1>12, <1>13,
     <1>14, <1>15, <1>16 DEF ProjectMoves, ProjectStep

-----------------------------------------------------------------------------
(* The types of the runs.                                                   *)

\* The types of a run's side, with names for the records.
Stages == {"idle", "start", "record", "publish", "granted", "regranted", "evaluate",
           "collect", "lost", "verdict", "conclude", "destroy"}
Jobs   == [at : Stages, epoch : 0..MaxEpoch, verdict : Verdicts]
Configs == [result : {"none", "passed", "failed"}, epoch : 0..MaxEpoch]

\* The runs, their reconciliations and previews.
RunTypes ==
  /\ run \in [Runs -> Run] /\ seenRun \in [Runs -> Run]
  /\ vjob \in [Runs -> Jobs]
  /\ inputs \in [Runs -> {"pending", "ready", "invalid"}]
  /\ app \in [Runs -> {"none", "progressing", "healthy", "degraded", "pruning"}]

\* The results of the runs and the workspace leases.
ResultTypes ==
  /\ config \in [Runs -> Configs]
  /\ job \in [Runs -> JobStates]
  /\ artifact \in [Runs -> {"none", "pending", "accepted", "rejected"}]
  /\ evidence \in [Runs -> SUBSET {"authority", "inputs", "evaluated"}]
  /\ lease \in [Runs -> Lease]
  /\ seen \in [Runs -> Copies]

\* All of them.
Types == ProjectTypes /\ RunTypes /\ ResultTypes

\* What the records of a run may become.
LEMMA RunUpdate ==
  ASSUME RunTypes, ResultTypes, NEW r \in Runs
  PROVE  /\ \A phase \in {"", "Validating", "Succeeded", "Failed"}, ref \in BOOLEAN :
              /\ [seenRun[r] EXCEPT !.phase = phase] \in Run
              /\ [seenRun[r] EXCEPT !.ref = ref, !.phase = phase] \in Run
         /\ [seenRun[r] EXCEPT !.fin = TRUE] \in Run
         /\ [seenRun[r] EXCEPT !.present = FALSE, !.fin = FALSE] \in Run
         /\ [run EXCEPT ![r].del = TRUE, ![r].present = run[r].fin] \in [Runs -> Run]
         /\ \A new \in Run : [run EXCEPT ![r] = new] \in [Runs -> Run]
<1>1. run[r] \in Run /\ seenRun[r] \in Run /\ run \in [Runs -> Run]
  BY DEF RunTypes
<1>2. [run EXCEPT ![r].del = TRUE, ![r].present = run[r].fin] \in [Runs -> Run]
  BY <1>1 DEF Run
<1>3. QED
  BY <1>1, <1>2 DEF Run

\* A write of a run that does not meet a newer version, or does, leaves a run.
LEMMA RunWritten ==
  ASSUME RunTypes, NEW r \in Runs, NEW new \in Run, Updated(r, new) \/ UNCHANGED run
  PROVE  run' \in [Runs -> Run]
  BY DEF Updated, RunTypes

\* What the progress of a reconciliation may become.
LEMMA JobUpdate ==
  ASSUME RunTypes, NEW r \in Runs
  PROVE  /\ \A at \in Stages : [vjob EXCEPT ![r].at = at] \in [Runs -> Jobs]
         /\ \A at \in Stages, e \in 0..MaxEpoch :
              [vjob EXCEPT ![r].at = at, ![r].epoch = e] \in [Runs -> Jobs]
         /\ \A at \in Stages, v \in Verdicts :
              [vjob EXCEPT ![r].at = at, ![r].verdict = v] \in [Runs -> Jobs]
         /\ [vjob EXCEPT ![r] = VIdle] \in [Runs -> Jobs]
<1>1. vjob \in [Runs -> Jobs] /\ vjob[r] \in Jobs
  BY DEF RunTypes
<1>2. VIdle \in Jobs
  BY PreviewAssumption DEF VIdle, Jobs, Stages, Verdicts
<1>3. \A new \in Jobs : [vjob EXCEPT ![r] = new] \in [Runs -> Jobs]
  BY <1>1
<1>4. ASSUME NEW at \in Stages, NEW e \in 0..MaxEpoch, NEW v \in Verdicts
      PROVE  /\ [vjob[r] EXCEPT !.at = at] \in Jobs
             /\ [vjob[r] EXCEPT !.at = at, !.epoch = e] \in Jobs
             /\ [vjob[r] EXCEPT !.at = at, !.verdict = v] \in Jobs
  BY <1>1 DEF Jobs
<1>5. ASSUME NEW at \in Stages, NEW e \in 0..MaxEpoch, NEW v \in Verdicts
      PROVE  /\ [vjob EXCEPT ![r].at = at] = [vjob EXCEPT ![r] = [vjob[r] EXCEPT !.at = at]]
             /\ [vjob EXCEPT ![r].at = at, ![r].epoch = e]
                  = [vjob EXCEPT ![r] = [vjob[r] EXCEPT !.at = at, !.epoch = e]]
             /\ [vjob EXCEPT ![r].at = at, ![r].verdict = v]
                  = [vjob EXCEPT ![r] = [vjob[r] EXCEPT !.at = at, !.verdict = v]]
  BY <1>1 DEF Jobs
<1>6. 0 \in 0..MaxEpoch /\ "" \in Verdicts
  BY PreviewAssumption DEF Verdicts
<1>7. \A at \in Stages : [vjob EXCEPT ![r].at = at] \in [Runs -> Jobs]
  BY <1>3, <1>4, <1>5, <1>6
<1>8. \A at \in Stages, e \in 0..MaxEpoch :
        [vjob EXCEPT ![r].at = at, ![r].epoch = e] \in [Runs -> Jobs]
  BY <1>3, <1>4, <1>5, <1>6
<1>9. \A at \in Stages, v \in Verdicts :
        [vjob EXCEPT ![r].at = at, ![r].verdict = v] \in [Runs -> Jobs]
  BY <1>3, <1>4, <1>5, <1>6
<1>10. [vjob EXCEPT ![r] = VIdle] \in [Runs -> Jobs]
  BY <1>2, <1>3
<1>11. QED
  BY <1>7, <1>8, <1>9, <1>10

\* What the results and the leases may become.
LEMMA ResultUpdate ==
  ASSUME ResultTypes, NEW r \in Runs
  PROVE  /\ \A x \in {"none", "passed", "failed"} :
              [config EXCEPT ![r].result = x] \in [Runs -> Configs]
         /\ \A e \in 0..MaxEpoch : [config EXCEPT ![r].epoch = e] \in [Runs -> Configs]
         /\ lease[r].epoch \in 0..MaxEpoch
         /\ \A h \in {"nobody", "run", "other"} :
              /\ [lease EXCEPT ![r].holder = h] \in [Runs -> Lease]
              /\ lease[r].epoch < MaxEpoch =>
                   [lease EXCEPT ![r] = [holder |-> h, epoch |-> @.epoch + 1]]
                     \in [Runs -> Lease]
         /\ releaseResultWriter(r) => lease' \in [Runs -> Lease]
         /\ SeenEpoch(r) \in 0..MaxEpoch /\ SeenLease(r) \in Lease
<1>1. config \in [Runs -> Configs] /\ lease \in [Runs -> Lease]
  BY DEF ResultTypes
<1>2. lease[r].epoch \in 0..MaxEpoch
  BY <1>1 DEF Lease
<1>3. \A x \in {"none", "passed", "failed"} :
        [config EXCEPT ![r].result = x] \in [Runs -> Configs]
  BY <1>1 DEF Configs
<1>4. \A e \in 0..MaxEpoch : [config EXCEPT ![r].epoch = e] \in [Runs -> Configs]
  BY <1>1 DEF Configs
<1>5. ASSUME NEW h \in {"nobody", "run", "other"}
      PROVE  [lease EXCEPT ![r].holder = h] \in [Runs -> Lease]
  BY <1>1 DEF Lease
<1>6. ASSUME NEW h \in {"nobody", "run", "other"}, lease[r].epoch < MaxEpoch
      PROVE  [lease EXCEPT ![r] = [holder |-> h, epoch |-> @.epoch + 1]] \in [Runs -> Lease]
  <2>1. lease[r].epoch + 1 \in 0..MaxEpoch
    BY <1>2, <1>6, PreviewAssumption
  <2>2. QED
    BY <1>1, <2>1 DEF Lease
<1>7. releaseResultWriter(r) => lease' \in [Runs -> Lease]
  BY <1>1, <1>5 DEF releaseResultWriter
<1>8. SeenEpoch(r) \in 0..MaxEpoch /\ SeenLease(r) \in Lease
  BY <1>1 DEF ResultTypes, SeenEpoch, SeenLease, Copies, Configs
<1>9. QED
  BY <1>2, <1>3, <1>4, <1>5, <1>6, <1>7, <1>8

\* An attempt to acquire the writer's term, for the epoch recorded, or a new one.
LEMMA Acquires ==
  ASSUME Types, NEW r \in Runs, AcquireResultWriter(r)
  PROVE  /\ vjob' \in [Runs -> Jobs] /\ lease' \in [Runs -> Lease]
         /\ vjob'[r].at \in {"idle", "granted", "regranted", "evaluate", "lost"}
<1> USE DEF Types
<1>1. /\ lease[r].epoch \in 0..MaxEpoch /\ SeenEpoch(r) \in 0..MaxEpoch
      /\ SeenLease(r).epoch \in 0..MaxEpoch /\ 0 \in 0..MaxEpoch
  <2>1. /\ lease[r].epoch \in 0..MaxEpoch /\ SeenEpoch(r) \in 0..MaxEpoch
        /\ SeenLease(r) \in Lease
    BY ResultUpdate
  <2>2. QED
    BY <2>1, PreviewAssumption DEF Lease
<1>2. SeenLease(r).epoch < MaxEpoch => SeenLease(r).epoch + 1 \in 0..MaxEpoch
  BY <1>1, PreviewAssumption
<1>3. \/ /\ \E at \in {"granted", "regranted", "evaluate", "lost"}, e \in 0..MaxEpoch :
              vjob' = [vjob EXCEPT ![r].at = at, ![r].epoch = e]
         /\ lease' = lease
      \/ /\ vjob' = [vjob EXCEPT ![r] = VIdle]
         /\ lease' = lease
      \/ /\ lease[r].epoch < MaxEpoch
         /\ \E at \in {"granted", "regranted"}, e \in 0..MaxEpoch :
              vjob' = [vjob EXCEPT ![r].at = at, ![r].epoch = e]
         /\ lease' = [lease EXCEPT ![r] = [holder |-> "run", epoch |-> @.epoch + 1]]
  BY <1>1, <1>2 DEF AcquireResultWriter, Done
<1>4. lease' \in [Runs -> Lease]
  <2>1. lease \in [Runs -> Lease]
    BY DEF ResultTypes
  <2>2. lease[r].epoch < MaxEpoch =>
          [lease EXCEPT ![r] = [holder |-> "run", epoch |-> @.epoch + 1]]
            \in [Runs -> Lease]
    BY ResultUpdate
  <2>3. QED
    BY <1>3, <2>1, <2>2
<1>5. \/ vjob' = [vjob EXCEPT ![r] = VIdle]
      \/ \E at \in {"granted", "regranted", "evaluate", "lost"}, e \in 0..MaxEpoch :
           vjob' = [vjob EXCEPT ![r].at = at, ![r].epoch = e]
  BY <1>3
<1>6. vjob[r] \in Jobs /\ vjob \in [Runs -> Jobs]
  BY DEF RunTypes
<1>7. CASE vjob' = [vjob EXCEPT ![r] = VIdle]
  <2>1. VIdle.at = "idle"
    BY DEF VIdle
  <2>2. vjob' \in [Runs -> Jobs]
    BY <1>7, JobUpdate
  <2>3. QED
    BY <1>4, <1>6, <1>7, <2>1, <2>2
<1>8. ASSUME NEW at \in {"granted", "regranted", "evaluate", "lost"}, NEW e \in 0..MaxEpoch,
             vjob' = [vjob EXCEPT ![r].at = at, ![r].epoch = e]
      PROVE  vjob' \in [Runs -> Jobs] /\ vjob'[r].at = at
  <2>1. at \in Stages
    BY DEF Stages
  <2>2. vjob' \in [Runs -> Jobs]
    BY <1>8, <2>1, JobUpdate
  <2>3. vjob'[r].at = at
    BY <1>6, <1>8 DEF Jobs
  <2>4. QED
    BY <2>2, <2>3
<1>9. QED
  BY <1>4, <1>5, <1>7, <1>8

\* What the caches bring, or leave behind, are copies.
LEMMA CopiesTyped ==
  ASSUME Types, NEW r \in Runs,
         FallBehind(r) \/ \E copy \in Cached : CatchUp(r, copy)
  PROVE  seen' \in [Runs -> Copies]
<1>1. /\ seen \in [Runs -> Copies] /\ seen[r] \in Copies /\ job[r] \in JobStates
      /\ lease[r] \in Lease /\ config[r].epoch \in 0..MaxEpoch
  BY DEF Types, ResultTypes, Configs
<1>2. CASE FallBehind(r)
  <2>1. PICK new \in SUBSET (Cached \ seen[r].behind) \ {{}} :
          seen' = [seen EXCEPT ![r] =
                     [behind |-> seen[r].behind \cup new,
                      epoch  |-> IF "epoch" \in new THEN config[r].epoch ELSE seen[r].epoch,
                      job    |-> IF "job" \in new THEN job[r] ELSE seen[r].job,
                      lease  |-> IF "lease" \in new THEN lease[r] ELSE seen[r].lease]]
    BY <1>1, <1>2 DEF FallBehind
  <2>2. [behind |-> seen[r].behind \cup new,
         epoch  |-> IF "epoch" \in new THEN config[r].epoch ELSE seen[r].epoch,
         job    |-> IF "job" \in new THEN job[r] ELSE seen[r].job,
         lease  |-> IF "lease" \in new THEN lease[r] ELSE seen[r].lease] \in Copies
    BY <1>1 DEF Copies
  <2>3. QED
    BY <1>1, <2>1, <2>2
<1>3. ASSUME NEW copy \in Cached, CatchUp(r, copy)
      PROVE  seen' \in [Runs -> Copies]
  <2>1. NoCopies \in Copies
    BY PreviewAssumption DEF NoCopies, Copies, JobStates, Lease
  <2>2. seen' = [seen EXCEPT ![r].behind = @ \ {copy}, ![r][copy] = NoCopies[copy]]
    BY <1>3 DEF CatchUp
  <2>3. CASE copy = "epoch"
    BY <1>1, <2>1, <2>2, <2>3 DEF Copies
  <2>4. CASE copy = "job"
    BY <1>1, <2>1, <2>2, <2>4 DEF Copies
  <2>5. CASE copy = "lease"
    BY <1>1, <2>1, <2>2, <2>5 DEF Copies
  <2>6. QED
    BY <2>3, <2>4, <2>5 DEF Cached
<1>4. QED
  BY <1>2, <1>3

\* The steps of a run keep the types.
LEMMA RunTyped ==
  ASSUME Types, NEW r \in Runs, RunMoves(r)
  PROVE  RunTypes' /\ ResultTypes'
<1> USE DEF Types
<1>1. CASE AddValidationFinalizer(r)
  BY <1>1, RunUpdate DEF AddValidationFinalizer, Updated, RunTypes, ResultTypes, resultVars
<1>2. CASE failInvalidInputs(r)
  BY <1>2, RunUpdate DEF failInvalidInputs, Updated, RunTypes, ResultTypes, resultVars
<1>3. CASE Authorize(r)
  BY <1>3, JobUpdate DEF Authorize, Recorded, Proceed, RunTypes, ResultTypes, Stages
<1>4. CASE Start(r)
  BY <1>4, JobUpdate DEF Start, Proceed, RunTypes, ResultTypes, resultVars, Stages
<1>5. CASE RecordStart(r)
  <2>1. run' \in [Runs -> Run]
    <3> DEFINE new == [seenRun[r] EXCEPT !.ref = TRUE, !.phase = "Validating"]
    <3>1. new \in Run
      BY RunUpdate
    <3>2. Updated(r, new) \/ UNCHANGED run
      BY <1>5 DEF RecordStart
    <3> HIDE DEF new
    <3> QED
      BY <3>1, <3>2, RunWritten
  <2>2. QED
    BY <1>5, <2>1, JobUpdate DEF RecordStart, Done, RunTypes, ResultTypes, resultVars
<1>6. CASE ObserveReady(r)
  BY <1>6, JobUpdate DEF ObserveReady, Proceed, RunTypes, ResultTypes, resultVars, Stages
<1>7. CASE ObserveFailed(r)
  <2>1. vjob' \in [Runs -> Jobs]
    BY <1>7, JobUpdate DEF ObserveFailed, Judge, Stages, Verdicts
  <2>2. QED
    BY <1>7, <2>1 DEF ObserveFailed, Recorded, RunTypes, ResultTypes
<1>8. CASE Freeze(r)
  <2>1. config' \in [Runs -> Configs]
    <3>1. PICK x \in {"passed", "failed"} : config' = [config EXCEPT ![r].result = x]
      BY <1>8 DEF Freeze
    <3>2. QED
      BY <3>1, ResultUpdate
  <2>2. QED
    BY <1>8, <2>1 DEF Freeze, RunTypes, ResultTypes, runVars
<1>9. CASE Collected(r)
  <2>1. Verdict(r) \in Verdicts
    <3>1. config[r].result \in {"passed", "failed"}
      BY <1>9 DEF Collected, Frozen, ResultTypes, Configs
    <3>2. QED
      BY <3>1 DEF Verdict, Verdicts
  <2>2. vjob' \in [Runs -> Jobs]
    <3>1. [vjob EXCEPT ![r].at = "verdict", ![r].verdict = Verdict(r)] \in [Runs -> Jobs]
      BY <2>1, JobUpdate DEF Stages
    <3>2. QED
      BY <1>9, <3>1, JobUpdate DEF Collected, Judge, Done
  <2>3. lease' \in [Runs -> Lease]
    BY <1>9, ResultUpdate DEF Collected, ResultTypes
  <2>4. QED
    BY <1>9, <2>2, <2>3 DEF Collected, RunTypes, ResultTypes
<1>10. CASE AcquireResultWriter(r)
  BY <1>10, Acquires DEF AcquireResultWriter, RunTypes, ResultTypes
<1>11. CASE RecordEpoch(r)
  <2>1. vjob[r].epoch \in 0..MaxEpoch
    BY DEF RunTypes, Jobs
  <2>2. config' \in [Runs -> Configs]
    BY <1>11, <2>1, ResultUpdate DEF RecordEpoch
  <2>3. vjob' \in [Runs -> Jobs]
    <3>1. [vjob EXCEPT ![r].at = "evaluate"] \in [Runs -> Jobs]
      BY JobUpdate DEF Stages
    <3>2. QED
      BY <1>11, <3>1, JobUpdate DEF RecordEpoch, Proceed, Done
  <2>4. QED
    BY <1>11, <2>2, <2>3 DEF RecordEpoch, RunTypes, ResultTypes
<1>12. CASE Collect(r) \/ Evaluate(r) \/ RecordSuccess(r)
  <2>1. vjob' \in [Runs -> Jobs]
    <3>1. /\ [vjob EXCEPT ![r].at = "collect"] \in [Runs -> Jobs]
          /\ [vjob EXCEPT ![r].at = "conclude"] \in [Runs -> Jobs]
          /\ [vjob EXCEPT ![r] = VIdle] \in [Runs -> Jobs]
      BY JobUpdate DEF Stages
    <3>2. QED
      BY <1>12, <3>1 DEF Collect, Evaluate, RecordSuccess, Proceed, Done
  <2>2. CASE Collect(r)
    BY <2>1, <2>2 DEF Collect, JobStates, RunTypes, ResultTypes
  <2>3. CASE Evaluate(r)
    BY <2>1, <2>3 DEF Evaluate, Recorded, RunTypes, ResultTypes
  <2>4. CASE RecordSuccess(r)
    BY <2>1, <2>4 DEF RecordSuccess, Recorded, RunTypes, ResultTypes
  <2>5. QED
    BY <1>12, <2>2, <2>3, <2>4
<1>13. CASE LoseResultWriter(r)
  <2>1. vjob' \in [Runs -> Jobs]
    <3>1. \A v \in Verdicts :
            [vjob EXCEPT ![r].at = "verdict", ![r].verdict = v] \in [Runs -> Jobs]
      BY JobUpdate DEF Stages
    <3>2. "lost" \in Verdicts
      BY DEF Verdicts
    <3>3. QED
      BY <1>13, <3>1, <3>2, JobUpdate DEF LoseResultWriter, Judge, Done
  <2>2. lease' \in [Runs -> Lease]
    BY <1>13, ResultUpdate DEF LoseResultWriter, ResultTypes
  <2>3. job' \in [Runs -> JobStates]
    BY <1>13 DEF LoseResultWriter, DeleteCollector, JobStates, ResultTypes
  <2>4. QED
    BY <1>13, <2>1, <2>2, <2>3 DEF LoseResultWriter, RunTypes, ResultTypes
<1>14. CASE Conclude(r)
  <2>1. run' \in [Runs -> Run]
    <3>1. PICK phase \in {"Succeeded", "Failed"} :
            \/ Updated(r, [seenRun[r] EXCEPT !.phase = phase])
            \/ UNCHANGED run
      BY <1>14 DEF Conclude
    <3>2. [seenRun[r] EXCEPT !.phase = phase] \in Run
      BY RunUpdate
    <3>3. QED
      BY <3>1, <3>2, RunUpdate DEF Updated, RunTypes
  <2>2. QED
    BY <1>14, <2>1, JobUpdate DEF Conclude, Done, RunTypes, ResultTypes, resultVars
<1>15. CASE cleanupResultPublication(r)
  <2>1. vjob' \in [Runs -> Jobs]
    <3>1. [vjob EXCEPT ![r].at = "destroy"] \in [Runs -> Jobs]
      BY JobUpdate DEF Stages
    <3>2. QED
      BY <1>15, <3>1 DEF cleanupResultPublication, Proceed, RunTypes
  <2>2. lease' \in [Runs -> Lease]
    BY <1>15, ResultUpdate DEF cleanupResultPublication, ResultTypes
  <2>3. job' \in [Runs -> JobStates]
    BY <1>15 DEF cleanupResultPublication, DeleteCollector, JobStates, ResultTypes
  <2>4. QED
    BY <1>15, <2>1, <2>2, <2>3 DEF cleanupResultPublication, RunTypes, ResultTypes
<1>16. CASE Destroy(r)
  <2>1. run' \in [Runs -> Run]
    <3> DEFINE new == [seenRun[r] EXCEPT !.present = FALSE, !.fin = FALSE]
    <3>1. new \in Run
      BY RunUpdate
    <3>2. Updated(r, new) \/ UNCHANGED run
      BY <1>16 DEF Destroy
    <3> HIDE DEF new
    <3> QED
      BY <3>1, <3>2, RunWritten
  <2>2. QED
    BY <1>16, <2>1, JobUpdate DEF Destroy, Done, RunTypes, ResultTypes, resultVars
<1>17. CASE ObserveRun(r)
  BY <1>17 DEF ObserveRun, RunTypes, ResultTypes, resultVars
<1>18. CASE InputsSettle(r) \/ ArgoSyncs(r) \/ ArgoPrunes(r) \/ Degrade(r)
  <2>1. CASE InputsSettle(r)
    BY <2>1 DEF InputsSettle, RunTypes, ResultTypes, resultVars
  <2>2. CASE ArgoSyncs(r) \/ ArgoPrunes(r) \/ Degrade(r)
    BY <2>2 DEF ArgoSyncs, ArgoPrunes, Degrade, RunTypes, ResultTypes, resultVars
  <2>3. QED
    BY <1>18, <2>1, <2>2
<1>19. CASE JobPublishes(r) \/ JobEnds(r) \/ ArtifactSettles(r)
  BY <1>19 DEF JobPublishes, JobEnds, ArtifactSettles, JobStates, RunTypes, ResultTypes,
     runVars
<1>20. CASE OtherWriter(r)
  <2>1. lease' \in [Runs -> Lease]
    <3>1. [lease EXCEPT ![r].holder = "nobody"] \in [Runs -> Lease]
      BY ResultUpdate
    <3>2. lease[r].epoch < MaxEpoch =>
            [lease EXCEPT ![r] = [holder |-> "other", epoch |-> @.epoch + 1]]
              \in [Runs -> Lease]
      BY ResultUpdate
    <3>3. QED
      BY <1>20, <3>1, <3>2 DEF OtherWriter
  <2>2. QED
    BY <1>20, <2>1 DEF OtherWriter, RunTypes, ResultTypes, runVars
<1>21. CASE StopRun(r)
  BY <1>21, JobUpdate DEF StopRun, Done, RunTypes, ResultTypes, resultVars
<1>22. CASE DeleteRun(r)
  BY <1>22, RunUpdate DEF DeleteRun, RunTypes, ResultTypes, resultVars
<1>23. CASE PassUndeclared(r) \/ Conflict(r)
  <2>1. vjob' \in [Runs -> Jobs]
    <3>1. \A v \in Verdicts :
            [vjob EXCEPT ![r].at = "verdict", ![r].verdict = v] \in [Runs -> Jobs]
      BY JobUpdate DEF Stages
    <3>2. "passed" \in Verdicts
      BY DEF Verdicts
    <3>3. QED
      BY <1>23, <3>1, <3>2, JobUpdate DEF PassUndeclared, Conflict, Judge, Done
  <2>2. QED
    BY <1>23, <2>1 DEF PassUndeclared, Conflict, RunTypes, ResultTypes, resultVars
<1>24. CASE AuthorityFails(r)
  BY <1>24, RunUpdate DEF AuthorityFails, Updated, RunTypes, ResultTypes, resultVars
<1>25. CASE FallBehind(r) \/ \E copy \in Cached : CatchUp(r, copy)
  BY <1>25, CopiesTyped DEF FallBehind, CatchUp, RunTypes, ResultTypes, runVars
<1>26. QED
  BY <1>1, <1>2, <1>3, <1>4, <1>5, <1>6, <1>7, <1>8, <1>9, <1>10, <1>11, <1>12, <1>13,
     <1>14, <1>15, <1>16, <1>17, <1>18, <1>19, <1>20, <1>21, <1>22, <1>23, <1>24, <1>25
     DEF RunMoves, RunStep, Surroundings, Observe

-----------------------------------------------------------------------------
(* The invariants of a run.                                                 *)

\* What the invariants of a run are about.
Same(q) ==
  /\ run'[q] = run[q] /\ seenRun'[q] = seenRun[q] /\ vjob'[q] = vjob[q]
  /\ app'[q] = app[q] /\ config'[q] = config[q] /\ job'[q] = job[q]
  /\ artifact'[q] = artifact[q] /\ evidence'[q] = evidence[q]

\* A step of one run does not concern another.
LEMMA Others ==
  ASSUME Types, NEW r \in Runs, NEW q \in Runs, q # r, RunMoves(r)
  PROVE  Same(q)
<1> USE DEF Types, RunTypes, ResultTypes, Same
<1>1. CASE \/ AddValidationFinalizer(r) \/ failInvalidInputs(r) \/ Authorize(r)
           \/ Start(r) \/ RecordStart(r) \/ ObserveReady(r)
  BY <1>1 DEF AddValidationFinalizer, failInvalidInputs, Authorize, Start, RecordStart,
     ObserveReady, Updated, Recorded, Proceed, Done, resultVars
<1>2. CASE \/ ObserveFailed(r) \/ PassUndeclared(r) \/ Freeze(r) \/ Collected(r)
           \/ RecordEpoch(r)
  <2>1. CASE ObserveFailed(r) \/ PassUndeclared(r)
    BY <2>1 DEF ObserveFailed, PassUndeclared, Judge, Recorded, resultVars
  <2>2. CASE Freeze(r)
    BY <2>2 DEF Freeze, runVars
  <2>3. CASE Collected(r)
    BY <2>3 DEF Collected, Judge, Done
  <2>4. CASE RecordEpoch(r)
    BY <2>4 DEF RecordEpoch, Proceed, Done
  <2> QED
    BY <1>2, <2>1, <2>2, <2>3, <2>4
<1>3. CASE AcquireResultWriter(r)
  <2>1. UNCHANGED <<run, seenRun, app, config, job, artifact, evidence>>
    BY <1>3 DEF AcquireResultWriter
  <2>2. vjob'[q] = vjob[q]
    BY <1>3 DEF AcquireResultWriter, Done
  <2>3. QED
    BY <2>1, <2>2
<1>4. CASE \/ Evaluate(r) \/ Collect(r) \/ LoseResultWriter(r) \/ RecordSuccess(r)
           \/ Conclude(r) \/ cleanupResultPublication(r) \/ Destroy(r)
  <2>1. CASE Evaluate(r) \/ Collect(r) \/ RecordSuccess(r)
    BY <2>1 DEF Evaluate, Collect, RecordSuccess, Recorded, Proceed, Done
  <2>2. CASE LoseResultWriter(r) \/ cleanupResultPublication(r)
    BY <2>2 DEF LoseResultWriter, cleanupResultPublication, DeleteCollector, Judge,
       Proceed, Done
  <2>3. CASE Conclude(r) \/ Destroy(r)
    BY <2>3 DEF Conclude, Destroy, Updated, Done, resultVars
  <2>4. QED
    BY <1>4, <2>1, <2>2, <2>3
<1>5. CASE \/ ObserveRun(r) \/ InputsSettle(r) \/ ArgoSyncs(r) \/ ArgoPrunes(r)
           \/ Degrade(r) \/ StopRun(r) \/ DeleteRun(r) \/ Conflict(r)
           \/ AuthorityFails(r)
  BY <1>5 DEF ObserveRun, InputsSettle, ArgoSyncs, ArgoPrunes, Degrade, StopRun,
     DeleteRun, Conflict, AuthorityFails, Updated, Done, resultVars
<1>6. CASE JobPublishes(r) \/ JobEnds(r) \/ ArtifactSettles(r) \/ OtherWriter(r)
  BY <1>6 DEF JobPublishes, JobEnds, ArtifactSettles, OtherWriter, runVars
<1>7. CASE FallBehind(r) \/ \E copy \in Cached : CatchUp(r, copy)
  BY <1>7 DEF FallBehind, CatchUp, runVars
<1>8. QED
  BY <1>1, <1>2, <1>3, <1>4, <1>5, <1>6, <1>7
     DEF RunMoves, RunStep, Surroundings, Observe

\* What the controller's writes do.
LEMMA Moved ==
  ASSUME Types, NEW r \in Runs
  PROVE  /\ Done(r) => vjob'[r].at = "idle"
         /\ \A at \in Stages : Proceed(r, at) => vjob'[r].at = at
         /\ \A at \in Stages, v \in Verdicts :
              vjob' = [vjob EXCEPT ![r].at = at, ![r].verdict = v] =>
                vjob'[r].at = at /\ vjob'[r].verdict = v
         /\ \A at \in Stages, e \in 0..MaxEpoch :
              vjob' = [vjob EXCEPT ![r].at = at, ![r].epoch = e] => vjob'[r].at = at
         /\ \A new : Updated(r, new) => seenRun[r] = run[r] /\ run'[r] = new
<1>1. run \in [Runs -> Run] /\ vjob \in [Runs -> Jobs] /\ vjob[r] \in Jobs
  BY DEF Types, RunTypes, ResultTypes
<1>2. Done(r) => vjob'[r].at = "idle"
  <2>1. VIdle.at = "idle"
    BY DEF VIdle
  <2>2. QED
    BY <1>1, <2>1 DEF Done
<1>3. \A at \in Stages : Proceed(r, at) => vjob'[r].at = at
  BY <1>1 DEF Proceed, Jobs
<1>4. ASSUME NEW at \in Stages, NEW v \in Verdicts,
             vjob' = [vjob EXCEPT ![r].at = at, ![r].verdict = v]
      PROVE  vjob'[r].at = at /\ vjob'[r].verdict = v
  BY <1>1, <1>4 DEF Jobs
<1>5. ASSUME NEW at \in Stages, NEW e \in 0..MaxEpoch,
             vjob' = [vjob EXCEPT ![r].at = at, ![r].epoch = e]
      PROVE  vjob'[r].at = at
  BY <1>1, <1>5 DEF Jobs
<1>6. \A new : Updated(r, new) => seenRun[r] = run[r] /\ run'[r] = new
  BY <1>1 DEF Updated
<1>7. QED
  BY <1>2, <1>3, <1>4, <1>5, <1>6

\* A verdict is one of those that end a publication, and passed only if the
\* result was and the artifact is accepted.
LEMMA CollectedVerdict ==
  ASSUME Types, NEW r \in Runs, Frozen(r)
  PROVE  /\ Verdict(r) \in Verdicts
         /\ Verdict(r) = "passed" => config[r].result = "passed" /\ artifact[r] = "accepted"
<1>1. config[r].result \in {"passed", "failed"}
  BY DEF Frozen, Types, ResultTypes, Configs
<1>2. QED
  BY <1>1 DEF Verdict, Verdicts

\* A run that has left the cluster has left nothing there, and what the
\* controller is doing for it is still its business.
LEMMA RunKept ==
  ASSUME Types, NEW r \in Runs, RunInv(r), RunMoves(r)
  PROVE  RunInv(r)'
<1> USE DEF RunInv, Working
<1>1. /\ run \in [Runs -> Run] /\ seenRun \in [Runs -> Run] /\ vjob \in [Runs -> Jobs]
      /\ DOMAIN app = Runs /\ run[r] \in Run /\ seenRun[r] \in Run /\ vjob[r] \in Jobs
  BY DEF Types, RunTypes, ResultTypes
<1>2. CASE AddValidationFinalizer(r)
  <2>1. seenRun[r] = run[r] /\ run'[r] = [run[r] EXCEPT !.fin = TRUE] /\ vjob[r].at = "idle"
    BY <1>2, Moved DEF AddValidationFinalizer
  <2>2. /\ run'[r].fin /\ run'[r].present = run[r].present
        /\ run'[r].declares = run[r].declares
    BY <2>1, <1>1 DEF Run
  <2>3. UNCHANGED <<seenRun, vjob, app>>
    BY <1>2 DEF AddValidationFinalizer
  <2>4. run[r].present
    BY <1>2, <2>1 DEF AddValidationFinalizer, Sees
  <2>5. QED
    BY <2>1, <2>2, <2>3, <2>4
<1>3. CASE failInvalidInputs(r) \/ AuthorityFails(r)
  <2>1. UNCHANGED <<seenRun, vjob, app>>
    BY <1>3 DEF failInvalidInputs, AuthorityFails
  <2>2. run'[r] = [run[r] EXCEPT !.phase = "Failed"]
    BY <1>3, Moved DEF failInvalidInputs, AuthorityFails
  <2>3. /\ run'[r].present = run[r].present /\ run'[r].fin = run[r].fin
        /\ run'[r].declares = run[r].declares
    BY <2>2, <1>1 DEF Run
  <2>4. QED
    BY <2>1, <2>3
<1>4. CASE Authorize(r)
  BY <1>4, <1>1 DEF Authorize, Waiting, Sees, Proceed, Jobs
<1>5. CASE Start(r)
  BY <1>5, <1>1 DEF Start, Proceed, Jobs
<1>6. CASE RecordStart(r) \/ Conclude(r)
  <2>1. vjob'[r].at = "idle" /\ UNCHANGED <<seenRun, app>>
    BY <1>6, Moved DEF RecordStart, Conclude
  <2>2. /\ run'[r].present = run[r].present /\ run'[r].fin = run[r].fin
        /\ run'[r].declares = run[r].declares
    <3>1. PICK phase \in {"Validating", "Succeeded", "Failed"} :
            \/ run' = run
            \/ run'[r] = [run[r] EXCEPT !.ref = TRUE, !.phase = phase]
            \/ run'[r] = [run[r] EXCEPT !.phase = phase]
      BY <1>6, Moved DEF RecordStart, Conclude
    <3>2. QED
      BY <3>1, <1>1 DEF Run
  <2>3. QED
    BY <2>1, <2>2 DEF Publishing
<1>7. CASE ObserveReady(r)
  BY <1>7, <1>1 DEF ObserveReady, Deployed, Sees, Proceed, Jobs
<1>8. CASE ObserveFailed(r)
  <2>1. UNCHANGED <<run, seenRun, app>> /\ vjob'[r].at = "verdict"
    BY <1>8, Moved DEF ObserveFailed, Judge, Stages, Verdicts
  <2>2. seenRun[r].fin /\ ~seenRun[r].del
    BY <1>8 DEF ObserveFailed, Deployed, Sees
  <2>3. QED
    BY <2>1, <2>2
<1>9. CASE Freeze(r)
  BY <1>9, <1>1 DEF Freeze, runVars
<1>10. CASE \/ Collected(r) \/ PassUndeclared(r) \/ AcquireResultWriter(r)
            \/ RecordEpoch(r) \/ Evaluate(r) \/ Collect(r) \/ LoseResultWriter(r)
            \/ RecordSuccess(r) \/ Conflict(r)
  <2>1. UNCHANGED <<run, seenRun, app>> /\ vjob[r].at \in Working
    BY <1>10 DEF Collected, PassUndeclared, AcquireResultWriter, RecordEpoch, Evaluate,
       Collect, LoseResultWriter, RecordSuccess, Conflict, Frozen, Publishing
  <2>2. vjob'[r].at \in Working \cup {"idle"}
    <3>1. CASE Collected(r)
      <4>1. Verdict(r) \in Verdicts
        BY <3>1, CollectedVerdict DEF Collected
      <4>2. QED
        BY <3>1, <4>1, Moved DEF Collected, Judge, Stages
    <3>2. CASE AcquireResultWriter(r)
      BY <3>2, Acquires DEF Publishing
    <3>3. CASE PassUndeclared(r) \/ LoseResultWriter(r)
      BY <3>3, Moved DEF PassUndeclared, LoseResultWriter, Judge, Stages, Verdicts
    <3>4. CASE \/ RecordEpoch(r) \/ Evaluate(r) \/ Collect(r) \/ RecordSuccess(r)
               \/ Conflict(r)
      BY <3>4, Moved DEF RecordEpoch, Evaluate, Collect, RecordSuccess, Conflict, Stages,
         Publishing
    <3>5. QED
      BY <1>10, <3>1, <3>2, <3>3, <3>4
  <2>3. QED
    BY <2>1, <2>2 DEF Publishing
<1>11. CASE cleanupResultPublication(r)
  <2>1. UNCHANGED <<run, seenRun, app>>
    BY <1>11 DEF cleanupResultPublication
  <2>2. \/ vjob' = vjob
        \/ vjob'[r].at = "destroy" /\ seenRun[r].del /\ seenRun[r].fin
    BY <1>11, Moved DEF cleanupResultPublication, Closing, Stages
  <2>3. QED
    BY <2>1, <2>2 DEF Publishing
<1>12. CASE Destroy(r)
  <2>1. vjob'[r].at = "idle" /\ UNCHANGED seenRun
    BY <1>12, Moved DEF Destroy
  <2>2. CASE app[r] # "none"
    BY <1>12, <2>1, <2>2, <1>1 DEF Destroy, Publishing
  <2>3. CASE run' = run /\ app' = app
    BY <2>1, <2>3 DEF Publishing
  <2>4. CASE app' = app /\ app[r] = "none" /\ run' # run
    <3>1. run'[r] = [seenRun[r] EXCEPT !.present = FALSE, !.fin = FALSE]
      BY <1>12, <2>4, Moved DEF Destroy
    <3>2. ~run'[r].fin /\ run'[r].declares = run[r].declares
      BY <3>1, <1>1 DEF Run
    <3>3. seenRun[r].del
      BY <1>12 DEF Destroy
    <3>4. QED
      BY <2>1, <2>4, <3>2, <3>3 DEF Publishing
  <2>5. QED
    BY <1>12, <2>2, <2>3, <2>4 DEF Destroy
<1>13. CASE ObserveRun(r)
  BY <1>13, <1>1 DEF ObserveRun, Publishing
<1>14. CASE InputsSettle(r) \/ ArgoSyncs(r) \/ ArgoPrunes(r) \/ Degrade(r)
  BY <1>14, <1>1 DEF InputsSettle, ArgoSyncs, ArgoPrunes, Degrade
<1>15. CASE \/ JobPublishes(r) \/ JobEnds(r) \/ ArtifactSettles(r) \/ OtherWriter(r)
            \/ FallBehind(r) \/ \E copy \in Cached : CatchUp(r, copy)
  BY <1>15 DEF JobPublishes, JobEnds, ArtifactSettles, OtherWriter, FallBehind, CatchUp,
     runVars
<1>16. CASE StopRun(r)
  BY <1>16, Moved DEF StopRun, Publishing
<1>17. CASE DeleteRun(r)
  BY <1>17, <1>1 DEF DeleteRun, Run
<1>18. QED
  BY <1>2, <1>3, <1>4, <1>5, <1>6, <1>7, <1>8, <1>9, <1>10, <1>11, <1>12, <1>13, <1>14,
     <1>15, <1>16, <1>17 DEF RunMoves, RunStep, Surroundings, Observe

\* Actions that touch neither the result of a run nor what leads to one.
Elsewhere(r) ==
  \/ AddValidationFinalizer(r) \/ failInvalidInputs(r) \/ ObserveRun(r)
  \/ InputsSettle(r) \/ ArgoSyncs(r) \/ ArgoPrunes(r) \/ Degrade(r) \/ DeleteRun(r)
  \/ OtherWriter(r) \/ AuthorityFails(r) \/ FallBehind(r)
  \/ \E copy \in Cached : CatchUp(r, copy)

\* They leave alone what the invariants of the results are about.
LEMMA ElsewhereSame ==
  ASSUME Types, NEW r \in Runs, Elsewhere(r)
  PROVE  /\ UNCHANGED <<vjob, config, job, artifact, evidence>>
         /\ seenRun' = seenRun \/ ObserveRun(r)
BY DEF Elsewhere, AddValidationFinalizer, failInvalidInputs, ObserveRun, InputsSettle,
   ArgoSyncs, ArgoPrunes, Degrade, DeleteRun, OtherWriter, AuthorityFails, FallBehind,
   CatchUp, runVars, resultVars

\* The actions that concern the evidence of a run, its collector or its artifact.
LEMMA EvidenceKept ==
  ASSUME Types, NEW r \in Runs, EvidenceInv(r), RunMoves(r)
  PROVE  EvidenceInv(r)'
<1> USE DEF EvidenceInv
<1>1. /\ evidence \in [Runs -> SUBSET {"authority", "inputs", "evaluated"}]
      /\ evidence[r] \subseteq {"authority", "inputs", "evaluated"}
      /\ DOMAIN job = Runs /\ DOMAIN artifact = Runs
  BY DEF Types, ResultTypes
<1>2. CASE Authorize(r)
  <2>1. vjob'[r].at = "start" /\ UNCHANGED <<job, artifact>>
    BY <1>2, Moved DEF Authorize, Stages
  <2>2. evidence'[r] = evidence[r] \cup {"authority", "inputs"}
    BY <1>2, <1>1 DEF Authorize, Recorded
  <2>3. QED
    BY <2>1, <2>2
<1>3. CASE ObserveFailed(r) \/ Evaluate(r) \/ RecordSuccess(r)
  <2>1. CASE RecordSuccess(r) /\ Done(r) /\ UNCHANGED evidence
    <3>1. vjob'[r].at = "idle" /\ UNCHANGED <<job, artifact>>
      BY <2>1, Moved DEF RecordSuccess
    <3>2. QED
      BY <2>1, <3>1
  <2>2. CASE Recorded(r, {"evaluated"})
    <3>1. evidence'[r] = {"authority", "inputs", "evaluated"}
      BY <1>3, <2>2, <1>1 DEF ObserveFailed, Evaluate, RecordSuccess, Recorded
    <3>2. QED
      BY <3>1
  <2>3. QED
    BY <1>3, <2>1, <2>2 DEF ObserveFailed, Evaluate, RecordSuccess
<1>4. CASE Collect(r)
  <2>1. evidence' = evidence /\ vjob[r].at = "collect"
    BY <1>4 DEF Collect
  <2>2. QED
    BY <2>1
<1>5. CASE cleanupResultPublication(r) \/ LoseResultWriter(r)
  <2>1. UNCHANGED <<evidence, artifact>> /\ (job[r] = "none" => job'[r] = "none")
    BY <1>5, <1>1 DEF cleanupResultPublication, LoseResultWriter, DeleteCollector
  <2>2. vjob'[r].at \in {"idle", "destroy", "verdict"} \/ vjob' = vjob
    BY <1>5, Moved DEF cleanupResultPublication, LoseResultWriter, Judge, Stages, Verdicts
  <2>3. QED
    BY <2>1, <2>2
<1>6. CASE JobPublishes(r) \/ JobEnds(r) \/ ArtifactSettles(r)
  BY <1>6, <1>1 DEF JobPublishes, JobEnds, ArtifactSettles, runVars
<1>7. CASE \/ Start(r) \/ RecordStart(r) \/ ObserveReady(r) \/ PassUndeclared(r)
           \/ Freeze(r) \/ Collected(r) \/ AcquireResultWriter(r) \/ RecordEpoch(r)
           \/ Conclude(r) \/ Conflict(r) \/ Destroy(r) \/ StopRun(r)
  <2>1. UNCHANGED <<evidence, job, artifact>>
    BY <1>7 DEF Start, RecordStart, ObserveReady, PassUndeclared, Freeze, Collected,
       AcquireResultWriter, RecordEpoch, Conclude, Conflict, Destroy, StopRun, resultVars
  <2>2. vjob'[r].at \notin {"collect", "conclude"}
    <3>1. CASE Collected(r)
      <4>1. Verdict(r) \in Verdicts
        BY <3>1, CollectedVerdict DEF Collected
      <4>2. QED
        BY <3>1, <4>1, Moved DEF Collected, Judge, Stages
    <3>2. CASE AcquireResultWriter(r)
      BY <3>2, Acquires
    <3>3. CASE Freeze(r)
      BY <3>3 DEF Freeze, runVars
    <3>4. CASE \/ Start(r) \/ RecordStart(r) \/ ObserveReady(r) \/ PassUndeclared(r)
               \/ RecordEpoch(r) \/ Conclude(r) \/ Conflict(r) \/ Destroy(r)
               \/ StopRun(r)
      BY <3>4, Moved DEF Start, RecordStart, ObserveReady, PassUndeclared, RecordEpoch,
         Conclude, Conflict, Destroy, StopRun, Judge, Stages, Verdicts
    <3>5. QED
      BY <1>7, <3>1, <3>2, <3>3, <3>4
  <2>3. QED
    BY <2>1, <2>2
<1>8. CASE Elsewhere(r)
  BY <1>8, ElsewhereSame
<1>9. QED
  BY <1>2, <1>3, <1>4, <1>5, <1>6, <1>7, <1>8
     DEF RunMoves, RunStep, Surroundings, Observe, Elsewhere

\* A verdict stays true: what it stands on is final.
LEMMA VerdictKept ==
  ASSUME Types, NEW r \in Runs, VerdictInv(r), RunMoves(r)
  PROVE  VerdictInv(r)'
<1> USE DEF VerdictInv
<1>1. /\ config \in [Runs -> Configs] /\ config[r] \in Configs
      /\ DOMAIN artifact = Runs
  BY DEF Types, ResultTypes
<1>2. CASE Collected(r)
  <2>1. CASE Done(r)
    BY <2>1, Moved
  <2>2. CASE ~Done(r)
    <3>1. /\ UNCHANGED <<config, artifact>>
          /\ vjob' = [vjob EXCEPT ![r].at = "verdict", ![r].verdict = Verdict(r)]
      BY <1>2, <2>2 DEF Collected, Judge
    <3>2. /\ Verdict(r) \in Verdicts
          /\ Verdict(r) = "passed" => config[r].result = "passed" /\ artifact[r] = "accepted"
      BY <1>2, CollectedVerdict DEF Collected
    <3>3. vjob'[r].verdict = Verdict(r)
      BY <3>1, <3>2, Moved DEF Stages
    <3>4. QED
      BY <3>1, <3>2, <3>3
  <2>3. QED
    BY <2>1, <2>2
<1>3. CASE ObserveFailed(r) \/ LoseResultWriter(r)
  <2>1. vjob'[r].at = "idle" \/ vjob'[r].verdict \in {"lost", "degraded"}
    BY <1>3, Moved DEF ObserveFailed, LoseResultWriter, Judge, Stages, Verdicts
  <2>2. QED
    BY <2>1
<1>4. CASE PassUndeclared(r)
  BY <1>4 DEF PassUndeclared
<1>5. CASE \/ Authorize(r) \/ Start(r) \/ RecordStart(r) \/ ObserveReady(r)
           \/ AcquireResultWriter(r) \/ RecordEpoch(r) \/ Evaluate(r) \/ Collect(r)
           \/ Conclude(r) \/ Conflict(r) \/ Destroy(r) \/ StopRun(r)
  <2>1. vjob'[r].at \notin {"verdict", "conclude"}
    BY <1>5, Moved, Acquires DEF Authorize, Start, RecordStart, ObserveReady, RecordEpoch,
       Evaluate, Collect, Conclude, Conflict, Destroy, StopRun, Stages
  <2>2. QED
    BY <2>1
<1>6. CASE RecordSuccess(r)
  <2>1. /\ UNCHANGED <<seenRun, config, artifact>> /\ vjob[r].at = "verdict"
        /\ vjob[r].verdict = "passed"
    BY <1>6 DEF RecordSuccess
  <2>2. QED
    BY <2>1
<1>7. CASE cleanupResultPublication(r)
  <2>1. vjob[r].at = "idle" /\ (vjob' = vjob \/ vjob'[r].at = "destroy")
    BY <1>7, Moved DEF cleanupResultPublication, Closing, Stages
  <2>2. QED
    BY <2>1
<1>8. CASE Freeze(r)
  <2>1. vjob[r].at = "publish" /\ vjob' = vjob
    BY <1>8 DEF Freeze, runVars
  <2>2. QED
    BY <2>1
<1>9. CASE JobPublishes(r) \/ JobEnds(r) \/ ArtifactSettles(r)
  BY <1>9, <1>1 DEF JobPublishes, JobEnds, ArtifactSettles, runVars
<1>10. CASE Elsewhere(r)
  <2>1. CASE ObserveRun(r)
    BY <2>1 DEF ObserveRun
  <2>2. CASE ~ObserveRun(r)
    BY <1>10, <2>2, ElsewhereSame
  <2>3. QED
    BY <2>1, <2>2
<1>11. QED
  BY <1>2, <1>3, <1>4, <1>5, <1>6, <1>7, <1>8, <1>9, <1>10
     DEF RunMoves, RunStep, Surroundings, Observe, Elsewhere

\* Whether a step declares the result does not change.
LEMMA DeclaresKept ==
  ASSUME Types, NEW r \in Runs, RunInv(r), RunMoves(r)
  PROVE  run'[r].declares = run[r].declares
<1>1. run \in [Runs -> Run] /\ run[r] \in Run /\ seenRun[r] \in Run
  BY DEF Types, RunTypes
<1>2. CASE UNCHANGED run
  BY <1>2
<1>3. CASE AddValidationFinalizer(r)
  <2>1. run'[r] = [run[r] EXCEPT !.fin = TRUE]
    BY <1>3, Moved DEF AddValidationFinalizer
  <2>2. QED
    BY <2>1, <1>1 DEF Run
<1>4. CASE failInvalidInputs(r) \/ AuthorityFails(r)
  <2>1. run'[r] = [run[r] EXCEPT !.phase = "Failed"]
    BY <1>4, Moved DEF failInvalidInputs, AuthorityFails
  <2>2. QED
    BY <2>1, <1>1 DEF Run
<1>5. CASE RecordStart(r) /\ run' # run
  <2>1. run'[r] = [run[r] EXCEPT !.ref = TRUE, !.phase = "Validating"]
       
    BY <1>5, Moved DEF RecordStart
  <2>2. QED
    BY <2>1, <1>1 DEF Run
<1>6. CASE Conclude(r) /\ run' # run
  <2>1. PICK phase \in {"Succeeded", "Failed"} : run'[r] = [run[r] EXCEPT !.phase = phase]
    BY <1>6, Moved DEF Conclude
  <2>2. QED
    BY <2>1, <1>1 DEF Run
<1>7. CASE Destroy(r) /\ run' # run
  <2>1. run'[r] = [run[r] EXCEPT !.present = FALSE, !.fin = FALSE]
       
    BY <1>7, Moved DEF Destroy
  <2>2. QED
    BY <2>1, <1>1 DEF Run
<1>8. CASE DeleteRun(r)
  BY <1>8, <1>1 DEF DeleteRun, Run
<1>9. QED
  BY <1>2, <1>3, <1>4, <1>5, <1>6, <1>7, <1>8
     DEF RunMoves, RunStep, Surroundings, Authorize, Start, ObserveReady, ObserveFailed,
     PassUndeclared, Freeze, Collected, AcquireResultWriter, RecordEpoch, Evaluate,
     Collect, LoseResultWriter, RecordSuccess, cleanupResultPublication, Observe,
     ObserveRun, CatchUp, FallBehind, Conflict, InputsSettle, ArgoSyncs, ArgoPrunes,
     JobPublishes, JobEnds, ArtifactSettles, OtherWriter, StopRun, Degrade, runVars

\* For a step that declares no result no reconciliation begins to publish one.
LEMMA LegacyKept ==
  ASSUME Types, NEW r \in Runs, RunInv(r), LegacyInv(r), RunMoves(r)
  PROVE  LegacyInv(r)'
<1> USE DEF LegacyInv
<1>1. run'[r].declares = run[r].declares /\ seenRun[r].declares = run[r].declares
  BY DeclaresKept DEF RunInv
<1>2. /\ DOMAIN config = Runs /\ DOMAIN job = Runs /\ DOMAIN artifact = Runs
      /\ NoConfig.result = "none"
  BY DEF Types, ResultTypes, NoConfig
<1> SUFFICES ASSUME ~run[r].declares, ~seenRun[r].declares
             PROVE  /\ config'[r] = NoConfig /\ job'[r] = "none" /\ artifact'[r] = "none"
                    /\ vjob'[r].at \notin Publishing
  BY <1>1
<1>3. /\ config[r] = NoConfig /\ job[r] = "none" /\ artifact[r] = "none"
      /\ vjob[r].at \notin Publishing
  OBVIOUS
<1>4. /\ ~Freeze(r) /\ ~Collected(r) /\ ~AcquireResultWriter(r) /\ ~RecordEpoch(r)
      /\ ~Evaluate(r) /\ ~Collect(r) /\ ~LoseResultWriter(r)
  BY <1>2, <1>3 DEF Freeze, Collected, AcquireResultWriter, Frozen, RecordEpoch, Evaluate,
     Collect, LoseResultWriter, Publishing
<1>5. CASE \/ Authorize(r) \/ Start(r) \/ RecordStart(r) \/ ObserveReady(r)
           \/ ObserveFailed(r) \/ PassUndeclared(r) \/ RecordSuccess(r) \/ Conclude(r)
           \/ Conflict(r) \/ Destroy(r) \/ StopRun(r)
  <2>1. UNCHANGED <<config, job, artifact>>
    BY <1>5 DEF Authorize, Start, RecordStart, ObserveReady, ObserveFailed,
       PassUndeclared, RecordSuccess, Conclude, Conflict, Destroy, StopRun, resultVars
  <2>2. vjob'[r].at \in {"idle", "start", "record", "publish", "verdict", "conclude"}
    BY <1>5, Moved DEF Authorize, Start, RecordStart, ObserveReady, ObserveFailed,
       PassUndeclared, RecordSuccess, Conclude, Conflict, Destroy, StopRun, Judge,
       Stages, Verdicts
  <2>3. QED
    BY <1>3, <2>1, <2>2 DEF Publishing
<1>6. CASE cleanupResultPublication(r)
  <2>1. UNCHANGED <<config, artifact>> /\ job'[r] = "none"
    BY <1>6, <1>2, <1>3 DEF cleanupResultPublication, DeleteCollector
  <2>2. vjob' = vjob \/ vjob'[r].at = "destroy"
    BY <1>6, Moved DEF cleanupResultPublication, Stages
  <2>3. QED
    BY <1>3, <2>1, <2>2 DEF Publishing
<1>7. CASE JobPublishes(r) \/ JobEnds(r) \/ ArtifactSettles(r)
  BY <1>7, <1>3 DEF JobPublishes, JobEnds, ArtifactSettles
<1>8. CASE Elsewhere(r)
  BY <1>3, <1>8, ElsewhereSame
<1>9. QED
  BY <1>4, <1>5, <1>6, <1>7, <1>8 DEF RunMoves, RunStep, Surroundings, Observe, Elsewhere

\* A step elsewhere leaves the invariants of a run alone.
LEMMA Untouched ==
  ASSUME NEW q, Same(q)
  PROVE  /\ RunInv(q) => RunInv(q)'
         /\ EvidenceInv(q) => EvidenceInv(q)'
         /\ VerdictInv(q) => VerdictInv(q)'
         /\ LegacyInv(q) => LegacyInv(q)'
BY DEF Same, RunInv, EvidenceInv, VerdictInv, LegacyInv

\* The count of events stays within its bound.
LEMMA EventsTyped == events \in 0..MaxEvents /\ [Next]_vars => events' \in 0..MaxEvents
<1> SUFFICES ASSUME events \in 0..MaxEvents, [Next]_vars PROVE events' \in 0..MaxEvents
  OBVIOUS
<1>1. ASSUME NEW e, Happens(e) PROVE events' \in 0..MaxEvents
  BY <1>1, PreviewAssumption DEF Happens
<1>2. CASE UNCHANGED vars
  BY <1>2 DEF vars
<1>3. CASE ProjectMoves
  BY <1>3, <1>1 DEF ProjectMoves, ProjectStep, updateConfigurationStatus,
     RefuseProvisioning, AddProjectFinalizer, EnsureAppProject,
     ensureRepositoryCredential, ReportProvisioned, ReportRefused, ReportTerminating,
     ListApplications, DestroyProject, ObserveProject, AppProjectGoes, EditProject,
     DeleteProject, ChangeSecret, StopProject
<1>4. ASSUME NEW r \in Runs, RunMoves(r) PROVE events' \in 0..MaxEvents
  BY <1>4, <1>1 DEF RunMoves, RunStep, Surroundings, AddValidationFinalizer,
     failInvalidInputs, Authorize, Start, RecordStart, ObserveReady, ObserveFailed,
     PassUndeclared, Freeze, Collected, AcquireResultWriter, RecordEpoch, Evaluate,
     Collect, LoseResultWriter, RecordSuccess, Conclude, cleanupResultPublication,
     Destroy, Observe, ObserveRun, CatchUp, FallBehind, Conflict, AuthorityFails,
     InputsSettle, ArgoSyncs, ArgoPrunes, JobPublishes, JobEnds, ArtifactSettles,
     OtherWriter, StopRun, DeleteRun, Degrade
<1>5. QED
  BY <1>2, <1>3, <1>4, Apart

-----------------------------------------------------------------------------
(* The inductive invariant.                                                 *)

\* The inductive invariant.
Safe == /\ Types /\ events \in 0..MaxEvents
        /\ ProjectInv
        /\ \A r \in Runs : RunInv(r) /\ EvidenceInv(r) /\ VerdictInv(r) /\ LegacyInv(r)

\* It holds in the beginning.
LEMMA InitSafe == Init => Safe
<1> SUFFICES ASSUME Init PROVE Safe
  OBVIOUS
<1>1. /\ 0 \in 0..MaxGeneration /\ 1 \in 1..MaxGeneration
      /\ 0 \in 0..MaxEpoch /\ 0 \in 0..MaxEvents
  BY PreviewAssumption
<1>2. ProjectTypes
  <2>1. [ok |-> FALSE, gen |-> 0] \in Condition
    BY <1>1 DEF Condition
  <2>2. project \in Project
    BY <1>1, <2>1 DEF Init, Project
  <2>3. Idle \in [at : {"idle", "ensured", "provisioned", "listed"}, gen : 0..MaxGeneration]
    BY <1>1 DEF Idle
  <2>4. QED
    BY <1>1, <2>2, <2>3 DEF Init, ProjectTypes
<1>3. RunTypes
  <2>1. VIdle \in Jobs
    BY <1>1 DEF VIdle, Jobs, Stages, Verdicts
  <2>2. run \in [Runs -> Run]
    BY DEF Init, Run
  <2>3. QED
    BY <2>1, <2>2 DEF Init, RunTypes
<1>4. ResultTypes
  <2>1. /\ NoConfig \in Configs /\ [holder |-> "nobody", epoch |-> 0] \in Lease
        /\ NoCopies \in Copies /\ "none" \in JobStates
    BY <1>1 DEF NoConfig, Configs, Lease, NoCopies, Copies, JobStates
  <2>2. QED
    BY <2>1 DEF Init, ResultTypes
<1>5. ProjectInv
  <2>1. /\ project.gen = 1 /\ project.prov.gen = 0 /\ ~project.prov.ok /\ ~project.del
        /\ seenProject = project
    BY DEF Init
  <2>2. pjob.at = "idle" /\ ~argo.terminating
    BY DEF Init, Idle
  <2>3. QED
    BY <2>1, <2>2 DEF ProjectInv, ReportsProvisioned
<1>6. ASSUME NEW r \in Runs
      PROVE  RunInv(r) /\ EvidenceInv(r) /\ VerdictInv(r) /\ LegacyInv(r)
  <2>1. vjob[r].at = "idle" /\ run[r].present /\ ~run[r].fin /\ seenRun[r] = run[r]
    BY <1>6 DEF Init, VIdle
  <2>2. /\ app[r] = "none" /\ config[r] = NoConfig
        /\ job[r] = "none" /\ artifact[r] = "none"
    BY <1>6 DEF Init
  <2>3. QED
    BY <2>1, <2>2 DEF RunInv, EvidenceInv, VerdictInv, LegacyInv, Working, Publishing
<1>7. QED
  BY <1>1, <1>2, <1>3, <1>4, <1>5, <1>6 DEF Safe, Types, Init

\* Every step keeps it.
LEMMA SafeStep == Safe /\ [Next]_vars => Safe'
<1> SUFFICES ASSUME Safe, [Next]_vars PROVE Safe'
  OBVIOUS
<1>1. events' \in 0..MaxEvents
  BY EventsTyped DEF Safe
<1>2. CASE UNCHANGED vars
  <2>1. Types' /\ ProjectInv'
    BY <1>2 DEF Safe, vars, projectVars, runVars, resultVars, Types, ProjectTypes,
       RunTypes, ResultTypes, ProjectInv, ReportsProvisioned
  <2>2. \A q \in Runs : Same(q)
    BY <1>2 DEF vars, projectVars, runVars, resultVars, Same
  <2>3. QED
    BY <1>1, <2>1, <2>2, Untouched DEF Safe
<1>3. CASE ProjectMoves
  <2>1. ProjectTypes' /\ ProjectInv'
    BY <1>3, ProjectTyped, ProjectKept DEF Safe, Types
  <2>2. RunTypes' /\ ResultTypes' /\ \A q \in Runs : Same(q)
    BY <1>3, Apart DEF Safe, Types, RunTypes, ResultTypes, Same, runVars, resultVars
  <2>3. QED
    BY <1>1, <2>1, <2>2, Untouched DEF Safe, Types
<1>4. ASSUME NEW r \in Runs, RunMoves(r) PROVE Safe'
  <2>1. ProjectTypes' /\ ProjectInv'
    BY <1>4, Apart DEF Safe, Types, ProjectTypes, ProjectInv, ReportsProvisioned,
       projectVars
  <2>2. RunTypes' /\ ResultTypes'
    BY <1>4, RunTyped DEF Safe
  <2>3. \A q \in Runs : RunInv(q)' /\ EvidenceInv(q)' /\ VerdictInv(q)' /\ LegacyInv(q)'
    BY <1>4, Others, Untouched, RunKept, EvidenceKept, VerdictKept, LegacyKept DEF Safe
  <2>4. QED
    BY <1>1, <2>1, <2>2, <2>3 DEF Safe, Types
<1>5. QED
  BY <1>2, <1>3, <1>4, Apart

\* So it always holds.
LEMMA SafeKept == Spec => []Safe
BY InitSafe, SafeStep, PTL DEF Spec

-----------------------------------------------------------------------------
(* The theorems.                                                            *)

\* Every object of the project and its runs, and what a reconciliation has in hand, is what the
\* code can write.
THEOREM TypeCorrect == Spec => []TypeOK
<1>1. Safe => TypeOK
  BY DEF Safe, Types, ProjectTypes, RunTypes, ResultTypes, TypeOK, Jobs, Stages, Configs
<1>2. QED
  BY <1>1, SafeKept, PTL

\* The project is ready only with what it declares provisioned (updateValidationProviderStatus),
\* and no preview outlives its run (Start, Destroy).
THEOREM PreviewsOwned == Spec => []PreviewsAreOwned
<1>1. Safe => TypeOK
  BY DEF Safe, Types, ProjectTypes, RunTypes, ResultTypes, TypeOK, Jobs, Stages, Configs
<1>2. Safe => ReadyMeansProvisioned
  BY DEF Safe, ProjectInv, ReportsProvisioned, ReadyMeansProvisioned, ProjectReady,
     Types, ProjectTypes
<1>3. Safe => NoOrphanPreview
  BY DEF Safe, RunInv, NoOrphanPreview
<1>4. QED
  BY <1>1, <1>2, <1>3, SafeKept, PTL DEF PreviewsAreOwned

\* The collector is created after the evaluation, and what authorised it, was recorded
\* (publishValidationResult).
THEOREM EvaluationFirst == Spec => []EvaluatedBeforePublished
<1>1. Safe => EvaluatedBeforePublished
  BY DEF Safe, EvidenceInv, EvaluatedBeforePublished
<1>2. QED
  BY <1>1, SafeKept, PTL

\* What the updates of a run do to its phase.
LEMMA Phases ==
  ASSUME NEW v \in Run
  PROVE  /\ [v EXCEPT !.fin = TRUE].phase = v.phase
         /\ [v EXCEPT !.phase = "Failed"].phase = "Failed"
         /\ [v EXCEPT !.ref = TRUE, !.phase = "Validating"].phase = "Validating"
         /\ [v EXCEPT !.present = FALSE, !.fin = FALSE].phase = v.phase
BY DEF Run

\* A run whose step declares the result succeeds only on a passed one whose artifact is
\* accepted, one of a legacy step with nothing published, and each only after the evaluation is
\* recorded (publishValidationResult).
THEOREM SuccessesPublished == Spec => SuccessIsPublished
<1>1. ASSUME Safe, [Next]_vars, NEW r \in Runs,
             run'[r].phase = "Succeeded", run[r].phase # "Succeeded"
      PROVE  /\ evidence[r] = {"authority", "inputs", "evaluated"}
             /\ IF run[r].declares
                THEN config[r].result = "passed" /\ artifact[r] = "accepted"
                ELSE config[r] = NoConfig /\ artifact[r] = "none"
  <2>1. /\ Types /\ run \in [Runs -> Run] /\ run[r] \in Run
        /\ seenRun \in [Runs -> Run] /\ seenRun[r] \in Run
    BY <1>1 DEF Safe, Types, RunTypes
  <2>2. run'[r] # run[r]
    BY <1>1
  <2>3. RunMoves(r)
    <3>1. ~ProjectMoves /\ ~UNCHANGED vars
      BY <2>2, Apart DEF runVars, vars
    <3>2. PICK q \in Runs : RunMoves(q)
      BY <1>1, <3>1, Apart
    <3>3. q = r
      BY <2>1, <2>2, <3>2, Others DEF Same
    <3>4. QED
      BY <3>2, <3>3
  <2>4. Conclude(r) /\ vjob[r].verdict = "passed"
    <3>1. CASE AddValidationFinalizer(r)
      <4>1. run'[r] = [run[r] EXCEPT !.fin = TRUE]
        BY <3>1, <2>1, Moved DEF AddValidationFinalizer
      <4>2. QED
        BY <4>1, <2>1, <1>1, Phases
    <3>2. CASE failInvalidInputs(r) \/ RecordStart(r) \/ AuthorityFails(r)
      <4>1. \/ run' = run
            \/ run'[r] = [run[r] EXCEPT !.phase = "Failed"]
            \/ run'[r] = [run[r] EXCEPT !.ref = TRUE, !.phase = "Validating"]
        BY <3>2, <2>1, Moved DEF failInvalidInputs, RecordStart, AuthorityFails
      <4>2. QED
        BY <4>1, <2>1, <1>1, Phases
    <3>3. CASE Conclude(r)
      <4>1. CASE vjob[r].verdict # "passed"
        <5>1. run' = run \/ run'[r] = [run[r] EXCEPT !.phase = "Failed"]
          BY <3>3, <4>1, <2>1, Moved DEF Conclude
        <5>2. QED
          BY <5>1, <2>1, <1>1, Phases
      <4>2. QED
        BY <3>3, <4>1
    <3>4. CASE Destroy(r)
      <4>1. run' = run \/ run'[r] = [run[r] EXCEPT !.present = FALSE, !.fin = FALSE]
        BY <3>4, <2>1, Moved DEF Destroy
      <4>2. QED
        BY <4>1, <2>1, <1>1, Phases
    <3>5. CASE DeleteRun(r)
      <4>1. run'[r].phase = run[r].phase
        BY <3>5, <2>1 DEF DeleteRun, Run
      <4>2. QED
        BY <4>1, <1>1
    <3>6. QED
      <4>1. \/ AddValidationFinalizer(r) \/ failInvalidInputs(r) \/ RecordStart(r)
            \/ AuthorityFails(r) \/ Conclude(r) \/ Destroy(r) \/ DeleteRun(r)
        BY <2>2, <2>3 DEF RunMoves, RunStep, Surroundings, Authorize, Start,
           ObserveReady, ObserveFailed, PassUndeclared, Freeze, Collected,
           AcquireResultWriter, RecordEpoch, Evaluate, Collect, LoseResultWriter,
           RecordSuccess, cleanupResultPublication, Observe, ObserveRun, CatchUp,
           FallBehind, Conflict, InputsSettle, ArgoSyncs, ArgoPrunes, JobPublishes,
           JobEnds, ArtifactSettles, OtherWriter, StopRun, Degrade, runVars
      <4>2. QED
        BY <4>1, <3>1, <3>2, <3>3, <3>4, <3>5
  <2>5. vjob[r].at = "conclude" /\ seenRun[r].declares = run[r].declares
    BY <1>1, <2>4 DEF Safe, RunInv, Conclude
  <2>6. QED
    BY <1>1, <2>4, <2>5 DEF Safe, EvidenceInv, VerdictInv, LegacyInv
<1>2. Safe /\ [Next]_vars =>
        [\A r \in Runs : run'[r].phase = "Succeeded" /\ run[r].phase # "Succeeded" =>
           /\ evidence[r] = {"authority", "inputs", "evaluated"}
           /\ IF run[r].declares
              THEN config[r].result = "passed" /\ artifact[r] = "accepted"
              ELSE config[r] = NoConfig /\ artifact[r] = "none"]_vars
  BY <1>1
<1>3. QED
  BY <1>2, SafeKept, PTL DEF Spec, SuccessIsPublished
====
