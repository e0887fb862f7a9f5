# A TLA+ development of SovereignAI

SovereignAI runs software-engineering workflows on Kubernetes: agents that reason
with a local language model, deterministic utility operations (commit, push, tests,
merge request), human gates, human sessions and validation, all on one shared
workspace per workflow. The program is a set of Kubernetes controllers, an API
server and the programs that run inside pods. This directory holds the models of
their protocols, the TLC configurations that check them, and theorems
about them that TLAPS checks.

Sources are named relative to `src/`; `PROJECT.json` maps every definition to the
lines it translates.

Run `tlc -config <run>.cfg <module>` for a run of the tables below and
`tlapm <module>_proofs.tla` for the proofs.

## 1. The system

### How it works as a whole

One controller manager (`cmd/controller/main.go`), elected leader, runs eleven
controllers with one worker each. A controller reads objects from the informers'
caches, decides, and makes API calls one after another: each call is atomic, the
sequence is not. An error, a lost connection or a restart of the manager leaves the
sequence where it was, and the next reconciliation starts again from what it reads.
Status writes carry the version that was read and fail with a conflict when it is
old. Controllers never call each other: they communicate through the objects.

That gives every component the same difficulties, which the models keep:

- a reconciliation may stop between any two of its writes (`Crash`);
- what it read from a cache may be older than what is stored (`lag`, `Sync`),
  while its own write is checked against the stored version;
- reconciliations of different kinds interleave at every write;
- people delete and decide at any time; nodes and pods fail.

### Components

| Component | State it keeps | Operations | Talks to | What is hard | What makes it correct |
| --- | --- | --- | --- | --- | --- |
| Workspace lease (`controllers/workspace_writer.go`) | `Lease`: holder, `leaseTransitions` as epoch | acquire, check, release; quiescence of pods and jobs | AgentRun, UtilityOperation, HumanSession, bootstrap | two status objects per grant, cached reads, deletion of jobs | one writer at a time; epochs fence; terms end |
| Workflow (`controllers/workflow`) | status: phase, active step and attempt, iteration, refinement observation | initialise, begin, advance, retry, rewind, create attempt and execution, succeed, fail | StepAttempt, executions, artifacts, approvals | five writes for one attempt, stale workflow, budgets, deleted children | plan in order, budgets, one execution, ends |
| StepAttempt (`controllers/stepattempt`) | status: phase, executionRef | mirror the execution, refuse a foreign one, report a lost one | Workflow, executions | names are reused | failures are earned |
| ApprovalRequest (`approvalrequest_controller.go`, `approval_binding.go`) | request and decision | consume a decision once, check its authority, resolve the approval an operation needs | Workflow, StepAttempt, UtilityOperation | decision before the workflow names the gate | no operation without an approval of its iteration |
| InferenceLease and admission (`inference_lease_controller.go`, `inference/admission.go`) | lease phase, endpointRef; endpoint's active leases and allocation | admit, reuse, evict, create, bind, prune, release, finalise | AgentRun, InferenceEndpoint, policy | two objects for one fact, eviction in the middle of an admission | memory is not promised twice, released, and given to those who wait |
| InferenceEndpoint (`inference_endpoint_controller.go`) | phase, pod, service | create workloads, observe pod | kubelet, InferenceLease | phase is old when used | a failed endpoint takes no work |
| AgentRun (`controllers/agentrun`) | phase, podRef, collectorJobRef, lease refs, epoch | authority, inputs, inference lease, workspace lease, pod, collection, release, finalise | all of the above | order of releases, status in several writes | releases what it took |
| UtilityOperation (`controllers/utilityoperation`) | phase, jobRef, collectorJobRef, epoch | authority, approval, workspace lease, job, collection | workspace lease, approvals, artifacts | repeated jobs, TTL of jobs | effects once |
| HumanSession (`humansession_controller.go`) | phase, expiresAt, epoch | acquire, run, expire, cancel | workspace lease | expiry while waiting | gives the workspace back |
| Workflow bootstrap (`workflow_bootstrap.go`, `bootstrapper.go`) | claim, lease, ConfigMap, job, first artifact, `bootstrapReady` | make the workspace, take its lease, run the job, publish, release, clean up | API server, workspace lease, artifact controller | every write may be the last; objects disappear or are replaced | the submission, and nothing else, becomes the first artifact; the lease comes back |
| ValidationRun (`controllers/validationrun`, `validation`) | phase, preview, frozen result, collector job, finalizer | authorise, start, observe, evaluate, publish, destroy | Argo CD, project, workspace lease, artifacts | an external system, a project that changes or goes, results in five objects | no preview or term outlives its run; success is an accepted result |
| Artifact (`artifact_controller.go`, `artifacts`, `artifactcollector.go`, `input_evidence.go`) | content store, phase, digest | put, verify, create, accept, reject, read | collector job, workflow | equal contents, torn files, versions that change under a validation | what is read is what was pinned; inputs fit together |
| SovereignProject (`project_controller.go`) | conditions by generation, finalizer | validate, provision in Argo CD, destroy | ValidationRun, Argo CD | edits while it provisions | ready means provisioned |
| Audit log (`audit`) | events by id | append, project stories | every controller, API server | the same event twice, from another incarnation, or cut off from its cause | stories stay linked and never contradict themselves |
| Utility operations (`utility`, `cmd/utility-runner`) | checkout, index, markers, remote branches, merge requests | initialise, prepare, test, commit, push, build, request, merge | Git, workspace, provider | a job repeated after a kill, beside humans | the effect happens once, on what was tested |
| API server (`api/v1`, `cmd/api`) | none of its own | create, approve, list, context | Kubernetes API | decision for a request that moved | binds what the human saw |
| Workspace editor, MCP server, agents (`workspaceeditor`, `cmd/mcp-server`, `cmd/agent-wrapper`, `cmd/reference-agent`) | overlay, deletion markers, memory of reads, result | seed, list, read, create, replace, delete, complete; interrupt | language model, collector | the sidecar forgets, the agent does not; a kill in any container | what was acknowledged is published, and nothing else |
| Contracts, schemas, CLI, demo, generated code | none | validation and rendering | — | — | — |

`PROJECT.json` lists the same components with what is modelled and why the rest is
not, and the hazards of the code at their lines.

## 2. The models

| Module | Models | Uses |
| --- | --- | --- |
| `ExclusiveWorkspace` | the promise of the workspace lease | |
| `WorkspaceWriter` | `workspace_writer.go` and its use by AgentRun, UtilityOperation and HumanSession | refines `ExclusiveWorkspace` |
| `PlanExecution` | the promise of a workflow | |
| `WorkflowProgress` | workflow, step attempts, gates | refines `PlanExecution` |
| `InferenceLeasing` | leases, endpoints, the runs that use them | |
| `Publication` | the promise of the utility operations | |
| `UtilityEffects` | `internal/utility` on workspace, Git and merge requests, and the jobs that run it | refines `Publication` |
| `ValidationPreview` | SovereignProject's provisioning, ValidationRun, Argo CD | |
| `ArtifactFlow` | results, content store, collectors, artifacts, pinned inputs, repairs | |
| `Admission` | API server, bootstrap, first artifact | |
| `AuditLog` | event identities, append, projected stories | |
| `LineageEvidence` | who writes the log and when; approval, push admission, context | `AuditLog` |
| `WorkspaceEditing` | an agent's pod: wrapper, agent, sidecar, overlay | |
| `..._proofs` | the theorems about a model and their proofs; `AgentServices_proofs` has those about `WorkspaceEditing` and `InferenceLeasing` | the model |
| `MC...` | instances for TLC | |

Each specification has one action per API write or per event of the environment.
A constant `Env` names the events of the environment that may happen in an instance,
and `MaxCrashes` bounds how many reconciliations are abandoned, so that one module
serves the runs that need an event and the runs that must not have it. Operators
whose comment begins with *Deviation* are no part of a specification: they are
plausible bugs, and every property of a passing run is violated when one of them
replaces the operator it deviates from (`PROJECT.json`, `mutants`).

### WorkspaceWriter

A unit is an AgentRun (pod, then collector job), a UtilityOperation (job, then
collector job) or a HumanSession (pod until its TTL). `pc[u]` is the progress of the
reconciliation in flight: `AcquireWorkspaceWriter` writes the Lease (`granted`), then
the unit's status gets the epoch (`recorded`), then the workload is created, and so
on; the release removes the holder and then records `released`. `Crash` sets `pc` back.

Read fresh: a unit's own status (one worker, compare-and-swap). Read from a cache that
may lag: the Lease (`leaseLag`), pods and jobs (`workloadLag`). Merged: phases the
protocol does not tell apart (`Active`, `Terminal`), the two deletes of a unit's
workloads, the two status writes of a session that ends. A failed audit append is a
`Crash`. A job is deleted as the code does it, without a propagation policy: its pod
outlives it for a while (`orphan`).

### WorkflowProgress

The status of the workflow, the attempts of the plan by deterministic name (step,
iteration, retry), their executions, gates and decisions. `Read` takes the workflow
from a cache; the writes of `createAttempt` follow one by one (`at`): attempt,
execution, recorded retry observation, executionRef, workflow status. The cache is at
most one version behind, since a reconciliation that starts from an old copy fails at its first
status write and the copies in between lead to the same writes. The phase
of an execution is written by its own controller; here it starts only with the
authority `ValidateDomainAuthority` checks and then ends in any way. A decision is taken by the API server only on the
gate that the stored status names (`activeApproval`). `made` counts the executions created under a name, so that the
observation of a replacement is compared with both the attempt and its execution (`Replaces`), as in the code.

Left out: deletion of the workflow and feedback text; the selection of inputs is in `ArtifactFlow`, audit events in
`LineageEvidence`, and bootstrap, here one variable, in `Admission`. `Interrupted` is always retryable, as in the
code.

### InferenceLeasing

The lease of a run and the endpoint it may use, each with its cached copy.
`at`, `cur`, `seen`, `victims`, `victim` describe the lease reconciliation in flight (one worker: one at
a time). Admission (`Fits`, `Sacrifices`, `Creating`) is evaluated on cached copies,
as `Select` is; `Reserve` prunes and reserves on the endpoint, `BindStatus` binds the
lease; an eviction is `StartInterrupt` (reservation) and `interruptLease` (phase) for
each victim. The endpoint is the one named after model, revision, tenant and class.
`Shared` is what the sharing scope and the policy say together; `SharedWithinWorkflow` is never
compatible, since no endpoint carries the label it is compared with. A run is what the
lease sees of it: waiting, working, over, deleted, gone. A conflict and a `RetryOnConflict`
that runs out are the action `Conflict`.

`Total` is what the loops of `bind` and `pruneEndpointReservations` add up, defined by counting
(`Asked`: each MiB that a lease of the set asks for) rather than by adding in some order, which is
what makes it possible to prove about it. The names `LeasingInit`, `LeasingNext`, `LeasingSpec`, `LeasingTypeOK` and
`leasingVars` let one module of theorems extend this model beside another.

Left out: the wording of reasons, audit events (a failed append is a `Crash`), the GPU and its pod's
specification. No code deletes an endpoint, so the models do not.

### UtilityEffects

One action per command of an operation (`git` call, file write, provider call). The
workspace is the checkout (`work`, `index`, `branch`, `head`), the prepared-candidate
markers and the source snapshot; the outside is the remote's branches and the
provider's merge requests. `Kill` ends a job between two commands and `KillWriting`
while the candidate is written, half a file included (`Torn`); `LoseJob` is a job
that is gone before the controller has seen its end, having done everything or
not; `NotCollected` is an end whose collector fails, which is not retried. The step is otherwise
repeated under the same idempotency key until its tries are used up; a failed test
begins a new iteration. File contents are who wrote them: the source, iteration *i*,
upstream, somebody else. `hasGitCommit` looks at the 100 newest commits; histories of the model are
shorter. `git merge` is one command: a job killed inside it is left out.

### ValidationPreview

Two controllers over cached objects. `pjob` and `vjob[r]` are where their reconciliations are; a write with an old
resource version changes nothing and ends the reconciliation. The project's spec is its generation; `conf` and
`prov` are the two conditions with the generation they were reported for. Argo CD syncs, degrades and prunes as it
likes, and prunes only while it has access to the repository. A result is frozen (`config`), evaluated (`evidence`),
collected by a job under the workspace lease and accepted or rejected as an artifact. `seen[r]` holds the cached
copies of what a run publishes: those of the ConfigMap's epoch, of the job and of the lease may fall behind
(`FallBehind`, `CatchUp`); a read uses the copy, a write that conflicts with what is stored changes nothing. An old
copy of the artifact only delays what follows. A step that declares no `validation-result` (`declares`) takes the
verdict of the tests with nothing frozen, collected or accepted (`PassUndeclared`). `AuthorityFails` is a step
attempt that does not authorize the run. Left out: a project created again under its name, and an `AppProject`
somebody else owns.

### ArtifactFlow

The five steps that the canonical plan repeats, with their attempts by step,
iteration and try. An attempt pins accepted artifacts (`Eligible`, `newerThan`), runs,
leaves a result, is collected (`Put`, `CreateArtifact`) and succeeds when its artifact
is accepted. `PowerLoss` tears content that was not synced to disk. `sameBytes` lets two tries
produce equal content. The acceptance of an artifact is one action: the caches of the
controllers show it from then on.

### Admission

`request` is how far `CreateWorkflow` has come, with its roll-back on a refused create and no roll-back of a server
that is gone. `ctl` is the bootstrap reconciliation, each API write an action; `validator` is the version of the
artifact under validation. `Sync` copies the kinds of objects one at a time. The reasons to fail are read once, when
a reconciliation begins (`Begin`, `Decide`). The clean-up deletes the ConfigMap by its name, so with an old copy
also one that has replaced it. Events from outside replace the ConfigMap, delete or kill jobs and artifacts, start a
session in the workspace.

### AuditLog and LineageEvidence

`AuditLog` has no state: ids, the append that keeps the first event of an id, and the stories `BuildProjection`
derives (`linked`, `missing evidence`, `evidence mismatch`). Some writers make an id from a UID, others from a name,
and the models keep the difference. `LineageEvidence` is the three kinds of steps that leave evidence (agent, gate,
push) in a workflow that may rewind, each controller with its own position and each append a step. `artifacts` are
the authors whose candidate is kept: a gate and a push need one of a succeeded author (`inputCandidateForArtifact`),
and a rewind follows the candidate that the failed push took to its author (`Producers`, `recoveryInputPath`). The
recorder is one durable log; an append that was done but not acknowledged is a controller that stops after it. Left
out: evidence of validation runs, the workflow view, artifact readiness, group membership beyond who may answer.

### WorkspaceEditing

The agent calls tools of the sidecar in rounds; which call and with what content is any
choice among the tools it was offered. `overlay` and `stones` are the files on disk, `server` is the
sidecar's memory (what was read, listed), lost when it is killed; `told` is what the agent last heard of
a path. Four tasks: development under an accepted plan, test authoring, a repair of
tests, planning. Contents are `old`, `edit`, or a test without its cases (`dropped`).

A write or a deletion is one step while the sidecar lives. When it is killed in one (`KillServing`, `KillSeeding`),
any part of it may be on disk: nothing, `CutWrite` (the
temporary file of `atomicWrite` with any content, the new file beside its deletion marker, or all of it; `Temps`,
`TempOf`) or `CutDelete` (the file removed, with its marker, without, or with one that is `Torn`, after which `Changes`
fails). A call that is cut off is answered by nobody and
the agent fails (`cut off`); what it left in the staging directory is not read. `task.preserves` says that a repair
must keep the cases of its tests (`TestRunCodeError`).

Searching, line endings, size limits, and paths that leave the workspace are left out.

## 3. What the runs show

Bounds are the smallest at which the interesting case happens, and a little more:
two units are enough for a handover and three for two waiters of different kinds; two
epochs exhaust a counter whose last value is a parameter; one crash can fall
between any two writes, and two can hit the recovery of the first; two iterations
and two retries are the first at which budgets and iterations can be confused; three
leases are a victim, a bystander and an evictor. A deadlock is allowed everywhere
(`CHECK_DEADLOCK FALSE`): when all work has ended and the environment's
bounds are used up, the system stops.

### MCWorkspaceWriter

| Run | Properties | Result | What it shows |
| --- | --- | --- | --- |
| `ww_units` | `TypeOK`, `GrantCoversWorkload`, `EpochsFence`, `ImplementsExclusiveWorkspace` | pass | An agent, a utility operation and a session compete for the lease with deletion, eviction, a lagging lease cache and a reconciliation abandoned between any two of its writes, up to the exhaustion of the epoch: every live workload is covered by the current term, no epoch is granted twice and the controllers implement ExclusiveWorkspace. |
| `ww_handover` | `ReleasedMeansReleased`, `TermsEnd`, `UnitsSettle` | pass | Without crashes and with fresh reads of the lease every term ends, every unit settles, and a status that says released is right; refusals, preemption, deletion and a lagging cache of the workloads included. |

### MCWorkflowProgress

| Run | Properties | Result | What it shows |
| --- | --- | --- | --- |
| `wp_plan` | `TypeOK`, `OneActiveExecution`, `RetriesAreEarned`, `RewindsAreEarned`, `WorkflowEnds`, `ImplementsPlanExecution` | pass | The canonical five-step plan with retries, a rewind, a human gate, a stale workflow cache and a crash between any two writes: executions do not overlap, budgets hold, the controllers implement PlanExecution, and under fair controllers, humans and watches every begun workflow ends. |
| `wp_losses` | `ApprovedBeforeOperation` | pass | Somebody deletes an execution or an attempt, or the change request disappears, beside a rewind, a crash and a stale workflow cache: no operation runs without an approval of the same iteration, the gate of this plan preceding the rewind target. |

### MCAdmission

| Run | Properties | Result | What it shows |
| --- | --- | --- | --- |
| `adm_bootstrap` | `BootstrapInv`, `FailsForCause`, `BootstrapConverges` | pass | One request through the API server, the bootstrap of its workflow and the acceptance of its artifact, with reconciliations cut short twice, stale caches of all but the lease and the ConfigMap, and two of: a refused create, a lost server, a session in the way, a replaced ConfigMap, deleted or killed jobs and artifacts, a cleaned workflow. |

### MCArtifactFlow

| Run | Properties | Result | What it shows |
| --- | --- | --- | --- |
| `af_rewinds` | `InputsAgree`, `OnlyWholeBytes`, `WorkflowEnds` | pass | The repeated part of the canonical plan with two rewinds, two tries of each step and three faults (failures before and after a result, lost pods, refused or repeated results, killed and deleted collectors, a power loss): every step consumes one line of work, repairs start from what failed, nothing is read or published but the pinned bytes, and the workflow ends, unless a collector job is removed before its end was seen. |

### MCInferenceLeasing

| Run | Properties | Result | What it shows |
| --- | --- | --- | --- |
| `il_evict` | `LeasingTypeOK`, `LedgerBalances`, `AdmittedWorkFits` | pass | Three leases compete for one endpoint, an urgent one evicts and a dedicated one shares the name; the pod fails, policy refuses, runs lose inputs and are deleted: the ledger balances and the admitted work fits. |
| `il_lag` | `AdmittedWorkFits`, `LeasesEnd`, `WaitersAreServed` | pass | Stale caches, a reconciliation cut off anywhere and runs that are deleted: the endpoint is never oversubscribed, leases of finished runs end and waiting leases are served. |

### MCLineageEvidence

| Run | Properties | Result | What it shows |
| --- | --- | --- | --- |
| `le_stories` | `LogExplains`, `NoFalseMismatch`, `AnswersStand`, `EvidenceConverges` | pass | A reviewed and a rewound workflow writes its audit log while one thing goes wrong: work cut short between two writes, an upload not acknowledged, a deleted attempt or a workflow failed from outside; two people answer the first gate. The stories projected from the log agree with what was done. |

### MCUtilityEffects

| Run | Properties | Result | What it shows |
| --- | --- | --- | --- |
| `ue_faults` | `CommittedAsTested`, `NothingForeignLost`, `ImplementsPublication` | pass | Jobs are killed between commands and while they write, jobs, results, requests and answers are lost, a human edits the workspace, branches and merge requests move: what is committed is what was tested, the evidence is one chain, no foreign edit and no remote commit is lost, and there is one commit and one merge request or merge. |

### MCValidationPreview

| Run | Properties | Result | What it shows |
| --- | --- | --- | --- |
| `vp_runs` | `PreviewsAreOwned`, `EvaluatedBeforePublished`, `SuccessIsPublished`, `RunEnds` | pass | One run of a project that may be edited or deleted at any moment, with stale copies of both and of the lease, the collector and the ConfigMap, controllers that stop, a preview that degrades, a collector that fails or disappears, an artifact that is rejected and a step with or without a declared result: a ready project is provisioned, no preview outlives its run, nothing is published before its evaluation is recorded, and success means an accepted passed result wherever one is declared. |

### MCWorkspaceEditing

| Run | Properties | Result | What it shows |
| --- | --- | --- | --- |
| `we_tasks` | `PublishedIsMeant`, `WorkspaceSurvives`, `NoBlindChange` | pass | A developer, a test author, a repair of tests and a planner work through the sidecar while one container is killed, the sidecar also in the middle of a call or of restoring a test: what is published is what their calls were acknowledged to do, within the plan, and the pod's verdict is its result. |

Some properties are conjunctions: `CommittedAsTested`, `NothingForeignLost`,
`PreviewsAreOwned`, `InputsAgree`, `BootstrapInv`, `BootstrapConverges`, `LogExplains`,
`EvidenceConverges`, `PublishedIsMeant` and `WorkspaceSurvives` each name at the end of their
module the properties they stand for, every one stated and commented on its own.

Further bounds:

- `ue_faults`: four events allow a killed job, a lost reply, a foreign edit and a moved
  branch in one behaviour; two tries and two iterations tell a key from the next one.
- `vp_runs`: one edit and one deletion of the project beside one run, or any other two events, a copy that
  falls behind among them. Runs meet only in the project,
  which reads them as a list; the lease may be taken by another unit in between.
- `af_rewinds`: two rewinds, so that an iteration has a predecessor that is itself a repair;
  three events fail two tries and tear one content.
- `adm_bootstrap`: two stops and two events, so that a recovery is itself cut short, or
  interfered with; a session can come between them.
- `wp_losses`: one deletion beside one crash and one rewind, in a plan whose gate precedes
  the rewind target.
- `le_stories`: one fault, which may fall between any two writes; two reviewers of the first
  gate, one of the second.
- `we_tasks`: four rounds of two calls are the fewest that read, edit, delete, check and
  complete; one killed container, at any moment: between two calls, in the middle of one, or in the middle of
  restoring a test. One directory is not listed, and one path is that of a temporary file.
- `il_lag`: two leases and room for one; `il_evict` has the third and the evictions.

### Fairness

`FairSpec` of each module assumes: a reconciliation that is due is run again (the work queue requeues failures,
controllers requeue what they wait for); one step after another of a reconciliation in flight is taken; executions,
pods and agents end or become ready; a session's clock passes its TTL; humans decide; caches catch up. Strong
fairness is used where what is due is not continuously so: the start of lease reconciliations in `InferenceLeasing`
(one worker for all leases, whose turns come again and again), and in `ValidationPreview` the caches, which another
write may overtake, and Argo's pruning, which a missing credential may interrupt. There a failed run also tries
again to give the workspace back on its next reconciliation, which only the resync of the manager's informers (ten
hours, the default of controller-runtime) is sure to bring about. In `LineageEvidence` and `ArtifactFlow` all jobs
of a kind together are weakly fair, since the active step has only one. In `Admission` a session ends by its
deadline. `ue_faults` and `we_tasks` check safety only. Nothing is assumed of deletions, losses, denials or crashes;
crashes are bounded, because a manager that stops for ever makes no progress.

## 4. What is proved

| Theorem | States | What it establishes |
| --- | --- | --- |
| `WorkspaceWriter_proofs!TypeCorrect` | `TypeOK` | Every variable keeps its type, the epoch in particular never passes the last value the counter can hold, for any units, bounds and environment. |
| `WorkspaceWriter_proofs!EpochsAreFences` | `EpochsFence` | For any number of units, any crashes and any lag of the caches, no writer epoch is granted to two units and a unit that is not the holder has an older one than the holder. |
| `WorkspaceWriter_proofs!WritersAreCovered` | `GrantCoversWorkload` | Until a unit releases on an old copy of its pod or job (ReleasedUnseen), a workload object that exists and is not finished runs under the current term of the lease, whatever crashes, deletions, evictions and lag of every cache happen. |
| `WorkspaceWriter_proofs!ExclusiveWorkspaceImplemented` | `ImplementsExclusiveWorkspace` | Until a unit releases on an old copy of its pod or job, the controllers refine ExclusiveWorkspace, with every cache stale: terms are granted one after the other and none ends while its holder has a live workload. |
| `WorkspaceWriter_proofs!ReleasesAreReal` | `ReleasedMeansReleased` | Until an old copy of the lease makes a release a no-op (ReleaseUndone), a status that says released is right, with every cache stale. |
| `WorkflowProgress_proofs!TypeCorrect` | `TypeOK` | For every plan, every bound and every environment, the status of the workflow, of its attempts and their executions, and what a reconciliation has in hand, are values the API types allow. |
| `WorkflowProgress_proofs!PlanExecuted` | `ImplementsPlanExecution` | If attempts and the change request are not deleted, the controllers refine PlanExecution for every plan, any number of crashes and any staleness of the cached workflow: steps run in the order of the plan, retries and rewinds come from failures, and an ended workflow stays ended. |
| `WorkflowProgress_proofs!RetriesEarned` | `RetriesAreEarned` | If attempts are not deleted, every attempt after the first follows one that may be tried again and is within the budget of its step, whatever copy of the workflow a reconciliation read. |
| `WorkflowProgress_proofs!RewindsEarned` | `RewindsAreEarned` | If attempts are not deleted, every iteration follows a failed attempt of the rewind step in the iteration before. |
| `WorkflowProgress_proofs!OperationsApproved` | `ApprovedBeforeOperation` | If attempts are not deleted, no execution runs whose gate was not approved in the same iteration, also if executions or the change request are lost. |
| `WorkflowProgress_proofs!OneExecution` | `OneActiveExecution` | If neither attempts nor executions are deleted, at most one execution of the workflow is active, across crashes, stale reads, retries and rewinds. |
| `WorkflowProgress_proofs!EndIsFinal` | `` | If attempts and the change request are not deleted, the phase of an ended workflow never changes again. |
| `WorkflowProgress_proofs!FailuresEarned` | `` | If neither attempts nor executions are deleted, an attempt fails only when the execution created for it, not one of an earlier attempt of its name, has failed. |
| `Admission_proofs!TypeCorrect` | `` | Requests, API objects and what a reconciliation has in hand are what the code can write, in every environment. |
| `Admission_proofs!BootstrapSafe` | `BootstrapInv` | In every environment, with every cache stale and any bound on crashes, refusals and terms: what is accepted is what was submitted, a job that can write runs in the term bootstrap holds and will release, and a ready workflow leaves the workspace free. |
| `Admission_proofs!AcceptanceStands` | `` | No step rejects a change request that was accepted, in particular no validation that began before the acceptance. |
| `Admission_proofs!FailureHasCause` | `FailsForCause` | A workflow fails in bootstrap only after somebody removed or replaced an object, whatever is stale, cut off or in the way, except that one step must not be misled: the reconciliation that finds the failure with an old copy of the ConfigMap or the lease. |
| `ArtifactFlow_proofs!Invariance` | `` | The inductive invariant: attempts come one after the other, a step succeeds once in an iteration, and what an attempt is pinned to is the accepted output of that success. |
| `ArtifactFlow_proofs!InputsFit` | `InputsAgree` | However often steps are retried and the workflow rewound, and whenever artifacts are accepted: two inputs of a step rest on the same third, and a repair starts from the tests of the candidate that failed last. |
| `ArtifactFlow_proofs!PinnedAreStored` | `` | Every input and seed an execution is pinned to is in the content store. |
| `ArtifactFlow_proofs!ReadAndStoredWhole` | `OnlyWholeBytes` | No execution starts on torn bytes and no collector publishes them, whatever power losses there were. |
| `AgentServices_proofs!LeasesTyped` | `LeasingTypeOK` | Leases, endpoints, their cached copies and the reconciliation in flight stay well formed. |
| `AgentServices_proofs!LedgerBalanced` | `LedgerBalances` | What an endpoint has allocated is the sum of what the leases it lists ask for, through every admission, eviction, release, pruning and crash, for any number of leases and any demands. |
| `AgentServices_proofs!AdmittedFits` | `AdmittedWorkFits` | If no eviction is cut off by a crash between its two writes, the runs that work on an endpoint never ask for more than it has, with caches of any age and crashes anywhere else. |
| `LineageEvidence_proofs!Invariance` | `` | The inductive invariant: every event in the log is what its writer makes of the unit it names, and what a unit shows, or a controller has appended on its way, is in the log. |
| `LineageEvidence_proofs!Explained` | `LogExplains` | Whatever is cut short, repeated, deleted or created again: an event's causes are in the log before it, and no push that runs, replacement that succeeded or agent that infers is without its story. |
| `LineageEvidence_proofs!NeverContradicted` | `NoFalseMismatch` | While every attempt was created once, the projection shows no story as contradictory, at no point between two writes and for any number of users, iterations and faults. |
| `LineageEvidence_proofs!Answered` | `AnswersStand` | A user told that a decision is recorded finds it in the log as given, and every push that runs carries the candidate that was approved in its iteration. |
| `UtilityEffects_proofs!Invariance` | `` | The inductive invariant: at every command of every job, whatever was killed before it, the accepted artifacts, markers, branches, commits, merge requests and the stage of the job fit together. |
| `UtilityEffects_proofs!CommittedOnlyTested` | `CommittedAsTested` | For any number of retries, iterations and events: the candidate commit is the tree the accepted report is about, and the accepted artifacts form one chain that ends in a merge of it. |
| `UtilityEffects_proofs!NothingLost` | `NothingForeignLost` | After repository.initialize no step writes over a foreign edit in the workspace, and no step ever takes a commit from a branch of the repository. |
| `UtilityEffects_proofs!PublicationImplemented` | `ImplementsPublication` | The operations implement Publication: one candidate commit and one merge request or merge, however often jobs are killed and repeated. |
| `ValidationPreview_proofs!TypeCorrect` | `` | The objects of the project and of any number of runs, and what their reconciliations have in hand, are what the code can write. |
| `ValidationPreview_proofs!PreviewsOwned` | `PreviewsAreOwned` | For any number of runs, edits and stops, with any copy of an object, the lease and the collector outdated: a project that is ready has in Argo what it now declares, and no preview outlives its run. |
| `ValidationPreview_proofs!EvaluationFirst` | `EvaluatedBeforePublished` | Nothing of a result is published before the evaluation, and what authorised it, is recorded. |
| `ValidationPreview_proofs!SuccessesPublished` | `SuccessIsPublished` | With outdated copies and any stops, a run whose step declares the result succeeds only on a passed one whose artifact is accepted, a run of a legacy step only with nothing published, and each after its evaluation is recorded. |
| `AgentServices_proofs!Invariance` | `` | The inductive invariant: files are what the agent was told of them, nothing is told before the tests under repair are back, and what was published stays the evidence. |
| `AgentServices_proofs!FilesSurvive` | `WorkspaceSurvives` | However often the sidecar is killed, also in the middle of restoring tests: it loses or alters no file the agent has heard of and serves nothing before the tests are back. |
| `AgentServices_proofs!NothingBlind` | `NoBlindChange` | No call of the agent replaces or deletes a content the agent was not told, whatever restarts came in between. |
| `AgentServices_proofs!OutputMeant` | `PublishedIsMeant` | If plans add only what the checkout lacks: a pod that succeeds has published what its agent was told it did and the tests it repairs, within its plan, but for hidden files and temporary files that a killed seeding left, and the verdict is the one of its result. |

The theorems hold for every value of the constants: any plan and number of units, any bound on crashes, tries,
rewinds and epochs, any choice of environment events but those a hypothesis excludes. The runs check the same on the
instances of section 3. Where a theorem has a hypothesis on the environment, the property is false without it, and
section 5 has the instance. Some hypotheses name the one kind of step that breaks the property (`ReleasedUnseen`,
`ReleaseUndone`, `MisledByCopy`, `CutOff`): the theorem says that nothing else does, with every cache as old as it
may be. In the runs that state these properties the steps do not occur; `wp_losses` checks its property without the
hypotheses of the theorem (see below). Invariants of the runs are not inductive, so the proofs carry more.

**WorkspaceWriter_proofs**

- `EpochsAreFences` and `TypeCorrect` rest on an invariant that says where an epoch
  may be while a grant is in flight: in `grant[u]` before it is in the status, never
  in two places, never ahead of the Lease.
- `WritersAreCovered` needs to know, for every stage of a reconciliation, that the unit has
  the current term, or no workload: the
  invariant relates `pc`, `epoch`, `released`, the references and the workloads. Leases, pods and jobs may be
  cached copies of any age. It says that one step only can break the property, and that the property holds
  where this step does not happen: a release of the Lease by a unit whose workload is alive and not in the
  cache yet (`ReleasedUnseen`).
- `ExclusiveWorkspaceImplemented` is the refinement: every action but that one is a step of
  `ExclusiveWorkspace` or leaves its variables alone.
- `ReleasesAreReal` says the same of releases: the only one recorded and not done is the one decided on a copy of the Lease
  that does not show the term (`ReleaseUndone`).

**WorkflowProgress_proofs**

One invariant, `PlanInv`, carries all but `TypeCorrect`. Its difficulty is that a reconciliation decides
from a cached workflow and writes one object after another, so nothing about the attempts follows
from what it has just read:

- `StateInv` is about the stored objects alone. Its frontier says that nothing exists beyond
  the one attempt that *follows* the stored status (`Follows`: the first of the iteration, the next step,
  or the next try), and its history that every attempt was preceded by what justifies it.
- `CacheInv` says that a cached copy of the status is current or exactly one write behind, and what
  that write was: the record of an attempt, a rewind, the success. One write behind is
  enough to make a reconciliation repeat what was done, never to make it do something new: the attempt that
  follows the old copy is the one the new status names.
- `SeenInv` and `FlightInv` carry both over to a reconciliation that is between its read
  and its last write.

From `PlanInv` follow the retries and rewinds; `GateInv` (an execution has an approved gate) and
`ExecInv` (an execution carries the identity of its attempt) are inductive beside it, and give
`OperationsApproved` and `OneExecution`, `FailuresEarned`. `PlanExecuted` maps every action to a step of `PlanExecution`
or a stutter; `InputInv` (nothing is established without a change request) is what it needs besides.

The hypotheses are `AttemptsStay` (nobody deletes an attempt under its workflow), `ObjectsStay` (nor an
execution) and `InputStays` (the change request is not lost). `wp_losses` checks
`ApprovedBeforeOperation` with attempts deleted too, which holds for its plan and not for every one.

**Admission_proofs**

`BootstrapSafe` has no hypothesis. Its invariant follows the submission through ConfigMap, job, store and artifact
(`ContentInv`), the writer term through Lease, status and job (`TermInv`, `VersionInv`: a cached copy of the Lease
is an earlier version of it), and says for every stage of `ensureBootstrap` what was already written (`StartedInv`,
`FlightInv`). `FailureHasCause` needs two more: what the request still promises (`RequestInv`), and that every
reason to fail has a cause outside the controllers (`CauseInv`). Its hypothesis is about one step: bootstrap does
not decide to fail while its copy of the Lease or of the ConfigMap differs from what is stored (`MisledByCopy`). All
other decisions may be taken from copies of any age. `AcceptanceStands` is the safety part of `BootstrapConverges`.

**ValidationPreview_proofs**

No theorem has a hypothesis on the environment. `PreviewsOwned` rests on two invariants about copies and writes
under way. `ProjectInv`: what provisioning is reported of is not newer than the cached copy, so a stale
`EnsureProject` of an older generation cannot overwrite what a ready project declares. `RunInv`: a run without its
finalizer has nothing in the cluster, and a reconciliation that still deploys, publishes or concludes has read a
copy with the finalizer and without a deletion. `EvaluationFirst` needs that evidence comes before the collector;
`SuccessesPublished` that a verdict was taken of what was published (`VerdictInv`) or, of a step that declares no
result, that nothing was (`LegacyInv`). Outdated copies of epoch, collector and lease change none of this, since the
artifact decides; what they do break, `WriterReleased`, is in section 5.

**UtilityEffects_proofs**

No theorem has a hypothesis on the environment. A retried job knows of the earlier ones only what they left in the
workspace and in the repository, so the invariant `Inv` says for every operation what can be found there
(`Through`, `Sources`, `Markers`, `Branched`, `OwnOne`, `MergeOne`, `RequestOne`), for every stage what the job
has checked before it (`Located`), and of a finished job what its result claims (`Results`).

- The history of a commit is a function defined by its own values. That the equation has a solution, and
  one only, would need induction over the commits; here it is a part of the invariant (`Determined`), which every
  new commit extends (`Extended`), so the induction is the one over the steps.
- `CommittedOnlyTested` then follows from `Through` and `OwnOne`: candidate commit, report and prepared
  tree are the candidate of the iteration.
- `NothingLost` needs that no foreign edit is in a file when the preparation writes one, and that the
  commits between which git.merge switches hold none (`MergeFacts`).
- `PublicationImplemented` counts: before the last operation there is no request and no merge (`ProposedIs`), and
  the revision, once accepted, is the only commit of the key (`CommittedIs`).

**ArtifactFlow_proofs**

No theorem has a hypothesis on the environment. `InputsAgree` is not inductive: it speaks of inputs that are
pinned already, and the next pin is chosen among all the accepted artifacts there are. What makes every choice the
same is that the attempts are in a row (`Latest`, `Ended`), so a step succeeds once in an iteration and the
developer's step once at all (`OneSuccess`); then an input that fits (`Fits`) is unique. The tie-break of
`newerThan` is never needed in these states. A seed fits because it was
a pin of the candidate that failed (`SeedsFit`), which is also why it is in the store
(`PinnedAreStored`). `ReadAndStoredWhole` then is about the steps that read and that store; it gives
`BytesWhole` its meaning together with `PinnedAreStored`, since nothing is said of contents the store has never had.

**AgentServices_proofs: the workspace editor**

`FilesSurvive` and `NothingBlind` have no hypothesis. The first rests on `Conserved`: a file is what the agent was
told, else what the checkout or the seeding made of it; and on `Order`: nothing is told before the tests under
repair are back. `Conserved` ends with the agent's last answer: in a call that is cut off a file may be written in
part, and then the agent can only fail (`Going`). A restart that seeds again therefore overwrites only what nobody
has heard of. What a new sidecar remembers is nothing, so a file it was asked to read is known (`server.reads`),
which is `NothingBlind`. `OutputMeant` adds `Kept` (what was published is the evidence the verdict speaks of),
`AsPlanned` (a file differs from the checkout only as the plan allows) and `Planning` (what a planner was listed is
what there is). Directories that listings leave out and temporary files that a killed seeding leaves behind are part
of the model and of the theorem. One hypothesis is about what the pod is given, `PlansFit`: of the paths that are
listed, a plan adds only what the checkout lacks. The planner's own completion checks this (`PlanFitsRepository`, a
part of the same property) against the same commit.

**AgentServices_proofs: the inference lease**

`LeasesTyped` and `LedgerBalanced` have no hypothesis. They rest on what `Total` does when a lease joins or leaves a
set (`TotalWith`, `TotalWithout`), for which the leases must be finitely many, and on `ListsKeeps`: every write of an
endpoint's list writes the sum beside it.

`AdmittedFits` says that the endpoint is not oversubscribed by the leases of runs that work. Nothing of this follows
from what a reconciliation reads, since leases and endpoints come from caches of any age. What does hold is
`CapacityInv`, about the leases of runs that still want them (`Wanted`):

- `ShownFit`: a cached lease shows the current phase or the one before it, and one that is being admitted or
  evicted is shown at least as far on as that reconciliation has read it. So `Live` never takes such a lease for a leftover.
- `KeptListed`: it is listed from its reservation until it is over, though neither the lease nor the cached endpoint need
  show this, with one gap: between the two writes of its own eviction (`Giving`).
- `ReservationsFit`: what is listed fits, and it fits with the lease in that gap too, as its memory is given away
  only after the second write.
- `StagesFit`, `Coherence`, `Existence`: what a stage has checked before it, and that endpoint and lease know of each other.

Its hypothesis, that no crash falls into that gap (`CutOff`), cannot be dropped: section 5 has the
instance. Crashes anywhere else are covered.

**LineageEvidence_proofs**

No theorem has a hypothesis on the environment: attempts may be deleted and created again, every controller may be
cut short between two writes, any number of people may answer. The invariant says three things. `Events`: an
event is what its writer makes of the unit its id names, and what it refers to is logged (`EventIs`, one part per
type). `Places5`: a controller that stands between two appends has the first in the log, so that a restart,
which forgets the place, forgets nothing. `Shown`: what the status of a unit shows was logged before. The first event
with an id stays, so all three outlive every append (`Grows`, `EventKeeps`), and the proof of an action is about
the one event, the one place or the one unit it changes.

The stories then come from the log alone. An id made of a name is shared by the attempts of that name
(`Recreated`), which is where a story can go wrong and why `JobIsExplained`, `ReplacementIsExplained` and
`NoFalseMismatch` except them; the submission and the admission of a decision are named by UID, which is why
`AnswersStand` needs no exception. `ApprovalStory` and `RewindStory` say what is left of a projection: for an
approval only the operation that has not been authorized yet, for a rewind the gaps it declared.

Only model-checked, and why: liveness (`TermsEnd`, `UnitsSettle`, `WorkflowEnds`, `BootstrapConverges`, `LeasesEnd`,
`WaitersAreServed`, `EvidenceConverges` and `RunEnds`), since TLAPS has no ENABLED. Every
other property of a run is stated by a theorem.
## 5. Known departures

TLC finds each of these properties of the modules violated in the instance named, a change of `Env` or of
one constant of the run of that module. They are disagreements between the code and what its documents,
comments or tests say, or what a reader would take for granted, and no run
carries them. `Short` is the plan test-author, test-candidate, approval, merge.

| Property | Instance | What happens |
| --- | --- | --- |
| `AtMostOneWriter` | an agent and an operation, `delete` | The job of a deleted operation goes without a propagation policy (utilityoperation_controller.go:299), its pod runs on, and the term is released: two units write (docs/architecture/execution-model.md:157 and :159 promise proof that the pod is gone). |
| `HeldTermIsReclaimable` | an agent and an operation, one crash, refusals and deletion | A crash between the Lease update and the status update, then a refusal or a deletion: the unit is terminal, its status has no epoch, every release path returns early (agentrun_controller.go:278) and the Lease stays held. |
| `OnlyLostTermsAreLost` | `leaseLag`, `preempt` | With a recorded epoch the state is decided from the cached Lease alone (workspace_writer.go:85): a unit that has just been granted a term can read the empty Lease and interrupt itself. |
| `ReleasedMeansReleased` | `leaseLag`, `preempt` | A cached Lease that does not show the term yet makes the release a no-op (workspace_writer.go:149) that is recorded as done. |
| `GrantCoversWorkload` | `workloadLag` | NotFound from the cache counts as absent (workspace_writer.go:190): a pod created a moment ago counts as quiescent and its term is released. |
| `ApprovedGatesPass` | `Short`, `lag` | The API server takes a decision on what the API shows (api/v1/approve.go:169), the controller consumes it by its cached workflow: a copy that does not name the gate yet fails the approved gate for good (approvalrequest_controller.go:185; failure-model.md:43). |
| `WorkflowEnds` | approval, test-author, test-candidate, merge; a rewind | A gate before the rewind target is admitted (api/v1alpha1/approval_binding.go:38), and after a rewind the operation waits for an approval nobody requests (failure-model.md:15). |
| `FailuresAreEarned` | `Short`, `deleteAttempt` | A deleted attempt is created again under the name whose execution still terminates (stepattempt_controller.go:98) and fails, not retryable. |
| `WorkflowEnds` | `Short`, a rewind, `deleteAttempt` | The first attempt of an iteration is deleted; its replacement has another UID than the saved observation and is refused for ever (recovery_audit.go:292). |
| `WorkflowEnds` | `Short`, `deleteAttempt`, one crash | A lost attempt is created again and the controller stops before its execution: nobody continues it (workflow_controller.go:276). |
| `WorkflowEnds` | `deleteExec` | The execution of the active attempt is deleted: the attempt stays active and nobody creates it again. |
| `TerminalIsFinal` | `Short`, `loseInput` | A succeeded workflow runs `ensureBootstrap` again and fails when its change request is gone (workflow_bootstrap.go:39). |
| `ApprovedBeforeOperation` | gate directly before the operation, `deleteAttempt` | The first attempt of the gate is deleted while its successor operation runs; a reconciliation that read the status before that creates it again (workflow_controller.go:150), with a gate that nobody has decided. |
| `OneActiveExecution` | `Short`, `lag`, `deleteExec`, one crash | A finished execution that was deleted is created again for its finished attempt (domain_authority.go:29). |
| `AdmittedWorkFits` | a victim and an urgent lease, one crash | `interruptLease` takes the victim's reservation before it writes its phase (inference_lease_controller.go:395); cut off in between, a running victim's memory is given away (docs/architecture/inference.md:87). |
| `GhostsEvictNobody` | three leases, `loseInputs` | A lease that ends between reservation and binding is still listed (inference_lease_controller.go:310) and makes a later one evict. |
| `DedicatedIsAlone` | a dedicated and a shared lease of one model | `ensureEndpoint` finds the endpoint by name and does not look at its scope (inference_lease_controller.go:244). |
| `FailedEndpointsAdmitNobody` | `podFails` | `Select` does not look at the phase of the endpoint (inference/admission.go:36). |
| `LeasesEnd` | `loseInputs`, one crash | A lease is created, its run's status is not written, the run fails: nobody releases the lease (agentrun_inference.go:17). |
| `Publishes` | `killWriting` | A `candidate.prepare` killed while it writes leaves a workspace no retry accepts: its own leavings look like foreign edits (utility/candidate_recovery.go:41; docs/mvp.md:136). With `kill`, `loseJob`, `testFails`, `lostReply` and `failPost` it holds under `FairSpec`. |
| `BuildsOnlyFromCommit` | `edit` | `build.image` compares HEAD only (utility/build.go:53), and an uncommitted edit gets into the image (docs/mvp.md:134). |
| `AccessOutlivesPreviews` | `deleteProject`, `deleteRun` | `DestroyProject` lists the Applications and then removes the credential, while a run that saw the project ready starts its preview (validation/argocd_project.go:224, against the comment at :222). |
| `FailsForCause` | `leaseLag`, or `sourceLag` | A copy of the lease, or of the ConfigMap, that is older than bootstrap's own writes fails the workflow (workflow_bootstrap.go:131, :73; failure-model.md:39). |
| `WriterReleased` | `vp_runs` as it is | A run is deleted and reads a copy of its lease that does not show the term yet: the release is a no-op (validationrun/result_publication.go:248, :255), the finalizer goes, and the workspace stays locked. |
| `NoOrphanNamespace` | `apiFails` | A create is refused and so is the clean-up: the namespace stays (api/v1/server.go:290, :331; docs/mvp.md:224). |
| `RewindProceeds` | `deleteReplacement` | The replacement attempt is deleted after it was observed, and `persistRetryObservation` fails for ever (recovery_audit.go:298; failure-model.md:45). |
| `EventsAreUnique` | `deleteAttempt` | Ids without a UID are the same for a unit that is created again (audit/builder.go:51, approvalrequest_controller.go:101), so its events are dropped. |
| `NothingForeign` | `we_tasks` as it is | A sidecar killed inside `atomicWrite` while it restores a test leaves `.workspace-edit-*.tmp` in the overlay (workspaceeditor/editor.go:515). Seeding again does not remove it (cmd/mcp-server/retry_workspace.go:59 says a partial seeding may be repeated safely), and in a directory of tests it is published as a new test (validate.go:642); elsewhere it makes the repair invalid (validate.go:143). |

Further ones that the models leave out or allow, found while they were written:

- A Succeeded validation run becomes Failed when its preview degrades afterwards
  (validationrun_controller.go:218) or its collector job is removed. A step that declares no `validation-result` succeeds
  with nothing published (result_publication.go:49), which `SuccessIsPublished` allows for such steps.
- An edit below a directory the walks skip is acknowledged but left out of the manifest (workspaceeditor/editor.go:419, :470;
  execution-model.md:265); `AcknowledgedIsPublished` excepts these paths. A deletion marker that is cut off
  while it is written makes every completion of the pod fail (editor.go:273).
- A newer artifact that is still pending is passed over if an older eligible one is accepted; torn
  content in the store is detected by every reader and repaired by none.
- `WorkflowAdmitted` is lost if its append fails after the workflow became ready
  (workflow_bootstrap.go:284), and any error in `LoadBootstrapChangeRequest` fails the workflow. A client that
  repeats a creation after a failed audit append (server.go:375) makes a second workflow.
- An author's attempt that is deleted after its success starves the gate and the push (input_selection.go:209); one that
  is also created again has the rewind refused (recovery_audit.go:172).
- `StepAttemptFailed` is appended once, after the status; a gate attempt that is deleted blocks the push; an
  agent that uploads its context before its attempt is published is refused.
- A repair whose prior change set deleted a test of the checkout can never complete
  (cmd/mcp-server/main.go:641). An agent that starts before the sidecar listens fails, since no
  startup probe orders them (agentrun_build.go:33). The success of an agent that finishes while it is
  stopped is overwritten with a failure.

## 6. Plan

In this order, most important first. The models 1 to 9 are done.

1. `ExclusiveWorkspace`, `WorkspaceWriter`, proofs.
2. `PlanExecution`, `WorkflowProgress`.
3. `InferenceLeasing`.
4. `Publication`, `UtilityEffects`.
5. `ArtifactFlow`.
6. `ValidationPreview`.
7. `AuditLog`, `LineageEvidence`.
8. `Admission`.
9. `WorkspaceEditing`.
10. Theorems: done for `WorkspaceWriter`, `WorkflowProgress`, `Admission`, `ValidationPreview`,
    `UtilityEffects`, `ArtifactFlow`, `WorkspaceEditing`, `LineageEvidence` and `InferenceLeasing`:
    every property of a run but the liveness properties.

## 7. Not modelled

Generated code, schemas, rendering, the CLI and demo tools, HTTP clients, pod
specifications and manifests have no state whose steps could go wrong. The language model,
the policy engine and the validity of contents are oracles: any answer they can give, in any order.
The file and PostgreSQL recorders of the audit log, the RBAC objects of sessions, and the
deletion of a running workflow by a user are left out. Kubernetes itself
(API server, garbage collector, kubelet, informers), Git and the merge-request provider are modelled
only as the code uses them and are marked external in the map.
