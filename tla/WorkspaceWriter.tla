-------------------------- MODULE WorkspaceWriter --------------------------
(***************************************************************************)
(* Exclusive workspace writer authority (internal/controllers/             *)
(* workspace_writer.go) as the three controllers that use it do: the       *)
(* execution units of one workflow compete for the workflow's Kubernetes   *)
(* Lease before they create a workload that mounts the workspace writable. *)
(*                                                                         *)
(* One unit is an AgentRun (a pod, then a collector job), a                *)
(* UtilityOperation (a job, then a collector job) or a HumanSession (a     *)
(* pod that lives until its TTL).  A reconciliation is a sequence of API   *)
(* writes; each write is one action here, pc[u] says how far the           *)
(* reconciliation in flight has come, and Crash abandons it between two    *)
(* writes.  The status of a unit is written by its own controller only, by *)
(* compare-and-swap, and is read fresh; the lease, the pods and the jobs   *)
(* are read from the informer cache, which may lag.                        *)
(***************************************************************************)
EXTENDS Naturals, FiniteSets

CONSTANTS
  Units,       \* the execution units of one workflow
  Kind,        \* Kind[u]: the resource kind of unit u
  NoUnit,      \* the empty holderIdentity
  MaxEpoch,    \* math.MaxInt32, the last epoch leaseTransitions can hold
  MaxCrashes,  \* bound on the abandoned reconciliations of a behaviour
  Env          \* the environment events that may happen

Kinds == {"AgentRun", "UtilityOperation", "HumanSession"}

EnvEvents == {"reject",       \* admission, inputs or authority refuse the unit
              "preempt",      \* its inference lease is evicted
              "delete",       \* somebody deletes the unit
              "evict",        \* a node drain, or the TTL of a finished job
              "leaseLag",     \* the cached lease may be old
              "workloadLag"}  \* the cached pods and jobs may be old

ASSUME UnitsAssumption == NoUnit \notin Units
ASSUME KindAssumption == Kind \in [Units -> Kinds]
ASSUME BoundAssumption == MaxEpoch \in Nat \ {0} /\ MaxCrashes \in Nat
ASSUME EnvAssumption == Env \subseteq EnvEvents

VARIABLES
  lease,       \* the Lease object: holderIdentity and leaseTransitions
  leaseCache,  \* the informer's copy of it
  phase,       \* status.phase of each unit
  epoch,       \* status.workspaceWriterEpoch
  released,    \* status.workspaceWriterReleased
  workRef,     \* status.podRef / status.jobRef is set
  collRef,     \* status.collectorJobRef is set
  deleting,    \* the unit has a deletionTimestamp
  expired,     \* the clock has passed status.expiresAt (sessions)
  pc,          \* progress of the reconciliation in flight
  grant,       \* the epoch it was granted, not yet in the status
  work,        \* the unit's pod or job
  coll,        \* the unit's collector job
  orphan,      \* a pod of a deleted job of the unit still runs
  workCache,   \* the informer's copy of work
  collCache,   \* the informer's copy of coll
  crashes

statusVars == <<phase, epoch, released, workRef, collRef>>
workVars   == <<work, coll, orphan>>
cacheVars  == <<leaseCache, workCache, collCache>>
flightVars == <<pc, grant>>
envVars    == <<deleting, expired>>
vars == <<lease, statusVars, workVars, cacheVars, flightVars, envVars, crashes>>

-----------------------------------------------------------------------------
(* "Active" stands for Pending, Preparing, Running and Collecting, which    *)
(* the protocol tells apart by the references only; "Terminal" for          *)
(* Succeeded, Failed and Interrupted; "New" is the empty phase, "Absent" a  *)
(* unit not yet created and "Removed" one whose finalizer is gone.          *)

Phases == {"Absent", "New", "Active", "Terminal", "Cancelled", "Removed"}

\* "active" is a workload that may write and has not been told to stop,
\* "terminating" a deleted pod in its grace period: its object is still there.
WorkStates == {"absent", "active", "terminating", "done"}

Steps == {"idle", "granted", "recorded", "created", "collected", "interrupt",
          "released", "finalizing", "finalized", "expiring", "expired"}

Leases == [holder : Units \cup {NoUnit}, epoch : 0..MaxEpoch]

Epochs == 0..MaxEpoch

Term(u, e) == [holder |-> u, epoch |-> e]

TypeOK ==
  /\ lease \in Leases
  /\ leaseCache \in Leases
  /\ phase \in [Units -> Phases]
  /\ epoch \in [Units -> Epochs]
  /\ released \in [Units -> BOOLEAN]
  /\ workRef \in [Units -> BOOLEAN]
  /\ collRef \in [Units -> BOOLEAN]
  /\ deleting \in [Units -> BOOLEAN]
  /\ expired \in [Units -> BOOLEAN]
  /\ pc \in [Units -> Steps]
  /\ grant \in [Units -> Epochs]
  /\ work \in [Units -> WorkStates]
  /\ coll \in [Units -> WorkStates]
  /\ orphan \in [Units -> BOOLEAN]
  /\ workCache \in [Units -> WorkStates]
  /\ collCache \in [Units -> WorkStates]
  /\ crashes \in 0..MaxCrashes

Init ==
  /\ lease = Term(NoUnit, 0)
  /\ leaseCache = Term(NoUnit, 0)
  /\ phase = [u \in Units |-> "Absent"]
  /\ epoch = [u \in Units |-> 0]
  /\ released = [u \in Units |-> FALSE]
  /\ workRef = [u \in Units |-> FALSE]
  /\ collRef = [u \in Units |-> FALSE]
  /\ deleting = [u \in Units |-> FALSE]
  /\ expired = [u \in Units |-> FALSE]
  /\ pc = [u \in Units |-> "idle"]
  /\ grant = [u \in Units |-> 0]
  /\ work = [u \in Units |-> "absent"]
  /\ coll = [u \in Units |-> "absent"]
  /\ orphan = [u \in Units |-> FALSE]
  /\ workCache = [u \in Units |-> "absent"]
  /\ collCache = [u \in Units |-> "absent"]
  /\ crashes = 0

-----------------------------------------------------------------------------
(* What a controller reads.                                                 *)

LeaseSeen   == IF "leaseLag" \in Env THEN leaseCache ELSE lease
WorkSeen(u) == IF "workloadLag" \in Env THEN workCache[u] ELSE work[u]
CollSeen(u) == IF "workloadLag" \in Env THEN collCache[u] ELSE coll[u]

\* Deviation: an absent workload does not count as quiescent.
QuietWhenDone(s) == s = "done"

\* PodWriterQuiescent and JobWriterQuiescent: absent or in a terminal phase.
Quiet(s) == s \in {"absent", "done"}

\* Deviation: the collector is forgotten.
QuiescentWork(u) == Quiet(WorkSeen(u))

Quiescent(u) == Quiet(WorkSeen(u)) /\ Quiet(CollSeen(u))

\* One worker per controller: no other unit of the kind is being reconciled.
WorkerFree(u) == \A v \in Units : Kind[v] = Kind[u] => pc[v] = "idle"

\* Reconcile gets past its finalizer and TTL branches for a unit in phase p.
Reconciling(u, p) ==
  /\ WorkerFree(u)
  /\ phase[u] = p
  /\ ~deleting[u]
  /\ ~expired[u]

Goto(u, step, e) ==
  /\ pc' = [pc EXCEPT ![u] = step]
  /\ grant' = [grant EXCEPT ![u] = e]

\* The reconciliation returns.
Return(u) == Goto(u, "idle", 0)

EndIn(u, p) ==
  /\ phase' = [phase EXCEPT ![u] = p]
  /\ UNCHANGED <<epoch, released, workRef, collRef>>

-----------------------------------------------------------------------------
(* Deleting workloads.  Delete is called without a propagation policy: a    *)
(* job object goes at once and the pod it had started runs on; a pod object *)
(* stays until its containers have stopped.                                 *)

AfterPodDelete(s) == IF s = "active" THEN "terminating"
                     ELSE IF s = "done" THEN "absent" ELSE s

RunsAsJob(u) == Kind[u] = "UtilityOperation"

DeleteWork(u) ==
  work' = [work EXCEPT ![u] = IF RunsAsJob(u) THEN "absent"
                                              ELSE AfterPodDelete(@)]

DeleteWorkspaceWriterWorkloads(u) ==
  /\ DeleteWork(u)
  /\ coll' = [coll EXCEPT ![u] = "absent"]
  /\ orphan' = [orphan EXCEPT ![u] = \/ @
                                     \/ RunsAsJob(u) /\ work[u] = "active"
                                     \/ coll[u] = "active"]

-----------------------------------------------------------------------------
(* Admission: the unit is created, its controller adds the finalizer and    *)
(* sets its first phase.                                                    *)

Create(u) ==
  /\ phase[u] = "Absent"
  /\ EndIn(u, "New")
  /\ UNCHANGED <<lease, workVars, cacheVars, flightVars, envVars, crashes>>

Initialize(u) ==
  /\ Reconciling(u, "New")
  /\ EndIn(u, "Active")
  /\ UNCHANGED <<lease, workVars, cacheVars, flightVars, envVars, crashes>>

\* The unit fails before the writer lease is looked at: its authority, its
\* inputs, its policy admission or its inference admission are refused.  All
\* but the inputs are looked at again when it has a workload, which runs on.
Reject(u) ==
  /\ "reject" \in Env
  /\ Kind[u] # "HumanSession"
  /\ Reconciling(u, "Active")
  /\ EndIn(u, "Terminal")
  /\ UNCHANGED <<lease, workVars, cacheVars, flightVars, envVars, crashes>>

\* The inference lease of an agent was evicted: the pod the status names is
\* deleted and the run is interrupted.
Preempt(u) ==
  /\ "preempt" \in Env
  /\ Kind[u] = "AgentRun"
  /\ Reconciling(u, "Active")
  /\ IF workRef[u] THEN DeleteWork(u) ELSE UNCHANGED work
  /\ Goto(u, "interrupt", 0)
  /\ UNCHANGED <<lease, statusVars, coll, orphan, cacheVars, envVars, crashes>>

Interrupt(u) ==
  /\ pc[u] = "interrupt"
  /\ EndIn(u, "Terminal")
  /\ Return(u)
  /\ UNCHANGED <<lease, workVars, cacheVars, envVars, crashes>>

-----------------------------------------------------------------------------
(* AcquireWorkspaceWriter.  A unit that finds another holder only requeues; *)
(* an update of the lease succeeds when the cached copy is the current one. *)

\* Deviation: the epoch counter is incremented past its last value.
AcquireTermUnbounded(u) ==
  /\ Reconciling(u, "Active")
  /\ epoch[u] = 0
  /\ LeaseSeen.holder = NoUnit
  /\ LeaseSeen = lease
  /\ lease' = Term(u, LeaseSeen.epoch + 1)
  /\ Goto(u, "granted", LeaseSeen.epoch + 1)
  /\ UNCHANGED <<statusVars, workVars, cacheVars, envVars, crashes>>

AcquireTerm(u) ==
  /\ Reconciling(u, "Active")
  /\ epoch[u] = 0
  /\ LeaseSeen.holder = NoUnit
  /\ LeaseSeen.epoch < MaxEpoch
  /\ LeaseSeen = lease
  /\ lease' = Term(u, LeaseSeen.epoch + 1)
  /\ Goto(u, "granted", LeaseSeen.epoch + 1)
  /\ UNCHANGED <<statusVars, workVars, cacheVars, envVars, crashes>>

\* The lease names the unit although its status has no epoch: an earlier
\* reconciliation stopped between the two writes.
RecoverTerm(u) ==
  /\ Reconciling(u, "Active")
  /\ epoch[u] = 0
  /\ LeaseSeen.holder = u
  /\ Goto(u, "granted", LeaseSeen.epoch)
  /\ UNCHANGED <<lease, statusVars, workVars, cacheVars, envVars, crashes>>

ConfirmTerm(u) ==
  /\ Reconciling(u, "Active")
  /\ epoch[u] > 0
  /\ LeaseSeen = Term(u, epoch[u])
  /\ Goto(u, "recorded", epoch[u])
  /\ UNCHANGED <<lease, statusVars, workVars, cacheVars, envVars, crashes>>

LoseTerm(u) ==
  /\ Reconciling(u, "Active")
  /\ epoch[u] > 0
  /\ LeaseSeen # Term(u, epoch[u])
  /\ DeleteWorkspaceWriterWorkloads(u)
  /\ Goto(u, "interrupt", 0)
  /\ UNCHANGED <<lease, statusVars, cacheVars, envVars, crashes>>

RecordTerm(u) ==
  /\ pc[u] = "granted"
  /\ epoch' = [epoch EXCEPT ![u] = grant[u]]
  /\ released' = [released EXCEPT ![u] = FALSE]
  /\ Goto(u, "recorded", grant[u])
  /\ UNCHANGED <<lease, phase, workRef, collRef, workVars, cacheVars, envVars,
                 crashes>>

-----------------------------------------------------------------------------
(* The workload and its collector.                                          *)

\* appendExecutionAuthorityEstablished: an agent or utility workload is
\* created only if the cached lease still shows the granted term.
EvidenceCurrent(u) ==
  Kind[u] = "HumanSession" \/ LeaseSeen = Term(u, grant[u])

\* Agents and utilities create their workload once, a session at every
\* reconciliation; an object that exists already is left as it is.
CreateWorkload(u) ==
  /\ pc[u] = "recorded"
  /\ ~workRef[u] \/ Kind[u] = "HumanSession"
  /\ EvidenceCurrent(u)
  /\ work' = [work EXCEPT ![u] = IF @ = "absent" THEN "active" ELSE @]
  /\ Goto(u, "created", grant[u])
  /\ UNCHANGED <<lease, statusVars, coll, orphan, cacheVars, envVars, crashes>>

StaleEvidence(u) ==
  /\ pc[u] = "recorded"
  /\ ~workRef[u]
  /\ ~EvidenceCurrent(u)
  /\ Return(u)
  /\ UNCHANGED <<lease, statusVars, workVars, cacheVars, envVars, crashes>>

\* A session reads its pod back before it records it.
RecordWorkload(u) ==
  /\ pc[u] = "created"
  /\ Kind[u] = "HumanSession" => WorkSeen(u) # "absent"
  /\ workRef' = [workRef EXCEPT ![u] = TRUE]
  /\ Return(u)
  /\ UNCHANGED <<lease, phase, epoch, released, collRef, workVars, cacheVars,
                 envVars, crashes>>

SessionPodUnseen(u) ==
  /\ pc[u] = "created"
  /\ Kind[u] = "HumanSession"
  /\ WorkSeen(u) = "absent"
  /\ Return(u)
  /\ UNCHANGED <<lease, statusVars, workVars, cacheVars, envVars, crashes>>

\* A reconciliation that confirmed its term and looks at its workload.
Observing(u) ==
  /\ pc[u] = "recorded"
  /\ workRef[u]
  /\ Kind[u] # "HumanSession"

WorkloadLost(u) ==
  /\ Observing(u)
  /\ ~collRef[u]
  /\ WorkSeen(u) = "absent"
  /\ EndIn(u, "Terminal")
  /\ Return(u)
  /\ UNCHANGED <<lease, workVars, cacheVars, envVars, crashes>>

StartCollection(u) ==
  /\ Observing(u)
  /\ ~collRef[u]
  /\ WorkSeen(u) = "done"
  /\ coll' = [coll EXCEPT ![u] = IF @ = "absent" THEN "active" ELSE @]
  /\ Goto(u, "collected", grant[u])
  /\ UNCHANGED <<lease, statusVars, work, orphan, cacheVars, envVars, crashes>>

RecordCollector(u) ==
  /\ pc[u] = "collected"
  /\ collRef' = [collRef EXCEPT ![u] = TRUE]
  /\ Return(u)
  /\ UNCHANGED <<lease, phase, epoch, released, workRef, workVars, cacheVars,
                 envVars, crashes>>

CollectionDone(u) ==
  /\ Observing(u)
  /\ collRef[u]
  /\ CollSeen(u) = "done"
  /\ EndIn(u, "Terminal")
  /\ Return(u)
  /\ UNCHANGED <<lease, workVars, cacheVars, envVars, crashes>>

\* The workload or the collector still runs.
Requeue(u) ==
  /\ Observing(u)
  /\ IF collRef[u] THEN CollSeen(u) # "done"
                   ELSE WorkSeen(u) \in {"active", "terminating"}
  /\ Return(u)
  /\ UNCHANGED <<lease, statusVars, workVars, cacheVars, envVars, crashes>>

-----------------------------------------------------------------------------
(* ReleaseWorkspaceWriter clears only the exact holder and epoch; anything  *)
(* else it sees in the lease is a success without effect.                   *)

Unreleased(u) == epoch[u] > 0 /\ ~released[u]

\* Deviation: the release resets the counter.
ReleaseAndReset(u) ==
  IF LeaseSeen = Term(u, epoch[u])
  THEN LeaseSeen = lease /\ lease' = Term(NoUnit, 0)
  ELSE UNCHANGED lease

ReleaseWorkspaceWriter(u) ==
  IF LeaseSeen = Term(u, epoch[u])
  THEN LeaseSeen = lease /\ lease' = Term(NoUnit, epoch[u])
  ELSE UNCHANGED lease

\* A terminal unit gives its term back once its workloads are quiescent.
ReleaseTerm(u) ==
  /\ Reconciling(u, "Terminal")
  /\ Unreleased(u)
  /\ Quiescent(u)
  /\ ReleaseWorkspaceWriter(u)
  /\ Goto(u, "released", 0)
  /\ UNCHANGED <<statusVars, workVars, cacheVars, envVars, crashes>>

RecordReleased(u) ==
  /\ pc[u] = "released"
  /\ released' = [released EXCEPT ![u] = TRUE]
  /\ Return(u)
  /\ UNCHANGED <<lease, phase, epoch, workRef, collRef, workVars, cacheVars,
                 envVars, crashes>>

\* The finalizer of a deleted unit: delete the workloads, see them quiescent,
\* release, remove the finalizer.
FinalizeDelete(u) ==
  /\ WorkerFree(u)
  /\ deleting[u]
  /\ phase[u] # "Removed"
  /\ DeleteWorkspaceWriterWorkloads(u)
  /\ Goto(u, "finalizing", 0)
  /\ UNCHANGED <<lease, statusVars, cacheVars, envVars, crashes>>

\* Deviation: the finalizer lets the unit go without releasing.
FinalizeWithoutRelease(u) ==
  /\ pc[u] = "finalizing"
  /\ Quiescent(u)
  /\ Goto(u, "finalized", 0)
  /\ UNCHANGED <<lease, statusVars, workVars, cacheVars, envVars, crashes>>

FinalizeRelease(u) ==
  /\ pc[u] = "finalizing"
  /\ Quiescent(u)
  /\ IF Unreleased(u) THEN ReleaseWorkspaceWriter(u) ELSE UNCHANGED lease
  /\ Goto(u, "finalized", 0)
  /\ UNCHANGED <<statusVars, workVars, cacheVars, envVars, crashes>>

RemoveFinalizer(u) ==
  /\ pc[u] = "finalized"
  /\ EndIn(u, "Removed")
  /\ Return(u)
  /\ UNCHANGED <<lease, workVars, cacheVars, envVars, crashes>>

\* A session past its TTL, whatever phase it is in short of Cancelled.
ExpireDelete(u) ==
  /\ WorkerFree(u)
  /\ expired[u]
  /\ ~deleting[u]
  /\ phase[u] \in {"Active", "Terminal"}
  /\ DeleteWorkspaceWriterWorkloads(u)
  /\ Goto(u, "expiring", 0)
  /\ UNCHANGED <<lease, statusVars, cacheVars, envVars, crashes>>

\* Deviation: an expired session is cancelled without releasing.
ExpireWithoutRelease(u) ==
  /\ pc[u] = "expiring"
  /\ Quiescent(u)
  /\ Goto(u, "expired", 0)
  /\ UNCHANGED <<lease, statusVars, workVars, cacheVars, envVars, crashes>>

ExpireRelease(u) ==
  /\ pc[u] = "expiring"
  /\ Quiescent(u)
  /\ IF Unreleased(u) THEN ReleaseWorkspaceWriter(u) ELSE UNCHANGED lease
  /\ Goto(u, "expired", 0)
  /\ UNCHANGED <<statusVars, workVars, cacheVars, envVars, crashes>>

\* status.workspaceWriterReleased, if there was a term, and then the phase.
Cancel(u) ==
  /\ pc[u] = "expired"
  /\ phase' = [phase EXCEPT ![u] = "Cancelled"]
  /\ released' = [released EXCEPT ![u] = @ \/ epoch[u] > 0]
  /\ Return(u)
  /\ UNCHANGED <<lease, epoch, workRef, collRef, workVars, cacheVars, envVars,
                 crashes>>

NotQuiescent(u) ==
  /\ pc[u] \in {"finalizing", "expiring"}
  /\ ~Quiescent(u)
  /\ Return(u)
  /\ UNCHANGED <<lease, statusVars, workVars, cacheVars, envVars, crashes>>

\* An error, a conflict or a controller restart between two writes.
Crash(u) ==
  /\ crashes < MaxCrashes
  /\ pc[u] # "idle"
  /\ crashes' = crashes + 1
  /\ Return(u)
  /\ UNCHANGED <<lease, statusVars, workVars, cacheVars, envVars>>

-----------------------------------------------------------------------------
(* The environment: users, the clock, the kubelet, the garbage collector    *)
(* and the watches behind the cache.                                        *)

\* A unit without its finalizer goes at once.
DeleteUnit(u) ==
  /\ "delete" \in Env
  /\ phase[u] \in {"New", "Active", "Terminal", "Cancelled"}
  /\ ~deleting[u]
  /\ IF phase[u] = "New"
     THEN EndIn(u, "Removed") /\ UNCHANGED deleting
     ELSE /\ deleting' = [deleting EXCEPT ![u] = TRUE]
          /\ UNCHANGED statusVars
  /\ UNCHANGED <<lease, expired, workVars, cacheVars, flightVars, crashes>>

Expire(u) ==
  /\ Kind[u] = "HumanSession"
  /\ phase[u] \in {"Active", "Terminal"}
  /\ ~expired[u]
  /\ expired' = [expired EXCEPT ![u] = TRUE]
  /\ UNCHANGED <<lease, statusVars, deleting, workVars, cacheVars, flightVars,
                 crashes>>

FinishWork(u) ==
  /\ work[u] = "active"
  /\ work' = [work EXCEPT ![u] = "done"]
  /\ UNCHANGED <<lease, statusVars, coll, orphan, cacheVars, flightVars,
                 envVars, crashes>>

FinishCollector(u) ==
  /\ coll[u] = "active"
  /\ coll' = [coll EXCEPT ![u] = "done"]
  /\ UNCHANGED <<lease, statusVars, work, orphan, cacheVars, flightVars,
                 envVars, crashes>>

FinishTerminating(u) ==
  /\ work[u] = "terminating"
  /\ work' = [work EXCEPT ![u] = "absent"]
  /\ UNCHANGED <<lease, statusVars, coll, orphan, cacheVars, flightVars,
                 envVars, crashes>>

FinishOrphan(u) ==
  /\ orphan[u]
  /\ orphan' = [orphan EXCEPT ![u] = FALSE]
  /\ UNCHANGED <<lease, statusVars, work, coll, cacheVars, flightVars,
                 envVars, crashes>>

\* A pod is evicted; a finished pod is collected and a finished job expires.
Evict(u) ==
  /\ "evict" \in Env
  /\ \/ work[u] = "active" /\ ~RunsAsJob(u)
     \/ work[u] = "done"
  /\ work' = [work EXCEPT ![u] = AfterPodDelete(@)]
  /\ UNCHANGED <<lease, statusVars, coll, orphan, cacheVars, flightVars,
                 envVars, crashes>>

SyncLease ==
  /\ "leaseLag" \in Env
  /\ leaseCache # lease
  /\ leaseCache' = lease
  /\ UNCHANGED <<lease, statusVars, workVars, workCache, collCache, flightVars,
                 envVars, crashes>>

SyncWorkload(u) ==
  /\ "workloadLag" \in Env
  /\ workCache[u] # work[u] \/ collCache[u] # coll[u]
  /\ workCache' = [workCache EXCEPT ![u] = work[u]]
  /\ collCache' = [collCache EXCEPT ![u] = coll[u]]
  /\ UNCHANGED <<lease, leaseCache, statusVars, workVars, flightVars, envVars,
                 crashes>>

-----------------------------------------------------------------------------
Controller(u) ==
  \/ Initialize(u) \/ Reject(u) \/ Preempt(u) \/ Interrupt(u)
  \/ AcquireTerm(u) \/ RecoverTerm(u) \/ ConfirmTerm(u) \/ LoseTerm(u)
  \/ RecordTerm(u)
  \/ CreateWorkload(u) \/ StaleEvidence(u) \/ RecordWorkload(u)
  \/ SessionPodUnseen(u) \/ WorkloadLost(u)
  \/ StartCollection(u) \/ RecordCollector(u) \/ CollectionDone(u) \/ Requeue(u)
  \/ ReleaseTerm(u) \/ RecordReleased(u)
  \/ FinalizeDelete(u) \/ FinalizeRelease(u) \/ RemoveFinalizer(u)
  \/ ExpireDelete(u) \/ ExpireRelease(u) \/ Cancel(u) \/ NotQuiescent(u)

Kubelet(u) ==
  \/ FinishWork(u) \/ FinishCollector(u) \/ FinishTerminating(u)
  \/ FinishOrphan(u)

Environment(u) ==
  \/ Create(u) \/ DeleteUnit(u) \/ Expire(u) \/ Evict(u) \/ SyncWorkload(u)

Next ==
  \/ \E u \in Units : Controller(u) \/ Kubelet(u) \/ Environment(u) \/ Crash(u)
  \/ SyncLease

Spec == Init /\ [][Next]_vars

\* A requeued or failed reconciliation is run again, workloads end, sessions
\* reach their TTL and watches deliver.  Nobody has to create, delete, evict
\* or reject anything.
Fairness ==
  /\ WF_vars(SyncLease)
  /\ \A u \in Units :
       /\ WF_vars(Controller(u))
       /\ WF_vars(FinishWork(u))
       /\ WF_vars(FinishCollector(u))
       /\ WF_vars(FinishTerminating(u))
       /\ WF_vars(FinishOrphan(u))
       /\ WF_vars(Expire(u))
       /\ WF_vars(SyncWorkload(u))

FairSpec == Spec /\ Fairness

-----------------------------------------------------------------------------
(* Properties.                                                              *)

\* A pod of the unit may be writing to the workspace.
Writing(u) ==
  \/ work[u] \in {"active", "terminating"}
  \/ coll[u] = "active"
  \/ orphan[u]

\* Exclusivity as far as the code enforces it: a workload whose object still
\* exists runs under the current term of the lease, so that two units write at
\* once only when a pod has outlived its deleted job.
GrantCoversWorkload ==
  \A u \in Units :
    (work[u] \in {"active", "terminating"} \/ coll[u] = "active") =>
      epoch[u] > 0 /\ lease = Term(u, epoch[u])

\* The fence: a writer epoch is granted to one unit only, the epoch a unit has
\* recorded is never ahead of the lease, and a unit that is not the holder has
\* an older epoch than the holder.
EpochsFence ==
  /\ \A u, v \in Units : u # v /\ epoch[u] > 0 => epoch[u] # epoch[v]
  /\ \A u \in Units :
       /\ epoch[u] <= lease.epoch
       /\ lease.holder \notin {u, NoUnit} /\ epoch[u] > 0 =>
            epoch[u] < lease.epoch

\* A status that says the term was released is right: the lease does not name
\* the unit any more.
ReleasedMeansReleased ==
  \A u \in Units : released[u] => lease.holder # u

\* At most one execution unit has anything that writes to the workspace
\* (docs/architecture/execution-model.md: exclusivity for workloads created
\* through the control plane).
AtMostOneWriter ==
  \A u, v \in Units : Writing(u) /\ Writing(v) => u = v

\* A unit that has ended and still holds the lease knows its term, so that its
\* controller can give it back.
HeldTermIsReclaimable ==
  \A u \in Units :
    lease.holder = u /\ phase[u] \in {"Terminal", "Cancelled", "Removed"} =>
      phase[u] # "Removed" /\ Unreleased(u) /\ epoch[u] = lease.epoch

\* A unit is interrupted for lost authority only when it has lost it.
OnlyLostTermsAreLost ==
  [][\A u \in Units : LoseTerm(u) => lease # Term(u, epoch[u])]_vars

\* The units whose workload objects are still there and not finished.
Live == {u \in Units : work[u] \in {"active", "terminating"} \/ coll[u] = "active"}

EW == INSTANCE ExclusiveWorkspace
        WITH holder <- lease.holder, term <- lease.epoch, live <- Live

\* The controllers implement the promise of the protocol: terms are granted one
\* after the other, and no term ends while its holder has a live workload.
ImplementsExclusiveWorkspace == EW!Spec

\* The workspace is always handed on: whoever holds the lease gives it up.
TermsEnd == \A u \in Units : lease.holder = u ~> lease.holder # u

\* No execution unit waits for ever behind another.
UnitsSettle ==
  \A u \in Units :
    phase[u] = "Active" ~> phase[u] \in {"Terminal", "Cancelled", "Removed"}

=============================================================================
