----------------------- MODULE WorkspaceWriter_proofs -----------------------
EXTENDS WorkspaceWriter, TLAPS

-----------------------------------------------------------------------------
(* The inductive invariant.                                                 *)

\* A held lease has a positive epoch, and no unit is ahead of the lease.
LeaseInv ==
  /\ lease.holder # NoUnit => lease.epoch > 0
  /\ \A u \in Units : epoch[u] <= lease.epoch

\* A unit that has no epoch recorded has not given a term back, so that a
\* cached lease that names it is the current one.
CacheInv ==
  \A u \in Units : epoch[u] = 0 /\ leaseCache.holder = u => lease = leaseCache

\* The holder's epoch, once recorded, is the lease's.
HolderInv ==
  \A u \in Units : lease.holder = u /\ epoch[u] > 0 => epoch[u] = lease.epoch

\* Between acquisition and the end of the reconciliation the term is current.
FlightInv ==
  \A u \in Units :
    /\ pc[u] = "granted" =>
         /\ epoch[u] = 0
         /\ grant[u] > 0
         /\ lease = Term(u, grant[u])
         /\ phase[u] = "Active"
    /\ pc[u] \in {"recorded", "created", "collected"} =>
         /\ epoch[u] > 0
         /\ grant[u] = epoch[u]
         /\ lease = Term(u, epoch[u])
         /\ phase[u] = "Active"
    /\ pc[u] = "interrupt" => phase[u] = "Active"
    /\ pc[u] \in {"finalizing", "finalized"} => deleting[u]
    /\ pc[u] \in {"expiring", "expired"} => expired[u]

Ended(u) ==
  \/ phase[u] \in {"Terminal", "Cancelled", "Removed"}
  \/ deleting[u]
  \/ expired[u]

\* A unit whose recorded term is not the current one has ended.
EndedInv ==
  \A u \in Units : epoch[u] > 0 /\ lease # Term(u, epoch[u]) => Ended(u)

USE UnitsAssumption, KindAssumption, BoundAssumption, EnvAssumption

-----------------------------------------------------------------------------
(* Every action keeps the types.                                            *)

LEMMA TypeStep == TypeOK /\ [Next]_vars => TypeOK'
<1> SUFFICES ASSUME TypeOK, [Next]_vars PROVE TypeOK'
  OBVIOUS
<1> USE DEF TypeOK, Leases, Epochs, Phases, WorkStates, Steps, statusVars,
            workVars, cacheVars, flightVars, envVars, EndIn, Return, Goto, Term
<1>1. ASSUME NEW u \in Units, Controller(u) PROVE TypeOK'
  <2>1. CASE Initialize(u)
    BY <2>1 DEF Initialize
  <2>2. CASE Reject(u)
    BY <2>2 DEF Reject
  <2>3. CASE Preempt(u)
    BY <2>3 DEF Preempt, DeleteWork, AfterPodDelete
  <2>4. CASE Interrupt(u)
    BY <2>4 DEF Interrupt
  <2>5. CASE AcquireTerm(u)
    BY <2>5 DEF AcquireTerm, LeaseSeen
  <2>6. CASE RecoverTerm(u)
    BY <2>6 DEF RecoverTerm, LeaseSeen
  <2>7. CASE ConfirmTerm(u)
    BY <2>7 DEF ConfirmTerm
  <2>8. CASE LoseTerm(u)
    BY <2>8 DEF LoseTerm, DeleteWorkspaceWriterWorkloads, DeleteWork,
                AfterPodDelete
  <2>9. CASE RecordTerm(u)
    BY <2>9 DEF RecordTerm
  <2>10. CASE CreateWorkload(u)
    BY <2>10 DEF CreateWorkload
  <2>11. CASE StaleEvidence(u)
    BY <2>11 DEF StaleEvidence
  <2>12. CASE RecordWorkload(u)
    BY <2>12 DEF RecordWorkload
  <2>13. CASE SessionPodUnseen(u)
    BY <2>13 DEF SessionPodUnseen
  <2>14. CASE WorkloadLost(u)
    BY <2>14 DEF WorkloadLost
  <2>15. CASE StartCollection(u)
    BY <2>15 DEF StartCollection
  <2>16. CASE RecordCollector(u)
    BY <2>16 DEF RecordCollector
  <2>17. CASE CollectionDone(u)
    BY <2>17 DEF CollectionDone
  <2>18. CASE Requeue(u)
    BY <2>18 DEF Requeue
  <2>19. CASE ReleaseTerm(u)
    BY <2>19 DEF ReleaseTerm, ReleaseWorkspaceWriter
  <2>20. CASE RecordReleased(u)
    BY <2>20 DEF RecordReleased
  <2>21. CASE FinalizeDelete(u)
    BY <2>21 DEF FinalizeDelete, DeleteWorkspaceWriterWorkloads, DeleteWork,
                 AfterPodDelete
  <2>22. CASE FinalizeRelease(u)
    BY <2>22 DEF FinalizeRelease, ReleaseWorkspaceWriter
  <2>23. CASE RemoveFinalizer(u)
    BY <2>23 DEF RemoveFinalizer
  <2>24. CASE ExpireDelete(u)
    BY <2>24 DEF ExpireDelete, DeleteWorkspaceWriterWorkloads, DeleteWork,
                 AfterPodDelete
  <2>25. CASE ExpireRelease(u)
    BY <2>25 DEF ExpireRelease, ReleaseWorkspaceWriter
  <2>26. CASE Cancel(u)
    BY <2>26 DEF Cancel
  <2>27. CASE NotQuiescent(u)
    BY <2>27 DEF NotQuiescent
  <2>28. QED
    BY <1>1, <2>1, <2>2, <2>3, <2>4, <2>5, <2>6, <2>7, <2>8, <2>9, <2>10,
       <2>11, <2>12, <2>13, <2>14, <2>15, <2>16, <2>17, <2>18, <2>19, <2>20,
       <2>21, <2>22, <2>23, <2>24, <2>25, <2>26, <2>27 DEF Controller
<1>2. ASSUME NEW u \in Units, Kubelet(u) PROVE TypeOK'
  <2>1. CASE FinishWork(u)
    BY <2>1 DEF FinishWork
  <2>2. CASE FinishCollector(u)
    BY <2>2 DEF FinishCollector
  <2>3. CASE FinishTerminating(u)
    BY <2>3 DEF FinishTerminating
  <2>4. CASE FinishOrphan(u)
    BY <2>4 DEF FinishOrphan
  <2>5. QED
    BY <1>2, <2>1, <2>2, <2>3, <2>4 DEF Kubelet
<1>3. ASSUME NEW u \in Units, Environment(u) PROVE TypeOK'
  <2>1. CASE Create(u)
    BY <2>1 DEF Create
  <2>2. CASE DeleteUnit(u)
    BY <2>2 DEF DeleteUnit
  <2>3. CASE Expire(u)
    BY <2>3 DEF Expire
  <2>4. CASE Evict(u)
    BY <2>4 DEF Evict, AfterPodDelete
  <2>5. CASE SyncWorkload(u)
    BY <2>5 DEF SyncWorkload
  <2>6. QED
    BY <1>3, <2>1, <2>2, <2>3, <2>4, <2>5 DEF Environment
<1>4. ASSUME NEW u \in Units, Crash(u) PROVE TypeOK'
  BY <1>4 DEF Crash
<1>5. CASE SyncLease
  BY <1>5 DEF SyncLease
<1>6. CASE UNCHANGED vars
  BY <1>6 DEF vars
<1>7. QED
  BY <1>1, <1>2, <1>3, <1>4, <1>5, <1>6 DEF Next

\* Every variable of the protocol keeps the values its type allows: epochs stay
\* below the limit of leaseTransitions, whoever acquires.
THEOREM TypeCorrect == Spec => []TypeOK
<1>1. Init => TypeOK
  BY DEF Init, TypeOK, Leases, Epochs, Phases, WorkStates, Steps, Term
<1>2. QED
  BY <1>1, TypeStep, PTL DEF Spec

-----------------------------------------------------------------------------
(* The protocol part of the invariant.                                      *)

Protocol ==
  /\ LeaseInv
  /\ CacheInv
  /\ HolderInv
  /\ EpochsFence
  /\ FlightInv
  /\ EndedInv

\* The steps that neither move the lease, an epoch or a grant, nor leave pc or
\* phase in a place the invariant speaks of without its reason.
LEMMA QuietStep ==
  ASSUME TypeOK, Protocol, NEW u \in Units,
         UNCHANGED <<lease, leaseCache, epoch>>,
         \A v \in Units \ {u} :
            pc'[v] = pc[v] /\ grant'[v] = grant[v] /\ phase'[v] = phase[v],
         \A v \in Units : /\ deleting[v] => deleting'[v]
                          /\ expired[v] => expired'[v],
         \/ pc'[u] = pc[u] /\ grant'[u] = grant[u] /\ phase'[u] = phase[u]
         \/ pc'[u] \in {"idle", "released"} /\ phase'[u] = phase[u]
         \/ pc'[u] = "interrupt" /\ phase[u] = "Active" /\ phase'[u] = phase[u]
         \/ pc'[u] \in {"finalizing", "finalized"} /\ deleting'[u] /\ phase'[u] = phase[u]
         \/ pc'[u] \in {"expiring", "expired"} /\ expired'[u] /\ phase'[u] = phase[u]
         \/ /\ pc'[u] \in {"created", "collected"}
            /\ pc[u] = "recorded"
            /\ grant'[u] = grant[u] /\ phase'[u] = phase[u]
         \/ /\ pc'[u] = "idle"
            /\ phase'[u] \in {"Terminal", "Cancelled", "Removed"}
         \/ /\ phase[u] \in {"Absent", "New"}
            /\ pc'[u] = pc[u] /\ grant'[u] = grant[u]
  PROVE  Protocol'
<1>1. LeaseInv' /\ CacheInv' /\ HolderInv' /\ EpochsFence'
  BY DEF Protocol, LeaseInv, CacheInv, HolderInv, EpochsFence
<1>2. FlightInv'
  <2> DEFINE Flight(v) ==
        /\ pc[v] = "granted" => /\ epoch[v] = 0 /\ grant[v] > 0
                                /\ lease = Term(v, grant[v]) /\ phase[v] = "Active"
        /\ pc[v] \in {"recorded", "created", "collected"} =>
             /\ epoch[v] > 0 /\ grant[v] = epoch[v]
             /\ lease = Term(v, epoch[v]) /\ phase[v] = "Active"
        /\ pc[v] = "interrupt" => phase[v] = "Active"
        /\ pc[v] \in {"finalizing", "finalized"} => deleting[v]
        /\ pc[v] \in {"expiring", "expired"} => expired[v]
  <2>1. \A v \in Units : Flight(v)
    BY DEF Protocol, FlightInv
  <2>2. ASSUME NEW v \in Units, v # u PROVE Flight(v)'
    BY <2>1, <2>2 DEF Term
  <2>3. Flight(u)'
    BY <2>1 DEF Term
  <2>4. \A v \in Units : Flight(v)'
    BY <2>2, <2>3
  <2> QED
    BY <2>4 DEF FlightInv
<1>3. ASSUME NEW v \in Units, epoch'[v] > 0, lease' # Term(v, epoch'[v])
      PROVE  Ended(v)'
  <2>1. Ended(v)
    BY <1>3 DEF Protocol, EndedInv, Term
  <2>2. phase'[v] = phase[v] \/ phase'[v] \in {"Terminal", "Cancelled", "Removed"}
        \/ phase[v] \in {"Absent", "New"}
    OBVIOUS
  <2> QED
    BY <2>1, <2>2 DEF Ended
<1> QED
  BY <1>1, <1>2, <1>3 DEF Protocol, EndedInv

USE DEF Goto, Return, EndIn, statusVars, cacheVars, envVars, flightVars

\* A release by a unit that has ended.
LEMMA ReleaseStep ==
  ASSUME TypeOK, Protocol, NEW u \in Units, epoch[u] > 0, Ended(u),
         ReleaseWorkspaceWriter(u),
         NEW step \in {"released", "finalized", "expired"}, Goto(u, step, 0),
         step = "finalized" => deleting[u],
         step = "expired" => expired[u],
         UNCHANGED <<statusVars, cacheVars, envVars>>
  PROVE  Protocol'
BY DEF ReleaseWorkspaceWriter, LeaseSeen, TypeOK, Protocol, LeaseInv, CacheInv,
       HolderInv, EpochsFence, FlightInv, EndedInv, Ended, Term, Leases, Epochs,
       Steps

LEMMA ControllerStep ==
  ASSUME TypeOK, Protocol, NEW u \in Units, Controller(u)
  PROVE  Protocol'
<1>1. CASE Initialize(u)
  BY <1>1, QuietStep DEF Initialize, Reconciling, WorkerFree, TypeOK
<1>2. CASE Reject(u)
  BY <1>2, QuietStep DEF Reject, Reconciling, WorkerFree, TypeOK
<1>3. CASE Preempt(u)
  BY <1>3, QuietStep DEF Preempt, Reconciling, TypeOK
<1>4. CASE Interrupt(u)
  BY <1>4, QuietStep DEF Interrupt, TypeOK
<1>5. CASE AcquireTerm(u)
  BY <1>5 DEF AcquireTerm, LeaseSeen, Reconciling,
                TypeOK, Protocol, LeaseInv, CacheInv, HolderInv, EpochsFence,
                FlightInv, EndedInv, Ended, Term, Leases, Epochs
<1>6. CASE RecoverTerm(u)
  BY <1>6 DEF RecoverTerm, LeaseSeen, Reconciling,
                TypeOK, Protocol, LeaseInv, CacheInv, HolderInv, EpochsFence,
                FlightInv, EndedInv, Ended, Term, Leases, Epochs
<1>7. CASE ConfirmTerm(u)
  BY <1>7 DEF ConfirmTerm, Reconciling,
                TypeOK, Protocol, LeaseInv, CacheInv, HolderInv, EpochsFence,
                FlightInv, EndedInv, Ended, Term, Leases, Epochs
<1>8. CASE LoseTerm(u)
  BY <1>8, QuietStep DEF LoseTerm, Reconciling, TypeOK
<1>9. CASE RecordTerm(u)
  BY <1>9 DEF RecordTerm,
                TypeOK, Protocol, LeaseInv, CacheInv, HolderInv, EpochsFence,
                FlightInv, EndedInv, Ended, Term, Leases, Epochs
<1>10. CASE CreateWorkload(u)
  BY <1>10, QuietStep DEF CreateWorkload, TypeOK
<1>11. CASE StaleEvidence(u)
  BY <1>11, QuietStep DEF StaleEvidence, TypeOK
<1>12. CASE RecordWorkload(u)
  BY <1>12, QuietStep DEF RecordWorkload, TypeOK
<1>13. CASE SessionPodUnseen(u)
  BY <1>13, QuietStep DEF SessionPodUnseen, TypeOK
<1>14. CASE WorkloadLost(u)
  BY <1>14, QuietStep DEF WorkloadLost, TypeOK
<1>15. CASE StartCollection(u)
  BY <1>15, QuietStep DEF StartCollection, Observing, TypeOK
<1>16. CASE RecordCollector(u)
  BY <1>16, QuietStep DEF RecordCollector, TypeOK
<1>17. CASE CollectionDone(u)
  BY <1>17, QuietStep DEF CollectionDone, TypeOK
<1>18. CASE Requeue(u)
  BY <1>18, QuietStep DEF Requeue, TypeOK
<1>19. CASE ReleaseTerm(u)
  BY <1>19, ReleaseStep, QuietStep
     DEF ReleaseTerm, Reconciling, Unreleased, Ended, TypeOK
<1>20. CASE RecordReleased(u)
  BY <1>20, QuietStep DEF RecordReleased, TypeOK
<1>21. CASE FinalizeDelete(u)
  BY <1>21, QuietStep DEF FinalizeDelete, TypeOK
<1>22. CASE FinalizeRelease(u)
  BY <1>22, ReleaseStep, QuietStep
     DEF FinalizeRelease, Unreleased, Ended, Protocol, FlightInv, TypeOK
<1>23. CASE RemoveFinalizer(u)
  BY <1>23, QuietStep DEF RemoveFinalizer, TypeOK
<1>24. CASE ExpireDelete(u)
  BY <1>24, QuietStep DEF ExpireDelete, TypeOK
<1>25. CASE ExpireRelease(u)
  BY <1>25, ReleaseStep, QuietStep
     DEF ExpireRelease, Unreleased, Ended, Protocol, FlightInv, TypeOK
<1>26. CASE Cancel(u)
  BY <1>26, QuietStep DEF Cancel, TypeOK
<1>27. CASE NotQuiescent(u)
  BY <1>27, QuietStep DEF NotQuiescent, TypeOK
<1>28. QED
  BY <1>1, <1>2, <1>3, <1>4, <1>5, <1>6, <1>7, <1>8, <1>9, <1>10, <1>11, <1>12, <1>13, <1>14, <1>15, <1>16, <1>17, <1>18, <1>19, <1>20, <1>21, <1>22, <1>23, <1>24, <1>25, <1>26, <1>27 DEF Controller

LEMMA ProtocolStep == TypeOK /\ Protocol /\ [Next]_vars => Protocol'
<1> SUFFICES ASSUME TypeOK, Protocol, [Next]_vars PROVE Protocol'
  OBVIOUS
<1>1. ASSUME NEW u \in Units, Controller(u) PROVE Protocol'
  BY <1>1, ControllerStep
<1>2. ASSUME NEW u \in Units, Kubelet(u) PROVE Protocol'
  BY <1>2, QuietStep
     DEF Kubelet, FinishWork, FinishCollector, FinishTerminating, FinishOrphan
<1>3. ASSUME NEW u \in Units, Environment(u) PROVE Protocol'
  <2>1. CASE Create(u)
    BY <2>1, QuietStep DEF Create, TypeOK
  <2>2. CASE DeleteUnit(u)
    BY <2>2, QuietStep DEF DeleteUnit, TypeOK
  <2>3. CASE Expire(u)
    BY <2>3, QuietStep DEF Expire, TypeOK
  <2>4. CASE Evict(u)
    BY <2>4, QuietStep DEF Evict
  <2>5. CASE SyncWorkload(u)
    BY <2>5, QuietStep DEF SyncWorkload
  <2>6. QED
    BY <1>3, <2>1, <2>2, <2>3, <2>4, <2>5 DEF Environment
<1>4. ASSUME NEW u \in Units, Crash(u) PROVE Protocol'
  BY <1>4, QuietStep DEF Crash, TypeOK
<1>5. CASE SyncLease
  BY <1>5 DEF SyncLease, Protocol, LeaseInv, CacheInv, HolderInv, EpochsFence,
              FlightInv, EndedInv, Ended
<1>6. CASE UNCHANGED vars
  BY <1>6 DEF vars, Protocol, LeaseInv, CacheInv, HolderInv, EpochsFence,
              FlightInv, EndedInv, Ended
<1>7. QED
  BY <1>1, <1>2, <1>3, <1>4, <1>5, <1>6 DEF Next

LEMMA ProtocolInv == Spec => [](TypeOK /\ Protocol)
<1>1. Init => TypeOK /\ Protocol
  BY DEF Init, TypeOK, Leases, Epochs, Phases, WorkStates, Steps, Term,
         Protocol, LeaseInv, CacheInv, HolderInv, EpochsFence, FlightInv,
         EndedInv, Ended
<1>2. QED
  BY <1>1, TypeStep, ProtocolStep, PTL DEF Spec

\* Whatever lags behind, crashes or is deleted, a writer epoch fences one unit:
\* no two units ever record the same epoch and every unit that is not the holder
\* has an older one.
THEOREM EpochsAreFences == Spec => []EpochsFence
BY ProtocolInv, PTL DEF Protocol

-----------------------------------------------------------------------------
(* The workloads.  Quiescence is observed in the cache, and one step goes    *)
(* wrong when the cache is old: a release.                                   *)

Alive(u) == work[u] \in {"active", "terminating"} \/ coll[u] = "active"

Releasing(u) == ReleaseTerm(u) \/ FinalizeRelease(u) \/ ExpireRelease(u)

\* A unit gives its term back while it has a pod or a job that has not ended:
\* the cached copies, which do not show it, are older than the workload.
ReleasedUnseen == \E u \in Units : Releasing(u) /\ Alive(u) /\ lease' # lease

LEMMA CoverKept ==
  ASSUME GrantCoversWorkload,
         \A v \in Units : Alive(v)' => Alive(v) \/
                                       (epoch[v] > 0 /\ lease = Term(v, epoch[v])),
         UNCHANGED <<lease, epoch>>
  PROVE  GrantCoversWorkload'
BY DEF GrantCoversWorkload, Alive, Term

LEMMA CoverStep ==
  ASSUME TypeOK, Protocol, GrantCoversWorkload, [Next]_vars, ~ReleasedUnseen
  PROVE  GrantCoversWorkload'
<1>1. ASSUME NEW u \in Units, Controller(u) PROVE GrantCoversWorkload'
  <2>1. CASE /\ UNCHANGED <<lease, epoch>>
             /\ ~CreateWorkload(u) /\ ~StartCollection(u)
    <3>1. \A v \in Units : Alive(v)' => Alive(v)
      BY <1>1, <2>1
         DEF Controller, Initialize, Reject, Preempt, Interrupt, AcquireTerm,
             RecoverTerm, ConfirmTerm, LoseTerm, RecordTerm, StaleEvidence,
             RecordWorkload, SessionPodUnseen, WorkloadLost, RecordCollector,
             CollectionDone, Requeue, ReleaseTerm, RecordReleased,
             FinalizeDelete, FinalizeRelease, RemoveFinalizer, ExpireDelete,
             ExpireRelease, Cancel, NotQuiescent, workVars, Alive, TypeOK,
             DeleteWorkspaceWriterWorkloads, DeleteWork, AfterPodDelete
    <3>2. QED
      BY <2>1, <3>1, CoverKept
  <2>2. CASE CreateWorkload(u) \/ StartCollection(u)
    <3>1. epoch[u] > 0 /\ lease = Term(u, epoch[u])
      BY <2>2 DEF CreateWorkload, StartCollection, Observing, Protocol, FlightInv
    <3>2. \A v \in Units : Alive(v)' => Alive(v) \/ v = u
      BY <2>2 DEF CreateWorkload, StartCollection, Alive, TypeOK
    <3>3. QED
      BY <2>2, <3>1, <3>2, CoverKept DEF CreateWorkload, StartCollection
  <2>3. CASE AcquireTerm(u)
    <3>1. \A v \in Units : ~Alive(v)
      BY <2>3 DEF AcquireTerm, GrantCoversWorkload, Alive, Term
    <3>2. QED
      BY <2>3, <3>1 DEF AcquireTerm, GrantCoversWorkload, Alive, workVars
  <2>4. CASE RecordTerm(u)
    <3>1. epoch[u] = 0
      BY <2>4 DEF RecordTerm, Protocol, FlightInv
    <3>2. QED
      BY <2>4, <3>1 DEF RecordTerm, GrantCoversWorkload, workVars, TypeOK
  <2>5. CASE ReleaseTerm(u) \/ FinalizeRelease(u) \/ ExpireRelease(u)
    <3>1. ~Alive(u) \/ lease' = lease
      BY <2>5 DEF ReleasedUnseen, Releasing
    <3>2. lease' = lease \/ lease = Term(u, epoch[u])
      BY <2>5 DEF ReleaseTerm, FinalizeRelease, ExpireRelease,
                  ReleaseWorkspaceWriter
    <3>3. UNCHANGED <<epoch, work, coll>>
      BY <2>5 DEF ReleaseTerm, FinalizeRelease, ExpireRelease, workVars
    <3>4. QED
      BY <3>1, <3>2, <3>3 DEF GrantCoversWorkload, Alive, Term
  <2>6. QED
    BY <1>1, <2>1, <2>2, <2>3, <2>4, <2>5
       DEF Controller, Initialize, Reject, Preempt, Interrupt, RecoverTerm,
           ConfirmTerm, LoseTerm, StaleEvidence, RecordWorkload,
           SessionPodUnseen, WorkloadLost, RecordCollector, CollectionDone,
           Requeue, RecordReleased, FinalizeDelete, RemoveFinalizer,
           ExpireDelete, Cancel, NotQuiescent
<1>2. ASSUME NEW u \in Units, Kubelet(u) \/ Environment(u) \/ Crash(u)
      PROVE  GrantCoversWorkload'
  <2>1. \A v \in Units : Alive(v)' => Alive(v)
    BY <1>2 DEF Kubelet, FinishWork, FinishCollector, FinishTerminating,
                FinishOrphan, Environment, Create, DeleteUnit, Expire, Evict,
                SyncWorkload, Crash, workVars, Alive, TypeOK, AfterPodDelete
  <2>2. UNCHANGED <<lease, epoch>>
    BY <1>2 DEF Kubelet, FinishWork, FinishCollector, FinishTerminating,
                FinishOrphan, Environment, Create, DeleteUnit, Expire, Evict,
                SyncWorkload, Crash
  <2>3. QED
    BY <2>1, <2>2, CoverKept
<1>3. CASE SyncLease \/ UNCHANGED vars
  BY <1>3 DEF SyncLease, vars, workVars, GrantCoversWorkload
<1>4. QED
  BY <1>1, <1>2, <1>3 DEF Next

\* Every workload that still exists runs under the current term of the lease,
\* through crashes, deletions, evictions, expiry and old copies of everything
\* that is read.  One step alone can take the term from under a workload: a
\* release that the copies of pods and jobs allow because they are older than
\* the workload; in a behaviour without that step every workload is covered.
THEOREM WritersAreCovered ==
  /\ Spec => [][GrantCoversWorkload => GrantCoversWorkload' \/ ReleasedUnseen]_vars
  /\ Spec /\ [][~ReleasedUnseen]_vars => []GrantCoversWorkload
<1>1. Init => GrantCoversWorkload
  BY DEF Init, GrantCoversWorkload
<1>2. TypeOK /\ Protocol /\ GrantCoversWorkload /\ [Next]_vars
        => GrantCoversWorkload' \/ ReleasedUnseen
  BY CoverStep
<1>3. TypeOK /\ Protocol /\ GrantCoversWorkload /\ [Next]_vars /\ [~ReleasedUnseen]_vars
        => GrantCoversWorkload'
  <2>1. ReleasedUnseen => lease' # lease
    BY DEF ReleasedUnseen
  <2>2. vars' = vars => lease' = lease
    BY DEF vars
  <2> QED
    BY <1>2, <2>1, <2>2
<1>4. TypeOK /\ Protocol /\ [Next]_vars
        => [GrantCoversWorkload => GrantCoversWorkload' \/ ReleasedUnseen]_vars
  BY <1>2
<1>5. Spec => [][GrantCoversWorkload => GrantCoversWorkload' \/ ReleasedUnseen]_vars
  BY <1>4, ProtocolInv, PTL DEF Spec
<1>6. Spec /\ [][~ReleasedUnseen]_vars => []GrantCoversWorkload
  BY <1>1, <1>3, ProtocolInv, PTL DEF Spec
<1> QED
  BY <1>5, <1>6

\* As long as no unit releases past a workload that the copies do not show, the
\* controllers implement the exclusive workspace: each step is a grant, a start
\* or a stop of a workload, a release by a holder without workloads, or leaves
\* all of that alone, whatever else the copies show.
THEOREM ExclusiveWorkspaceImplemented ==
  Spec /\ [][~ReleasedUnseen]_vars => ImplementsExclusiveWorkspace
<1>1. Init => EW!Init
  BY DEF Init, EW!Init, Live, Term
<1>2. TypeOK /\ Protocol /\ GrantCoversWorkload /\ [Next]_vars /\ [~ReleasedUnseen]_vars
        => [EW!Next]_<<lease.holder, lease.epoch, Live>>
  <2> SUFFICES ASSUME TypeOK, Protocol, GrantCoversWorkload, [Next]_vars,
                      [~ReleasedUnseen]_vars
               PROVE  [EW!Next]_<<lease.holder, lease.epoch, Live>>
    OBVIOUS
  <2> DEFINE Stops(u) == Live' = Live \ {u} /\ UNCHANGED lease
             Starts(u) == Live' = Live \cup {u} /\ UNCHANGED lease
  <2>1. ASSUME NEW u \in Units, Stops(u) PROVE EW!Next
    BY <2>1 DEF EW!Next, EW!Stop
  <2>2. ASSUME NEW u \in Units, Starts(u), lease.holder = u PROVE EW!Next
    BY <2>2 DEF EW!Next, EW!Start
  <2>3. ASSUME NEW u \in Units, Controller(u)
        PROVE  [EW!Next]_<<lease.holder, lease.epoch, Live>>
    <3>1. CASE AcquireTerm(u)
      <4>1. EW!Grant(u)
        BY <3>1 DEF AcquireTerm, EW!Grant, Live, workVars, Term, TypeOK, Leases
      <4>2. QED
        BY <4>1 DEF EW!Next
    <3>2. CASE ReleaseTerm(u) \/ FinalizeRelease(u) \/ ExpireRelease(u)
      <4>1. UNCHANGED Live
        BY <3>2 DEF ReleaseTerm, FinalizeRelease, ExpireRelease, workVars, Live
      <4>2. CASE UNCHANGED lease
        BY <4>1, <4>2
      <4>3. CASE lease # lease'
        <5>1. lease = Term(u, epoch[u]) /\ lease' = Term(NoUnit, epoch[u])
          BY <3>2, <4>3 DEF ReleaseTerm, FinalizeRelease, ExpireRelease,
                            ReleaseWorkspaceWriter
        <5>2. u \notin Live
          BY <3>2, <4>3 DEF ReleasedUnseen, Releasing, vars, Live, Alive
        <5>3. EW!Release(u)
          BY <4>1, <5>1, <5>2 DEF EW!Release, Term
        <5>4. QED
          BY <5>3 DEF EW!Next
      <4>4. QED
        BY <4>2, <4>3
    <3>3. CASE CreateWorkload(u) \/ StartCollection(u)
      <4>1. lease.holder = u
        BY <3>3 DEF CreateWorkload, StartCollection, Observing, Protocol,
                    FlightInv, Term
      <4>2. Starts(u) \/ UNCHANGED <<lease, Live>>
        BY <3>3 DEF CreateWorkload, StartCollection, Live, TypeOK, WorkStates
      <4>3. QED
        BY <2>2, <4>1, <4>2
    <3>4. CASE Preempt(u) \/ LoseTerm(u) \/ FinalizeDelete(u) \/ ExpireDelete(u)
      <4>1. Stops(u) \/ UNCHANGED <<lease, Live>>
        BY <3>4 DEF Preempt, LoseTerm, FinalizeDelete, ExpireDelete, Live,
                    DeleteWorkspaceWriterWorkloads, DeleteWork, AfterPodDelete,
                    TypeOK
      <4>2. QED
        BY <2>1, <4>1
    <3>5. CASE ~ \/ AcquireTerm(u) \/ ReleaseTerm(u) \/ FinalizeRelease(u)
                 \/ ExpireRelease(u) \/ CreateWorkload(u) \/ StartCollection(u)
                 \/ Preempt(u) \/ LoseTerm(u) \/ FinalizeDelete(u)
                 \/ ExpireDelete(u)
      <4>1. UNCHANGED <<lease, Live>>
        BY <2>3, <3>5
           DEF Controller, Initialize, Reject, Interrupt, RecoverTerm,
               ConfirmTerm, RecordTerm, StaleEvidence, RecordWorkload,
               SessionPodUnseen, WorkloadLost, RecordCollector,
               CollectionDone, Requeue, RecordReleased, RemoveFinalizer, Cancel,
               NotQuiescent, workVars, Live
      <4>2. QED
        BY <4>1
    <3>6. QED
      BY <3>1, <3>2, <3>3, <3>4, <3>5
  <2>4. ASSUME NEW u \in Units, Kubelet(u) \/ Environment(u) \/ Crash(u)
        PROVE  [EW!Next]_<<lease.holder, lease.epoch, Live>>
    <3>1. Stops(u) \/ UNCHANGED <<lease, Live>>
      BY <2>4 DEF Kubelet, FinishWork, FinishCollector, FinishTerminating,
                  FinishOrphan, Environment, Create, DeleteUnit, Expire, Evict,
                  SyncWorkload, Crash, workVars, Live, TypeOK, AfterPodDelete
    <3>2. QED
      BY <2>1, <3>1
  <2>5. CASE SyncLease \/ UNCHANGED vars
    <3>1. UNCHANGED <<lease, Live>>
      BY <2>5 DEF SyncLease, vars, workVars, Live
    <3>2. QED
      BY <3>1
  <2>6. QED
    BY <2>3, <2>4, <2>5 DEF Next
<1>3. QED
  BY <1>1, <1>2, ProtocolInv, WritersAreCovered, PTL
     DEF Spec, EW!Spec, ImplementsExclusiveWorkspace

-----------------------------------------------------------------------------
(* The status record of a release.                                          *)

ReleaseInv ==
  \A u \in Units :
    /\ released[u] \/ pc[u] = "released" => epoch[u] > 0 /\ lease.holder # u
    /\ pc[u] = "expired" /\ epoch[u] > 0 => lease.holder # u

\* The release of a unit that holds its term does nothing, because the copy of
\* the lease is older than the term.
ReleaseUndone ==
  \E u \in Units : /\ Releasing(u) /\ Unreleased(u)
                   /\ lease = Term(u, epoch[u]) /\ lease' = lease

LEMMA ReleaseInvStep ==
  ASSUME TypeOK, Protocol, ReleaseInv, [Next]_vars, ~ReleaseUndone
  PROVE  ReleaseInv'
<1>1. ASSUME NEW u \in Units, Controller(u) PROVE ReleaseInv'
  <2>1. CASE AcquireTerm(u)
    BY <2>1 DEF AcquireTerm, ReleaseInv, TypeOK, Term, Reconciling, WorkerFree
  <2>2. CASE RecordTerm(u)
    BY <2>2 DEF RecordTerm, ReleaseInv, TypeOK, Protocol, FlightInv, Epochs
  <2>3. CASE ReleaseTerm(u) \/ FinalizeRelease(u) \/ ExpireRelease(u)
    <3>1. Unreleased(u) => lease'.holder # u
      <4>1. lease' = lease \/ lease'.holder = NoUnit
        BY <2>3 DEF ReleaseTerm, FinalizeRelease, ExpireRelease, Term,
                    ReleaseWorkspaceWriter
      <4>2. ASSUME Unreleased(u), lease.holder = u
            PROVE  lease' # lease
        <5>1. lease = Term(u, epoch[u])
          BY <4>2 DEF Protocol, HolderInv, Term, TypeOK, Leases, Unreleased
        <5> QED
          BY <2>3, <4>2, <5>1 DEF ReleaseUndone, Releasing
      <4> QED
        BY <4>1, <4>2
    <3>2. lease'.holder \in {lease.holder, NoUnit}
      BY <2>3 DEF ReleaseTerm, FinalizeRelease, ExpireRelease, Term,
                  ReleaseWorkspaceWriter
    <3>3. QED
      BY <2>3, <3>1, <3>2
         DEF ReleaseTerm, FinalizeRelease, ExpireRelease, ReleaseInv,
             Unreleased, TypeOK, Epochs
  <2>4. CASE RecordReleased(u) \/ Cancel(u)
    BY <2>4 DEF RecordReleased, Cancel, ReleaseInv, TypeOK
  <2>5. CASE ~ \/ AcquireTerm(u) \/ RecordTerm(u) \/ ReleaseTerm(u)
               \/ FinalizeRelease(u) \/ ExpireRelease(u)
               \/ RecordReleased(u) \/ Cancel(u)
    <3>1. UNCHANGED <<lease, epoch, released>>
      BY <1>1, <2>5
         DEF Controller, Initialize, Reject, Preempt, Interrupt, RecoverTerm,
             ConfirmTerm, LoseTerm, CreateWorkload, StaleEvidence,
             RecordWorkload, SessionPodUnseen, WorkloadLost, StartCollection,
             RecordCollector, CollectionDone, Requeue, FinalizeDelete,
             RemoveFinalizer, ExpireDelete, NotQuiescent
    <3>2. \A v \in Units :
            pc'[v] \in {"released", "expired"} => pc'[v] = pc[v]
      BY <1>1, <2>5
         DEF Controller, Initialize, Reject, Preempt, Interrupt, RecoverTerm,
             ConfirmTerm, LoseTerm, CreateWorkload, StaleEvidence,
             RecordWorkload, SessionPodUnseen, WorkloadLost, StartCollection,
             RecordCollector, CollectionDone, Requeue, FinalizeDelete,
             RemoveFinalizer, ExpireDelete, NotQuiescent, TypeOK
    <3>3. QED
      BY <3>1, <3>2 DEF ReleaseInv
  <2>6. QED
    BY <2>1, <2>2, <2>3, <2>4, <2>5
<1>2. ASSUME NEW u \in Units, Kubelet(u) \/ Environment(u) \/ Crash(u)
      PROVE  ReleaseInv'
  <2>1. UNCHANGED <<lease, epoch, released>>
    BY <1>2 DEF Kubelet, FinishWork, FinishCollector, FinishTerminating,
                FinishOrphan, Environment, Create, DeleteUnit, Expire, Evict,
                SyncWorkload, Crash
  <2>2. \A v \in Units : pc'[v] \in {"released", "expired"} => pc'[v] = pc[v]
    BY <1>2 DEF Kubelet, FinishWork, FinishCollector, FinishTerminating,
                FinishOrphan, Environment, Create, DeleteUnit, Expire, Evict,
                SyncWorkload, Crash, TypeOK
  <2>3. QED
    BY <2>1, <2>2 DEF ReleaseInv
<1>3. CASE SyncLease \/ UNCHANGED vars
  BY <1>3 DEF SyncLease, vars, ReleaseInv
<1>4. QED
  BY <1>1, <1>2, <1>3 DEF Next

\* A status that says the term was released is right, unless the release was
\* one that an old copy of the lease turned into nothing; however old the copies
\* are otherwise, and whatever is deleted or cut off.
THEOREM ReleasesAreReal ==
  Spec /\ [][~ReleaseUndone]_vars => []ReleasedMeansReleased
<1>1. Init => ReleaseInv
  BY DEF Init, ReleaseInv
<1>2. TypeOK /\ Protocol /\ ReleaseInv /\ [Next]_vars /\ [~ReleaseUndone]_vars
        => ReleaseInv'
  <2> SUFFICES ASSUME TypeOK, Protocol, ReleaseInv, [Next]_vars, [~ReleaseUndone]_vars
               PROVE  ReleaseInv'
    OBVIOUS
  <2>1. CASE ~ReleaseUndone
    BY <2>1, ReleaseInvStep
  <2>2. CASE UNCHANGED vars
    BY <2>2 DEF vars, ReleaseInv
  <2> QED
    BY <2>1, <2>2
<1>3. ReleaseInv => ReleasedMeansReleased
  BY DEF ReleaseInv, ReleasedMeansReleased
<1>4. QED
  BY <1>1, <1>2, <1>3, ProtocolInv, PTL DEF Spec
=============================================================================
