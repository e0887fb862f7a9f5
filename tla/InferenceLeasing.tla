-------------------------- MODULE InferenceLeasing --------------------------
(***************************************************************************)
(* Inference capacity: the InferenceLease controller                       *)
(* (internal/controllers/inference_lease_controller.go) with its admission *)
(* (internal/inference/admission.go), the InferenceEndpoint controller     *)
(* (internal/controllers/inference_endpoint_controller.go) and the AgentRun *)
(* side of a lease (internal/controllers/agentrun/agentrun_inference.go).  *)
(*                                                                         *)
(* A lease asks for KV memory of the one endpoint that serves its model,   *)
(* tenant and classification.  The endpoint's status lists the leases that *)
(* hold a reservation; the lease's own status says whether it is bound.    *)
(* The two are written one after the other, and both are read from caches. *)
(***************************************************************************)
EXTENDS Integers, FiniteSets

CONSTANTS
  Leases,      \* one per AgentRun that asks for inference
  NoLease,     \* no lease is being reconciled
  Endpoints,
  EndpointOf,  \* the endpoint named after a lease's model, tenant and class
  Est,         \* spec.estimatedKVRAMMiB
  Prio,        \* spec.priority
  Evictable,   \* spec.evictable
  Shared,      \* the sharing scope and the policy let it share an endpoint
  Cap,         \* maxKVRAMMiB less the safety headroom of an endpoint
  MaxCrashes,  \* bound on the abandoned reconciliations of a behaviour
  Env          \* the environment events that may happen

EnvEvents == {"lag",             \* cached leases and endpoints may be old
              "deny",            \* policy refuses to create an endpoint
              "podFails",        \* the pod of an endpoint stops serving
              "loseInputs",      \* an input of a run becomes invalid
              "deleteRun"}       \* somebody deletes a run

ASSUME LeasesAssumption ==
  /\ IsFiniteSet(Leases) /\ NoLease \notin Leases
  /\ EndpointOf \in [Leases -> Endpoints]
  /\ Est \in [Leases -> Nat]
  /\ Prio \in [Leases -> Nat]
  /\ Evictable \in [Leases -> BOOLEAN]
  /\ Shared \in [Leases -> BOOLEAN]
ASSUME CapacityAssumption == Cap \in [Endpoints -> Nat]
ASSUME BoundAssumption == MaxCrashes \in Nat /\ Env \subseteq EnvEvents

VARIABLES
  lease,          \* phase, endpointRef, release request, deletionTimestamp
  endpoint,       \* phase, activeLeases, allocatedKVRAMMiB
  leaseCache,     \* the informers' copies of them
  endpointCache,
  pod,            \* the serving pod of an endpoint
  run,            \* the AgentRun of a lease: "Over" is a terminal phase,
                  \* "Deleted" a deletionTimestamp, "Gone" no object
  ref,            \* its status.inferenceLeaseRef is set
  at,             \* progress of the lease reconciliation in flight
  cur,            \* its lease
  seen,           \* that lease as read
  victims,        \* the leases still to be evicted for it
  victim,         \* the one being interrupted, and as it was read
  victimSeen,
  crashes

objectVars == <<lease, endpoint>>
cacheVars  == <<leaseCache, endpointCache>>
runVars    == <<run, ref>>
flightVars == <<at, cur, seen, victims, victim, victimSeen>>
leasingVars == <<objectVars, cacheVars, pod, runVars, flightVars, crashes>>

-----------------------------------------------------------------------------
Over        == {"Succeeded", "Interrupted", "Failed"}
LeasePhases == {"Absent", "New", "Pending", "Running"} \cup Over

LeaseRecords == [phase : LeasePhases, bound : BOOLEAN, release : BOOLEAN,
                 deleting : BOOLEAN]
AbsentLease == [phase |-> "Absent", bound |-> FALSE, release |-> FALSE,
                deleting |-> FALSE]

EndpointRecords == [phase : {"Absent", "Preparing", "Running", "Failed"},
                    active : SUBSET Leases, allocated : Nat]
AbsentEndpoint == [phase |-> "Absent", active |-> {}, allocated |-> 0]

\* The sum of Est over S: the MiB that the leases of S ask for are counted.
Asked(S) == UNION {{l} \X (1 .. Est[l]) : l \in S}
Total(S) == Cardinality(Asked(S))

LeasingTypeOK ==
  /\ lease \in [Leases -> LeaseRecords]
  /\ endpoint \in [Endpoints -> EndpointRecords]
  /\ leaseCache \in [Leases -> LeaseRecords]
  /\ endpointCache \in [Endpoints -> EndpointRecords]
  /\ pod \in [Endpoints -> {"down", "ready", "failed"}]
  /\ run \in [Leases -> {"New", "Working", "Over", "Deleted", "Gone"}]
  /\ ref \in [Leases -> BOOLEAN]
  /\ at \in {"idle", "finalize", "release", "evict", "interrupt", "bind", "status"}
  /\ cur \in Leases \cup {NoLease}
  /\ victim \in Leases \cup {NoLease}
  /\ seen \in LeaseRecords /\ victimSeen \in LeaseRecords
  /\ victims \subseteq Leases
  /\ crashes \in 0..MaxCrashes

LeasingInit ==
  /\ lease = [l \in Leases |-> AbsentLease]
  /\ endpoint = [e \in Endpoints |-> AbsentEndpoint]
  /\ leaseCache = lease
  /\ endpointCache = endpoint
  /\ pod = [e \in Endpoints |-> "down"]
  /\ run = [l \in Leases |-> "New"]
  /\ ref = [l \in Leases |-> FALSE]
  /\ at = "idle"
  /\ cur = NoLease
  /\ victim = NoLease
  /\ seen = AbsentLease
  /\ victimSeen = AbsentLease
  /\ victims = {}
  /\ crashes = 0

-----------------------------------------------------------------------------
(* Reads come from the cache; an update succeeds on the current version.    *)

Lease(l)    == IF "lag" \in Env THEN leaseCache[l] ELSE lease[l]
Endpoint(e) == IF "lag" \in Env THEN endpointCache[e] ELSE endpoint[e]

Update(e, r) ==
  /\ Endpoint(e) = endpoint[e]
  /\ endpoint' = [endpoint EXCEPT ![e] = r]

Goto(stage, l, V) ==
  /\ at' = stage
  /\ cur' = l
  /\ seen' = IF l = NoLease THEN AbsentLease ELSE Lease(l)
  /\ victims' = V
  /\ victim' = NoLease
  /\ victimSeen' = AbsentLease

Return == Goto("idle", NoLease, {})

\* The next step of the same reconciliation.
Continue(stage) ==
  at' = stage /\ UNCHANGED <<cur, seen, victims, victim, victimSeen>>

\* One worker: a reconciliation of a lease in phase p that is not deleted.
Reconciling(l, p) ==
  /\ at = "idle"
  /\ Lease(l).phase = p
  /\ ~Lease(l).deleting

\* A release request comes before admission.
Deciding(l) == Reconciling(l, "Pending") /\ ~Lease(l).release

\* A status write from the copy that was read.
SetPhase(l, from, p) ==
  /\ lease[l] = from
  /\ lease' = [lease EXCEPT ![l] = [from EXCEPT !.phase = p]]

Pend(l) ==
  /\ Reconciling(l, "New")
  /\ ~Lease(l).release
  /\ SetPhase(l, Lease(l), "Pending")
  /\ UNCHANGED <<endpoint, cacheVars, pod, runVars, flightVars, crashes>>

-----------------------------------------------------------------------------
(* Admission.                                                               *)

available(e) == LET a == Endpoint(e).allocated IN
                IF a < Cap[e] THEN Cap[e] - a ELSE 0

compatible(l) == Shared[l] /\ Endpoint(EndpointOf[l]).phase # "Absent"

evictionCandidates(l) ==
  {v \in Leases : /\ EndpointOf[v] = EndpointOf[l]
                  /\ Lease(v).bound /\ Lease(v).phase = "Running"
                  /\ Evictable[v] /\ Prio[v] < Prio[l]}

\* The shortest prefixes of the candidates, by priority, that free enough.
Sacrifices(l) ==
  LET C == evictionCandidates(l)
      Frees(V) == available(EndpointOf[l]) + Total(V) >= Est[l]
  IN {V \in SUBSET C : /\ \A v \in V, w \in C \ V : Prio[v] <= Prio[w]
                       /\ Frees(V)
                       /\ \E v \in V : /\ \A w \in V : Prio[w] <= Prio[v]
                                       /\ ~Frees(V \ {v})}

Fits(l) == available(EndpointOf[l]) >= Est[l]

Reuse(l) ==
  /\ Deciding(l)
  /\ compatible(l)
  /\ Fits(l)
  /\ Goto("bind", l, {})
  /\ UNCHANGED <<objectVars, cacheVars, pod, runVars, crashes>>

Evict(l) ==
  /\ Deciding(l)
  /\ compatible(l)
  /\ ~Fits(l)
  /\ \E V \in Sacrifices(l) : Goto("evict", l, V)
  /\ UNCHANGED <<objectVars, cacheVars, pod, runVars, crashes>>

Creating(l) ==
  /\ Deciding(l)
  /\ compatible(l) => ~Fits(l) /\ Sacrifices(l) = {}

Reject(l) ==
  /\ Creating(l)
  /\ "deny" \in Env
  /\ SetPhase(l, Lease(l), "Failed")
  /\ UNCHANGED <<endpoint, cacheVars, pod, runVars, flightVars, crashes>>

\* ensureEndpoint: the endpoint of this name is taken, whoever uses it.
ensureEndpoint(l) ==
  LET e == EndpointOf[l] IN
  /\ Creating(l)
  /\ Endpoint(e).phase = "Absent"
  /\ Update(e, [AbsentEndpoint EXCEPT !.phase = "Preparing"])
  /\ UNCHANGED <<lease, cacheVars, pod, runVars, flightVars, crashes>>

\* Deviation: an endpoint that looks full is not bound.
UseEndpointIfFree(l) ==
  /\ Creating(l)
  /\ Endpoint(EndpointOf[l]).phase = "Running" /\ Fits(l)
  /\ Goto("bind", l, {})
  /\ UNCHANGED <<objectVars, cacheVars, pod, runVars, crashes>>

UseEndpoint(l) ==
  /\ Creating(l)
  /\ Endpoint(EndpointOf[l]).phase = "Running"
  /\ Goto("bind", l, {})
  /\ UNCHANGED <<objectVars, cacheVars, pod, runVars, crashes>>

-----------------------------------------------------------------------------
(* bind: the reservation first, the lease's status second.                  *)

\* Deviation: a reservation that is not known to be bound is a leftover.
LiveIfBound(l) == Lease(l).phase = "Running" /\ ~Lease(l).deleting

\* pruneEndpointReservations keeps what a live lease may hold.
Live(l) == Lease(l).phase \notin Over \cup {"Absent"} /\ ~Lease(l).deleting

Pruned(e) == {l \in Endpoint(e).active : Live(l)}

\* What did not change is not written.
Save(e, r) == IF r = Endpoint(e) THEN UNCHANGED endpoint ELSE Update(e, r)

\* Deviation: the capacity is not looked at again.
ReserveUnchecked ==
  LET e == EndpointOf[cur]
      S == Pruned(e) \cup {cur}
  IN /\ at = "bind"
     /\ Save(e, [Endpoint(e) EXCEPT !.active = S, !.allocated = Total(S)])
     /\ Continue("status")
     /\ UNCHANGED <<lease, cacheVars, pod, runVars, crashes>>

\* Deviation: what is pruned stays allocated.
ReserveKeepingGhosts ==
  LET e == EndpointOf[cur]
      S == Pruned(e) \cup {cur}
      a == Endpoint(e).allocated + Est[cur]
  IN /\ at = "bind"
     /\ cur \notin Pruned(e) => a <= Cap[e]
     /\ Save(e, [Endpoint(e) EXCEPT !.active = S,
                     !.allocated = IF cur \in Pruned(e) THEN @ ELSE a])
     /\ Continue("status")
     /\ UNCHANGED <<lease, cacheVars, pod, runVars, crashes>>

Reserve ==
  LET e == EndpointOf[cur]
      S == Pruned(e) \cup {cur}
  IN /\ at = "bind"
     /\ cur \notin Pruned(e) => Total(S) <= Cap[e]
     /\ Save(e, [Endpoint(e) EXCEPT !.active = S, !.allocated = Total(S)])
     /\ Continue("status")
     /\ UNCHANGED <<lease, cacheVars, pod, runVars, crashes>>

\* The capacity changed before the binding.
ReserveFails ==
  LET S == Pruned(EndpointOf[cur]) IN
  /\ at = "bind"
  /\ cur \notin S /\ Total(S \cup {cur}) > Cap[EndpointOf[cur]]
  /\ Return
  /\ UNCHANGED <<objectVars, cacheVars, pod, runVars, crashes>>

BindStatus ==
  /\ at = "status"
  /\ lease[cur] = seen
  /\ lease' = [lease EXCEPT ![cur] = [seen EXCEPT !.phase = "Running",
                                                   !.bound = TRUE]]
  /\ Return
  /\ UNCHANGED <<endpoint, cacheVars, pod, runVars, crashes>>

-----------------------------------------------------------------------------
(* Eviction, release and deletion give the reservation back before the      *)
(* lease's status says so.                                                  *)

\* Deviation: a reservation is given back as often as it is asked for.
ReturnReservation(l, r) ==
  LET s == Endpoint(EndpointOf[l]) IN
  IF ~r.bound
  THEN UNCHANGED endpoint
  ELSE Update(EndpointOf[l], [s EXCEPT !.active = @ \ {l},
                                !.allocated = @ - Est[l]])

\* A lease that does not know its endpoint removes nothing.
removeEndpointReservation(l, r) ==
  LET e == EndpointOf[l]
      s == Endpoint(e)
  IN IF ~r.bound \/ l \notin s.active
     THEN UNCHANGED endpoint
     ELSE Update(e, [s EXCEPT !.active = @ \ {l},
                       !.allocated = IF @ > Est[l] THEN @ - Est[l] ELSE 0])

\* interruptLease, first write; the victims go by priority.
StartInterrupt(v) ==
  /\ at = "evict"
  /\ v \in victims
  /\ \A w \in victims : Prio[v] <= Prio[w]
  /\ IF Lease(v).phase = "Absent"
     THEN UNCHANGED <<endpoint, at, victim, victimSeen>>
     ELSE /\ removeEndpointReservation(v, Lease(v))
          /\ at' = "interrupt"
          /\ victim' = v
          /\ victimSeen' = Lease(v)
  /\ victims' = victims \ {v}
  /\ UNCHANGED <<cur, seen, lease, cacheVars, pod, runVars, crashes>>

\* Second write, of the victim as it was read.
interruptLease ==
  /\ at = "interrupt"
  /\ SetPhase(victim, victimSeen, "Interrupted")
  /\ at' = "evict"
  /\ victim' = NoLease
  /\ victimSeen' = AbsentLease
  /\ UNCHANGED <<cur, seen, victims, endpoint, cacheVars, pod, runVars, crashes>>

AllEvicted ==
  /\ at = "evict"
  /\ victims = {}
  /\ Continue("bind")
  /\ UNCHANGED <<objectVars, cacheVars, pod, runVars, crashes>>

StartRelease(l) ==
  /\ \E p \in LeasePhases \ (Over \cup {"Absent"}) : Reconciling(l, p)
  /\ Lease(l).release
  /\ removeEndpointReservation(l, Lease(l))
  /\ Goto("release", l, {})
  /\ UNCHANGED <<lease, cacheVars, pod, runVars, crashes>>

releaseLease ==
  /\ at = "release"
  /\ SetPhase(cur, seen, "Succeeded")
  /\ Return
  /\ UNCHANGED <<endpoint, cacheVars, pod, runVars, crashes>>

StartFinalize(l) ==
  /\ at = "idle"
  /\ Lease(l).deleting
  /\ removeEndpointReservation(l, Lease(l))
  /\ Goto("finalize", l, {})
  /\ UNCHANGED <<lease, cacheVars, pod, runVars, crashes>>

RemoveFinalizer ==
  /\ at = "finalize"
  /\ lease[cur] = seen
  /\ lease' = [lease EXCEPT ![cur] = AbsentLease]
  /\ Return
  /\ UNCHANGED <<endpoint, cacheVars, pod, runVars, crashes>>

\* A write meets a newer version: RetryOnConflict runs out, or the copy that
\* was read is old.  The error ends the reconciliation.
Conflict ==
  /\ \/ at \in {"status", "release", "finalize"} /\ lease[cur] # seen
     \/ at = "interrupt" /\ lease[victim] # victimSeen
     \/ /\ at \in {"bind", "evict"}
        /\ Endpoint(EndpointOf[cur]) # endpoint[EndpointOf[cur]]
  /\ Return
  /\ UNCHANGED <<objectVars, cacheVars, pod, runVars, crashes>>

\* The manager restarts, or a call to the API server fails for good.
Crash ==
  /\ at # "idle"
  /\ crashes < MaxCrashes
  /\ crashes' = crashes + 1
  /\ Return
  /\ UNCHANGED <<objectVars, cacheVars, pod, runVars>>

-----------------------------------------------------------------------------
(* The InferenceEndpoint controller and the pods it watches.                *)

PhaseOf(p) == CASE p = "down"   -> "Preparing"
                [] p = "ready"  -> "Running"
                [] p = "failed" -> "Failed"

Observe(e) ==
  /\ Endpoint(e).phase \notin {"Absent", PhaseOf(pod[e])}
  /\ Update(e, [Endpoint(e) EXCEPT !.phase = PhaseOf(pod[e])])
  /\ UNCHANGED <<lease, cacheVars, pod, runVars, flightVars, crashes>>

PodReady(e) ==
  /\ endpoint[e].phase # "Absent"
  /\ pod[e] = "down"
  /\ pod' = [pod EXCEPT ![e] = "ready"]
  /\ UNCHANGED <<objectVars, cacheVars, runVars, flightVars, crashes>>

\* A container restarts, or the node is lost and the pod is not replaced.
PodStops(e) ==
  /\ "podFails" \in Env
  /\ pod[e] = "ready"
  /\ \E p \in {"down", "failed"} : pod' = [pod EXCEPT ![e] = p]
  /\ UNCHANGED <<objectVars, cacheVars, runVars, flightVars, crashes>>

-----------------------------------------------------------------------------
(* The AgentRun controller.                                                 *)

\* Create, then the reference in the run's status, unless a crash comes first.
ensureLease(l) ==
  /\ run[l] = "New"
  /\ Lease(l) = AbsentLease /\ lease[l] = AbsentLease
  /\ lease' = [lease EXCEPT ![l].phase = "New"]
  /\ \/ ref' = [ref EXCEPT ![l] = TRUE] /\ UNCHANGED crashes
     \/ crashes < MaxCrashes /\ crashes' = crashes + 1 /\ UNCHANGED ref
  /\ UNCHANGED <<endpoint, cacheVars, pod, run, flightVars>>

RecordRef(l) ==
  /\ run[l] = "New"
  /\ Lease(l).phase # "Absent"
  /\ ~ref[l]
  /\ ref' = [ref EXCEPT ![l] = TRUE]
  /\ UNCHANGED <<objectVars, cacheVars, pod, run, flightVars, crashes>>

Run(l, from, to) ==
  /\ run[l] \in from
  /\ run' = [run EXCEPT ![l] = to]
  /\ UNCHANGED <<objectVars, cacheVars, pod, ref, flightVars, crashes>>

StartWork(l) ==
  /\ ref[l] /\ Lease(l).phase = "Running"
  /\ Run(l, {"New"}, "Working")

FinishWork(l) == Run(l, {"Working"}, "Over")

\* The lease was evicted or refused: the run is interrupted or fails.
LoseLease(l) ==
  /\ ref[l] /\ Lease(l).phase \in {"Interrupted", "Failed"}
  /\ Run(l, {"New", "Working"}, "Over")

\* The inputs are looked at before the lease, until the pod exists.
InputsLost(l) == "loseInputs" \in Env /\ Run(l, {"New"}, "Over")

DeleteRun(l) == "deleteRun" \in Env /\ Run(l, {"New", "Working", "Over"}, "Deleted")

\* Deviation: only a pending lease is waited for.
ReleasedUnlessPending(l) == ref[l] => Lease(l).phase \notin {"New", "Pending"}

\* reconcileInferenceLeaseRelease has nothing left to wait for.
Released(l) == ref[l] => Lease(l).phase \in Over \cup {"Absent"}

reconcileInferenceLeaseRelease(l) ==
  /\ run[l] \in {"Over", "Deleted"}
  /\ ~Released(l)
  /\ ~Lease(l).release
  /\ Lease(l) = lease[l]
  /\ lease' = [lease EXCEPT ![l].release = TRUE]
  /\ UNCHANGED <<endpoint, cacheVars, pod, runVars, flightVars, crashes>>

\* The run's finalizer goes; the garbage collector deletes the lease it owns.
RunGone(l) ==
  /\ run[l] = "Deleted"
  /\ Released(l)
  /\ run' = [run EXCEPT ![l] = "Gone"]
  /\ lease' = [lease EXCEPT ![l].deleting = lease[l].phase # "Absent"]
  /\ UNCHANGED <<endpoint, cacheVars, pod, ref, flightVars, crashes>>

Sync ==
  /\ "lag" \in Env
  /\ \/ \E l \in Leases :
          /\ leaseCache[l] # lease[l]
          /\ leaseCache' = [leaseCache EXCEPT ![l] = lease[l]]
          /\ UNCHANGED endpointCache
     \/ \E e \in Endpoints :
          /\ endpointCache[e] # endpoint[e]
          /\ endpointCache' = [endpointCache EXCEPT ![e] = endpoint[e]]
          /\ UNCHANGED leaseCache
  /\ UNCHANGED <<objectVars, pod, runVars, flightVars, crashes>>

-----------------------------------------------------------------------------
\* One reconciliation of the lease l starts, or is all there is to it.
Reconcile(l) ==
  \/ Pend(l) \/ Reuse(l) \/ Evict(l) \/ Reject(l)
  \/ ensureEndpoint(l) \/ UseEndpoint(l)
  \/ StartRelease(l) \/ StartFinalize(l)

\* The reconciliation in flight goes on.
Proceed ==
  \/ Reserve \/ ReserveFails \/ BindStatus
  \/ (\E v \in Leases : StartInterrupt(v)) \/ interruptLease \/ AllEvicted
  \/ releaseLease \/ RemoveFinalizer \/ Conflict

AgentRun(l) ==
  \/ ensureLease(l) \/ RecordRef(l) \/ StartWork(l) \/ FinishWork(l)
  \/ LoseLease(l) \/ reconcileInferenceLeaseRelease(l) \/ RunGone(l)

LeasingNext ==
  \/ \E l \in Leases : Reconcile(l) \/ AgentRun(l) \/ InputsLost(l) \/ DeleteRun(l)
  \/ Proceed \/ Crash
  \/ \E e \in Endpoints : Observe(e) \/ PodReady(e) \/ PodStops(e)
  \/ Sync

LeasingSpec == LeasingInit /\ [][LeasingNext]_leasingVars

\* The work queues requeue, the pods come up, the agents finish and the
\* watches deliver.
Fairness ==
  /\ \A l \in Leases : SF_leasingVars(Reconcile(l)) /\ WF_leasingVars(AgentRun(l))
  /\ WF_leasingVars(Proceed)
  /\ \A e \in Endpoints : WF_leasingVars(Observe(e)) /\ WF_leasingVars(PodReady(e))
  /\ WF_leasingVars(Sync)

FairSpec == LeasingSpec /\ Fairness

-----------------------------------------------------------------------------
(* Properties.                                                              *)

\* An endpoint's allocation is always the demand of the leases it lists: no
\* admission, eviction, release or repair counts a lease twice or forgets one.
LedgerBalances ==
  \A e \in Endpoints : endpoint[e].allocated = Total(endpoint[e].active)

\* The runs that work on a Running lease of an endpoint ask for no more than
\* its KV memory less the headroom, whatever the caches show and wherever a
\* reconciliation was cut off.
AdmittedWorkFits ==
  \A e \in Endpoints :
    Total({l \in Leases : /\ EndpointOf[l] = e
                          /\ run[l] = "Working" /\ lease[l].phase = "Running"})
      <= Cap[e]

\* No lease is evicted for the memory of one that is over or gone
\* (pruneEndpointReservations: an interrupted cleanup must not leave a
\* nonexistent lease consuming capacity).
GhostsEvictNobody ==
  [][\A l \in Leases :
       at = "idle" /\ at' = "evict" /\ cur' = l =>
         Total({k \in endpoint[EndpointOf[l]].active :
                  lease[k].phase \notin Over \cup {"Absent"}}) + Est[l]
           > Cap[EndpointOf[l]]]_leasingVars

\* A lease that may not share an endpoint has its endpoint to itself
\* (inference.md: `Dedicated`, one workflow or attempt).
DedicatedIsAlone ==
  \A l, k \in Leases :
    /\ l # k /\ EndpointOf[l] = EndpointOf[k] /\ ~Shared[l]
    /\ lease[l].phase = "Running"
    => lease[k].phase # "Running"

\* An endpoint that is known to have failed takes no more leases
\* (failure-model.md: stop admission, mark capacity unavailable).
FailedEndpointsAdmitNobody ==
  [][\A e \in Endpoints :
       endpoint[e].phase = "Failed" => endpoint'[e].active \subseteq endpoint[e].active]_leasingVars

\* A run that is over gives its lease up, however it ended.
LeasesEnd ==
  \A l \in Leases :
    run[l] = "Over" ~> lease[l].phase \in Over \cup {"Absent"}

\* A run that waits for its lease gets it, unless the lease or the run ends.
WaitersAreServed ==
  \A l \in Leases :
    lease[l].phase = "Pending" ~>
      lease[l].phase \in Over \cup {"Running", "Absent"}
=============================================================================
