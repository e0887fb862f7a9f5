---------------------------- MODULE ArtifactFlow ----------------------------
(***************************************************************************)
(* How the result of one step becomes the input of another.                *)
(*                                                                         *)
(* An execution leaves its result in the workspace; a collector job copies *)
(* it into the content-addressed store and creates an Artifact; the        *)
(* artifact controller accepts the Artifact; and the workflow controller   *)
(* pins accepted artifacts into the spec of the executions that come       *)
(* later.  When a candidate fails its test the workflow goes back to the   *)
(* test author, who is given the tests the failed candidate was made of.   *)
(*                                                                         *)
(* The plan is the part of the canonical workflow that is repeated.  The   *)
(* change request and the repository revision, which every step also gets, *)
(* are made once and left out.  The acceptance of an Artifact stands for   *)
(* the moment the controllers' caches show it.                             *)
(***************************************************************************)
EXTENDS Integers, Sequences, FiniteSets

CONSTANTS
  MaxIteration,  \* maxWorkflowAttempt of the workflow
  MaxTries,      \* maxAttempts of a step
  MaxEvents,     \* bound on what goes wrong in a behaviour
  Env            \* what may go wrong

EnvEvents == {"fails", "failsLate", "lost", "badResult", "sameBytes",
              "killCollector", "collectorGone", "powerLoss"}

ASSUME FlowAssumption ==
  /\ MaxIteration \in Nat /\ MaxTries \in Nat \ {0}
  /\ MaxEvents \in Nat /\ Env \subseteq EnvEvents

VARIABLES
  attempts,    \* the StepAttempts with their executions and artifacts
  store,       \* contents in the artifact store
  wf,          \* status of the SovereignWorkflow
  refinement,  \* its refinement: where the current iteration comes from
  events

vars == <<attempts, store, wf, refinement, events>>

-----------------------------------------------------------------------------
Plan   == <<"developer", "test-author", "prepare-candidate", "test-candidate",
            "commit-candidate">>
Steps  == {Plan[i] : i \in 1..Len(Plan)}
Agents == {"developer", "test-author"}
stepIndex(s) == CHOOSE i \in 1..Len(Plan) : Plan[i] = s

(* The steps whose outputs a step consumes.                                *)
Inputs(s) ==
  CASE s = "developer"         -> {}
    [] s = "test-author"       -> {"developer"}
    [] s = "prepare-candidate" -> {"developer", "test-author"}
    [] s = "test-candidate"    -> {"prepare-candidate"}
    [] s = "commit-candidate"  -> {"prepare-candidate", "test-candidate"}

TriggerStep == "test-candidate"
RestartStep == "test-author"

(* An attempt, its execution, its artifact and its content go by one       *)
(* identity: the step, the workflow attempt and the retry number.          *)
Attempt == [step : Steps, iteration : 0..MaxIteration, try : 1..MaxTries]
None    == [step |-> "none", iteration |-> 0, try |-> 0]
NoPins  == [s \in Steps |-> None]

Record == [phase : {"created", "pinned", "running", "collecting",
                    "Succeeded", "Failed", "Interrupted"},
           pins  : [Steps -> Attempt \cup {None}],
           seed  : Attempt \cup {None},
           failed : BOOLEAN, retryable : BOOLEAN,
           result : {"none", "invalid", "valid"},
           bytes : Attempt \cup {None},
           job   : {"none", "active", "stored", "created", "succeeded",
                    "failed", "gone"},
           artifact : {"none", "pending", "accepted"}]

TypeOK ==
  /\ DOMAIN attempts \subseteq Attempt
  /\ \A a \in DOMAIN attempts : attempts[a] \in Record
  /\ DOMAIN store \subseteq Attempt
  /\ \A c \in DOMAIN store : store[c] \in {"whole", "torn"}
  /\ wf \in [phase : {"Running", "Succeeded", "Failed"},
             iteration : 0..MaxIteration, active : Attempt]
  /\ refinement \in [trigger : Attempt \cup {None},
                     seed : Attempt \cup {None}]
  /\ events \in 0..MaxEvents

Fresh == [phase |-> "created", pins |-> NoPins, seed |-> None,
          failed |-> FALSE, retryable |-> FALSE, result |-> "none",
          bytes |-> None, job |-> "none", artifact |-> "none"]

First(s, i) == [step |-> s, iteration |-> i, try |-> 1]

Init ==
  /\ attempts = [a \in {First(Plan[1], 0)} |-> Fresh]
  /\ store = [c \in {} |-> "whole"]
  /\ wf = [phase |-> "Running", iteration |-> 0, active |-> First(Plan[1], 0)]
  /\ refinement = [trigger |-> None, seed |-> None]
  /\ events = 0

Happens(e) == e \in Env /\ events < MaxEvents /\ events' = events + 1

-----------------------------------------------------------------------------
(* Selection of the inputs.                                                *)

newerThan(a, b) == \/ a.iteration > b.iteration
                   \/ a.iteration = b.iteration /\ a.try > b.try

Succeeded(a) == attempts[a].phase = "Succeeded"

(* Deviation: failed producers count.                                      *)
EligibleWhateverOutcome(a, s) ==
  {b \in DOMAIN attempts :
     /\ b.step = s /\ b.iteration <= a.iteration
     /\ (a.iteration = 0 \/ stepIndex(s) >= stepIndex(RestartStep))
          => b.iteration = a.iteration}

(* Deviation: only producers of this iteration count.                      *)
EligibleNowOnly(a, s) ==
  {b \in DOMAIN attempts : b.step = s /\ Succeeded(b) /\ b.iteration = a.iteration}

(* inputCandidateForArtifact: what the attempt may consume of step s.  A   *)
(* producer from an earlier workflow attempt counts only if it comes       *)
(* before the step the current one was restarted at.                       *)
Eligible(a, s) ==
  {b \in DOMAIN attempts :
     /\ b.step = s /\ Succeeded(b)
     /\ b.iteration <= a.iteration
     /\ (a.iteration = 0 \/ stepIndex(s) >= stepIndex(RestartStep))
          => b.iteration = a.iteration}

ArtifactAccepted(b) == attempts[b].artifact = "accepted"

(* The newest accepted one is pinned; without one the reconciliation fails *)
(* and is repeated.                                                        *)
Selected(a, s) ==
  {b \in Eligible(a, s) :
     /\ ArtifactAccepted(b)
     /\ \A c \in Eligible(a, s) : ArtifactAccepted(c) => ~newerThan(c, b)}

(* workflowRetryTestInput                                                  *)
Seed(a) == IF a.step = RestartStep /\ a.iteration > 0 THEN refinement.seed ELSE None

resolveStepInputs(a) ==
  /\ wf.phase = "Running" /\ attempts[a].phase = "created"
  /\ \A s \in Inputs(a.step) : Selected(a, s) # {}
  /\ LET pins == [s \in Steps |-> IF s \in Inputs(a.step)
                                 THEN CHOOSE b \in Selected(a, s) : TRUE ELSE None]
     IN  attempts' = [attempts EXCEPT ![a].phase = "pinned", ![a].pins = pins,
                                      ![a].seed = Seed(a)]
  /\ UNCHANGED <<store, wf, refinement, events>>

-----------------------------------------------------------------------------
(* An execution, and the collection of what it leaves.                     *)

Consumed(a) == ({attempts[a].pins[s] : s \in Steps} \cup {attempts[a].seed}) \ {None}

(* The bytes of an input are read with the digest that was pinned.         *)
BytesWhole(a) == \A b \in Consumed(a) : store[attempts[b].bytes] = "whole"

Ends(a, failed, result, bytes) ==
  attempts' = [attempts EXCEPT ![a].phase = "collecting", ![a].job = "active",
                               ![a].failed = failed, ![a].retryable = failed,
                               ![a].result = result, ![a].bytes = bytes]

ReadInputs(a) ==
  /\ attempts[a].phase = "pinned"
  /\ IF BytesWhole(a)
     THEN attempts' = [attempts EXCEPT ![a].phase = "running"]
     ELSE Ends(a, TRUE, "none", None)
  /\ UNCHANGED <<store, wf, refinement, events>>

(* The pod has ended.  It is collected from, whether it succeeded or not.  *)
startCollection(a) ==
  /\ attempts[a].phase = "running"
  /\ \/ Ends(a, FALSE, "valid", a) /\ UNCHANGED events
     \/ /\ Happens("sameBytes")
        /\ \E b \in DOMAIN attempts :
             /\ b.step = a.step /\ attempts[b].bytes # None
             /\ Ends(a, FALSE, "valid", attempts[b].bytes)
     \/ Happens("fails") /\ Ends(a, TRUE, "none", None)
     \/ Happens("failsLate") /\ Ends(a, TRUE, "valid", a)
     \/ Happens("badResult") /\ Ends(a, FALSE, "invalid", None)
  /\ UNCHANGED <<store, wf, refinement>>

(* The pod is gone: nothing is left to collect from.                       *)
LosePod(a) ==
  /\ Happens("lost") /\ attempts[a].phase = "running"
  /\ attempts' = [attempts EXCEPT ![a].phase = "Interrupted", ![a].retryable = TRUE]
  /\ UNCHANGED <<store, wf, refinement>>

JobBecomes(a, state) == attempts' = [attempts EXCEPT ![a].job = state]

(* Deviation: content that exists is taken as it is.                       *)
PutExisting(a) ==
  LET c == attempts[a].bytes IN
  /\ attempts[a].job = "active" /\ attempts[a].result = "valid"
  /\ store' = IF c \in DOMAIN store THEN store
              ELSE [x \in DOMAIN store \cup {c} |-> IF x = c THEN "whole" ELSE store[x]]
  /\ JobBecomes(a, "stored")
  /\ UNCHANGED <<wf, refinement, events>>

(* Put: content that exists is verified, never written again.              *)
Put(a) ==
  LET c == attempts[a].bytes IN
  /\ attempts[a].job = "active" /\ attempts[a].result = "valid"
  /\ IF c \notin DOMAIN store
     THEN /\ store' = [x \in DOMAIN store \cup {c} |->
                         IF x = c THEN "whole" ELSE store[x]]
          /\ JobBecomes(a, "stored")
     ELSE /\ UNCHANGED store
          /\ JobBecomes(a, IF store[c] = "whole" THEN "stored" ELSE "failed")
  /\ UNCHANGED <<wf, refinement, events>>

CreateArtifact(a) ==
  /\ attempts[a].job = "stored"
  /\ attempts' = [attempts EXCEPT ![a].job = "created", ![a].artifact = "pending"]
  /\ UNCHANGED <<store, wf, refinement, events>>

(* Without an artifact, a failed utility's result is collected, a missing  *)
(* or invalid one is refused.                                              *)
CollectorEnds(a) ==
  /\ \/ attempts[a].job = "created" /\ JobBecomes(a, "succeeded")
     \/ /\ attempts[a].job = "active" /\ attempts[a].result # "valid"
        /\ \/ JobBecomes(a, "failed")
           \/ attempts[a].result = "none" /\ JobBecomes(a, "succeeded")
  /\ UNCHANGED <<store, wf, refinement, events>>

(* The job has no second try.                                              *)
KillCollector(a) ==
  /\ Happens("killCollector") /\ attempts[a].job \in {"active", "stored", "created"}
  /\ JobBecomes(a, "failed")
  /\ UNCHANGED <<store, wf, refinement>>

DeleteCollector(a) ==
  /\ Happens("collectorGone")
  /\ attempts[a].phase = "collecting"
  /\ JobBecomes(a, "gone")
  /\ UNCHANGED <<store, wf, refinement>>

(* reconcileCollection of either controller.  It waits for ever for a job  *)
(* that is gone.                                                           *)
CollectionOutcome(a) ==
  LET r == attempts[a] IN
  IF r.job = "succeeded" /\ ~r.failed
  THEN [phase |-> "Succeeded", retryable |-> FALSE]
  ELSE [phase |-> "Failed",
        retryable |-> r.failed /\ r.retryable
                      /\ (r.job = "succeeded" \/ a.step \in Agents)]

reconcileCollection(a) ==
  /\ attempts[a].phase = "collecting" /\ attempts[a].job \in {"succeeded", "failed"}
  /\ LET o == CollectionOutcome(a) IN
     attempts' = [attempts EXCEPT ![a].phase = o.phase, ![a].retryable = o.retryable]
  /\ UNCHANGED <<store, wf, refinement, events>>

(* The artifact controller checks metadata and claims; the collector has   *)
(* already refused what it would reject.                                   *)
Accept(a) ==
  /\ attempts[a].artifact = "pending"
  /\ attempts' = [attempts EXCEPT ![a].artifact = "accepted"]
  /\ UNCHANGED <<store, wf, refinement, events>>

(* A node stops before its file system has written a file of the store     *)
(* back: rename without fsync.                                             *)
PowerLoss ==
  /\ Happens("powerLoss")
  /\ \E c \in DOMAIN store :
       /\ store[c] = "whole"
       /\ store' = [store EXCEPT ![c] = "torn"]
  /\ UNCHANGED <<attempts, wf, refinement>>

-----------------------------------------------------------------------------
(* The workflow controller.                                                *)

createAttempt(a) ==
  /\ attempts' = [b \in DOMAIN attempts \cup {a} |->
                    IF b = a THEN Fresh ELSE attempts[b]]

Deciding(phases) ==
  wf.phase = "Running" /\ attempts[wf.active].phase \in phases

Advance ==
  LET next == stepIndex(wf.active.step) + 1 IN
  /\ Deciding({"Succeeded"}) /\ next <= Len(Plan)
  /\ createAttempt(First(Plan[next], wf.iteration))
  /\ wf' = [wf EXCEPT !.active = First(Plan[next], wf.iteration)]
  /\ UNCHANGED <<store, refinement, events>>

finalStepOutputsAccepted ==
  /\ Deciding({"Succeeded"}) /\ wf.active.step = Plan[Len(Plan)]
  /\ ArtifactAccepted(wf.active)
  /\ wf' = [wf EXCEPT !.phase = "Succeeded"]
  /\ UNCHANGED <<attempts, store, refinement, events>>

Rewinds == attempts[wf.active].phase = "Failed" /\ wf.active.step = TriggerStep

(* recoveryInputPath: from the failed attempt through what it consumed, to *)
(* a depth of two and through utilities only, to an attempt of the step    *)
(* that is restarted.                                                      *)
Pinned(a) == {attempts[a].pins[s] : s \in Steps} \ {None}

recoveryInputPath(a) ==
  {b \in Pinned(a) \cup UNION {Pinned(c) : c \in {d \in Pinned(a) : d.step \notin Agents}} :
     b.step = RestartStep}

(* captureWorkflowRecovery, beginWorkflowRetry and createAttempt.          *)
beginWorkflowRetry ==
  LET first == First(RestartStep, wf.iteration + 1)
      prior == recoveryInputPath(wf.active) IN
  /\ Deciding({"Failed"}) /\ Rewinds /\ wf.iteration < MaxIteration
  /\ Cardinality(prior) <= 1
  /\ refinement' = [trigger |-> wf.active,
                    seed |-> IF prior = {} THEN None ELSE CHOOSE b \in prior : TRUE]
  /\ createAttempt(first)
  /\ wf' = [wf EXCEPT !.iteration = @ + 1, !.active = first]
  /\ UNCHANGED <<store, events>>

RetryStep ==
  /\ Deciding({"Failed", "Interrupted"}) /\ ~Rewinds
  /\ attempts[wf.active].retryable /\ wf.active.try < MaxTries
  /\ LET next == [wf.active EXCEPT !.try = @ + 1] IN
     createAttempt(next) /\ wf' = [wf EXCEPT !.active = next]
  /\ UNCHANGED <<store, refinement, events>>

failWorkflow ==
  /\ Deciding({"Failed", "Interrupted"})
  /\ IF Rewinds THEN wf.iteration = MaxIteration
     ELSE ~attempts[wf.active].retryable \/ wf.active.try = MaxTries
  /\ wf' = [wf EXCEPT !.phase = "Failed"]
  /\ UNCHANGED <<attempts, store, refinement, events>>

-----------------------------------------------------------------------------
Decide == \/ Advance \/ finalStepOutputsAccepted \/ beginWorkflowRetry
          \/ RetryStep \/ failWorkflow

Execute(a) == \/ resolveStepInputs(a) \/ ReadInputs(a) \/ startCollection(a)
              \/ reconcileCollection(a)

Collect(a) == Put(a) \/ CreateArtifact(a) \/ CollectorEnds(a) \/ Accept(a)

Next ==
  \/ Decide \/ PowerLoss
  \/ \E a \in DOMAIN attempts :
       \/ Execute(a) \/ Collect(a)
       \/ LosePod(a) \/ KillCollector(a) \/ DeleteCollector(a)

Spec == Init /\ [][Next]_vars

(* The controllers are requeued, a pod ends, a job runs, artifacts are     *)
(* validated.                                                              *)
Fairness ==
  /\ WF_vars(Decide)
  /\ WF_vars(\E a \in DOMAIN attempts : Execute(a))
  /\ WF_vars(\E a \in DOMAIN attempts : Collect(a))

FairSpec == Spec /\ Fairness

-----------------------------------------------------------------------------
(* All that a step consumes comes from one line of work: if two of its     *)
(* inputs rest on the output of a third step, they rest on the same one.   *)
(* So what is committed is the candidate whose test passed, and a          *)
(* candidate combines tests with the change they were written for, however *)
(* often steps were retried and the workflow rewound, and however late     *)
(* artifacts are accepted (inputCandidateForArtifact, newerThan).          *)
LineageAgrees ==
  \A a \in DOMAIN attempts : \A p, q \in Pinned(a) :
    attempts[q].pins[p.step] \in {p, None}

(* The test author repairs the tests of the candidate that failed last     *)
(* ("Follow consumed pins, never the latest output of a matching step",    *)
(* recovery_audit.go:51).                                                  *)
RepairsWhatFailed ==
  \A a \in DOMAIN attempts :
    a.step = RestartStep /\ a.iteration > 0 /\ attempts[a].phase # "created" =>
      \E t \in DOMAIN attempts :
        /\ t.step = TriggerStep /\ t.iteration = a.iteration - 1
        /\ attempts[t].phase = "Failed"
        /\ attempts[a].seed
             = attempts[attempts[t].pins["prepare-candidate"]].pins[RestartStep]

(* No execution works on bytes other than those that were pinned, and no   *)
(* Artifact is created for bytes that are not in the store, after a power  *)
(* loss too (Put, Verify, ReadInputArtifact).                              *)
OnlyWholeBytes ==
  [][\A a \in DOMAIN attempts :
       /\ attempts[a].phase = "pinned" /\ attempts'[a].phase = "running" =>
            BytesWhole(a)
       /\ attempts[a].job = "active" /\ attempts'[a].job = "stored" =>
            store'[attempts[a].bytes] = "whole"]_vars

(* The workflow ends, unless a collector job was removed before its end    *)
(* was seen (reconcileCollection, agentrun_controller.go:567).             *)
WorkflowEnds ==
  <>(wf.phase \in {"Succeeded", "Failed"} \/ attempts[wf.active].job = "gone")

(* The inputs of a step fit together and belong to the try it repairs.     *)
InputsAgree == TypeOK /\ LineageAgrees /\ RepairsWhatFailed
=============================================================================
