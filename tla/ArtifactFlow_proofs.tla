------------------------ MODULE ArtifactFlow_proofs ------------------------
EXTENDS ArtifactFlow, TLAPS

-----------------------------------------------------------------------------
(* The inductive invariant.                                                 *)

\* An attempt that has ended.
Done == {"Succeeded", "Failed", "Interrupted"}

\* The active attempt is the last one.
Latest ==
  /\ wf.active \in DOMAIN attempts /\ wf.active.iteration = wf.iteration
  /\ \A a \in DOMAIN attempts :
       /\ a.iteration <= wf.iteration
       /\ a.iteration = wf.iteration => stepIndex(a.step) <= stepIndex(wf.active.step)
       /\ a.iteration = wf.iteration /\ a.step = wf.active.step => a.try <= wf.active.try

\* The others have ended, and those it repeats without success.
Ended ==
  \A a \in DOMAIN attempts : a # wf.active =>
    /\ attempts[a].phase \in Done
    /\ a.iteration = wf.iteration /\ a.step = wf.active.step => ~Succeeded(a)

\* A step succeeds once in an iteration, and the developer's once.
OneSuccess ==
  /\ \A a, b \in DOMAIN attempts :
       /\ a.step = b.step /\ a.iteration = b.iteration
       /\ Succeeded(a) /\ Succeeded(b)
       => a = b
  /\ \A a \in DOMAIN attempts : a.step = "developer" => a.iteration = 0

\* b may be pinned by a for its input of step s.
Fits(b, a, s) ==
  /\ b \in DOMAIN attempts /\ b.step = s /\ Succeeded(b) /\ ArtifactAccepted(b)
  /\ s # "developer" => b.iteration = a.iteration

\* Pins are set with the phase, and fit.
PinsFit ==
  \A a \in DOMAIN attempts : \A s \in Steps :
    IF s \in Inputs(a.step) /\ attempts[a].phase # "created"
    THEN Fits(attempts[a].pins[s], a, s) ELSE attempts[a].pins[s] = None

\* t is the failed test of the iteration before a, and seed the tests it failed on.
Repaired(a, seed) ==
  \E t \in DOMAIN attempts :
    /\ t.step = TriggerStep /\ t.iteration = a.iteration - 1
    /\ attempts[t].phase = "Failed"
    /\ seed = attempts[attempts[t].pins["prepare-candidate"]].pins[RestartStep]

\* So is a seed, where there is one.
SeedsFit ==
  /\ wf.iteration > 0 => Repaired(wf.active, refinement.seed)
  /\ \A a \in DOMAIN attempts :
       a.step = RestartStep /\ a.iteration > 0 /\ attempts[a].phase # "created" =>
         Repaired(a, attempts[a].seed)
  /\ \A a \in DOMAIN attempts : attempts[a].seed # None =>
       a.step = RestartStep /\ a.iteration > 0 /\ attempts[a].phase # "created"

\* Before the execution has ended, and before there is an artifact.
Unstarted == {"created", "pinned", "running"}
Earlier == {"none", "active", "stored"}

\* What is collected has bytes, and they are stored before there is an artifact.
StoredOne(a) ==
  /\ attempts[a].result = "valid" <=> attempts[a].bytes # None
  /\ attempts[a].job \in {"stored", "created"} \/ attempts[a].artifact # "none" =>
       attempts[a].result = "valid" /\ attempts[a].bytes \in DOMAIN store
  /\ attempts[a].phase \in Unstarted => attempts[a].job = "none"
  /\ attempts[a].job \in Earlier => attempts[a].artifact = "none"

Stored == \A a \in DOMAIN attempts : StoredOne(a)

Inv == TypeOK /\ Latest /\ Ended /\ OneSuccess /\ PinsFit /\ SeedsFit /\ Stored

-----------------------------------------------------------------------------
(* The plan.                                                                *)

\* The plan, its order,
LEMMA PlanIs ==
  /\ Len(Plan) = 5 /\ Plan[1] = "developer" /\ Plan[2] = "test-author"
  /\ Plan[3] = "prepare-candidate" /\ Plan[4] = "test-candidate" /\ Plan[5] = "commit-candidate"
  /\ Steps = {"developer", "test-author", "prepare-candidate", "test-candidate",
              "commit-candidate"}
<1>1. /\ Len(Plan) = 5 /\ Plan[1] = "developer" /\ Plan[2] = "test-author"
      /\ Plan[3] = "prepare-candidate" /\ Plan[4] = "test-candidate" /\ Plan[5] = "commit-candidate"
  BY DEF Plan
<1>2. 1..Len(Plan) = {1, 2, 3, 4, 5}
  BY <1>1
<1> QED
  BY <1>1, <1>2 DEF Steps

\* the place of a step in it,
LEMMA IndexIs ==
  /\ stepIndex("developer") = 1 /\ stepIndex("test-author") = 2
  /\ stepIndex("prepare-candidate") = 3 /\ stepIndex("test-candidate") = 4
  /\ stepIndex("commit-candidate") = 5
<1>1. ASSUME NEW i \in 1..5
      PROVE  stepIndex(Plan[i]) = i
  <2>1. \A j \in 1..Len(Plan) : Plan[j] = Plan[i] => j = i
    BY PlanIs
  <2> QED
    BY <2>1, PlanIs DEF stepIndex
<1> QED
  BY <1>1, PlanIs

\* and what a step consumes.
LEMMA InputsAre ==
  /\ Inputs("developer") = {} /\ Inputs("test-author") = {"developer"}
  /\ Inputs("prepare-candidate") = {"developer", "test-author"}
  /\ Inputs("test-candidate") = {"prepare-candidate"}
  /\ Inputs("commit-candidate") = {"prepare-candidate", "test-candidate"}
  BY DEF Inputs

\* An attempt by its parts; none is no attempt.
LEMMA AttemptIs ==
  /\ \A a \in Attempt : /\ a.step \in Steps /\ a.iteration \in 0..MaxIteration
                        /\ a.try \in 1..MaxTries
                        /\ a.iteration \in Nat /\ a.try \in Nat
                        /\ stepIndex(a.step) \in 1..5
  /\ None \notin Attempt
<1>1. \A a \in Attempt : /\ a.step \in Steps /\ a.iteration \in 0..MaxIteration
                         /\ a.try \in 1..MaxTries
  BY DEF Attempt
<1>2. \A s \in Steps : stepIndex(s) \in 1..5
  BY PlanIs, IndexIs
<1>3. None \notin Attempt
  BY <1>1, PlanIs DEF None
<1> QED
  BY <1>1, <1>2, <1>3, FlowAssumption

-----------------------------------------------------------------------------
(* Steps that change one attempt.                                           *)

\* What the steps of an attempt's execution and of its collection do to the attempts.
Pins(a, r) ==
  /\ \A s \in Steps : IF s \in Inputs(a.step) THEN Fits(r.pins[s], a, s) ELSE r.pins[s] = None
  /\ r.seed = Seed(a)

\* What the steps of an attempt's execution and of its collection do to the attempts.
Moves(a) ==
  /\ UNCHANGED <<wf, refinement>> /\ DOMAIN attempts' = DOMAIN attempts
  /\ \A b \in DOMAIN attempts : b # a => attempts'[b] = attempts[b]
  /\ attempts[a].phase \in Done => attempts'[a].phase = attempts[a].phase
  /\ \/ /\ attempts'[a].pins = attempts[a].pins /\ attempts'[a].seed = attempts[a].seed
        /\ attempts'[a].phase = "created" <=> attempts[a].phase = "created"
     \/ /\ attempts[a].phase = "created" /\ attempts'[a].phase = "pinned"
        /\ Pins(a, attempts'[a])
  /\ ArtifactAccepted(a) => ArtifactAccepted(a)'

\* Such a step keeps the order of the attempts, what they are pinned to and what they repair.
LEMMA MovesKeeps ==
  ASSUME Inv, NEW a \in DOMAIN attempts, Moves(a)
  PROVE  Latest' /\ Ended' /\ OneSuccess' /\ PinsFit' /\ SeedsFit'
<1>1. /\ wf' = wf /\ refinement' = refinement /\ DOMAIN attempts' = DOMAIN attempts
      /\ \A b \in DOMAIN attempts : b # a => attempts'[b] = attempts[b]
      /\ DOMAIN attempts \subseteq Attempt
  BY DEF Moves, Inv, TypeOK
<1>2. \A b \in DOMAIN attempts :
        attempts[b].phase \in Done => attempts'[b].phase = attempts[b].phase
  BY <1>1 DEF Moves
<1>3. \A b \in DOMAIN attempts : ArtifactAccepted(b) => ArtifactAccepted(b)'
  BY <1>1 DEF Moves, ArtifactAccepted
<1>4. \A b \in DOMAIN attempts : Succeeded(b) => Succeeded(b)'
  BY <1>2 DEF Succeeded, Done
<1>5. \A b, c : \A s : Fits(b, c, s) => Fits(b, c, s)'
  BY <1>1, <1>3, <1>4 DEF Fits
<1>6. Latest'
  BY <1>1 DEF Inv, Latest
<1>7. Ended'
  BY <1>1, <1>2 DEF Inv, Ended, Done, Succeeded
<1>8. OneSuccess'
  <2>1. \A b \in DOMAIN attempts : b # wf.active => (Succeeded(b)' <=> Succeeded(b))
    BY <1>1, <1>2 DEF Inv, Ended, Succeeded
  <2>2. \A b \in DOMAIN attempts :
          b # wf.active /\ b.step = wf.active.step /\ b.iteration = wf.active.iteration
            => ~Succeeded(b)'
    BY <2>1 DEF Inv, Ended, Latest
  <2>3. ASSUME NEW b \in DOMAIN attempts, NEW c \in DOMAIN attempts,
               b.step = c.step, b.iteration = c.iteration, Succeeded(b)', Succeeded(c)'
        PROVE  b = c
    <3>1. CASE b # wf.active /\ c # wf.active
      BY <2>1, <2>3, <3>1 DEF Inv, OneSuccess
    <3>2. CASE b = wf.active \/ c = wf.active
      BY <2>2, <2>3, <3>2
    <3> QED
      BY <3>1, <3>2
  <2> QED
    BY <1>1, <2>3 DEF Inv, OneSuccess
<1>9. PinsFit'
  <2>1. ASSUME NEW b \in DOMAIN attempts, NEW s \in Steps
        PROVE  (IF s \in Inputs(b.step) /\ attempts[b].phase # "created"
                THEN Fits(attempts[b].pins[s], b, s) ELSE attempts[b].pins[s] = None)'
    <3>1. IF s \in Inputs(b.step) /\ attempts[b].phase # "created"
          THEN Fits(attempts[b].pins[s], b, s) ELSE attempts[b].pins[s] = None
      BY DEF Inv, PinsFit
    <3>2. CASE /\ attempts'[b].pins = attempts[b].pins
               /\ attempts'[b].phase = "created" <=> attempts[b].phase = "created"
      <4>1. CASE s \in Inputs(b.step) /\ attempts[b].phase # "created"
        BY <1>1, <1>3, <1>4, <3>1, <3>2, <4>1 DEF Fits
      <4> QED
        BY <3>1, <3>2, <4>1
    <3>3. CASE b = a /\ attempts'[a].phase = "pinned" /\ Pins(a, attempts'[a])
      <4>1. CASE s \in Inputs(b.step)
        <5>1. Fits(attempts'[b].pins[s], b, s)
          BY <3>3, <4>1 DEF Pins
        <5> QED
          BY <1>1, <1>3, <1>4, <3>3, <4>1, <5>1 DEF Fits
      <4> QED
        BY <3>3, <4>1 DEF Pins
    <3> QED
      BY <1>1, <3>2, <3>3 DEF Moves
  <2> QED
    BY <1>1, <2>1 DEF PinsFit
<1>10. SeedsFit'
  <2>1. ASSUME NEW b, NEW seed, b \in DOMAIN attempts, Repaired(b, seed)
        PROVE  \E t \in DOMAIN attempts :
                 /\ t.step = TriggerStep /\ t.iteration = b.iteration - 1
                 /\ attempts'[t].phase = "Failed"
                 /\ seed = attempts'[attempts'[t].pins["prepare-candidate"]].pins[RestartStep]
    <3>1. PICK t \in DOMAIN attempts :
            /\ t.step = TriggerStep /\ t.iteration = b.iteration - 1
            /\ attempts[t].phase = "Failed"
            /\ seed = attempts[attempts[t].pins["prepare-candidate"]].pins[RestartStep]
      BY <2>1 DEF Repaired
    <3>2. /\ attempts'[t].phase = "Failed" /\ attempts'[t].pins = attempts[t].pins
      BY <1>1, <1>2, <3>1 DEF Moves, Done
    <3> DEFINE p == attempts[t].pins["prepare-candidate"]
    <3>3. Fits(p, t, "prepare-candidate")
      BY <3>1, InputsAre, PlanIs DEF Inv, PinsFit, TriggerStep
    <3>4. attempts'[p].pins = attempts[p].pins
      BY <1>1, <3>3 DEF Moves, Fits, Succeeded
    <3> QED
      BY <3>1, <3>2, <3>4
  <2>2. ASSUME NEW b \in DOMAIN attempts, b.step = RestartStep, b.iteration > 0,
               attempts'[b].phase # "created"
        PROVE  Repaired(b, attempts[b].seed)'
    <3>1. Repaired(b, attempts'[b].seed)
      <4>1. CASE /\ attempts'[b].seed = attempts[b].seed
                 /\ attempts'[b].phase = "created" <=> attempts[b].phase = "created"
        BY <2>2, <4>1 DEF Inv, SeedsFit
      <4>2. CASE b = a /\ attempts[a].phase = "created" /\ Pins(a, attempts'[a])
        <5>1. b = wf.active
          BY <4>2 DEF Inv, Ended, Done
        <5>2. wf.iteration > 0 /\ attempts'[b].seed = refinement.seed
          BY <2>2, <4>2, <5>1 DEF Pins, Seed, Inv, Latest
        <5> QED
          BY <5>1, <5>2 DEF Inv, SeedsFit
      <4> QED
        BY <1>1, <4>1, <4>2 DEF Moves
    <3>2. \E t \in DOMAIN attempts :
            /\ t.step = TriggerStep /\ t.iteration = b.iteration - 1
            /\ attempts'[t].phase = "Failed"
            /\ attempts'[b].seed
                 = attempts'[attempts'[t].pins["prepare-candidate"]].pins[RestartStep]
      BY <2>1, <3>1
    <3> QED
      BY <1>1, <3>2 DEF Repaired
  <2>3. ASSUME wf'.iteration > 0
        PROVE  Repaired(wf.active, refinement.seed)'
    <3>1. wf.active \in DOMAIN attempts /\ Repaired(wf.active, refinement.seed)
      BY <1>1, <2>3 DEF Inv, SeedsFit, Latest
    <3>2. \E t \in DOMAIN attempts :
            /\ t.step = TriggerStep /\ t.iteration = wf.active.iteration - 1
            /\ attempts'[t].phase = "Failed"
            /\ refinement.seed
                 = attempts'[attempts'[t].pins["prepare-candidate"]].pins[RestartStep]
      BY <2>1, <3>1
    <3> QED
      BY <1>1, <3>2 DEF Repaired
  <2>4. ASSUME NEW b \in DOMAIN attempts, attempts'[b].seed # None
        PROVE  b.step = RestartStep /\ b.iteration > 0 /\ attempts'[b].phase # "created"
    <3>1. CASE /\ attempts'[b].seed = attempts[b].seed
               /\ attempts'[b].phase = "created" <=> attempts[b].phase = "created"
      BY <2>4, <3>1 DEF Inv, SeedsFit
    <3>2. CASE b = a /\ attempts'[a].phase = "pinned" /\ Pins(a, attempts'[a])
      BY <2>4, <3>2 DEF Pins, Seed
    <3> QED
      BY <1>1, <3>1, <3>2 DEF Moves
  <2> QED
    BY <1>1, <2>2, <2>3, <2>4 DEF SeedsFit
<1> QED
  BY <1>6, <1>7, <1>8, <1>9, <1>10

\* A record by its fields.
LEMMA RecordIs ==
  ASSUME NEW r \in Record
  PROVE  /\ r.phase \in {"created", "pinned", "running", "collecting", "Succeeded", "Failed",
                         "Interrupted"}
         /\ r.pins \in [Steps -> Attempt \cup {None}] /\ r.seed \in Attempt \cup {None}
         /\ r.failed \in BOOLEAN /\ r.retryable \in BOOLEAN
         /\ r.result \in {"none", "invalid", "valid"} /\ r.bytes \in Attempt \cup {None}
         /\ r.job \in {"none", "active", "stored", "created", "succeeded", "failed", "gone"}
         /\ r.artifact \in {"none", "pending", "accepted"}
  BY DEF Record

\* The count of events stays within its bound.
LEMMA HappensTyped ==
  ASSUME TypeOK, NEW e, Happens(e)
  PROVE  events' \in 0..MaxEvents
  BY FlowAssumption DEF TypeOK, Happens

\* So it keeps the invariant, if the new record does.
LEMMA Updated ==
  ASSUME Inv, NEW a \in DOMAIN attempts, Moves(a), attempts'[a] \in Record, StoredOne(a)',
         DOMAIN store \subseteq DOMAIN store', DOMAIN store' \subseteq Attempt,
         \A c \in DOMAIN store' : store'[c] \in {"whole", "torn"},
         events' \in 0..MaxEvents
  PROVE  Inv'
<1>1. Latest' /\ Ended' /\ OneSuccess' /\ PinsFit' /\ SeedsFit'
  BY MovesKeeps
<1>2. /\ wf' = wf /\ refinement' = refinement /\ DOMAIN attempts' = DOMAIN attempts
      /\ \A b \in DOMAIN attempts : b # a => attempts'[b] = attempts[b]
  BY DEF Moves
<1>3. TypeOK'
  BY <1>2 DEF Inv, TypeOK
<1>4. Stored'
  BY <1>2 DEF Inv, Stored, StoredOne
<1> QED
  BY <1>1, <1>3, <1>4 DEF Inv

\* What the invariant says of one attempt.
LEMMA Before ==
  ASSUME Inv, NEW a \in DOMAIN attempts
  PROVE  /\ a \in Attempt /\ attempts[a] \in Record /\ StoredOne(a)
         /\ DOMAIN store \subseteq Attempt /\ events \in 0..MaxEvents
         /\ \A c \in DOMAIN store : store[c] \in {"whole", "torn"}
         /\ refinement.seed \in Attempt \cup {None}
  BY DEF Inv, TypeOK, Stored, StoredOne

\* An input that is selected fits: a later step than the developer's counts only if it is of the
\* same iteration (inputCandidateForArtifact).
LEMMA SelectedFits ==
  ASSUME Inv, NEW a \in DOMAIN attempts, NEW s \in Steps, NEW b \in Selected(a, s)
  PROVE  Fits(b, a, s) /\ b \in Attempt
<1>1. /\ b \in DOMAIN attempts /\ b.step = s /\ Succeeded(b) /\ ArtifactAccepted(b)
      /\ (a.iteration = 0 \/ stepIndex(s) >= stepIndex(RestartStep)) => b.iteration = a.iteration
  BY DEF Selected, Eligible
<1>2. s # "developer" => stepIndex(s) >= stepIndex(RestartStep)
  BY PlanIs, IndexIs DEF RestartStep
<1> QED
  BY <1>1, <1>2 DEF Fits, Inv, TypeOK

\* Inputs are pinned.
LEMMA ResolveKeeps ==
  ASSUME Inv, NEW a \in DOMAIN attempts, resolveStepInputs(a)
  PROVE  Inv'
<1> DEFINE pins == [s \in Steps |-> IF s \in Inputs(a.step)
                                    THEN CHOOSE b \in Selected(a, s) : TRUE ELSE None]
<1>1. /\ attempts[a].phase = "created" /\ \A s \in Inputs(a.step) : Selected(a, s) # {}
      /\ attempts' = [attempts EXCEPT ![a].phase = "pinned", ![a].pins = pins, ![a].seed = Seed(a)]
      /\ UNCHANGED <<store, wf, refinement, events>>
  BY DEF resolveStepInputs
<1>2. \A s \in Steps : IF s \in Inputs(a.step)
                       THEN Fits(pins[s], a, s) /\ pins[s] \in Attempt ELSE pins[s] = None
  <2>1. ASSUME NEW s \in Steps, s \in Inputs(a.step)
        PROVE  pins[s] \in Selected(a, s)
    BY <1>1, <2>1
  <2> QED
    BY <2>1, SelectedFits
<1>3. pins \in [Steps -> Attempt \cup {None}] /\ Seed(a) \in Attempt \cup {None}
  BY <1>2, Before DEF Seed
<1> HIDE DEF pins
<1>4. attempts[a] \in Record
  BY Before
<1>5. /\ attempts'[a] \in Record
      /\ attempts'[a].phase = "pinned" /\ attempts'[a].pins = pins /\ attempts'[a].seed = Seed(a)
      /\ attempts'[a].result = attempts[a].result /\ attempts'[a].bytes = attempts[a].bytes
      /\ attempts'[a].job = attempts[a].job /\ attempts'[a].artifact = attempts[a].artifact
      /\ DOMAIN attempts' = DOMAIN attempts
      /\ \A b \in DOMAIN attempts : b # a => attempts'[b] = attempts[b]
  BY <1>1, <1>3, <1>4 DEF Record
<1>6. Moves(a)
  BY <1>1, <1>2, <1>5 DEF Moves, Pins, Done, ArtifactAccepted
<1>7. StoredOne(a)'
  BY <1>1, <1>5, Before DEF StoredOne, Unstarted
<1> QED
  BY <1>1, <1>5, <1>6, <1>7, Before, Updated

\* The attempt gets the record r, and no other changes.
OnlyChanged(a, r) ==
  /\ attempts'[a] = r /\ DOMAIN attempts' = DOMAIN attempts
  /\ \A b \in DOMAIN attempts : b # a => attempts'[b] = attempts[b]

\* A step of the execution or of the collection that is past the pins.
LEMMA LaterKeeps ==
  ASSUME Inv, NEW a \in DOMAIN attempts, NEW r \in Record, OnlyChanged(a, r),
         UNCHANGED <<wf, refinement>>,
         r.pins = attempts[a].pins, r.seed = attempts[a].seed,
         \/ r.phase = attempts[a].phase
         \/ attempts[a].phase \notin Done \cup {"created"} /\ r.phase # "created",
         r.artifact = attempts[a].artifact \/ ~ArtifactAccepted(a),
         r.result = "valid" <=> r.bytes # None,
         r.job \in {"stored", "created"} \/ r.artifact # "none" =>
           r.result = "valid" /\ r.bytes \in DOMAIN store',
         r.phase \in Unstarted => r.job = "none", r.job \in Earlier => r.artifact = "none",
         DOMAIN store \subseteq DOMAIN store', DOMAIN store' \subseteq Attempt,
         \A c \in DOMAIN store' : store'[c] \in {"whole", "torn"},
         events' \in 0..MaxEvents
  PROVE  Inv'
<1>1. /\ attempts'[a] = r /\ DOMAIN attempts' = DOMAIN attempts
      /\ \A b \in DOMAIN attempts : b # a => attempts'[b] = attempts[b]
  BY DEF OnlyChanged
<1>2. Moves(a)
  BY <1>1 DEF Moves, ArtifactAccepted
<1>3. StoredOne(a)'
  BY <1>1 DEF StoredOne
<1> QED
  BY <1>1, <1>2, <1>3, Updated

-----------------------------------------------------------------------------
(* The execution of an attempt, and the collection.                         *)

\* The collector job changes state.
LEMMA JobKeeps ==
  ASSUME Inv, NEW a \in DOMAIN attempts, NEW j, JobBecomes(a, j),
         UNCHANGED <<wf, refinement>>,
         j \in {"none", "active", "stored", "created", "succeeded", "failed", "gone"},
         attempts[a].phase \notin Unstarted, j \in Earlier => attempts[a].artifact = "none",
         j \in {"stored", "created"} =>
           attempts[a].result = "valid" /\ attempts[a].bytes \in DOMAIN store',
         DOMAIN store \subseteq DOMAIN store', DOMAIN store' \subseteq Attempt,
         \A c \in DOMAIN store' : store'[c] \in {"whole", "torn"},
         events' \in 0..MaxEvents
  PROVE  Inv'
<1> DEFINE r == [attempts[a] EXCEPT !.job = j]
<1>1. attempts[a] \in Record
  BY Before
<1>2. /\ r \in Record /\ r.pins = attempts[a].pins /\ r.seed = attempts[a].seed
      /\ r.phase = attempts[a].phase /\ r.artifact = attempts[a].artifact
      /\ r.result = attempts[a].result /\ r.bytes = attempts[a].bytes /\ r.job = j
  BY <1>1 DEF Record
<1>3. OnlyChanged(a, r)
  BY DEF JobBecomes, OnlyChanged
<1> HIDE DEF r
<1>4. /\ r.result = "valid" <=> r.bytes # None
      /\ r.artifact # "none" => r.result = "valid" /\ r.bytes \in DOMAIN store
  BY <1>2, Before DEF StoredOne
<1> QED
  BY <1>2, <1>3, <1>4, LaterKeeps

\* An execution ends and its collection starts.
LEMMA EndsKeeps ==
  ASSUME Inv, NEW a \in DOMAIN attempts, NEW f \in BOOLEAN,
         NEW res \in {"none", "invalid", "valid"}, NEW bs \in Attempt \cup {None},
         res = "valid" <=> bs # None,
         Ends(a, f, res, bs), attempts[a].phase \in {"pinned", "running"},
         UNCHANGED <<store, wf, refinement>>, events' \in 0..MaxEvents
  PROVE  Inv'
<1>1. attempts[a] \in Record
  BY Before
<1> DEFINE r == [attempts[a] EXCEPT !.phase = "collecting", !.job = "active", !.failed = f,
                                    !.retryable = f, !.result = res, !.bytes = bs]
<1>2. /\ r \in Record /\ r.pins = attempts[a].pins /\ r.seed = attempts[a].seed
      /\ r.phase = "collecting" /\ r.artifact = attempts[a].artifact
      /\ r.result = res /\ r.bytes = bs /\ r.job = "active"
  <2>1. r \in Record
    BY <1>1 DEF Record
  <2>2. /\ r.pins = attempts[a].pins /\ r.seed = attempts[a].seed
        /\ r.artifact = attempts[a].artifact
    BY <1>1 DEF Record
  <2>3. r.phase = "collecting" /\ r.result = res /\ r.bytes = bs /\ r.job = "active"
    BY <1>1 DEF Record
  <2> QED
    BY <2>1, <2>2, <2>3
<1>3. OnlyChanged(a, r)
  BY DEF Ends, OnlyChanged
<1> HIDE DEF r
<1> QED
  BY <1>2, <1>3, Before, LaterKeeps DEF Done, StoredOne, Unstarted, Earlier

\* An execution reads its inputs, or fails because they are not what was pinned.
LEMMA ReadInputsKeeps ==
  ASSUME Inv, NEW a \in DOMAIN attempts, ReadInputs(a)
  PROVE  Inv'
<1>1. attempts[a].phase = "pinned" /\ UNCHANGED <<store, wf, refinement, events>>
  BY DEF ReadInputs
<1>2. attempts[a] \in Record
  BY Before
<1>3. CASE attempts' = [attempts EXCEPT ![a].phase = "running"]
  <2> DEFINE r == [attempts[a] EXCEPT !.phase = "running"]
  <2>1. /\ r \in Record /\ r.pins = attempts[a].pins /\ r.seed = attempts[a].seed
        /\ r.phase = "running" /\ r.artifact = attempts[a].artifact
        /\ r.result = attempts[a].result /\ r.bytes = attempts[a].bytes
        /\ r.job = attempts[a].job
    BY <1>2 DEF Record
  <2>2. OnlyChanged(a, r)
    BY <1>3 DEF OnlyChanged
  <2> HIDE DEF r
  <2> QED
    BY <1>1, <2>1, <2>2, Before, LaterKeeps DEF Done, StoredOne, Unstarted, Earlier
<1>4. CASE Ends(a, TRUE, "none", None)
  BY <1>1, <1>4, Before, EndsKeeps
<1> QED
  BY <1>3, <1>4 DEF ReadInputs

\* A pod ends, one way or another.
LEMMA StartKeeps ==
  ASSUME Inv, NEW a \in DOMAIN attempts, startCollection(a)
  PROVE  Inv'
<1>1. attempts[a].phase = "running" /\ UNCHANGED <<store, wf, refinement>>
  BY DEF startCollection
<1>2. a \in Attempt /\ a # None /\ TypeOK /\ events \in 0..MaxEvents
  BY Before, AttemptIs DEF Inv
<1>3. CASE Ends(a, FALSE, "valid", a) /\ UNCHANGED events
  BY <1>1, <1>2, <1>3, EndsKeeps
<1>4. CASE \E b \in DOMAIN attempts :
             attempts[b].bytes # None /\ Happens("sameBytes")
             /\ Ends(a, FALSE, "valid", attempts[b].bytes)
  <2>1. PICK b \in DOMAIN attempts :
             attempts[b].bytes # None /\ Happens("sameBytes")
             /\ Ends(a, FALSE, "valid", attempts[b].bytes)
    BY <1>4
  <2>2. attempts[b].bytes \in Attempt \cup {None}
    BY Before, RecordIs
  <2>3. events' \in 0..MaxEvents
    BY <1>2, <2>1, HappensTyped
  <2> QED
    BY <1>1, <2>1, <2>2, <2>3, EndsKeeps
<1>5. CASE Happens("fails") /\ Ends(a, TRUE, "none", None)
  <2>1. events' \in 0..MaxEvents
    BY <1>2, <1>5, HappensTyped
  <2> QED
    BY <1>1, <1>5, <2>1, EndsKeeps
<1>6. CASE Happens("failsLate") /\ Ends(a, TRUE, "valid", a)
  <2>1. events' \in 0..MaxEvents
    BY <1>2, <1>6, HappensTyped
  <2> QED
    BY <1>1, <1>2, <1>6, <2>1, EndsKeeps
<1>7. CASE Happens("badResult") /\ Ends(a, FALSE, "invalid", None)
  <2>1. events' \in 0..MaxEvents
    BY <1>2, <1>7, HappensTyped
  <2> QED
    BY <1>1, <1>7, <2>1, EndsKeeps
<1> QED
  BY <1>3, <1>4, <1>5, <1>6, <1>7 DEF startCollection

\* A pod is lost.
LEMMA LoseKeeps ==
  ASSUME Inv, NEW a \in DOMAIN attempts, LosePod(a)
  PROVE  Inv'
<1>1. /\ attempts[a].phase = "running" /\ UNCHANGED <<store, wf, refinement>>
      /\ attempts' = [attempts EXCEPT ![a].phase = "Interrupted", ![a].retryable = TRUE]
  BY DEF LosePod
<1>2. attempts[a] \in Record /\ events' \in 0..MaxEvents
  BY Before, HappensTyped DEF LosePod, Inv
<1> DEFINE r == [attempts[a] EXCEPT !.phase = "Interrupted", !.retryable = TRUE]
<1>3. /\ r \in Record /\ r.pins = attempts[a].pins /\ r.seed = attempts[a].seed
      /\ r.phase = "Interrupted" /\ r.artifact = attempts[a].artifact
      /\ r.result = attempts[a].result /\ r.bytes = attempts[a].bytes
      /\ r.job = attempts[a].job
  BY <1>2 DEF Record
<1>4. OnlyChanged(a, r)
  BY <1>1 DEF OnlyChanged
<1> HIDE DEF r
<1> QED
  BY <1>1, <1>2, <1>3, <1>4, Before, LaterKeeps DEF Done, StoredOne, Unstarted, Earlier

\* A result is stored, or found in the store and verified.
LEMMA PutKeeps ==
  ASSUME Inv, NEW a \in DOMAIN attempts, Put(a)
  PROVE  Inv'
<1> DEFINE c == attempts[a].bytes
<1>1. /\ attempts[a].job = "active" /\ attempts[a].result = "valid"
      /\ UNCHANGED <<wf, refinement, events>>
  BY DEF Put
<1>2. /\ StoredOne(a) /\ c \in Attempt \cup {None} /\ DOMAIN store \subseteq Attempt
      /\ events \in 0..MaxEvents /\ \A x \in DOMAIN store : store[x] \in {"whole", "torn"}
  BY Before, RecordIs
<1>3. c \in Attempt /\ attempts[a].phase \notin Unstarted /\ attempts[a].artifact = "none"
  BY <1>1, <1>2 DEF StoredOne, Unstarted, Earlier
<1>4. CASE c \notin DOMAIN store
  <2>1. /\ store' = [x \in DOMAIN store \cup {c} |-> IF x = c THEN "whole" ELSE store[x]]
        /\ JobBecomes(a, "stored")
    BY <1>4 DEF Put
  <2>2. /\ DOMAIN store' = DOMAIN store \cup {c}
        /\ \A x \in DOMAIN store' : store'[x] \in {"whole", "torn"}
    BY <1>2, <2>1
  <2> QED
    BY <1>1, <1>2, <1>3, <2>1, <2>2, JobKeeps
<1>5. CASE c \in DOMAIN store
  <2>1. store' = store /\ JobBecomes(a, IF store[c] = "whole" THEN "stored" ELSE "failed")
    BY <1>5 DEF Put
  <2>2. PICK j \in {"stored", "failed"} : JobBecomes(a, j)
    BY <2>1
  <2> QED
    BY <1>1, <1>2, <1>3, <1>5, <2>1, <2>2, JobKeeps
<1> QED
  BY <1>4, <1>5

\* The Artifact is created.
LEMMA CreateKeeps ==
  ASSUME Inv, NEW a \in DOMAIN attempts, CreateArtifact(a)
  PROVE  Inv'
<1>1. /\ attempts[a].job = "stored" /\ UNCHANGED <<store, wf, refinement, events>>
      /\ attempts' = [attempts EXCEPT ![a].job = "created", ![a].artifact = "pending"]
  BY DEF CreateArtifact
<1>2. attempts[a] \in Record
  BY Before
<1> DEFINE r == [attempts[a] EXCEPT !.job = "created", !.artifact = "pending"]
<1>3. /\ r \in Record /\ r.pins = attempts[a].pins /\ r.seed = attempts[a].seed
      /\ r.phase = attempts[a].phase /\ r.artifact = "pending"
      /\ r.result = attempts[a].result /\ r.bytes = attempts[a].bytes
      /\ r.job = "created"
  BY <1>2 DEF Record
<1>4. OnlyChanged(a, r)
  BY <1>1 DEF OnlyChanged
<1>5. /\ attempts[a].result = "valid" /\ attempts[a].bytes \in DOMAIN store
      /\ attempts[a].phase \notin Unstarted /\ ~ArtifactAccepted(a)
      /\ attempts[a].result = "valid" <=> attempts[a].bytes # None
  BY <1>1, Before DEF StoredOne, Unstarted, Earlier, ArtifactAccepted
<1> HIDE DEF r
<1> QED
  BY <1>1, <1>2, <1>3, <1>4, <1>5, Before, LaterKeeps DEF Earlier, Unstarted

\* The collector job ends,
LEMMA CollectorEndsKeeps ==
  ASSUME Inv, NEW a \in DOMAIN attempts, CollectorEnds(a)
  PROVE  Inv'
<1>1. PICK j \in {"succeeded", "failed"} : JobBecomes(a, j)
  BY DEF CollectorEnds
<1>2. attempts[a].job \in {"created", "active"} /\ UNCHANGED <<store, wf, refinement, events>>
  BY DEF CollectorEnds
<1>3. attempts[a].phase \notin Unstarted
  BY <1>2, Before DEF StoredOne
<1> QED
  BY <1>1, <1>2, <1>3, Before, JobKeeps DEF Earlier

\* is killed,
LEMMA KillKeeps ==
  ASSUME Inv, NEW a \in DOMAIN attempts, KillCollector(a)
  PROVE  Inv'
<1>1. /\ attempts[a].job \in {"active", "stored", "created"} /\ UNCHANGED <<store, wf, refinement>>
      /\ JobBecomes(a, "failed")
  BY DEF KillCollector
<1>2. events' \in 0..MaxEvents
  BY HappensTyped DEF KillCollector, Inv
<1>3. attempts[a].phase \notin Unstarted
  BY <1>1, Before DEF StoredOne
<1> QED
  BY <1>1, <1>2, <1>3, Before, JobKeeps DEF Earlier

\* or is deleted.
LEMMA DeleteKeeps ==
  ASSUME Inv, NEW a \in DOMAIN attempts, DeleteCollector(a)
  PROVE  Inv'
<1>1. /\ attempts[a].phase = "collecting" /\ UNCHANGED <<store, wf, refinement>>
      /\ JobBecomes(a, "gone")
  BY DEF DeleteCollector
<1>2. events' \in 0..MaxEvents
  BY HappensTyped DEF DeleteCollector, Inv
<1>3. attempts[a].phase \notin Unstarted
  BY <1>1 DEF Unstarted
<1> QED
  BY <1>1, <1>2, <1>3, Before, JobKeeps DEF Earlier

\* The end of the job becomes the outcome of the execution.
LEMMA OutcomeKeeps ==
  ASSUME Inv, NEW a \in DOMAIN attempts, reconcileCollection(a)
  PROVE  Inv'
<1> DEFINE o == CollectionOutcome(a)
<1>1. /\ attempts[a].phase = "collecting" /\ UNCHANGED <<store, wf, refinement, events>>
      /\ attempts' = [attempts EXCEPT ![a].phase = o.phase, ![a].retryable = o.retryable]
  BY DEF reconcileCollection
<1>2. attempts[a] \in Record
  BY Before
<1>3. o.phase \in {"Succeeded", "Failed"} /\ o.retryable \in BOOLEAN
  BY <1>2, RecordIs DEF CollectionOutcome
<1> HIDE DEF o
<1> DEFINE r == [attempts[a] EXCEPT !.phase = o.phase, !.retryable = o.retryable]
<1>4. /\ r \in Record /\ r.pins = attempts[a].pins /\ r.seed = attempts[a].seed
      /\ r.phase \in {"Succeeded", "Failed"} /\ r.artifact = attempts[a].artifact
      /\ r.result = attempts[a].result /\ r.bytes = attempts[a].bytes
      /\ r.job = attempts[a].job
  BY <1>2, <1>3 DEF Record
<1>5. OnlyChanged(a, r)
  BY <1>1 DEF OnlyChanged
<1> HIDE DEF r
<1> QED
  BY <1>1, <1>2, <1>4, <1>5, Before, LaterKeeps DEF Done, StoredOne, Unstarted, Earlier

\* The Artifact is accepted.
LEMMA AcceptKeeps ==
  ASSUME Inv, NEW a \in DOMAIN attempts, Accept(a)
  PROVE  Inv'
<1>1. /\ attempts[a].artifact = "pending" /\ UNCHANGED <<store, wf, refinement, events>>
      /\ attempts' = [attempts EXCEPT ![a].artifact = "accepted"]
  BY DEF Accept
<1>2. attempts[a] \in Record
  BY Before
<1> DEFINE r == [attempts[a] EXCEPT !.artifact = "accepted"]
<1>3. /\ r \in Record /\ r.pins = attempts[a].pins /\ r.seed = attempts[a].seed
      /\ r.phase = attempts[a].phase /\ r.artifact = "accepted"
      /\ r.result = attempts[a].result /\ r.bytes = attempts[a].bytes
      /\ r.job = attempts[a].job
  BY <1>2 DEF Record
<1>4. OnlyChanged(a, r)
  BY <1>1 DEF OnlyChanged
<1> HIDE DEF r
<1> QED
  BY <1>1, <1>3, <1>4, Before, LaterKeeps DEF StoredOne, ArtifactAccepted

\* A power loss changes contents, not which there are.
LEMMA LossKeeps ==
  ASSUME Inv, PowerLoss
  PROVE  Inv'
<1>1. UNCHANGED <<attempts, wf, refinement>> /\ events' \in 0..MaxEvents
  BY HappensTyped DEF PowerLoss, Inv
<1>2. /\ DOMAIN store' = DOMAIN store
      /\ \A c \in DOMAIN store : store'[c] = store[c] \/ store'[c] = "torn"
  BY DEF PowerLoss
<1>3. TypeOK'
  BY <1>1, <1>2 DEF Inv, TypeOK
<1>4. Latest' /\ Ended' /\ OneSuccess'
  BY <1>1 DEF Inv, Latest, Ended, OneSuccess, Succeeded
<1>5. PinsFit'
  BY <1>1 DEF Inv, PinsFit, Fits, Succeeded, ArtifactAccepted
<1>6. SeedsFit'
  BY <1>1 DEF Inv, SeedsFit, Repaired
<1>7. Stored'
  BY <1>1, <1>2 DEF Inv, Stored, StoredOne
<1> QED
  BY <1>3, <1>4, <1>5, <1>6, <1>7 DEF Inv

-----------------------------------------------------------------------------
(* The workflow controller.                                                 *)

\* A new attempt has nothing.
LEMMA FreshIs ==
  /\ Fresh \in Record /\ Fresh.phase = "created" /\ Fresh.pins = NoPins /\ Fresh.seed = None
  /\ Fresh.result = "none" /\ Fresh.bytes = None /\ Fresh.job = "none" /\ Fresh.artifact = "none"
  BY DEF Fresh, Record, NoPins

\* n comes after every attempt there is.
Newer(n) ==
  \/ n.iteration = wf.iteration + 1
  \/ n.iteration = wf.iteration /\ stepIndex(n.step) > stepIndex(wf.active.step)
  \/ /\ n.iteration = wf.iteration /\ n.step = wf.active.step /\ n.try > wf.active.try
     /\ ~Succeeded(wf.active)

\* So it is none of them.
LEMMA NewerIsNew ==
  ASSUME Inv, NEW n \in Attempt, Newer(n)
  PROVE  n \notin DOMAIN attempts
<1>1. SUFFICES ASSUME n \in DOMAIN attempts PROVE FALSE
  OBVIOUS
<1>2. /\ n.iteration <= wf.iteration /\ wf.iteration \in Nat /\ n.iteration \in Nat
      /\ n.iteration = wf.iteration => stepIndex(n.step) <= stepIndex(wf.active.step)
      /\ n.iteration = wf.iteration /\ n.step = wf.active.step => n.try <= wf.active.try
      /\ stepIndex(n.step) \in 1..5 /\ stepIndex(wf.active.step) \in 1..5
      /\ n.try \in Nat /\ wf.active.try \in Nat
  BY <1>1, AttemptIs DEF Inv, Latest, TypeOK
<1> QED
  BY <1>2 DEF Newer

\* Another attempt leaves alone what an attempt repairs.
LEMMA RepairedStays ==
  ASSUME Inv, NEW n \in Attempt, n \notin DOMAIN attempts, createAttempt(n),
         NEW b, NEW seed, Repaired(b, seed)
  PROVE  \E t \in DOMAIN attempts' :
           /\ t.step = TriggerStep /\ t.iteration = b.iteration - 1
           /\ attempts'[t].phase = "Failed"
           /\ seed = attempts'[attempts'[t].pins["prepare-candidate"]].pins[RestartStep]
<1>1. PICK t \in DOMAIN attempts :
        /\ t.step = TriggerStep /\ t.iteration = b.iteration - 1
        /\ attempts[t].phase = "Failed"
        /\ seed = attempts[attempts[t].pins["prepare-candidate"]].pins[RestartStep]
  BY DEF Repaired
<1>2. /\ DOMAIN attempts' = DOMAIN attempts \cup {n}
      /\ \A c \in DOMAIN attempts : attempts'[c] = attempts[c]
  BY DEF createAttempt
<1>3. Fits(attempts[t].pins["prepare-candidate"], t, "prepare-candidate")
  BY <1>1, InputsAre, PlanIs DEF Inv, PinsFit, TriggerStep
<1>4. attempts[t].pins["prepare-candidate"] \in DOMAIN attempts
  BY <1>3 DEF Fits
<1>5. attempts'[t] = attempts[t]
  BY <1>2
<1>6. attempts'[attempts'[t].pins["prepare-candidate"]]
        = attempts[attempts[t].pins["prepare-candidate"]]
  BY <1>2, <1>4, <1>5
<1> QED
  BY <1>1, <1>2, <1>5, <1>6

\* A newer attempt is created when the active one has ended.
LEMMA CreatedKeeps ==
  ASSUME Inv, NEW n \in Attempt, Newer(n), createAttempt(n),
         attempts[wf.active].phase \in Done,
         wf' \in [phase : {"Running"}, iteration : {n.iteration}, active : {n}],
         n.step = "developer" => n.iteration = 0,
         refinement' \in [trigger : Attempt \cup {None}, seed : Attempt \cup {None}],
         n.iteration > 0 => Repaired(n, refinement'.seed),
         UNCHANGED <<store, events>>
  PROVE  Inv'
<1>1. /\ n \notin DOMAIN attempts /\ wf.iteration \in Nat /\ n.iteration \in Nat
      /\ wf'.active = n /\ wf'.iteration = n.iteration /\ wf'.phase = "Running"
  BY NewerIsNew, AttemptIs DEF Inv, Latest, TypeOK
<1>2. /\ DOMAIN attempts' = DOMAIN attempts \cup {n} /\ attempts'[n] = Fresh
      /\ \A b \in DOMAIN attempts : attempts'[b] = attempts[b]
  BY <1>1 DEF createAttempt
<1>3. \A b \in DOMAIN attempts' : b # n => b \in DOMAIN attempts /\ attempts'[b] = attempts[b]
  BY <1>2
<1>4. \A b \in DOMAIN attempts :
        /\ b.iteration \in Nat /\ b.try \in Nat /\ stepIndex(b.step) \in 1..5
        /\ b.iteration <= wf.iteration
        /\ b.iteration = wf.iteration => stepIndex(b.step) <= stepIndex(wf.active.step)
        /\ b.iteration = wf.iteration /\ b.step = wf.active.step => b.try <= wf.active.try
  BY AttemptIs DEF Inv, Latest, TypeOK
<1>5. /\ stepIndex(wf.active.step) \in 1..5 /\ wf.active.try \in Nat
      /\ stepIndex(n.step) \in 1..5 /\ n.try \in Nat
  BY <1>4, AttemptIs DEF Inv, Latest
<1>6. TypeOK'
  <2>1. DOMAIN attempts' \subseteq Attempt /\ \A b \in DOMAIN attempts' : attempts'[b] \in Record
    BY <1>2, FreshIs DEF Inv, TypeOK
  <2>2. wf' \in [phase : {"Running", "Succeeded", "Failed"}, iteration : 0..MaxIteration,
                 active : Attempt]
    BY AttemptIs
  <2> QED
    BY <2>1, <2>2 DEF Inv, TypeOK
<1>7. Latest'
  <2>1. ASSUME NEW b \in DOMAIN attempts
        PROVE  /\ b.iteration <= n.iteration
               /\ b.iteration = n.iteration => stepIndex(b.step) <= stepIndex(n.step)
               /\ b.iteration = n.iteration /\ b.step = n.step => b.try <= n.try
    BY <1>1, <1>4, <1>5 DEF Newer
  <2> QED
    BY <1>1, <1>2, <1>5, <2>1 DEF Latest
<1>8. Ended'
  <2>1. ASSUME NEW b \in DOMAIN attempts
        PROVE  /\ attempts[b].phase \in Done
               /\ b.iteration = n.iteration /\ b.step = n.step => ~Succeeded(b)
    <3>1. attempts[b].phase \in Done
      BY DEF Inv, Ended
    <3>2. ASSUME b.iteration = n.iteration, b.step = n.step
          PROVE  ~Succeeded(b)
      <4>1. /\ n.iteration = wf.iteration /\ n.step = wf.active.step /\ ~Succeeded(wf.active)
        BY <1>1, <1>4, <1>5, <3>2 DEF Newer
      <4> QED
        BY <3>2, <4>1 DEF Inv, Ended
    <3> QED
      BY <3>1, <3>2
  <2> QED
    BY <1>1, <1>2, <2>1 DEF Ended, Succeeded
<1>9. OneSuccess'
  <2>1. \A b \in DOMAIN attempts' : Succeeded(b)' => b \in DOMAIN attempts /\ Succeeded(b)
    BY <1>2, FreshIs DEF Succeeded
  <2>2. ASSUME NEW b \in DOMAIN attempts', NEW c \in DOMAIN attempts',
               b.step = c.step, b.iteration = c.iteration, Succeeded(b)', Succeeded(c)'
        PROVE  b = c
    BY <2>1, <2>2 DEF Inv, OneSuccess
  <2>3. \A b \in DOMAIN attempts' : b.step = "developer" => b.iteration = 0
    BY <1>2 DEF Inv, OneSuccess
  <2> QED
    BY <2>2, <2>3 DEF OneSuccess
<1>10. PinsFit'
  <2>1. ASSUME NEW b \in DOMAIN attempts', NEW s \in Steps
        PROVE  (IF s \in Inputs(b.step) /\ attempts[b].phase # "created"
                THEN Fits(attempts[b].pins[s], b, s) ELSE attempts[b].pins[s] = None)'
    <3>1. CASE b = n
      <4>1. attempts'[b].phase = "created" /\ attempts'[b].pins[s] = None
        BY <1>2, <3>1, FreshIs DEF NoPins
      <4> QED
        BY <4>1
    <3>2. CASE b # n
      <4>1. b \in DOMAIN attempts /\ attempts'[b] = attempts[b]
        BY <1>3, <3>2
      <4>2. IF s \in Inputs(b.step) /\ attempts[b].phase # "created"
            THEN Fits(attempts[b].pins[s], b, s) ELSE attempts[b].pins[s] = None
        BY <4>1 DEF Inv, PinsFit
      <4>3. CASE s \in Inputs(b.step) /\ attempts[b].phase # "created"
        <5>1. Fits(attempts[b].pins[s], b, s)
          BY <4>2, <4>3
        <5>2. Fits(attempts[b].pins[s], b, s)'
          BY <1>2, <4>1, <5>1 DEF Fits, Succeeded, ArtifactAccepted
        <5> QED
          BY <4>1, <4>3, <5>2
      <4>4. CASE ~(s \in Inputs(b.step) /\ attempts[b].phase # "created")
        BY <4>1, <4>2, <4>4
      <4> QED
        BY <4>3, <4>4
    <3> QED
      BY <3>1, <3>2
  <2> QED
    BY <2>1 DEF PinsFit
<1>11. SeedsFit'
  <2>1. ASSUME NEW b \in DOMAIN attempts', b.step = RestartStep, b.iteration > 0,
               attempts'[b].phase # "created"
        PROVE  Repaired(b, attempts[b].seed)'
    <3>1. b \in DOMAIN attempts /\ attempts'[b] = attempts[b]
      BY <1>2, <2>1, FreshIs
    <3>2. Repaired(b, attempts[b].seed)
      BY <2>1, <3>1 DEF Inv, SeedsFit
    <3>3. \E t \in DOMAIN attempts' :
            /\ t.step = TriggerStep /\ t.iteration = b.iteration - 1
            /\ attempts'[t].phase = "Failed"
            /\ attempts[b].seed
                 = attempts'[attempts'[t].pins["prepare-candidate"]].pins[RestartStep]
      BY <1>1, <3>2, RepairedStays
    <3> QED
      BY <3>1, <3>3 DEF Repaired
  <2>2. ASSUME wf'.iteration > 0
        PROVE  Repaired(wf.active, refinement.seed)'
    <3>1. Repaired(n, refinement'.seed)
      BY <1>1, <2>2
    <3>2. \E t \in DOMAIN attempts' :
            /\ t.step = TriggerStep /\ t.iteration = n.iteration - 1
            /\ attempts'[t].phase = "Failed"
            /\ refinement'.seed
                 = attempts'[attempts'[t].pins["prepare-candidate"]].pins[RestartStep]
      BY <1>1, <3>1, RepairedStays
    <3> QED
      BY <1>1, <3>2 DEF Repaired
  <2>3. ASSUME NEW b \in DOMAIN attempts', attempts'[b].seed # None
        PROVE  b.step = RestartStep /\ b.iteration > 0 /\ attempts'[b].phase # "created"
    <3>1. b \in DOMAIN attempts /\ attempts'[b] = attempts[b]
      BY <1>2, <2>3, FreshIs
    <3> QED
      BY <2>3, <3>1 DEF Inv, SeedsFit
  <2> QED
    BY <2>1, <2>2, <2>3 DEF SeedsFit
<1>12. Stored'
  <2>1. ASSUME NEW b \in DOMAIN attempts'
        PROVE  StoredOne(b)'
    <3>1. CASE b = n
      BY <1>2, <3>1, FreshIs DEF StoredOne, Unstarted, Earlier
    <3>2. CASE b # n
      BY <1>3, <3>2, Before DEF StoredOne
    <3> QED
      BY <3>1, <3>2
  <2> QED
    BY <2>1 DEF Stored, StoredOne
<1> QED
  BY <1>6, <1>7, <1>8, <1>9, <1>10, <1>11, <1>12 DEF Inv

\* The types of the active attempt.
LEMMA ActiveIs ==
  ASSUME Inv
  PROVE  /\ wf.active \in DOMAIN attempts /\ wf.active \in Attempt
         /\ wf.active.step \in Steps /\ wf.active.iteration = wf.iteration
         /\ wf.iteration \in 0..MaxIteration /\ wf.active.try \in 1..MaxTries
         /\ wf = [phase |-> wf.phase, iteration |-> wf.iteration, active |-> wf.active]
         /\ refinement \in [trigger : Attempt \cup {None}, seed : Attempt \cup {None}]
         /\ MaxIteration \in Nat /\ MaxTries \in Nat \ {0}
  BY AttemptIs, FlowAssumption DEF Inv, TypeOK, Latest

\* The next step is attempted.
LEMMA AdvanceKeeps ==
  ASSUME Inv, Advance
  PROVE  Inv'
<1> DEFINE i == stepIndex(wf.active.step) + 1
           n == First(Plan[i], wf.iteration)
<1>1. /\ wf.phase = "Running" /\ attempts[wf.active].phase = "Succeeded" /\ i <= Len(Plan)
      /\ createAttempt(n) /\ wf' = [wf EXCEPT !.active = n]
      /\ UNCHANGED <<store, refinement, events>>
  BY DEF Advance, Deciding
<1>2. i \in 2..5 /\ Plan[i] \in Steps /\ Plan[i] # "developer" /\ stepIndex(Plan[i]) = i
  BY <1>1, ActiveIs, PlanIs, IndexIs
<1>3. /\ n \in Attempt /\ n.step = Plan[i] /\ n.iteration = wf.iteration
  BY <1>2, ActiveIs DEF First, Attempt
<1>4. Newer(n)
  BY <1>2, <1>3, ActiveIs, PlanIs, IndexIs DEF Newer
<1>5. n.iteration > 0 => Repaired(n, refinement'.seed)
  BY <1>1, <1>3, ActiveIs DEF Inv, SeedsFit, Repaired
<1>6. wf' \in [phase : {"Running"}, iteration : {n.iteration}, active : {n}]
  BY <1>1, <1>3, ActiveIs
<1> HIDE DEF n, i
<1> QED
  BY <1>1, <1>2, <1>3, <1>4, <1>5, <1>6, ActiveIs, CreatedKeeps DEF Done

\* The step is tried again.
LEMMA RetryKeeps ==
  ASSUME Inv, RetryStep
  PROVE  Inv'
<1> DEFINE n == [wf.active EXCEPT !.try = @ + 1]
<1>1. /\ wf.phase = "Running" /\ attempts[wf.active].phase \in {"Failed", "Interrupted"}
      /\ wf.active.try < MaxTries /\ createAttempt(n) /\ wf' = [wf EXCEPT !.active = n]
      /\ UNCHANGED <<store, refinement, events>>
  BY DEF RetryStep, Deciding
<1>2. /\ n \in Attempt /\ n.step = wf.active.step /\ n.iteration = wf.iteration
      /\ n.try = wf.active.try + 1
  BY <1>1, ActiveIs DEF Attempt
<1>3. Newer(n)
  BY <1>1, <1>2, ActiveIs DEF Newer, Succeeded
<1>4. n.iteration > 0 => Repaired(n, refinement'.seed)
  BY <1>1, <1>2, ActiveIs DEF Inv, SeedsFit, Repaired
<1>5. wf' \in [phase : {"Running"}, iteration : {n.iteration}, active : {n}]
  BY <1>1, <1>2, ActiveIs
<1>6. n.step = "developer" => n.iteration = 0
  BY <1>2, ActiveIs DEF Inv, OneSuccess
<1> HIDE DEF n
<1> QED
  BY <1>1, <1>2, <1>3, <1>4, <1>5, <1>6, ActiveIs, CreatedKeeps DEF Done

\* A failed test leads back to the tests that its candidate was made of.
LEMMA PathIs ==
  ASSUME Inv, NEW a \in DOMAIN attempts, a.step = TriggerStep, attempts[a].phase = "Failed"
  PROVE  /\ recoveryInputPath(a)
              = {attempts[attempts[a].pins["prepare-candidate"]].pins[RestartStep]}
         /\ attempts[attempts[a].pins["prepare-candidate"]].pins[RestartStep] \in Attempt
<1> DEFINE p == attempts[a].pins["prepare-candidate"]
<1>1. /\ Fits(p, a, "prepare-candidate") /\ p # None
      /\ \A s \in Steps \ {"prepare-candidate"} : attempts[a].pins[s] = None
  <2>1. Fits(p, a, "prepare-candidate")
    BY InputsAre, PlanIs DEF Inv, PinsFit, TriggerStep
  <2>2. p # None
    BY <2>1, AttemptIs DEF Inv, TypeOK, Fits
  <2>3. ASSUME NEW s \in Steps \ {"prepare-candidate"}
        PROVE  attempts[a].pins[s] = None
    BY <2>3, InputsAre DEF Inv, PinsFit, TriggerStep
  <2> QED
    BY <2>1, <2>2, <2>3
<1>2. Pinned(a) = {p}
  BY <1>1, PlanIs DEF Pinned
<1>3. p \in DOMAIN attempts /\ p.step = "prepare-candidate" /\ attempts[p].phase = "Succeeded"
  BY <1>1 DEF Fits, Succeeded
<1> HIDE DEF p
<1> DEFINE d == attempts[p].pins["developer"]
           t == attempts[p].pins["test-author"]
<1>4. /\ Fits(d, p, "developer") /\ Fits(t, p, "test-author")
      /\ \A s \in Steps \ {"developer", "test-author"} : attempts[p].pins[s] = None
  <2>1. Fits(d, p, "developer") /\ Fits(t, p, "test-author")
    BY <1>3, InputsAre, PlanIs DEF Inv, PinsFit
  <2>2. ASSUME NEW s \in Steps \ {"developer", "test-author"}
        PROVE  attempts[p].pins[s] = None
    BY <1>3, <2>2, InputsAre DEF Inv, PinsFit
  <2> QED
    BY <2>1, <2>2
<1>5. /\ d.step = "developer" /\ t.step = "test-author" /\ d # None /\ t # None /\ t \in Attempt
  BY <1>4, AttemptIs DEF Fits, Inv, TypeOK
<1>6. Pinned(p) = {d, t}
  BY <1>4, <1>5, PlanIs DEF Pinned
<1>7. {e \in Pinned(a) : e.step \notin Agents} = {p}
  BY <1>2, <1>3 DEF Agents
<1> HIDE DEF d, t
<1>8. UNION {Pinned(c) : c \in {e \in Pinned(a) : e.step \notin Agents}} = {d, t}
  BY <1>6, <1>7
<1>9. recoveryInputPath(a) = {t}
  BY <1>2, <1>3, <1>5, <1>8 DEF recoveryInputPath, RestartStep
<1> QED
  BY <1>5, <1>9 DEF p, t, RestartStep

\* The workflow goes back to the test author.
LEMMA RewindKeeps ==
  ASSUME Inv, beginWorkflowRetry
  PROVE  Inv'
<1> DEFINE n == First(RestartStep, wf.iteration + 1)
           prior == recoveryInputPath(wf.active)
           b == attempts[attempts[wf.active].pins["prepare-candidate"]].pins[RestartStep]
<1>1. /\ wf.phase = "Running" /\ attempts[wf.active].phase = "Failed"
      /\ wf.active.step = TriggerStep /\ wf.iteration < MaxIteration
      /\ refinement' = [trigger |-> wf.active,
                        seed |-> IF prior = {} THEN None ELSE CHOOSE x \in prior : TRUE]
      /\ createAttempt(n) /\ wf' = [wf EXCEPT !.iteration = @ + 1, !.active = n]
      /\ UNCHANGED <<store, events>>
  BY DEF beginWorkflowRetry, Rewinds, Deciding
<1>2. prior = {b} /\ b \in Attempt
  BY <1>1, ActiveIs, PathIs
<1> HIDE DEF b, prior
<1>3. refinement' = [trigger |-> wf.active, seed |-> b]
  <2>1. (CHOOSE x \in prior : TRUE) = b /\ prior # {}
    BY <1>2
  <2> QED
    BY <1>1, <2>1
<1>4. /\ n \in Attempt /\ n.step = RestartStep /\ n.iteration = wf.iteration + 1
      /\ n.step # "developer"
  BY <1>1, ActiveIs, PlanIs DEF First, Attempt, RestartStep
<1>5. Newer(n)
  BY <1>4 DEF Newer
<1>6. Repaired(n, refinement'.seed)
  <2>1. n.iteration - 1 = wf.active.iteration /\ wf.active \in DOMAIN attempts
    BY <1>4, ActiveIs
  <2>2. refinement'.seed = b
    BY <1>3
  <2> HIDE DEF n
  <2>3. /\ wf.active.step = TriggerStep /\ wf.active.iteration = n.iteration - 1
        /\ attempts[wf.active].phase = "Failed"
        /\ b = attempts[attempts[wf.active].pins["prepare-candidate"]].pins[RestartStep]
    BY <1>1, <2>1 DEF b
  <2> QED
    BY <2>1, <2>2, <2>3 DEF Repaired
<1>7. wf' \in [phase : {"Running"}, iteration : {n.iteration}, active : {n}]
  BY <1>1, <1>4, ActiveIs
<1>8. refinement' \in [trigger : Attempt \cup {None}, seed : Attempt \cup {None}]
  BY <1>2, <1>3, ActiveIs
<1> HIDE DEF n
<1> QED
  BY <1>1, <1>4, <1>5, <1>6, <1>7, <1>8, CreatedKeeps DEF Done

\* A step that only ends the workflow.
LEMMA StillKeeps ==
  ASSUME Inv, UNCHANGED <<attempts, store, refinement, events>>,
         wf'.active = wf.active, wf'.iteration = wf.iteration,
         wf' \in [phase : {"Running", "Succeeded", "Failed"},
                  iteration : 0..MaxIteration, active : Attempt]
  PROVE  Inv'
<1>1. TypeOK' /\ Stored' /\ Latest'
  BY DEF Inv, TypeOK, Stored, StoredOne, Latest
<1>2. Ended' /\ OneSuccess' /\ PinsFit'
  BY DEF Inv, Ended, OneSuccess, PinsFit, Fits, Succeeded, ArtifactAccepted
<1>3. SeedsFit'
  BY DEF Inv, SeedsFit, Repaired
<1> QED
  BY <1>1, <1>2, <1>3 DEF Inv

-----------------------------------------------------------------------------
(* The invariant holds, and the inputs of a step fit together.              *)

\* The invariant holds in the beginning,
LEMMA InitInv ==
  ASSUME Init
  PROVE  Inv
<1> DEFINE n == First(Plan[1], 0)
<1>1. /\ n \in Attempt /\ n.step = "developer" /\ n.iteration = 0 /\ n.try = 1
  BY PlanIs, FlowAssumption DEF First, Attempt
<1>2. /\ DOMAIN attempts = {n} /\ attempts[n] = Fresh /\ DOMAIN store = {}
      /\ wf = [phase |-> "Running", iteration |-> 0, active |-> n]
      /\ refinement = [trigger |-> None, seed |-> None] /\ events = 0
  BY DEF Init
<1> HIDE DEF n
<1>3. TypeOK
  BY <1>1, <1>2, FreshIs, FlowAssumption DEF TypeOK
<1>4. Latest
  BY <1>1, <1>2, IndexIs DEF Latest
<1>5. Ended /\ OneSuccess
  BY <1>1, <1>2 DEF Ended, OneSuccess
<1>6. PinsFit
  BY <1>1, <1>2, FreshIs DEF PinsFit, NoPins
<1>7. SeedsFit
  BY <1>1, <1>2, FreshIs DEF SeedsFit
<1>8. Stored
  BY <1>2, FreshIs DEF Stored, StoredOne, Unstarted, Earlier
<1> QED
  BY <1>3, <1>4, <1>5, <1>6, <1>7, <1>8 DEF Inv

\* and every step keeps it.
LEMMA NextKeeps ==
  ASSUME Inv, [Next]_vars
  PROVE  Inv'
<1>1. CASE UNCHANGED vars
  BY <1>1, StillKeeps DEF vars, Inv, TypeOK
<1>2. CASE Decide
  <2>1. CASE finalStepOutputsAccepted
    <3>1. /\ UNCHANGED <<attempts, store, refinement, events>>
          /\ wf' = [wf EXCEPT !.phase = "Succeeded"]
      BY <2>1 DEF finalStepOutputsAccepted
    <3> QED
      BY <3>1, ActiveIs, StillKeeps DEF Inv, TypeOK
  <2>2. CASE failWorkflow
    <3>1. /\ UNCHANGED <<attempts, store, refinement, events>>
          /\ wf' = [wf EXCEPT !.phase = "Failed"]
      BY <2>2 DEF failWorkflow
    <3> QED
      BY <3>1, ActiveIs, StillKeeps DEF Inv, TypeOK
  <2> QED
    BY <1>2, <2>1, <2>2, AdvanceKeeps, RetryKeeps, RewindKeeps DEF Decide
<1>3. ASSUME NEW a \in DOMAIN attempts, Execute(a)
      PROVE  Inv'
  BY <1>3, ResolveKeeps, ReadInputsKeeps, StartKeeps, OutcomeKeeps DEF Execute
<1>4. ASSUME NEW a \in DOMAIN attempts, Collect(a)
      PROVE  Inv'
  BY <1>4, PutKeeps, CreateKeeps, CollectorEndsKeeps, AcceptKeeps DEF Collect
<1>5. ASSUME NEW a \in DOMAIN attempts, LosePod(a) \/ KillCollector(a) \/ DeleteCollector(a)
      PROVE  Inv'
  BY <1>5, LoseKeeps, KillKeeps, DeleteKeeps
<1> QED
  BY <1>1, <1>2, <1>3, <1>4, <1>5, LossKeeps DEF Next

\* The inductive invariant always holds: attempts come one after the other, what they are pinned to
\* is the accepted output of the one attempt that succeeded, and it is in the store.
THEOREM Invariance == Spec => []Inv
<1>1. Init => Inv
  BY InitInv
<1>2. Inv /\ [Next]_vars => Inv'
  BY NextKeeps
<1> QED
  BY <1>1, <1>2, PTL DEF Spec

\* Of every step but the developer's, pins are of the iteration of the attempt that has them, and
\* in an iteration a step succeeds once; so two ways to a third step meet.
LEMMA Agrees ==
  ASSUME Inv
  PROVE  LineageAgrees
<1> SUFFICES ASSUME NEW a \in DOMAIN attempts, NEW p \in Pinned(a), NEW q \in Pinned(a)
             PROVE  attempts[q].pins[p.step] \in {p, None}
  BY DEF LineageAgrees
<1>1. PICK s \in Steps : p = attempts[a].pins[s] /\ p # None
  BY DEF Pinned
<1>2. PICK u \in Steps : q = attempts[a].pins[u] /\ q # None
  BY DEF Pinned
<1>3. Fits(p, a, s) /\ Fits(q, a, u) /\ u \in Inputs(a.step) /\ s \in Inputs(a.step)
  BY <1>1, <1>2 DEF Inv, PinsFit
<1>4. p.step = s /\ q.step = u /\ q \in DOMAIN attempts /\ attempts[q].phase # "created"
  BY <1>3 DEF Fits, Succeeded
<1>5. CASE s \notin Inputs(u)
  BY <1>4, <1>5 DEF Inv, PinsFit
<1>6. CASE s \in Inputs(u)
  <2>1. Fits(attempts[q].pins[s], q, s)
    BY <1>4, <1>6 DEF Inv, PinsFit
  <2>2. CASE s = "developer"
    <3>1. /\ p \in DOMAIN attempts /\ attempts[q].pins[s] \in DOMAIN attempts
          /\ p.step = "developer" /\ attempts[q].pins[s].step = "developer"
          /\ Succeeded(p) /\ Succeeded(attempts[q].pins[s])
      BY <1>3, <2>1, <2>2 DEF Fits
    <3>2. p.iteration = 0 /\ attempts[q].pins[s].iteration = 0
      BY <3>1 DEF Inv, OneSuccess
    <3>3. attempts[q].pins[s] = p
      BY <3>1, <3>2 DEF Inv, OneSuccess
    <3> QED
      BY <1>4, <3>3
  <2>3. CASE s # "developer"
    <3>1. u # "developer"
      BY <1>6, InputsAre
    <3>2. q.iteration = a.iteration
      BY <1>3, <3>1 DEF Fits
    <3>3. p.iteration = a.iteration /\ attempts[q].pins[s].iteration = a.iteration
      BY <1>3, <2>1, <2>3, <3>2 DEF Fits
    <3>4. attempts[q].pins[s] = p
      BY <1>3, <2>1, <3>3 DEF Inv, OneSuccess, Fits
    <3> QED
      BY <1>4, <3>4
  <2> QED
    BY <2>2, <2>3
<1> QED
  BY <1>5, <1>6

\* The seed of a repair is a part of the invariant.
LEMMA Repairs ==
  ASSUME Inv
  PROVE  RepairsWhatFailed
  BY DEF Inv, SeedsFit, Repaired, RepairsWhatFailed

\* All that a step consumes comes from one line of work, and a repair starts from the tests of the
\* candidate that failed last (inputCandidateForArtifact, newerThan, captureWorkflowRecovery).
THEOREM InputsFit == Spec => []InputsAgree
<1>1. Inv => InputsAgree
  BY Agrees, Repairs DEF Inv, InputsAgree
<1> QED
  BY <1>1, Invariance, PTL

-----------------------------------------------------------------------------
(* Only whole bytes are used.                                               *)

\* Inputs that are pinned are in the store.
InputsStored == \A a \in DOMAIN attempts : \A b \in Consumed(a) : attempts[b].bytes \in DOMAIN store

\* A pinned input is in the store,
LEMMA PinStored ==
  ASSUME Inv, NEW a, NEW s, NEW b, Fits(b, a, s)
  PROVE  attempts[b].bytes \in DOMAIN store
  BY DEF Fits, ArtifactAccepted, Inv, Stored, StoredOne

\* and so is the seed of a repair, which the failed candidate was pinned to.
LEMMA ConsumedStored ==
  ASSUME Inv
  PROVE  InputsStored
<1> SUFFICES ASSUME NEW a \in DOMAIN attempts, NEW b \in Consumed(a)
             PROVE  attempts[b].bytes \in DOMAIN store
  BY DEF InputsStored
<1>1. CASE \E s \in Steps : b = attempts[a].pins[s] /\ b # None
  <2>1. PICK s \in Steps : b = attempts[a].pins[s] /\ b # None
    BY <1>1
  <2>2. Fits(b, a, s)
    BY <2>1 DEF Inv, PinsFit
  <2> QED
    BY <2>2, PinStored
<1>2. CASE b = attempts[a].seed /\ b # None
  <2>1. Repaired(a, b)
    BY <1>2 DEF Inv, SeedsFit
  <2>2. PICK t \in DOMAIN attempts :
          /\ t.step = TriggerStep /\ attempts[t].phase = "Failed"
          /\ b = attempts[attempts[t].pins["prepare-candidate"]].pins[RestartStep]
    BY <2>1 DEF Repaired
  <2> DEFINE p == attempts[t].pins["prepare-candidate"]
  <2>3. Fits(p, t, "prepare-candidate")
    BY <2>2, InputsAre, PlanIs DEF Inv, PinsFit, TriggerStep
  <2>4. /\ p \in DOMAIN attempts /\ p.step = "prepare-candidate" /\ attempts[p].phase # "created"
        /\ b = attempts[p].pins["test-author"]
    BY <2>2, <2>3 DEF Fits, Succeeded, RestartStep
  <2> HIDE DEF p
  <2>5. Fits(b, p, "test-author")
    BY <2>4, InputsAre, PlanIs DEF Inv, PinsFit
  <2> QED
    BY <2>5, PinStored
<1> QED
  BY <1>1, <1>2 DEF Consumed

\* Whatever an execution is pinned to is in the store; what it may still find there is torn bytes.
THEOREM PinnedAreStored == Spec => []InputsStored
<1>1. Inv => InputsStored
  BY ConsumedStored
<1> QED
  BY <1>1, Invariance, PTL

\* What OnlyWholeBytes says of a step.
WholeBytes(a) ==
  /\ attempts[a].phase = "pinned" /\ attempts'[a].phase = "running" => BytesWhole(a)
  /\ attempts[a].job = "active" /\ attempts'[a].job = "stored" =>
       store'[attempts[a].bytes] = "whole"

\* A step that neither starts an execution nor ends a write to the store.
LEMMA OthersWhole ==
  ASSUME Inv, NEW a \in DOMAIN attempts, NEW b \in DOMAIN attempts,
         attempts'[a].phase = attempts[a].phase \/ attempts'[a].phase # "running",
         attempts'[a].job = attempts[a].job \/ attempts'[a].job # "stored",
         \A c \in DOMAIN attempts : c # a => attempts'[c] = attempts[c]
  PROVE  WholeBytes(b)
  BY DEF WholeBytes

\* An execution starts only on bytes that are whole,
LEMMA ExecuteWhole ==
  ASSUME Inv, NEW a \in DOMAIN attempts, Execute(a), NEW b \in DOMAIN attempts
  PROVE  WholeBytes(b)
<1>1. attempts[a] \in Record
  BY Before
<1>2. CASE resolveStepInputs(a)
  <2>1. PICK pins : attempts' = [attempts EXCEPT ![a].phase = "pinned", ![a].pins = pins,
                                                 ![a].seed = Seed(a)]
    BY <1>2 DEF resolveStepInputs
  <2>2. /\ attempts'[a].phase = "pinned" /\ attempts'[a].job = attempts[a].job
        /\ \A c \in DOMAIN attempts : c # a => attempts'[c] = attempts[c]
    BY <1>1, <2>1 DEF Record
  <2> QED
    BY <2>2, OthersWhole
<1>3. ASSUME NEW f, NEW r, NEW s, Ends(a, f, r, s)
      PROVE  WholeBytes(b)
  <2>1. /\ attempts'[a].phase = "collecting" /\ attempts'[a].job = "active"
        /\ \A c \in DOMAIN attempts : c # a => attempts'[c] = attempts[c]
    BY <1>1, <1>3 DEF Record, Ends
  <2> QED
    BY <2>1, OthersWhole
<1>4. CASE ReadInputs(a)
  <2>1. CASE BytesWhole(a) /\ attempts' = [attempts EXCEPT ![a].phase = "running"]
    <3>1. /\ attempts'[a].job = attempts[a].job
          /\ \A c \in DOMAIN attempts : c # a => attempts'[c] = attempts[c]
      BY <1>1, <2>1 DEF Record
    <3> QED
      BY <2>1, <3>1 DEF WholeBytes
  <2> QED
    BY <1>3, <1>4, <2>1 DEF ReadInputs
<1>5. CASE startCollection(a)
  BY <1>3, <1>5 DEF startCollection
<1>6. CASE reconcileCollection(a)
  <2>1. attempts' = [attempts EXCEPT ![a].phase = CollectionOutcome(a).phase,
                                     ![a].retryable = CollectionOutcome(a).retryable]
    BY <1>6 DEF reconcileCollection
  <2>2. CollectionOutcome(a).phase # "running"
    BY DEF CollectionOutcome
  <2>3. /\ attempts'[a].phase # "running" /\ attempts'[a].job = attempts[a].job
        /\ \A c \in DOMAIN attempts : c # a => attempts'[c] = attempts[c]
    BY <1>1, <2>1, <2>2 DEF Record
  <2> QED
    BY <2>3, OthersWhole
<1> QED
  BY <1>2, <1>4, <1>5, <1>6 DEF Execute

\* a collector publishes only such bytes,
LEMMA CollectWhole ==
  ASSUME Inv, NEW a \in DOMAIN attempts, NEW b \in DOMAIN attempts,
         Collect(a) \/ LosePod(a) \/ KillCollector(a) \/ DeleteCollector(a)
  PROVE  WholeBytes(b)
<1>1. attempts[a] \in Record
  BY Before
<1>2. ASSUME NEW j, JobBecomes(a, j)
      PROVE  /\ attempts'[a].phase = attempts[a].phase /\ attempts'[a].job = j
             /\ \A c \in DOMAIN attempts : c # a => attempts'[c] = attempts[c]
  BY <1>1, <1>2 DEF Record, JobBecomes
<1>3. ASSUME NEW j, j # "stored", JobBecomes(a, j)
      PROVE  WholeBytes(b)
  BY <1>2, <1>3, OthersWhole
<1>4. CASE Put(a)
  <2>1. PICK j : JobBecomes(a, j) /\ (j = "stored" => store'[attempts[a].bytes] = "whole")
    <3>1. CASE attempts[a].bytes \notin DOMAIN store
      BY <3>1, <1>4 DEF Put
    <3>2. CASE attempts[a].bytes \in DOMAIN store
      BY <3>2, <1>4 DEF Put
    <3> QED
      BY <3>1, <3>2
  <2>2. /\ attempts'[a].phase = attempts[a].phase /\ attempts'[a].job = j
        /\ \A c \in DOMAIN attempts : c # a => attempts'[c] = attempts[c]
    BY <1>2, <2>1
  <2> QED
    BY <2>1, <2>2 DEF WholeBytes
<1>5. CASE CreateArtifact(a)
  <2>1. /\ attempts'[a].phase = attempts[a].phase /\ attempts'[a].job = "created"
        /\ \A c \in DOMAIN attempts : c # a => attempts'[c] = attempts[c]
    BY <1>1, <1>5 DEF CreateArtifact, Record
  <2> QED
    BY <2>1, OthersWhole
<1>6. CASE CollectorEnds(a)
  BY <1>3, <1>6 DEF CollectorEnds
<1>7. CASE Accept(a)
  <2>1. /\ attempts'[a].phase = attempts[a].phase /\ attempts'[a].job = attempts[a].job
        /\ \A c \in DOMAIN attempts : c # a => attempts'[c] = attempts[c]
    BY <1>1, <1>7 DEF Accept, Record
  <2> QED
    BY <2>1, OthersWhole
<1>8. CASE LosePod(a)
  <2>1. /\ attempts'[a].phase = "Interrupted" /\ attempts'[a].job = attempts[a].job
        /\ \A c \in DOMAIN attempts : c # a => attempts'[c] = attempts[c]
    BY <1>1, <1>8 DEF LosePod, Record
  <2> QED
    BY <2>1, OthersWhole
<1>9. CASE KillCollector(a) \/ DeleteCollector(a)
  BY <1>3, <1>9 DEF KillCollector, DeleteCollector
<1> QED
  BY <1>4, <1>5, <1>6, <1>7, <1>8, <1>9 DEF Collect

\* and the workflow controller does neither.
LEMMA DecideWhole ==
  ASSUME Decide \/ PowerLoss, NEW b \in DOMAIN attempts
  PROVE  WholeBytes(b)
<1>1. ASSUME NEW n, createAttempt(n)
      PROVE  attempts'[b] \in {attempts[b], Fresh}
  BY <1>1 DEF createAttempt
<1>2. attempts'[b] \in {attempts[b], Fresh}
  <2>1. CASE PowerLoss \/ finalStepOutputsAccepted \/ failWorkflow
    BY <2>1 DEF PowerLoss, finalStepOutputsAccepted, failWorkflow
  <2>2. CASE Advance
    BY <1>1, <2>2 DEF Advance
  <2>3. CASE RetryStep
    BY <1>1, <2>3 DEF RetryStep
  <2>4. CASE beginWorkflowRetry
    BY <1>1, <2>4 DEF beginWorkflowRetry
  <2> QED
    BY <2>1, <2>2, <2>3, <2>4 DEF Decide
<1> QED
  BY <1>2, FreshIs DEF WholeBytes

\* No execution works on bytes other than those that were pinned, and no Artifact is created for
\* bytes that are not in the store (ReadInputArtifact, Put, Verify).
THEOREM ReadAndStoredWhole == Spec => OnlyWholeBytes
<1>1. ASSUME Inv, [Next]_vars
      PROVE  [\A a \in DOMAIN attempts :
                /\ attempts[a].phase = "pinned" /\ attempts'[a].phase = "running" =>
                     BytesWhole(a)
                /\ attempts[a].job = "active" /\ attempts'[a].job = "stored" =>
                     store'[attempts[a].bytes] = "whole"]_vars
  <2>1. ASSUME Next, NEW b \in DOMAIN attempts
        PROVE  WholeBytes(b)
    <3>1. CASE Decide \/ PowerLoss
      BY <3>1, DecideWhole
    <3>2. ASSUME NEW a \in DOMAIN attempts, Execute(a)
          PROVE  WholeBytes(b)
      BY <1>1, <3>2, ExecuteWhole
    <3>3. ASSUME NEW a \in DOMAIN attempts,
                 Collect(a) \/ LosePod(a) \/ KillCollector(a) \/ DeleteCollector(a)
          PROVE  WholeBytes(b)
      BY <1>1, <3>3, CollectWhole
    <3> QED
      BY <2>1, <3>1, <3>2, <3>3 DEF Next
  <2> QED
    BY <1>1, <2>1 DEF WholeBytes
<1> QED
  BY <1>1, Invariance, PTL DEF Spec, OnlyWholeBytes
=============================================================================
