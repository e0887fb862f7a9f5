----------------------- MODULE LineageEvidence_proofs -----------------------
EXTENDS LineageEvidence, FiniteSetTheorems, TLAPS

-----------------------------------------------------------------------------
(* The inductive invariant.                                                 *)

StepNames == {"author", "gate", "push"}
Units == StepNames \X (1 .. MaxIteration) \X (Nat \ {0})
Phases == {"Pending", "Awaiting", "Succeeded", "Failed"}
Rounds == {"idle", "create", "observe", "retry", "publish", "activate", "failed", "await", "decide",
           "admit", "policy", "1", "2", "3", "job"}

StatusRec(r) == [stage : StepNames, iter : 1 .. MaxIteration,
                 active : {Name(u) : u \in born} \cup {None}, recovery : {r},
                 observed : born \cup {None}, phase : {"Running", "Succeeded", "Failed"}]
ObjectRec(b) == [phase : Phases, attempt : {"open", "Succeeded", "Failed"}, ref : BOOLEAN,
                 decided : BOOLEAN, binding : {b}, policy : BOOLEAN,
                 job : {"none", "running", "inferring", "ended"}]
SessionRec == [at : {"idle", "read", "record"}, gate : born \cup {None}, choice : Choices]

Typed ==
  /\ IsFiniteSet(born) /\ born \subseteq Units
  /\ DOMAIN objects \subseteq born /\ objects = [u \in DOMAIN objects |-> objects[u]]
  /\ \A u \in DOMAIN objects : objects[u] \in ObjectRec(objects[u].binding)
  /\ artifacts \subseteq snapshots /\ snapshots \subseteq born
  /\ wf \in StatusRec(wf.recovery)
  /\ DOMAIN decisions \subseteq born /\ \A g \in DOMAIN decisions : g[1] = "gate"
  /\ pc \in [Controllers -> [at : Rounds, unit : born \cup {None}]]
  /\ session \in [Users -> SessionRec]
  /\ reply \in [Users -> [gate : born \cup {None}, choice : Choices]]
  /\ faults \in 0 .. MaxFaults

\* A unit is born once, and lives alone under its name.
Incarnations ==
  /\ \A b \in born : b[3] <= Cardinality({c \in born : Name(c) = Name(b)})
  /\ \A u, v \in DOMAIN objects : Name(u) = Name(v) => u = v

\* What an approval lets a push do.
Binding(g) == [request |-> g, admission |-> Admitted(g), subject |-> Candidate(g[2])]

Logged(id) == id \in DOMAIN log
Saved(u) == UnitID("ContextSnapshotSaved", u)
Failure(u) == NameID("StepAttemptFailed", u)
Resolved(u) == NameID("InputsResolved", u)
OpAuthority(u) == UnitID("ExecutionAuthorityEstablished", u)
OpAdmitted(u) == UnitID("UtilityOperationAdmitted", u)

\* The events of each type, by the unit they are about.
InputsAre(e) == \E u \in born : e = Resolved(u) /\ log[e] = InputsEvent(u)

AuthorityIs(e) ==
  \E u \in born : /\ e = IF u[1] = "push" THEN OpAuthority(u) ELSE Authority(u)
                  /\ log[e] = [primitive |-> u]

AgentIs(e) ==
  \E u \in born :
    /\ u[1] = "author" /\ e = NameID("AgentExecutionAuthorized", u)
    /\ log[e] = [primitive |-> u, authority |-> Authority(u), input |-> Resolved(u)]
    /\ Logged(Authority(u)) /\ Logged(Resolved(u))

UtilityIs(e) ==
  \E u \in born :
    /\ u[1] = "push" /\ e = UnitID("UtilityExecutionAuthorized", u)
    /\ log[e] = [primitive |-> u, evidence |-> {OpAdmitted(u)}, authority |-> OpAuthority(u),
                 input |-> Resolved(u)]
    /\ Logged(OpAdmitted(u)) /\ Logged(OpAuthority(u)) /\ Logged(Resolved(u))

BoundTo(u, g) ==
  /\ g[1] = "gate" /\ g[2] = u[2] /\ Logged(Admitted(g)) /\ decisions[g].choice = "Approved"

OperationIs(e) ==
  \E u \in born, g \in DOMAIN decisions :
    /\ u[1] = "push" /\ e = OpAdmitted(u) /\ BoundTo(u, g)
    /\ log[e] = [primitive |-> u, binding |-> Binding(g), evidence |-> {Admitted(g)}]

SubmissionIs(e) == \E g \in DOMAIN decisions : e = Submitted(g) /\ log[e] = SubmissionEvent(g)

AdmissionIs(e) ==
  \E g \in DOMAIN decisions :
    /\ g[1] = "gate" /\ e = Admitted(g)
    /\ log[e] = [SubmissionEvent(g) EXCEPT !.submission = Submitted(g)]
    /\ Logged(Submitted(g)) /\ Logged(Resolved(g))

\* What a rewind declares of itself when it is chosen.
Declared(d) ==
  /\ d.events \subseteq {Failure(d.trigger)} \cap DOMAIN log
  /\ d.missing = {} => d.previous # None /\ Logged(Saved(d.previous))

DecisionIs(e) ==
  /\ \E t \in born, i \in 1 .. wf.iter : e = RecoveryID(t, i)
  /\ log[e].trigger = e[2] /\ log[e].next = <<"author", e[3]>> /\ Declared(log[e])

RetryIs(e) ==
  \E u \in born :
    /\ u[1] = "author" /\ e = RetryID(log[e].decision, u)
    /\ log[e].attempt = u /\ log[e].inputs = Pins(u)
    /\ Logged(log[e].decision) /\ log[e].decision[1] = "RecoveryDecisionSelected"
    /\ DecisionAgrees(log[log[e].decision], log[e])

FailureIs(e) == \E u \in born : e = Failure(u) /\ log[e].target = Name(u)

EventIs(e) ==
  /\ e[1] = "InputsResolved" => InputsAre(e)
  /\ e[1] = "ExecutionAuthorityEstablished" => AuthorityIs(e)
  /\ e[1] = "AgentExecutionAuthorized" => AgentIs(e)
  /\ e[1] = "UtilityExecutionAuthorized" => UtilityIs(e)
  /\ e[1] = "UtilityOperationAdmitted" => OperationIs(e)
  /\ e[1] = "UtilityOperationRejected" => \E u \in born : e = UnitID("UtilityOperationRejected", u)
  /\ e[1] = "ContextSnapshotSaved" => \E u \in born : e = Saved(u)
  /\ e[1] = "ApprovalDecisionSubmitted" => SubmissionIs(e)
  /\ e[1] = "ApprovalDecisionAdmitted" => AdmissionIs(e)
  /\ e[1] = "RecoveryDecisionSelected" => DecisionIs(e)
  /\ e[1] = "StepAttemptRetried" => RetryIs(e)
  /\ e[1] = "StepAttemptFailed" => FailureIs(e)

Events == \A e \in DOMAIN log : EventIs(e)

\* What a controller has appended before the place it is at.
WorkflowAt ==
  LET at == pc["workflow"].at
      u == pc["workflow"].unit
  IN  /\ at \in {"idle", "create", "observe", "retry", "publish", "activate"}
      /\ at \in {"observe", "retry", "publish", "activate"} => u \in born /\ u[2] = wf.iter
      /\ at # "idle" /\ wf.recovery # None => Logged(DecisionID)
      /\ at = "create" /\ wf.stage = "push" => Named(wf.active) = {}
      /\ at = "retry" => wf.recovery # None /\ u[1] = "author"

AttemptAt == LET at == pc["attempt"].at
                 u == pc["attempt"].unit
             IN  at \in {"idle", "failed"} /\ (at = "failed" => u \in born)

ApprovalAt ==
  LET at == pc["approval"].at
      g == pc["approval"].unit
  IN  /\ at \in {"idle", "await", "decide"}
      /\ at # "idle" => g \in born /\ g[1] = "gate"
      /\ at = "await" => Logged(Resolved(g))
      /\ at = "decide" => g \in DOMAIN decisions

AgentAt ==
  LET at == pc["agent"].at
      u == pc["agent"].unit
  IN  /\ at \in {"idle", "1", "2", "3", "job"}
      /\ at # "idle" => u \in born /\ u[1] = "author"
      /\ at \in {"2", "3", "job"} => Logged(Resolved(u))
      /\ at \in {"3", "job"} => Logged(Authority(u))
      /\ at = "job" => Logged(NameID("AgentExecutionAuthorized", u))

UtilityAt ==
  LET at == pc["utility"].at
      u == pc["utility"].unit
  IN  /\ at \in {"idle", "admit", "policy", "1", "2", "3", "job"}
      /\ at # "idle" => u \in born /\ u[1] = "push"
      /\ at \in {"policy", "1", "2", "3", "job"} => Logged(OpAdmitted(u))
      /\ at \in {"2", "3", "job"} => Logged(OpAuthority(u))
      /\ at \in {"3", "job"} => Logged(Resolved(u))
      /\ at = "job" => Logged(UnitID("UtilityExecutionAuthorized", u))

\* What a stored context and a unit show is in the log.
Stored(u) == Logged(Saved(u)) /\ Logged(NameID("AgentExecutionAuthorized", u))

AuthorShows(u) ==
  /\ objects[u].job # "none" => Logged(NameID("AgentExecutionAuthorized", u))
  /\ \/ objects[u].job = "inferring" \/ objects[u].phase = "Succeeded"
     \/ objects[u].attempt = "Succeeded"
     => u \in snapshots

GateShows(u) ==
  /\ objects[u].phase = "Awaiting" \/ objects[u].decided => Logged(Resolved(u))
  /\ objects[u].job = "none"

PushShows(u) ==
  /\ \E g \in DOMAIN decisions : objects[u].binding = Binding(g) /\ BoundTo(u, g)
  /\ Logged(OpAdmitted(u)) => log[OpAdmitted(u)].binding = objects[u].binding
  /\ objects[u].job # "none" => Logged(UnitID("UtilityExecutionAuthorized", u))
  /\ objects[u].job # "inferring"

Shown ==
  /\ \A u \in DOMAIN objects :
       /\ u[1] = "author" => AuthorShows(u)
       /\ u[1] = "gate" => GateShows(u)
       /\ u[1] = "push" => PushShows(u)
  /\ \A u \in snapshots : Stored(u)

\* The rewind that the status holds is the one of its decision.
Rewind ==
  wf.recovery # None =>
    /\ wf.recovery.trigger \in born /\ Declared(wf.recovery)
    /\ Logged(DecisionID) => log[DecisionID] = RecoveryEvent

\* What a user is told is what was decided.
AnswerOf(u) ==
  /\ session[u].at = "read" => session[u].gate \in born /\ session[u].gate[1] = "gate"
  /\ session[u].at = "record" =>
       /\ session[u].gate \in DOMAIN decisions /\ session[u].gate[1] = "gate"
       /\ decisions[session[u].gate] = [user |-> u, choice |-> session[u].choice]
  /\ reply[u].gate # None =>
       /\ reply[u].gate \in DOMAIN decisions /\ Logged(Submitted(reply[u].gate))
       /\ decisions[reply[u].gate] = [user |-> u, choice |-> reply[u].choice]

Answers == \A u \in Users : AnswerOf(u)

Places5 == WorkflowAt /\ AttemptAt /\ ApprovalAt /\ AgentAt /\ UtilityAt
Inv == Typed /\ Incarnations /\ Events /\ Places5 /\ Shown /\ Rewind /\ Answers

-----------------------------------------------------------------------------
(* What stays when a step happens elsewhere.                                *)

\* The parts of a unit.
LEMMA UnitIs ==
  ASSUME NEW u \in Units
  PROVE  /\ u[1] \in StepNames /\ u[2] \in 1 .. MaxIteration /\ u[3] \in Nat \ {0}
         /\ u = <<u[1], u[2], u[3]>> /\ u # None
<1>1. PICK s \in StepNames, i \in 1 .. MaxIteration, k \in Nat \ {0} : u = <<s, i, k>>
  BY DEF Units
<1>2. u[1] = s /\ u[2] = i /\ u[3] = k
  BY <1>1
<1>3. u # <<>>
  BY <1>1
<1> QED
  BY <1>1, <1>2, <1>3 DEF None

\* Names are equal when step and iteration are.
LEMMA NamesAre ==
  ASSUME NEW u, NEW v
  PROVE  Name(u) = Name(v) <=> u[1] = v[1] /\ u[2] = v[2]
  BY DEF Name

\* The parts of a name.
LEMMA NameIs == \A u : Name(u) = <<u[1], u[2]>> /\ Name(u)[1] = u[1] /\ Name(u)[2] = u[2]
  BY DEF Name

\* A first incarnation has no other of its name.
LEMMA OnlyOne ==
  ASSUME Typed, NEW u \in born, NEW v \in born, ~ Recreated(u), Name(u) = Name(v)
  PROVE  u = v
<1>1. u \in Units /\ v \in Units
  BY DEF Typed
<1>2. ~ (u[3] > 1) /\ ~ (v[3] > 1)
  BY DEF Recreated
<1>3. u[3] = 1 /\ v[3] = 1
  BY <1>1, <1>2, UnitIs
<1> QED
  BY <1>1, <1>3, UnitIs, NamesAre

\* What has been appended, born or decided stays.
Grows ==
  /\ DOMAIN log \subseteq DOMAIN log' /\ \A e \in DOMAIN log : log'[e] = log[e]
  /\ born \subseteq born' /\ DOMAIN decisions \subseteq DOMAIN decisions'
  /\ \A g \in DOMAIN decisions : decisions'[g] = decisions[g]
  /\ 1 .. wf.iter \subseteq 1 .. wf'.iter

\* An append.
LEMMA AppendGrows ==
  ASSUME NEW id, NEW event, log' = AppendEvent(log, id, event), UNCHANGED <<born, decisions>>,
         wf'.iter = wf.iter
  PROVE  Grows /\ Logged(id)' /\ DOMAIN log' = DOMAIN log \cup {id}
               /\ (id \notin DOMAIN log => log'[id] = event)
<1>1. /\ DOMAIN log' = DOMAIN log \cup {id} /\ \A x \in DOMAIN log : log'[x] = log[x]
      /\ id \notin DOMAIN log => log'[id] = event
  BY DEF AppendEvent
<1> QED
  BY <1>1 DEF Grows, Logged

\* An event stays what it is while the log grows.
LEMMA EventKeeps ==
  ASSUME Grows, NEW e \in DOMAIN log, EventIs(e)
  PROVE  EventIs(e)'
<1> e \in DOMAIN log' /\ log'[e] = log[e]
  BY DEF Grows
<1>1. \A x : Logged(x) => Logged(x)'
  BY DEF Logged, Grows
<1>2. \A g \in DOMAIN decisions :
        g \in DOMAIN decisions' /\ SubmissionEvent(g)' = SubmissionEvent(g)
  BY DEF Grows, SubmissionEvent
<1>3. \A u, g : g \in DOMAIN decisions /\ BoundTo(u, g) => BoundTo(u, g)'
  BY <1>1 DEF BoundTo, Grows
<1>4. \A u \in born : u \in born'
  BY DEF Grows
<1>5. InputsAre(e) => InputsAre(e)'
  BY <1>4 DEF InputsAre
<1>6. AuthorityIs(e) => AuthorityIs(e)'
  BY <1>4 DEF AuthorityIs
<1>7. AgentIs(e) => AgentIs(e)'
  BY <1>4, <1>1 DEF AgentIs
<1>8. UtilityIs(e) => UtilityIs(e)'
  BY <1>4, <1>1 DEF UtilityIs
<1>9. OperationIs(e) => OperationIs(e)'
  BY <1>4, <1>3, <1>2 DEF OperationIs
<1>10. SubmissionIs(e) => SubmissionIs(e)'
  BY <1>2 DEF SubmissionIs
<1>11. AdmissionIs(e) => AdmissionIs(e)'
  BY <1>1, <1>2 DEF AdmissionIs
<1>12. DecisionIs(e) => DecisionIs(e)'
  <2> SUFFICES ASSUME DecisionIs(e) PROVE DecisionIs(e)'
    OBVIOUS
  <2>1. \E t \in born', i \in 1 .. wf'.iter : e = RecoveryID(t, i)
    BY DEF DecisionIs, Grows
  <2>2. Declared(log[e])'
    BY <1>1 DEF DecisionIs, Declared, Grows
  <2> QED
    BY <2>1, <2>2 DEF DecisionIs
<1>13. RetryIs(e) => RetryIs(e)'
  <2> SUFFICES ASSUME RetryIs(e) PROVE RetryIs(e)'
    OBVIOUS
  <2>1. Logged(log[e].decision) /\ log[e].decision \in DOMAIN log
    BY DEF RetryIs, Logged
  <2>2. log'[log[e].decision] = log[log[e].decision]
    BY <2>1 DEF Grows
  <2> QED
    BY <2>1, <2>2, <1>1, <1>4 DEF RetryIs
<1>14. FailureIs(e) => FailureIs(e)'
  BY <1>4 DEF FailureIs
<1> QED
  BY <1>4, <1>5, <1>6, <1>7, <1>8, <1>9, <1>10, <1>11, <1>12, <1>13, <1>14 DEF EventIs

\* So only what is appended is to be looked at.
LEMMA EventsKeep ==
  ASSUME Events, Grows, \A e \in DOMAIN log' : e \notin DOMAIN log => EventIs(e)'
  PROVE  Events'
  BY EventKeeps DEF Events

\* Controllers that do nothing stay where they are.
LEMMA AgentStays ==
  ASSUME AgentAt, Grows, pc'["agent"] = pc["agent"] PROVE AgentAt'
  BY DEF AgentAt, Grows, Logged

\* So does the operation controller,
LEMMA UtilityStays ==
  ASSUME UtilityAt, Grows, pc'["utility"] = pc["utility"] PROVE UtilityAt'
  BY DEF UtilityAt, Grows, Logged

\* the approval controller,
LEMMA ApprovalStays ==
  ASSUME ApprovalAt, Grows, pc'["approval"] = pc["approval"] PROVE ApprovalAt'
  BY DEF ApprovalAt, Grows, Logged

\* the attempt controller,
LEMMA AttemptStays ==
  ASSUME AttemptAt, Grows, pc'["attempt"] = pc["attempt"] PROVE AttemptAt'
  BY DEF AttemptAt, Grows, Logged

\* and the workflow controller, while its status is the same.
LEMMA WorkflowStays ==
  ASSUME WorkflowAt, Grows, pc'["workflow"] = pc["workflow"],
         wf'.iter = wf.iter, wf'.recovery = wf.recovery, wf'.stage = wf.stage,
         wf'.active = wf.active, DOMAIN objects' \subseteq DOMAIN objects
  PROVE  WorkflowAt'
<1>1. DecisionID' = DecisionID
  BY DEF DecisionID
<1>2. Named(wf.active)' \subseteq Named(wf.active)
  BY DEF Named
<1> QED
  BY <1>1, <1>2 DEF WorkflowAt, Grows, Logged

\* A unit that is left alone shows what it showed.
Alone(u) == u \in DOMAIN objects /\ objects'[u] = objects[u]

\* What it shows stays in the log.
LEMMA UnitStays ==
  ASSUME Shown, Grows, snapshots \subseteq snapshots', NEW u, Alone(u),
         Logged(OpAdmitted(u))' => Logged(OpAdmitted(u))
  PROVE  /\ u[1] = "author" => AuthorShows(u)'
         /\ u[1] = "gate" => GateShows(u)'
         /\ u[1] = "push" => PushShows(u)'
<1> USE DEF Alone
<1>1. \A x : Logged(x) => Logged(x)'
  BY DEF Logged, Grows
<1>2. u[1] = "author" => AuthorShows(u)'
  BY <1>1 DEF Shown, AuthorShows
<1>3. u[1] = "gate" => GateShows(u)'
  BY <1>1 DEF Shown, GateShows
<1>4. ASSUME u[1] = "push" PROVE PushShows(u)'
  <2>1. \E g \in DOMAIN decisions' : objects'[u].binding = Binding(g) /\ BoundTo(u, g)'
    BY <1>4, <1>1 DEF Shown, PushShows, BoundTo, Grows
  <2>2. Logged(OpAdmitted(u))' => log'[OpAdmitted(u)].binding = objects'[u].binding
    BY <1>4 DEF Shown, PushShows, Grows, Logged
  <2> QED
    BY <2>1, <2>2, <1>1, <1>4 DEF Shown, PushShows, Binding
<1> QED
  BY <1>2, <1>3, <1>4 DEF Shown

\* A step that changes no unit.
LEMMA ShownStays ==
  ASSUME Shown, Grows, snapshots' = snapshots, \A u \in DOMAIN objects' : Alone(u),
         \A e \in DOMAIN log' : e \notin DOMAIN log => e[1] # "UtilityOperationAdmitted"
  PROVE  Shown'
<1>1. \A u : Logged(OpAdmitted(u))' => Logged(OpAdmitted(u))
  BY DEF Logged, OpAdmitted, UnitID
<1>2. \A u \in snapshots' : Stored(u)'
  BY DEF Shown, Stored, Logged, Grows
<1> QED
  BY <1>1, <1>2, UnitStays DEF Shown

\* A step that chooses no rewind.
LEMMA RewindStays ==
  ASSUME Rewind, Grows, wf'.iter = wf.iter, wf'.recovery = wf.recovery,
         \A e \in DOMAIN log' : e \notin DOMAIN log => e[1] # "RecoveryDecisionSelected"
  PROVE  Rewind'
<1>1. DecisionID' = DecisionID /\ RecoveryEvent' = RecoveryEvent
      /\ DecisionID[1] = "RecoveryDecisionSelected"
  BY DEF DecisionID, RecoveryEvent, RecoveryID
<1>2. wf.recovery # None => Declared(wf.recovery)'
  BY DEF Rewind, Declared, Logged, Grows
<1> QED
  BY <1>1, <1>2 DEF Rewind, Logged, Grows

\* A user to whom nothing is said.
LEMMA AnswerStays ==
  ASSUME Grows, NEW u, AnswerOf(u), session'[u] = session[u], reply'[u] = reply[u]
  PROVE  AnswerOf(u)'
<1>1. \A x : Logged(x) => Logged(x)'
  BY DEF Grows, Logged
<1>2. \A g \in DOMAIN decisions : g \in DOMAIN decisions' /\ decisions'[g] = decisions[g]
  BY DEF Grows
<1>3. \A g \in born : g \in born'
  BY DEF Grows
<1>4. reply[u].gate # None => Logged(Submitted(reply[u].gate))'
  <2>1. Submitted(reply[u].gate)' = Submitted(reply[u].gate)
    BY DEF Submitted, UnitID
  <2> QED
    BY <1>1, <2>1 DEF AnswerOf, Logged
<1> QED
  BY <1>2, <1>3, <1>4 DEF AnswerOf

\* Nothing is said to anybody.
LEMMA AnswersSame ==
  ASSUME Answers, Grows, UNCHANGED <<session, reply>>
  PROVE  Answers'
  BY AnswerStays DEF Answers

\* Nor when nothing outside the controllers changes.
LEMMA AnswersStay ==
  ASSUME Answers, Grows, UNCHANGED outside
  PROVE  Answers'
  BY AnswersSame DEF outside

\* No unit is born.
LEMMA IncarnationsStay ==
  ASSUME Incarnations, born' = born, DOMAIN objects' \subseteq DOMAIN objects
  PROVE  Incarnations'
  BY DEF Incarnations

-----------------------------------------------------------------------------
(* The controllers append and go on.                                        *)

\* A controller goes from one place to the next.
LEMMA GoTyped ==
  ASSUME Typed, NEW c \in Controllers, NEW place \in Rounds, NEW u \in born \cup {None},
         Goes(c, place, u), UNCHANGED <<snapshots, wf, objects, born, decisions, outside, faults>>
  PROVE  /\ Typed' /\ pc'[c].at = place /\ pc'[c].unit = u
         /\ \A d \in Controllers : d # c => pc'[d] = pc[d]
<1>1. pc \in [Controllers -> [at : Rounds, unit : born \cup {None}]]
  BY DEF Typed
<1>2. [at |-> place, unit |-> u] \in [at : Rounds, unit : born \cup {None}]
  OBVIOUS
<1>3. pc' = [pc EXCEPT ![c] = [at |-> place, unit |-> u]]
  BY DEF Goes
<1>4. pc' \in [Controllers -> [at : Rounds, unit : born' \cup {None}]]
  BY <1>1, <1>2, <1>3
<1>5. Typed'
  BY <1>4 DEF Typed, StatusRec, ObjectRec, SessionRec, outside
<1> QED
  BY <1>1, <1>3, <1>5

\* The place of one controller.
Steady(c) ==
  /\ c = "workflow" => WorkflowAt
  /\ c = "attempt" => AttemptAt
  /\ c = "approval" => ApprovalAt
  /\ c = "agent" => AgentAt
  /\ c = "utility" => UtilityAt

\* A controller appends what tells nothing new of any unit, and goes on.
LEMMA GoKeeps ==
  ASSUME Inv, NEW c \in Controllers, NEW place \in Rounds, NEW u \in born \cup {None},
         Goes(c, place, u), UNCHANGED <<snapshots, wf, objects, born, decisions, outside, faults>>,
         Grows, \A e \in DOMAIN log' : e \notin DOMAIN log => EventIs(e)', Shown', Rewind',
         Steady(c)'
  PROVE  Inv'
<1>1. Typed' /\ \A d \in Controllers : d # c => pc'[d] = pc[d]
  BY GoTyped DEF Inv
<1>2. Incarnations' /\ Answers'
  BY IncarnationsStay, AnswersStay DEF Inv
<1>3. Events'
  BY EventsKeep DEF Inv
<1>4. Controllers = {"workflow", "attempt", "approval", "agent", "utility"}
  BY DEF Controllers
<1>5. Places5'
  BY <1>1, <1>4, AgentStays, UtilityStays, ApprovalStays, AttemptStays, WorkflowStays
     DEF Inv, Places5, Steady
<1> QED
  BY <1>1, <1>2, <1>3, <1>5 DEF Inv

\* Nothing is appended.
LEMMA SameGrows ==
  ASSUME UNCHANGED <<log, born, decisions>>, wf'.iter = wf.iter
  PROVE  Grows
  BY DEF Grows

\* An append that neither admits an operation nor selects a rewind.
LEMMA PlainAppend ==
  ASSUME Inv, NEW id, NEW event, log' = AppendEvent(log, id, event),
         UNCHANGED <<snapshots, wf, objects, born, decisions>>,
         id[1] \notin {"UtilityOperationAdmitted", "RecoveryDecisionSelected"},
         id \notin DOMAIN log => EventIs(id)'
  PROVE  /\ Grows /\ Logged(id)' /\ Shown' /\ Rewind'
         /\ \A e \in DOMAIN log' : e \notin DOMAIN log => EventIs(e)'
<1>1. Grows /\ Logged(id)' /\ DOMAIN log' = DOMAIN log \cup {id}
  BY AppendGrows
<1>2. \A e \in DOMAIN log' : e \notin DOMAIN log => e = id
  BY <1>1
<1>3. Shown'
  BY <1>1, <1>2, ShownStays DEF Inv, Alone
<1>4. Rewind'
  BY <1>1, <1>2, RewindStays DEF Inv
<1> QED
  BY <1>1, <1>2, <1>3, <1>4

\* A step of the people and of the controllers alone.
LEMMA PlainStep ==
  ASSUME Inv, UNCHANGED <<log, snapshots, wf, objects, born, decisions>>
  PROVE  /\ Grows /\ Shown' /\ Rewind'
         /\ \A e \in DOMAIN log' : e \notin DOMAIN log => EventIs(e)'
  BY SameGrows, ShownStays, RewindStays DEF Inv, Alone

\* The status of the workflow by its fields.
LEMMA WfIs ==
  ASSUME Typed
  PROVE  /\ wf.stage \in StepNames /\ wf.iter \in 1 .. MaxIteration
         /\ wf.phase \in {"Running", "Succeeded", "Failed"}
         /\ wf.active \in {Name(u) : u \in born} \cup {None} /\ wf.observed \in born \cup {None}
  BY DEF Typed, StatusRec

\* StartReconcile, with recordWorkflowRecovery.
LEMMA StartKeeps ==
  ASSUME Inv, StartReconcile PROVE Inv'
<1>0. SUFFICES ASSUME NEW id, id = DecisionID, NEW event, event = RecoveryEvent PROVE Inv'
  OBVIOUS
<1>1. /\ UNCHANGED <<snapshots, wf, objects, born, decisions, outside, faults>>
      /\ pc["workflow"].at = "idle"
      /\ log' = IF wf.recovery = None THEN log ELSE AppendEvent(log, id, event)
      /\ \/ Running /\ AttemptDue /\ Goes("workflow", "create", None)
         \/ pc' = pc
  BY <1>0 DEF StartReconcile, At, recordWorkflowRecovery
<1>2. id[1] = "RecoveryDecisionSelected" /\ id[2] = wf.recovery.trigger /\ id[3] = wf.iter
      /\ id = RecoveryID(wf.recovery.trigger, wf.iter)
  BY <1>0 DEF DecisionID, RecoveryID
<1>3. wf' = wf /\ DecisionID' = id /\ RecoveryEvent' = event
  BY <1>0, <1>1 DEF DecisionID, RecoveryEvent
<1>4. ASSUME wf.recovery # None
      PROVE  /\ Grows /\ Logged(id)' /\ DOMAIN log' = DOMAIN log \cup {id}
             /\ (id \notin DOMAIN log => log'[id] = event)
  BY <1>1, <1>4, AppendGrows
<1>5. Grows
  BY <1>1, <1>4, SameGrows
<1>6. \A e \in DOMAIN log' : e \notin DOMAIN log => e = id /\ wf.recovery # None
  BY <1>1, <1>4
<1>61. ASSUME wf.recovery # None
       PROVE  wf.recovery.trigger \in born /\ Declared(wf.recovery)'
  <2>1. \A x : Logged(x) => Logged(x)'
    BY <1>5 DEF Logged, Grows
  <2>2. wf.recovery.trigger \in born /\ Declared(wf.recovery)
    BY <1>61 DEF Inv, Rewind
  <2>3. DOMAIN log \subseteq DOMAIN log'
    BY <1>5 DEF Grows
  <2> QED
    BY <1>3, <2>1, <2>2, <2>3 DEF Declared
<1>7. ASSUME id \notin DOMAIN log, wf.recovery # None
      PROVE  EventIs(id)'
  <2>1. log'[id] = event
    BY <1>4, <1>7
  <2>3. /\ event.trigger = wf.recovery.trigger /\ event.next = <<"author", wf.iter>>
        /\ event.events = wf.recovery.events /\ event.missing = wf.recovery.missing
        /\ event.previous = wf.recovery.previous
    BY <1>0 DEF RecoveryEvent
  <2>4. Declared(log[id])'
    BY <1>3, <1>61, <1>7, <2>1, <2>3 DEF Declared
  <2>6. wf.iter \in 1 .. wf'.iter
    BY <1>1, WfIs DEF Inv
  <2>7. DecisionIs(id)'
    BY <1>1, <1>2, <1>61, <1>7, <2>1, <2>3, <2>4, <2>6 DEF DecisionIs
  <2> QED
    BY <1>2, <2>7 DEF EventIs
<1>8. \A e \in DOMAIN log' : e \notin DOMAIN log => EventIs(e)'
  BY <1>6, <1>7
<1>9. Shown'
  BY <1>1, <1>2, <1>5, <1>6, ShownStays DEF Inv, Alone
<1>10. Rewind'
  <2> SUFFICES ASSUME wf.recovery # None
               PROVE  /\ wf.recovery.trigger \in born /\ Declared(wf.recovery)'
                      /\ Logged(id)' => log'[id] = event
    BY <1>1, <1>3 DEF Rewind
  <2>2. id \in DOMAIN log => log'[id] = event
    BY <1>0, <1>5 DEF Inv, Rewind, Logged, Grows
  <2> QED
    BY <1>4, <1>61, <2>2
<1>11. CASE Running /\ AttemptDue /\ Goes("workflow", "create", None)
  <2>1. /\ pc'["workflow"].at = "create"
    BY <1>1, <1>11, GoTyped DEF Inv, Controllers, Rounds
  <2>2. wf.stage = "push" => Named(wf.active) = {}
    BY <1>11 DEF AttemptDue
  <2>3. WorkflowAt'
    BY <1>1, <1>3, <1>4, <2>1, <2>2 DEF WorkflowAt, Named
  <2> QED
    BY <1>1, <1>5, <1>8, <1>9, <1>10, <1>11, <2>3, GoKeeps DEF Controllers, Rounds, Steady
<1>12. CASE pc' = pc
  <2>1. Typed'
    BY <1>1, <1>12 DEF Inv, Typed, StatusRec, ObjectRec, SessionRec, outside
  <2>2. Places5'
    BY <1>1, <1>5, <1>12, AgentStays, UtilityStays, ApprovalStays, AttemptStays, WorkflowStays
       DEF Inv, Places5
  <2> QED
    BY <1>1, <1>5, <1>8, <1>9, <1>10, <2>1, <2>2, IncarnationsStay, AnswersStay, EventsKeep DEF Inv
<1> QED
  BY <1>1, <1>11, <1>12

\* recordWorkflowRetry.
LEMMA RetryKeeps ==
  ASSUME Inv, recordWorkflowRetry PROVE Inv'
<1>0. SUFFICES ASSUME NEW u, u = pc["workflow"].unit, NEW d, d = DecisionID,
                      NEW id, id = RetryID(d, u), NEW event,
                      event = [attempt |-> u, trigger |-> wf.recovery.trigger, decision |-> d,
                               previous |-> wf.recovery.previous, inputs |-> Pins(u)]
               PROVE  Inv'
  OBVIOUS
<1>1. /\ UNCHANGED <<snapshots, wf, objects, born, decisions, outside, faults>>
      /\ pc["workflow"].at = "retry" /\ log' = AppendEvent(log, id, event)
      /\ Goes("workflow", "publish", u)
  BY <1>0 DEF recordWorkflowRetry, At
<1>2. u \in born /\ u[2] = wf.iter /\ Logged(d) /\ wf.recovery # None /\ u[1] = "author"
  BY <1>0, <1>1 DEF Inv, Places5, WorkflowAt
<1>3. log[d] = RecoveryEvent
  BY <1>0, <1>2 DEF Inv, Rewind
<1>4. id[1] = "StepAttemptRetried" /\ id = RetryID(d, u)
  BY <1>0 DEF RetryID
<1>5. d[1] = "RecoveryDecisionSelected" /\ DecisionID' = d
  BY <1>0, <1>1 DEF DecisionID, RecoveryID
<1>6. /\ Grows /\ Logged(id)' /\ (id \notin DOMAIN log => log'[id] = event)
  BY <1>1, AppendGrows
<1>7. ASSUME id \notin DOMAIN log PROVE EventIs(id)'
  <2>1. log'[id] = event /\ log'[d] = RecoveryEvent /\ Logged(d)'
    BY <1>2, <1>3, <1>6, <1>7 DEF Grows, Logged
  <2>2. DecisionAgrees(RecoveryEvent, event)
    BY <1>0, <1>2, NameIs DEF DecisionAgrees, RecoveryEvent
  <2>3. /\ event.attempt = u /\ event.decision = d /\ event.inputs = Pins(u)
    BY <1>0
  <2>4. RetryIs(id)'
    BY <1>1, <1>2, <1>4, <1>5, <2>1, <2>2, <2>3 DEF RetryIs
  <2> QED
    BY <1>4, <2>4 DEF EventIs
<1>8. /\ Grows /\ Shown' /\ Rewind' /\ \A e \in DOMAIN log' : e \notin DOMAIN log => EventIs(e)'
  BY <1>1, <1>4, <1>7, PlainAppend
<1>9. pc'["workflow"].at = "publish" /\ pc'["workflow"].unit = u
  BY <1>1, <1>2, GoTyped DEF Inv, Controllers, Rounds
<1>10. WorkflowAt'
  BY <1>1, <1>2, <1>5, <1>6, <1>9 DEF WorkflowAt, Grows, Logged
<1> QED
  BY <1>1, <1>2, <1>8, <1>10, GoKeeps DEF Controllers, Rounds, Steady

\* A controller goes back to where it starts.
LEMMA IdleKeeps ==
  ASSUME Inv, NEW c \in Controllers, Goes(c, "idle", None),
         UNCHANGED <<log, snapshots, wf, objects, born, decisions, outside, faults>>
  PROVE  Inv'
<1>1. pc'[c].at = "idle"
  BY GoTyped DEF Inv, Rounds
<1>2. Steady(c)'
  BY <1>1 DEF Steady, WorkflowAt, AttemptAt, ApprovalAt, AgentAt, UtilityAt
<1>3. /\ Grows /\ Shown' /\ Rewind' /\ \A e \in DOMAIN log' : e \notin DOMAIN log => EventIs(e)'
  BY PlainStep
<1>4. "idle" \in Rounds /\ None \in born \cup {None}
  BY DEF Rounds
<1>5. UNCHANGED <<snapshots, wf, objects, born, decisions, outside, faults>>
  OBVIOUS
<1> QED
  BY <1>2, <1>3, <1>4, <1>5, GoKeeps

\* A failure is copied to the log.
LEMMA PhaseEventKeeps ==
  ASSUME Inv, appendPhaseEvent PROVE Inv'
<1>0. SUFFICES ASSUME NEW u, u = pc["attempt"].unit, NEW id, id = Failure(u)
               PROVE  Inv'
  OBVIOUS
<1>1. /\ UNCHANGED <<snapshots, wf, objects, born, decisions, outside, faults>>
      /\ pc["attempt"].at = "failed" /\ log' = AppendEvent(log, id, [target |-> Name(u)])
      /\ Goes("attempt", "idle", None)
  BY <1>0 DEF appendPhaseEvent, At, Failure
<1>2. u \in born
  BY <1>0, <1>1 DEF Inv, Places5, AttemptAt
<1>3. id[1] = "StepAttemptFailed"
  BY <1>0 DEF Failure, NameID
<1>4. ASSUME id \notin DOMAIN log PROVE EventIs(id)'
  <2>1. log'[id] = [target |-> Name(u)]
    BY <1>1, <1>4, AppendGrows
  <2>2. FailureIs(id)'
    BY <1>0, <1>1, <1>2, <2>1 DEF FailureIs
  <2> QED
    BY <1>3, <2>2 DEF EventIs
<1>5. /\ Grows /\ Shown' /\ Rewind' /\ \A e \in DOMAIN log' : e \notin DOMAIN log => EventIs(e)'
  BY <1>1, <1>3, <1>4, PlainAppend
<1>6. AttemptAt'
  BY <1>1, GoTyped DEF Inv, Controllers, Rounds, AttemptAt
<1> QED
  BY <1>1, <1>5, <1>6, GoKeeps DEF Controllers, Rounds, Steady

\* The inputs of a unit are resolved.
LEMMA InputsAppend ==
  ASSUME Inv, NEW u \in born, log' = AppendEvent(log, Resolved(u), InputsEvent(u)),
         UNCHANGED <<snapshots, wf, objects, born, decisions>>
  PROVE  /\ Grows /\ Shown' /\ Rewind' /\ Logged(Resolved(u))'
         /\ \A e \in DOMAIN log' : e \notin DOMAIN log => EventIs(e)'
<1>1. SUFFICES ASSUME NEW id, id = Resolved(u)
               PROVE  /\ Grows /\ Shown' /\ Rewind' /\ Logged(id)'
                      /\ \A e \in DOMAIN log' : e \notin DOMAIN log => EventIs(e)'
  OBVIOUS
<1>2. id[1] = "InputsResolved"
  BY <1>1 DEF Resolved, NameID
<1>3. ASSUME id \notin DOMAIN log PROVE EventIs(id)'
  <2>1. log'[id] = InputsEvent(u)
    BY <1>1, <1>3, AppendGrows
  <2>2. InputsAre(id)'
    BY <1>1, <2>1 DEF InputsAre
  <2> QED
    BY <1>2, <2>2 DEF EventIs
<1> QED
  BY <1>1, <1>2, <1>3, PlainAppend

\* ResolveGateInputs.
LEMMA ResolveKeeps ==
  ASSUME Inv, ResolveGateInputs PROVE Inv'
<1>1. PICK g \in DOMAIN objects :
        /\ g[1] = "gate" /\ log' = AppendEvent(log, Resolved(g), InputsEvent(g))
        /\ Goes("approval", "await", g)
  BY DEF ResolveGateInputs, Resolved
<1>2. UNCHANGED <<snapshots, wf, objects, born, decisions, outside, faults>> /\ g \in born
  BY DEF ResolveGateInputs, Inv, Typed
<1>3. /\ Grows /\ Shown' /\ Rewind' /\ Logged(Resolved(g))'
      /\ \A e \in DOMAIN log' : e \notin DOMAIN log => EventIs(e)'
  BY <1>1, <1>2, InputsAppend
<1>4. pc'["approval"].at = "await" /\ pc'["approval"].unit = g
  BY <1>1, <1>2, GoTyped DEF Inv, Controllers, Rounds
<1>5. ApprovalAt'
  BY <1>1, <1>2, <1>3, <1>4 DEF ApprovalAt
<1> QED
  BY <1>1, <1>2, <1>3, <1>5, GoKeeps DEF Controllers, Rounds, Steady

\* A decision that is there is submitted to the log.
LEMMA SubmissionAppend ==
  ASSUME Inv, NEW g \in DOMAIN decisions, log' = RecordApprovalSubmission(log, g),
         UNCHANGED <<snapshots, wf, objects, born, decisions>>
  PROVE  /\ Grows /\ Shown' /\ Rewind' /\ Logged(Submitted(g))'
         /\ \A e \in DOMAIN log' : e \notin DOMAIN log => EventIs(e)'
<1>1. SUFFICES ASSUME NEW id, id = Submitted(g), NEW event, event = SubmissionEvent(g)
               PROVE  /\ Grows /\ Shown' /\ Rewind' /\ Logged(id)'
                      /\ \A e \in DOMAIN log' : e \notin DOMAIN log => EventIs(e)'
  OBVIOUS
<1>2. id[1] = "ApprovalDecisionSubmitted" /\ log' = AppendEvent(log, id, event)
  BY <1>1 DEF Submitted, UnitID, RecordApprovalSubmission
<1>3. ASSUME id \notin DOMAIN log PROVE EventIs(id)'
  <2>1. log'[id] = event /\ event = SubmissionEvent(g)'
    BY <1>1, <1>2, <1>3, AppendGrows DEF SubmissionEvent
  <2>2. SubmissionIs(id)'
    BY <1>1, <2>1 DEF SubmissionIs
  <2> QED
    BY <1>2, <2>2 DEF EventIs
<1> QED
  BY <1>1, <1>2, <1>3, PlainAppend

\* A decision whose inputs are there is admitted to the log.
LEMMA AdmissionEvents ==
  ASSUME Inv, NEW g \in DOMAIN decisions, g[1] = "gate", Logged(Resolved(g)),
         log' = RecordApprovalAdmission(log, g), born \subseteq born', UNCHANGED <<decisions, wf>>
  PROVE  /\ Grows /\ Logged(Submitted(g))' /\ Logged(Admitted(g))'
         /\ \A e \in DOMAIN log' : e \notin DOMAIN log =>
              /\ EventIs(e)'
              /\ e[1] \in {"ApprovalDecisionSubmitted", "ApprovalDecisionAdmitted"}
<1>0. SUFFICES ASSUME NEW a, a = Submitted(g), NEW b, b = Admitted(g),
                      NEW x, x = SubmissionEvent(g),
                      NEW y, y = [SubmissionEvent(g) EXCEPT !.submission = Submitted(g)]
               PROVE  /\ Grows /\ Logged(a)' /\ Logged(b)'
                      /\ \A e \in DOMAIN log' : e \notin DOMAIN log =>
                        /\ EventIs(e)'
                        /\ e[1] \in {"ApprovalDecisionSubmitted", "ApprovalDecisionAdmitted"}
  OBVIOUS
<1>1. a[1] = "ApprovalDecisionSubmitted" /\ b[1] = "ApprovalDecisionAdmitted" /\ a # b
  BY <1>0 DEF Submitted, Admitted, UnitID
<1>2. log' = AppendEvent(AppendEvent(log, a, x), b, y)
  BY <1>0 DEF RecordApprovalAdmission, RecordApprovalSubmission
<1>3. /\ DOMAIN log' = DOMAIN log \cup {a, b} /\ \A e \in DOMAIN log : log'[e] = log[e]
      /\ a \notin DOMAIN log => log'[a] = x
      /\ b \notin DOMAIN log => log'[b] = y
  BY <1>1, <1>2 DEF AppendEvent
<1>4. Grows /\ Logged(a)' /\ Logged(b)' /\ Logged(Resolved(g))'
  BY <1>3 DEF Grows, Logged
<1>5. x = SubmissionEvent(g)' /\ y = [SubmissionEvent(g)' EXCEPT !.submission = Submitted(g)]
  BY <1>0 DEF SubmissionEvent
<1>6. ASSUME a \notin DOMAIN log PROVE EventIs(a)'
  <2>1. SubmissionIs(a)'
    BY <1>0, <1>3, <1>5, <1>6 DEF SubmissionIs
  <2> QED
    BY <1>1, <2>1 DEF EventIs
<1>7. ASSUME b \notin DOMAIN log PROVE EventIs(b)'
  <2>1. AdmissionIs(b)'
    BY <1>0, <1>3, <1>4, <1>5, <1>7 DEF AdmissionIs
  <2> QED
    BY <1>1, <2>1 DEF EventIs
<1> QED
  BY <1>1, <1>3, <1>4, <1>6, <1>7

-----------------------------------------------------------------------------
(* The controllers write.                                                   *)

\* One controller goes on, the others stay.
LEMMA PlacesGo ==
  ASSUME Inv, NEW c \in Controllers, NEW place \in Rounds, NEW u \in born \cup {None},
         Goes(c, place, u), Grows, wf' = wf, born' = born, DOMAIN objects' \subseteq DOMAIN objects,
         Steady(c)'
  PROVE  Places5' /\ pc' \in [Controllers -> [at : Rounds, unit : born' \cup {None}]]
<1>1. pc \in [Controllers -> [at : Rounds, unit : born \cup {None}]]
  BY DEF Inv, Typed
<1>2. [at |-> place, unit |-> u] \in [at : Rounds, unit : born \cup {None}]
  OBVIOUS
<1>3. pc' = [pc EXCEPT ![c] = [at |-> place, unit |-> u]]
  BY DEF Goes
<1>4. \A d \in Controllers : d # c => pc'[d] = pc[d]
  BY <1>1, <1>3
<1>5. Controllers = {"workflow", "attempt", "approval", "agent", "utility"}
  BY DEF Controllers
<1>6. Places5'
  BY <1>4, <1>5, AgentStays, UtilityStays, ApprovalStays, AttemptStays, WorkflowStays
     DEF Inv, Places5, Steady
<1> QED
  BY <1>1, <1>2, <1>3, <1>6

\* Where a controller went.
LEMMA Went ==
  ASSUME Typed, NEW c \in Controllers, NEW place, NEW u, Goes(c, place, u)
  PROVE  pc'[c].at = place /\ pc'[c].unit = u
  BY DEF Typed, Goes

\* A controller that goes idle.
LEMMA PlacesIdle ==
  ASSUME Inv, NEW c \in Controllers, Goes(c, "idle", None), Grows, wf' = wf, born' = born,
         DOMAIN objects' \subseteq DOMAIN objects
  PROVE  Places5' /\ pc' \in [Controllers -> [at : Rounds, unit : born' \cup {None}]]
<1>1. pc'[c].at = "idle"
  BY Went DEF Inv
<1>2. Steady(c)'
  BY <1>1 DEF Steady, WorkflowAt, AttemptAt, ApprovalAt, AgentAt, UtilityAt
<1>3. "idle" \in Rounds /\ None \in born \cup {None}
  BY DEF Rounds
<1> QED
  BY <1>2, <1>3, PlacesGo

\* The controllers stay.
LEMMA PlacesStay ==
  ASSUME Inv, pc' = pc, Grows, wf' = wf, born' = born, DOMAIN objects' \subseteq DOMAIN objects
  PROVE  Places5' /\ pc' \in [Controllers -> [at : Rounds, unit : born' \cup {None}]]
<1>1. Places5'
  BY AgentStays, UtilityStays, ApprovalStays, AttemptStays, WorkflowStays DEF Inv, Places5
<1> QED
  BY <1>1 DEF Inv, Typed

\* A unit that exists is written.
LEMMA Becoming ==
  ASSUME Typed, NEW u \in DOMAIN objects, NEW o, Becomes(u, o)
  PROVE  objects' = [objects EXCEPT ![u] = o]
<1>1. DOMAIN objects \cup {u} = DOMAIN objects /\ objects = [x \in DOMAIN objects |-> objects[x]]
  BY DEF Typed
<1> QED
  BY <1>1 DEF Becomes

\* What a unit must show.
Shows(u) ==
  /\ u[1] = "author" => AuthorShows(u)
  /\ u[1] = "gate" => GateShows(u)
  /\ u[1] = "push" => PushShows(u)

\* A unit is written, with what it shows in the log, and may leave an artifact.
LEMMA LeaveKeeps ==
  ASSUME Inv, NEW u \in DOMAIN objects, NEW o, o \in ObjectRec(o.binding),
         objects' = [objects EXCEPT ![u] = o], UNCHANGED <<wf, born, decisions, session, reply>>,
         artifacts' \subseteq snapshots',
         snapshots \subseteq snapshots', snapshots' \subseteq born,
         \A x \in snapshots' : x \notin snapshots => Stored(x)',
         faults' \in 0 .. MaxFaults,
         Grows, \A e \in DOMAIN log' : e \notin DOMAIN log =>
                  /\ EventIs(e)'
                  /\ e[1] \notin {"UtilityOperationAdmitted", "RecoveryDecisionSelected"},
         Shows(u)', Places5', pc' \in [Controllers -> [at : Rounds, unit : born' \cup {None}]]
  PROVE  Inv'
<1>1. DOMAIN objects' = DOMAIN objects /\ objects'[u] = o
      /\ \A x \in DOMAIN objects : x # u => Alone(x)
  BY DEF Alone
<1>2. Typed'
  <2>1. objects' = [x \in DOMAIN objects' |-> objects'[x]]
    OBVIOUS
  <2>2. \A x \in DOMAIN objects' : objects'[x] \in ObjectRec(objects'[x].binding)
    BY <1>1 DEF Inv, Typed, Alone
  <2>3. wf' \in StatusRec(wf.recovery)'
    BY DEF Inv, Typed, StatusRec
  <2>4. session' \in [Users -> SessionRec'] /\ reply' = reply
    BY DEF Inv, Typed, SessionRec
  <2> QED
    BY <1>1, <2>1, <2>2, <2>3, <2>4 DEF Inv, Typed, ObjectRec
<1>3. Incarnations' /\ Answers' /\ Events' /\ Rewind'
  BY <1>1, IncarnationsStay, AnswersSame, EventsKeep, RewindStays DEF Inv
<1>4. \A x : Logged(OpAdmitted(x))' => Logged(OpAdmitted(x))
  BY DEF Logged, OpAdmitted, UnitID
<1>5. \A x \in DOMAIN objects' : Shows(x)'
  <2> SUFFICES ASSUME NEW x \in DOMAIN objects', x # u PROVE Shows(x)'
    OBVIOUS
  <2> QED
    BY <1>1, <1>4, UnitStays DEF Inv, Shows
<1>6. \A x \in snapshots' : Stored(x)'
  BY DEF Inv, Shown, Stored, Logged, Grows
<1>7. Shown'
  BY <1>5, <1>6 DEF Shown, Shows
<1> QED
  BY <1>2, <1>3, <1>7 DEF Inv

\* A unit is written and leaves none.
LEMMA WriteKeeps ==
  ASSUME Inv, NEW u \in DOMAIN objects, NEW o, o \in ObjectRec(o.binding),
         objects' = [objects EXCEPT ![u] = o], UNCHANGED <<wf, born, decisions, outside>>,
         snapshots \subseteq snapshots', snapshots' \subseteq born,
         \A x \in snapshots' : x \notin snapshots => Stored(x)',
         faults' \in 0 .. MaxFaults,
         Grows, \A e \in DOMAIN log' : e \notin DOMAIN log =>
                  /\ EventIs(e)'
                  /\ e[1] \notin {"UtilityOperationAdmitted", "RecoveryDecisionSelected"},
         Shows(u)', Places5', pc' \in [Controllers -> [at : Rounds, unit : born' \cup {None}]]
  PROVE  Inv'
<1>1. UNCHANGED <<session, reply>> /\ artifacts' \subseteq snapshots'
  BY DEF outside, Inv, Typed
<1> QED
  BY <1>1, LeaveKeeps

\* A unit that exists.
LEMMA ObjectIs ==
  ASSUME Typed, NEW u \in DOMAIN objects
  PROVE  /\ objects[u] \in ObjectRec(objects[u].binding)
         /\ objects[u].phase \in Phases /\ objects[u].attempt \in {"open", "Succeeded", "Failed"}
         /\ objects[u].ref \in BOOLEAN /\ objects[u].decided \in BOOLEAN
         /\ objects[u].policy \in BOOLEAN
         /\ objects[u].job \in {"none", "running", "inferring", "ended"}
         /\ u \in born /\ u \in Units
  BY DEF Typed, ObjectRec

\* setAwaiting.
LEMMA AwaitKeeps ==
  ASSUME Inv, setAwaiting PROVE Inv'
<1>0. SUFFICES ASSUME NEW g, g = pc["approval"].unit, NEW o,
                    o = [objects[g] EXCEPT !.phase = "Awaiting"]
               PROVE  Inv'
  OBVIOUS
<1>1. /\ UNCHANGED <<log, snapshots, wf, born, decisions, outside, faults>>
      /\ pc["approval"].at = "await" /\ Goes("approval", "idle", None)
      /\ Writes(g, "Pending", o)
  BY <1>0 DEF setAwaiting, At
<1>2. g[1] = "gate" /\ Logged(Resolved(g))
  BY <1>0, <1>1 DEF Inv, Places5, ApprovalAt
<1>3. CASE objects' = objects
  BY <1>1, <1>3, IdleKeeps DEF Controllers
<1>4. CASE Exists(g) /\ objects[g].phase = "Pending" /\ Becomes(g, o)
  <2>1. g \in DOMAIN objects /\ objects' = [objects EXCEPT ![g] = o]
    BY <1>4, Becoming DEF Exists, Inv
  <2>2. o \in ObjectRec(o.binding) /\ o.job = objects[g].job /\ o.phase = "Awaiting"
    BY <1>0, <2>1, ObjectIs DEF Inv, ObjectRec, Phases
  <2>3. objects'[g] = o /\ GateShows(g)
    BY <1>2, <1>4, <2>1 DEF Inv, Shown
  <2>4. Shows(g)'
    BY <1>1, <1>2, <2>2, <2>3 DEF Shows, GateShows, Logged
  <2>5. Grows
    BY <1>1, SameGrows
  <2>6. Places5' /\ pc' \in [Controllers -> [at : Rounds, unit : born' \cup {None}]]
    BY <1>1, <2>1, <2>5, PlacesIdle DEF Controllers
  <2>7. faults' \in 0 .. MaxFaults /\ snapshots' \subseteq born
    BY <1>1 DEF Inv, Typed
  <2> QED
    BY <1>1, <2>1, <2>2, <2>4, <2>5, <2>6, <2>7, WriteKeeps
<1> QED
  BY <1>1, <1>3, <1>4 DEF Writes

\* resolveDecision.
LEMMA ResolveDecisionKeeps ==
  ASSUME Inv, resolveDecision PROVE Inv'
<1>1. PICK g \in DOMAIN objects \cap DOMAIN decisions :
        /\ objects[g].phase = "Awaiting"
        /\ \/ /\ log' = RecordApprovalSubmission(log, g)
              /\ Goes("approval", "decide", g) /\ objects' = objects
           \/ /\ Becomes(g, [objects[g] EXCEPT !.phase = "Failed"])
              /\ UNCHANGED <<log, pc>>
  BY DEF resolveDecision
<1>2. UNCHANGED <<snapshots, wf, born, decisions, outside, faults>> /\ g \in born /\ g[1] = "gate"
  BY DEF resolveDecision, Inv, Typed
<1>3. CASE /\ log' = RecordApprovalSubmission(log, g)
           /\ Goes("approval", "decide", g) /\ objects' = objects
  <2>1. /\ Grows /\ Shown' /\ Rewind'
        /\ \A e \in DOMAIN log' : e \notin DOMAIN log => EventIs(e)'
    BY <1>2, <1>3, SubmissionAppend
  <2>2. pc'["approval"].at = "decide" /\ pc'["approval"].unit = g
    BY <1>3, Went DEF Inv, Controllers
  <2>3. ApprovalAt'
    BY <1>1, <1>2, <2>2 DEF ApprovalAt
  <2>4. UNCHANGED <<snapshots, wf, objects, born, decisions, outside, faults>>
    BY <1>2, <1>3
  <2> QED
    BY <1>2, <1>3, <2>1, <2>3, <2>4, GoKeeps DEF Controllers, Rounds, Steady
<1>4. CASE Becomes(g, [objects[g] EXCEPT !.phase = "Failed"]) /\ UNCHANGED <<log, pc>>
  <2>0. SUFFICES ASSUME NEW o, o = [objects[g] EXCEPT !.phase = "Failed"] PROVE Inv'
    OBVIOUS
  <2>1. g \in DOMAIN objects /\ objects' = [objects EXCEPT ![g] = o]
    BY <1>4, <2>0, Becoming DEF Inv
  <2>2. o \in ObjectRec(o.binding) /\ o.job = objects[g].job /\ o.phase = "Failed"
        /\ o.decided = objects[g].decided
    BY <2>0, <2>1, ObjectIs DEF Inv, ObjectRec, Phases
  <2>3. objects'[g] = o /\ GateShows(g)
    BY <1>1, <1>2, <2>1 DEF Inv, Shown
  <2>4. Shows(g)'
    BY <1>2, <1>4, <2>2, <2>3 DEF Shows, GateShows, Logged
  <2>5. Grows
    BY <1>2, <1>4, SameGrows
  <2>6. Places5' /\ pc' \in [Controllers -> [at : Rounds, unit : born' \cup {None}]]
    BY <1>2, <1>4, <2>1, <2>5, PlacesStay
  <2>7. faults' \in 0 .. MaxFaults /\ snapshots' \subseteq born
    BY <1>2 DEF Inv, Typed
  <2> QED
    BY <1>2, <1>4, <2>1, <2>2, <2>4, <2>5, <2>6, <2>7, WriteKeeps
<1> QED
  BY <1>1, <1>3, <1>4

\* finishApproval.
LEMMA FinishKeeps ==
  ASSUME Inv, finishApproval PROVE Inv'
<1>0. SUFFICES ASSUME NEW g, g = pc["approval"].unit,
                      NEW phase,
                      phase = IF decisions[g].choice = "Approved" THEN "Succeeded" ELSE "Failed",
                      NEW o, o = [objects[g] EXCEPT !.phase = phase, !.decided = TRUE]
               PROVE  Inv'
  OBVIOUS
<1>1. /\ UNCHANGED <<log, snapshots, wf, born, decisions, outside, faults>>
      /\ pc["approval"].at = "decide" /\ Goes("approval", "idle", None)
      /\ Writes(g, "Awaiting", o)
  BY <1>0 DEF finishApproval, At
<1>2. g[1] = "gate"
  BY <1>0, <1>1 DEF Inv, Places5, ApprovalAt
<1>3. CASE objects' = objects
  BY <1>1, <1>3, IdleKeeps DEF Controllers
<1>4. CASE Exists(g) /\ objects[g].phase = "Awaiting" /\ Becomes(g, o)
  <2>1. g \in DOMAIN objects /\ objects' = [objects EXCEPT ![g] = o]
    BY <1>4, Becoming DEF Exists, Inv
  <2>2. o \in ObjectRec(o.binding) /\ o.job = objects[g].job
    <3>1. phase \in Phases
      BY <1>0 DEF Phases
    <3>2. objects[g] \in ObjectRec(objects[g].binding)
      BY <2>1, ObjectIs DEF Inv
    <3>3. o.binding = objects[g].binding /\ o.job = objects[g].job
      BY <1>0, <3>2 DEF ObjectRec
    <3>4. o \in ObjectRec(objects[g].binding)
      BY <1>0, <3>1, <3>2 DEF ObjectRec
    <3> QED
      BY <3>3, <3>4
  <2>3. objects'[g] = o /\ GateShows(g)
    BY <1>2, <1>4, <2>1 DEF Inv, Shown
  <2>4. Shows(g)'
    BY <1>1, <1>2, <1>4, <2>2, <2>3 DEF Shows, GateShows, Logged
  <2>5. Grows
    BY <1>1, SameGrows
  <2>6. Places5' /\ pc' \in [Controllers -> [at : Rounds, unit : born' \cup {None}]]
    BY <1>1, <2>1, <2>5, PlacesIdle DEF Controllers
  <2>7. faults' \in 0 .. MaxFaults /\ snapshots' \subseteq born
    BY <1>1 DEF Inv, Typed
  <2> QED
    BY <1>1, <2>1, <2>2, <2>4, <2>5, <2>6, <2>7, WriteKeeps
<1> QED
  BY <1>1, <1>3, <1>4 DEF Writes

\* recordAdmittedDecision.
LEMMA AdmittedKeeps ==
  ASSUME Inv, recordAdmittedDecision PROVE Inv'
<1>1. PICK g \in DOMAIN objects \cap DOMAIN decisions :
        objects[g].decided /\ log' = RecordApprovalAdmission(log, g)
  BY DEF recordAdmittedDecision
<1>2. UNCHANGED <<snapshots, wf, objects, born, decisions, pc, outside, faults>>
  BY DEF recordAdmittedDecision
<1>3. g[1] = "gate" /\ Logged(Resolved(g))
  BY <1>1 DEF Inv, Typed, Shown, GateShows
<1>4. /\ Grows
      /\ \A e \in DOMAIN log' : e \notin DOMAIN log =>
           /\ EventIs(e)'
           /\ e[1] \in {"ApprovalDecisionSubmitted", "ApprovalDecisionAdmitted"}
  BY <1>1, <1>2, <1>3, AdmissionEvents
<1>5. Shown' /\ Rewind'
  BY <1>2, <1>4, ShownStays, RewindStays DEF Inv, Alone
<1>6. Places5'
  BY <1>2, <1>4, PlacesStay
<1>7. Typed'
  BY <1>2 DEF Inv, Typed, StatusRec, ObjectRec, SessionRec, outside
<1> QED
  BY <1>2, <1>4, <1>5, <1>6, <1>7, IncarnationsStay, AnswersStay, EventsKeep DEF Inv

\* ObserveEnd.
LEMMA ObserveEndKeeps ==
  ASSUME Inv, ObserveEnd PROVE Inv'
<1>1. PICK u \in DOMAIN objects :
       /\ objects[u].attempt = "open" /\ objects[u].phase \in Terminal
       /\ Becomes(u, [objects[u] EXCEPT !.attempt = objects[u].phase])
       /\ Goes("attempt", "failed", u) \/ pc' = pc
  BY DEF ObserveEnd
<1>2. UNCHANGED <<log, snapshots, wf, born, decisions, outside, faults>> /\ u \in born
  BY DEF ObserveEnd, Inv, Typed
<1>3. SUFFICES ASSUME NEW o, o = [objects[u] EXCEPT !.attempt = objects[u].phase] PROVE Inv'
  OBVIOUS
<1>4. objects' = [objects EXCEPT ![u] = o]
  BY <1>1, <1>3, Becoming DEF Inv
<1>5. o \in ObjectRec(o.binding) /\ o.job = objects[u].job /\ o.phase = objects[u].phase
      /\ o.attempt = objects[u].phase /\ o.decided = objects[u].decided
      /\ o.binding = objects[u].binding
  BY <1>1, <1>3, ObjectIs DEF Inv, ObjectRec, Phases, Terminal
<1>6. Grows
  BY <1>2, SameGrows
<1>7. Shows(u)'
  BY <1>2, <1>4, <1>5 DEF Inv, Shown, Shows, AuthorShows, GateShows, PushShows, BoundTo, Logged,
                          Binding
<1>8. Places5' /\ pc' \in [Controllers -> [at : Rounds, unit : born' \cup {None}]]
  <2>1. DOMAIN objects' = DOMAIN objects
    BY <1>4
  <2>2. CASE pc' = pc
    BY <1>2, <1>6, <2>1, <2>2, PlacesStay
  <2>3. CASE Goes("attempt", "failed", u)
    <3>1. Steady("attempt")'
      BY <1>2, <2>3, Went DEF Inv, Controllers, Steady, AttemptAt
    <3> QED
      BY <1>2, <1>6, <2>1, <2>3, <3>1, PlacesGo DEF Controllers, Rounds
  <2> QED
    BY <1>1, <2>2, <2>3
<1>9. faults' \in 0 .. MaxFaults /\ snapshots' \subseteq born
  BY <1>2 DEF Inv, Typed
<1> QED
  BY <1>2, <1>4, <1>5, <1>6, <1>7, <1>8, <1>9, WriteKeeps

-----------------------------------------------------------------------------
(* Agents and operations.                                                   *)

\* StartAgent.
LEMMA StartAgentKeeps ==
  ASSUME Inv, StartAgent PROVE Inv'
<1>1. PICK u \in DOMAIN objects : u[1] = "author" /\ Goes("agent", "1", u)
  BY DEF StartAgent
<1>2. UNCHANGED <<log, snapshots, wf, objects, born, decisions, outside, faults>> /\ u \in born
  BY DEF StartAgent, Inv, Typed
<1>3. /\ Grows /\ Shown' /\ Rewind' /\ \A e \in DOMAIN log' : e \notin DOMAIN log => EventIs(e)'
  BY <1>2, PlainStep
<1>4. pc'["agent"].at = "1" /\ pc'["agent"].unit = u
  BY <1>1, Went DEF Inv, Controllers
<1>5. AgentAt'
  BY <1>1, <1>2, <1>4 DEF AgentAt
<1>6. UNCHANGED <<snapshots, wf, objects, born, decisions, outside, faults>>
  BY <1>2
<1> QED
  BY <1>1, <1>2, <1>3, <1>5, <1>6, GoKeeps DEF Controllers, Rounds, Steady

\* The authority of a unit is established.
LEMMA AuthorityAppend ==
  ASSUME Inv, NEW u \in born, NEW id, id = IF u[1] = "push" THEN OpAuthority(u) ELSE Authority(u),
         log' = AppendEvent(log, id, [primitive |-> u]),
         UNCHANGED <<snapshots, wf, objects, born, decisions>>
  PROVE  /\ Grows /\ Shown' /\ Rewind' /\ Logged(id)'
         /\ \A e \in DOMAIN log' : e \notin DOMAIN log => EventIs(e)'
<1>2. id[1] = "ExecutionAuthorityEstablished"
  BY DEF OpAuthority, Authority, NameID, UnitID
<1>3. ASSUME id \notin DOMAIN log PROVE EventIs(id)'
  <2>1. log'[id] = [primitive |-> u]
    BY <1>3, AppendGrows
  <2>2. AuthorityIs(id)'
    BY <2>1 DEF AuthorityIs
  <2> QED
    BY <1>2, <2>2 DEF EventIs
<1> QED
  BY <1>2, <1>3, PlainAppend

\* The agent's controller appends the last of its events.
LEMMA AgentAppend ==
  ASSUME Inv, NEW u \in born, u[1] = "author", Logged(Authority(u)), Logged(Resolved(u)),
         NEW id, id = NameID("AgentExecutionAuthorized", u),
         log' = AppendEvent(log, id,
                  [primitive |-> u, authority |-> Authority(u), input |-> Resolved(u)]),
         UNCHANGED <<snapshots, wf, objects, born, decisions>>
  PROVE  /\ Grows /\ Shown' /\ Rewind' /\ Logged(id)'
         /\ \A e \in DOMAIN log' : e \notin DOMAIN log => EventIs(e)'
<1>1. Grows /\ (id \notin DOMAIN log =>
        log'[id] = [primitive |-> u, authority |-> Authority(u), input |-> Resolved(u)])
  BY AppendGrows
<1>2. id[1] = "AgentExecutionAuthorized"
  BY DEF NameID
<1>3. ASSUME id \notin DOMAIN log PROVE EventIs(id)'
  <2>1. Logged(Authority(u))' /\ Logged(Resolved(u))'
    BY <1>1 DEF Logged, Grows
  <2>2. AgentIs(id)'
    BY <1>1, <1>3, <2>1 DEF AgentIs
  <2> QED
    BY <1>2, <2>2 DEF EventIs
<1> QED
  BY <1>2, <1>3, PlainAppend

\* The operation's controller appends the last of its events.
LEMMA UtilityAppend ==
  ASSUME Inv, NEW u \in born, u[1] = "push",
         Logged(OpAdmitted(u)), Logged(OpAuthority(u)), Logged(Resolved(u)),
         NEW id, id = UnitID("UtilityExecutionAuthorized", u),
         log' = AppendEvent(log, id,
                  [primitive |-> u, evidence |-> {OpAdmitted(u)}, authority |-> OpAuthority(u),
                   input |-> Resolved(u)]),
         UNCHANGED <<snapshots, wf, objects, born, decisions>>
  PROVE  /\ Grows /\ Shown' /\ Rewind' /\ Logged(id)'
         /\ \A e \in DOMAIN log' : e \notin DOMAIN log => EventIs(e)'
<1>1. Grows /\ (id \notin DOMAIN log =>
        log'[id] = [primitive |-> u, evidence |-> {OpAdmitted(u)}, authority |-> OpAuthority(u),
                    input |-> Resolved(u)])
  BY AppendGrows
<1>2. id[1] = "UtilityExecutionAuthorized"
  BY DEF UnitID
<1>3. ASSUME id \notin DOMAIN log PROVE EventIs(id)'
  <2>1. Logged(OpAdmitted(u))' /\ Logged(OpAuthority(u))' /\ Logged(Resolved(u))'
    BY <1>1 DEF Logged, Grows
  <2>2. UtilityIs(id)'
    BY <1>1, <1>3, <2>1 DEF UtilityIs
  <2> QED
    BY <1>2, <2>2 DEF EventIs
<1> QED
  BY <1>2, <1>3, PlainAppend

\* AppendNext of an agent run.
LEMMA AgentNextKeeps ==
  ASSUME Inv, AppendNext("agent", AgentEvents(pc["agent"].unit)) PROVE Inv'
<1>0. SUFFICES ASSUME NEW u, u = pc["agent"].unit PROVE Inv'
  OBVIOUS
<1>1. PICK k \in 1 .. 3 :
        /\ pc["agent"].at = Places[k]
        /\ log' = AppendEvent(log, AgentEvents(u)[k].id, AgentEvents(u)[k].event)
        /\ Goes("agent", Places[k + 1], u)
        /\ UNCHANGED <<snapshots, wf, objects, born, decisions, outside, faults>>
  BY <1>0 DEF AppendNext, At
<1>2. u \in born /\ u[1] = "author"
  BY <1>0, <1>1 DEF Inv, Places5, AgentAt, Places
<1>3. UNCHANGED <<snapshots, wf, objects, born, decisions>>
  BY <1>1
<1>4. CASE k = 1
  <2>1. log' = AppendEvent(log, Resolved(u), InputsEvent(u)) /\ Goes("agent", "2", u)
    BY <1>1, <1>4 DEF AgentEvents, Places, Resolved
  <2>2. /\ Grows /\ Shown' /\ Rewind' /\ Logged(Resolved(u))'
        /\ \A e \in DOMAIN log' : e \notin DOMAIN log => EventIs(e)'
    BY <1>2, <1>3, <2>1, InputsAppend
  <2>3. pc'["agent"].at = "2" /\ pc'["agent"].unit = u
    BY <2>1, Went DEF Inv, Controllers
  <2>4. AgentAt'
    BY <1>1, <1>2, <2>2, <2>3 DEF AgentAt
  <2> QED
    BY <1>1, <1>2, <2>1, <2>2, <2>4, GoKeeps DEF Controllers, Rounds, Steady
<1>5. CASE k = 2
  <2>0. Logged(Resolved(u))
    BY <1>0, <1>1, <1>5 DEF Inv, Places5, AgentAt, Places
  <2>1. log' = AppendEvent(log, Authority(u), [primitive |-> u]) /\ Goes("agent", "3", u)
    BY <1>1, <1>5 DEF AgentEvents, Places
  <2>2. /\ Grows /\ Shown' /\ Rewind' /\ Logged(Authority(u))'
        /\ \A e \in DOMAIN log' : e \notin DOMAIN log => EventIs(e)'
    BY <1>2, <1>3, <2>1, AuthorityAppend
  <2>3. pc'["agent"].at = "3" /\ pc'["agent"].unit = u /\ Logged(Resolved(u))'
    BY <2>0, <2>1, <2>2, Went DEF Inv, Controllers, Logged, Grows
  <2>4. AgentAt'
    BY <1>1, <1>2, <2>2, <2>3 DEF AgentAt
  <2> QED
    BY <1>1, <1>2, <2>1, <2>2, <2>4, GoKeeps DEF Controllers, Rounds, Steady
<1>6. CASE k = 3
  <2>0. Logged(Resolved(u)) /\ Logged(Authority(u))
    BY <1>0, <1>1, <1>6 DEF Inv, Places5, AgentAt, Places
  <2>1. /\ log' = AppendEvent(log, NameID("AgentExecutionAuthorized", u),
                    [primitive |-> u, authority |-> Authority(u), input |-> Resolved(u)])
        /\ Goes("agent", "job", u)
    BY <1>1, <1>6 DEF AgentEvents, Places, Resolved
  <2>2. /\ Grows /\ Shown' /\ Rewind' /\ Logged(NameID("AgentExecutionAuthorized", u))'
        /\ \A e \in DOMAIN log' : e \notin DOMAIN log => EventIs(e)'
    BY <1>2, <1>3, <2>0, <2>1, AgentAppend
  <2>3. /\ pc'["agent"].at = "job" /\ pc'["agent"].unit = u
        /\ Logged(Resolved(u))' /\ Logged(Authority(u))'
    BY <2>0, <2>1, <2>2, Went DEF Inv, Controllers, Logged, Grows
  <2>4. AgentAt'
    BY <1>1, <1>2, <2>2, <2>3 DEF AgentAt
  <2> QED
    BY <1>1, <1>2, <2>1, <2>2, <2>4, GoKeeps DEF Controllers, Rounds, Steady
<1> QED
  BY <1>4, <1>5, <1>6

\* AppendNext of an operation.
LEMMA UtilityNextKeeps ==
  ASSUME Inv, AppendNext("utility", UtilityEvents(pc["utility"].unit)) PROVE Inv'
<1>0. SUFFICES ASSUME NEW u, u = pc["utility"].unit PROVE Inv'
  OBVIOUS
<1>1. PICK k \in 1 .. 3 :
        /\ pc["utility"].at = Places[k]
        /\ log' = AppendEvent(log, UtilityEvents(u)[k].id, UtilityEvents(u)[k].event)
        /\ Goes("utility", Places[k + 1], u)
        /\ UNCHANGED <<snapshots, wf, objects, born, decisions, outside, faults>>
  BY <1>0 DEF AppendNext, At
<1>2. u \in born /\ u[1] = "push" /\ Logged(OpAdmitted(u))
  BY <1>0, <1>1 DEF Inv, Places5, UtilityAt, Places
<1>3. UNCHANGED <<snapshots, wf, objects, born, decisions>>
  BY <1>1
<1>4. CASE k = 1
  <2>1. log' = AppendEvent(log, OpAuthority(u), [primitive |-> u]) /\ Goes("utility", "2", u)
    BY <1>1, <1>4 DEF UtilityEvents, Places, OpAuthority
  <2>2. /\ Grows /\ Shown' /\ Rewind' /\ Logged(OpAuthority(u))'
        /\ \A e \in DOMAIN log' : e \notin DOMAIN log => EventIs(e)'
    BY <1>2, <1>3, <2>1, AuthorityAppend
  <2>3. pc'["utility"].at = "2" /\ pc'["utility"].unit = u /\ Logged(OpAdmitted(u))'
    BY <1>2, <2>1, <2>2, Went DEF Inv, Controllers, Logged, Grows
  <2>4. UtilityAt'
    BY <1>1, <1>2, <2>2, <2>3 DEF UtilityAt
  <2> QED
    BY <1>1, <1>2, <2>1, <2>2, <2>4, GoKeeps DEF Controllers, Rounds, Steady
<1>5. CASE k = 2
  <2>0. Logged(OpAuthority(u))
    BY <1>0, <1>1, <1>5 DEF Inv, Places5, UtilityAt, Places
  <2>1. log' = AppendEvent(log, Resolved(u), InputsEvent(u)) /\ Goes("utility", "3", u)
    BY <1>1, <1>5 DEF UtilityEvents, Places, Resolved
  <2>2. /\ Grows /\ Shown' /\ Rewind' /\ Logged(Resolved(u))'
        /\ \A e \in DOMAIN log' : e \notin DOMAIN log => EventIs(e)'
    BY <1>2, <1>3, <2>1, InputsAppend
  <2>3. /\ pc'["utility"].at = "3" /\ pc'["utility"].unit = u
        /\ Logged(OpAdmitted(u))' /\ Logged(OpAuthority(u))'
    BY <1>2, <2>0, <2>1, <2>2, Went DEF Inv, Controllers, Logged, Grows
  <2>4. UtilityAt'
    BY <1>1, <1>2, <2>2, <2>3 DEF UtilityAt
  <2> QED
    BY <1>1, <1>2, <2>1, <2>2, <2>4, GoKeeps DEF Controllers, Rounds, Steady
<1>6. CASE k = 3
  <2>0. Logged(Resolved(u)) /\ Logged(OpAuthority(u))
    BY <1>0, <1>1, <1>6 DEF Inv, Places5, UtilityAt, Places
  <2>1. /\ log' = AppendEvent(log, UnitID("UtilityExecutionAuthorized", u),
                    [primitive |-> u, evidence |-> {OpAdmitted(u)}, authority |-> OpAuthority(u),
                     input |-> Resolved(u)])
        /\ Goes("utility", "job", u)
    BY <1>1, <1>6 DEF UtilityEvents, Places, Resolved, OpAuthority, OpAdmitted
  <2>2. /\ Grows /\ Shown' /\ Rewind' /\ Logged(UnitID("UtilityExecutionAuthorized", u))'
        /\ \A e \in DOMAIN log' : e \notin DOMAIN log => EventIs(e)'
    BY <1>2, <1>3, <2>0, <2>1, UtilityAppend
  <2>3. /\ pc'["utility"].at = "job" /\ pc'["utility"].unit = u
        /\ Logged(OpAdmitted(u))' /\ Logged(Resolved(u))' /\ Logged(OpAuthority(u))'
    BY <1>2, <2>0, <2>1, <2>2, Went DEF Inv, Controllers, Logged, Grows
  <2>4. UtilityAt'
    BY <1>1, <1>2, <2>2, <2>3 DEF UtilityAt
  <2> QED
    BY <1>1, <1>2, <2>1, <2>2, <2>4, GoKeeps DEF Controllers, Rounds, Steady
<1> QED
  BY <1>4, <1>5, <1>6

\* The pod or the job is there, and its events are in the log.
LEMMA WorkloadKeeps ==
  ASSUME Inv, NEW c \in {"agent", "utility"}, ensureWorkload(c) PROVE Inv'
<1>0. SUFFICES ASSUME NEW u, u = pc[c].unit, NEW o, o = [objects[u] EXCEPT !.job = "running"]
               PROVE  Inv'
  OBVIOUS
<1>1. /\ UNCHANGED <<log, snapshots, wf, born, decisions, outside, faults>>
      /\ pc[c].at = "job" /\ Goes(c, "idle", None)
      /\ IF Exists(u) THEN Becomes(u, o) ELSE objects' = objects
  BY <1>0 DEF ensureWorkload, At
<1>2. /\ \/ u[1] = "author" /\ Logged(NameID("AgentExecutionAuthorized", u))
         \/ u[1] = "push" /\ Logged(UnitID("UtilityExecutionAuthorized", u))
      /\ c \in Controllers
  <2>1. CASE c = "agent"
    BY <1>0, <1>1, <2>1 DEF Inv, Places5, AgentAt, Controllers
  <2>2. CASE c = "utility"
    BY <1>0, <1>1, <2>2 DEF Inv, Places5, UtilityAt, Controllers
  <2> QED
    BY <2>1, <2>2
<1>3. CASE objects' = objects
  BY <1>1, <1>2, <1>3, IdleKeeps
<1>4. CASE Exists(u) /\ Becomes(u, o)
  <2>1. u \in DOMAIN objects /\ objects' = [objects EXCEPT ![u] = o]
    BY <1>4, Becoming DEF Exists, Inv
  <2>2. o \in ObjectRec(o.binding) /\ o.job = "running" /\ o.phase = objects[u].phase
        /\ o.attempt = objects[u].attempt /\ o.binding = objects[u].binding
    BY <1>0, <2>1, ObjectIs DEF Inv, ObjectRec, Phases
  <2>3. objects'[u] = o /\ Shows(u)
    BY <2>1 DEF Inv, Shown, Shows
  <2>4. Shows(u)'
    BY <1>1, <1>2, <2>2, <2>3 DEF Shows, AuthorShows, PushShows, BoundTo, Binding, Logged
  <2>5. Grows
    BY <1>1, SameGrows
  <2>6. Places5' /\ pc' \in [Controllers -> [at : Rounds, unit : born' \cup {None}]]
    BY <1>1, <1>2, <2>1, <2>5, PlacesIdle
  <2>7. faults' \in 0 .. MaxFaults /\ snapshots' \subseteq born
    BY <1>1 DEF Inv, Typed
  <2> QED
    BY <1>1, <2>1, <2>2, <2>4, <2>5, <2>6, <2>7, WriteKeeps
<1> QED
  BY <1>1, <1>3, <1>4

\* What Approves finds.
LEMMA ApprovedIs ==
  ASSUME Inv, NEW g, Approves(g)
  PROVE  /\ g \in DOMAIN decisions /\ g[1] = "gate" /\ g[2] = wf.iter /\ Logged(Resolved(g))
         /\ decisions[g].choice = "Approved" /\ ResolvedApproval(g) = Binding(g)
<1>1. g \in DOMAIN objects /\ g[1] = "gate" /\ g[2] = wf.iter
  BY NameIs DEF Approves, Exists
<1>2. Logged(Resolved(g))
  BY <1>1 DEF Approves, Inv, Shown, GateShows
<1> QED
  BY <1>1, <1>2 DEF Approves, ResolvedApproval, Binding

\* ensureValidOperation.
LEMMA ValidKeeps ==
  ASSUME Inv, ensureValidOperation PROVE Inv'
<1>1. PICK u \in DOMAIN objects :
        /\ u[1] = "push" /\ ValidateOperationApproval(u)
        /\ Goes("utility", IF /\ objects[u].policy
                              /\ UnitID("UtilityOperationAdmitted", u) \in DOMAIN log
                           THEN "1" ELSE "admit", u)
  BY DEF ensureValidOperation
<1>2. UNCHANGED <<snapshots, wf, objects, born, decisions, outside, faults>> /\ u \in born
  BY DEF ensureValidOperation, Inv, Typed
<1>3. PICK g \in DOMAIN objects : Approves(g) /\ log' = RecordApprovalAdmission(log, g)
  BY <1>1 DEF ValidateOperationApproval
<1>4. /\ Grows
      /\ \A e \in DOMAIN log' : e \notin DOMAIN log =>
           /\ EventIs(e)'
           /\ e[1] \in {"ApprovalDecisionSubmitted", "ApprovalDecisionAdmitted"}
  BY <1>2, <1>3, ApprovedIs, AdmissionEvents
<1>5. Shown' /\ Rewind'
  BY <1>2, <1>4, ShownStays, RewindStays DEF Inv, Alone
<1>6. PICK place \in {"1", "admit"} :
        /\ Goes("utility", place, u)
        /\ place = "1" => Logged(OpAdmitted(u))
  BY <1>1 DEF Logged, OpAdmitted
<1>7. pc'["utility"].at = place /\ pc'["utility"].unit = u
  BY <1>6, Went DEF Inv, Controllers
<1>8. UtilityAt'
  BY <1>1, <1>2, <1>4, <1>6, <1>7 DEF UtilityAt, Logged, Grows
<1>9. UNCHANGED <<snapshots, wf, objects, born, decisions, outside, faults>> /\ place \in Rounds
  BY <1>2 DEF Rounds
<1> QED
  BY <1>2, <1>4, <1>5, <1>6, <1>8, <1>9, GoKeeps DEF Controllers, Steady

\* appendAdmission.
LEMMA AdmissionKeeps ==
  ASSUME Inv, appendAdmission PROVE Inv'
<1>0. SUFFICES ASSUME NEW u, u = pc["utility"].unit PROVE Inv'
  OBVIOUS
<1>1. /\ UNCHANGED <<snapshots, wf, born, decisions, outside, faults>>
      /\ pc["utility"].at = "admit" /\ u \in DOMAIN objects
      /\ \/ /\ log' = AppendEvent(log, OpAdmitted(u),
                        [primitive |-> u, binding |-> objects[u].binding,
                         evidence |-> {objects[u].binding.admission}])
            /\ Goes("utility", "policy", u) /\ objects' = objects
         \/ /\ log' = AppendEvent(log, UnitID("UtilityOperationRejected", u), [primitive |-> u])
            /\ Goes("utility", "idle", None)
            /\ Becomes(u, [objects[u] EXCEPT !.phase = "Failed"])
  BY <1>0 DEF appendAdmission, At, Exists, OpAdmitted
<1>2. u \in born /\ u[1] = "push" /\ Shows(u)
  BY <1>0, <1>1 DEF Inv, Places5, UtilityAt, Shown, Shows
<1>3. PICK g \in DOMAIN decisions : objects[u].binding = Binding(g) /\ BoundTo(u, g)
  BY <1>2 DEF Shows, PushShows
<1>4. ASSUME log' = AppendEvent(log, OpAdmitted(u),
                      [primitive |-> u, binding |-> objects[u].binding,
                       evidence |-> {objects[u].binding.admission}]),
             Goes("utility", "policy", u), objects' = objects
      PROVE  Inv'
  <2>0. SUFFICES ASSUME NEW id, id = OpAdmitted(u), NEW event,
                        event = [primitive |-> u, binding |-> objects[u].binding,
                                 evidence |-> {objects[u].binding.admission}]
                 PROVE  Inv'
    OBVIOUS
  <2>1. /\ Grows /\ Logged(id)' /\ DOMAIN log' = DOMAIN log \cup {id}
        /\ (id \notin DOMAIN log => log'[id] = event)
    BY <1>1, <1>4, <2>0, AppendGrows
  <2>2. id[1] = "UtilityOperationAdmitted" /\ id[2] = u
    BY <2>0 DEF OpAdmitted, UnitID
  <2>3. \A e \in DOMAIN log' : e \notin DOMAIN log => e = id
    BY <2>1
  <2>4. ASSUME id \notin DOMAIN log PROVE EventIs(id)'
    <3>1. event = [primitive |-> u, binding |-> Binding(g), evidence |-> {Admitted(g)}]
      BY <1>3, <2>0 DEF Binding
    <3>2. BoundTo(u, g)' /\ g \in DOMAIN decisions'
      BY <1>1, <1>3, <2>1 DEF BoundTo, Logged, Grows
    <3>3. OperationIs(id)'
      BY <1>1, <1>2, <2>0, <2>1, <2>4, <3>1, <3>2 DEF OperationIs, Binding
    <3> QED
      BY <2>2, <3>3 DEF EventIs
  <2>5. Rewind'
    BY <1>1, <2>1, <2>2, <2>3, RewindStays DEF Inv
  <2>6. \A x \in DOMAIN objects' : Shows(x)'
    <3>1. ASSUME NEW x \in DOMAIN objects, x # u PROVE Shows(x)'
      <4>1. Logged(OpAdmitted(x))' => Logged(OpAdmitted(x))
        BY <2>1, <2>2, <3>1 DEF Logged, OpAdmitted, UnitID
      <4>2. Alone(x)
        BY <1>4 DEF Alone
      <4> QED
        BY <1>1, <2>1, <4>1, <4>2, UnitStays DEF Inv, Shows
    <3>2. log'[id].binding = objects[u].binding
      BY <1>2, <2>0, <2>1 DEF Shows, PushShows, Logged, Grows
    <3>3. BoundTo(u, g)' /\ Binding(g)' = Binding(g) /\ g \in DOMAIN decisions'
      BY <1>1, <1>3, <2>1 DEF BoundTo, Logged, Grows, Binding
    <3>4. \A x : Logged(x) => Logged(x)'
      BY <2>1 DEF Logged
    <3>5. PushShows(u)'
      BY <1>2, <1>3, <1>4, <2>0, <3>2, <3>3, <3>4 DEF Shows, PushShows
    <3>6. Shows(u)'
      BY <1>2, <1>4, <3>5 DEF Shows
    <3> QED
      BY <1>4, <3>1, <3>6
  <2>7. \A x \in snapshots' : Stored(x)'
    BY <1>1, <2>1 DEF Inv, Shown, Stored, Logged
  <2>8. Shown'
    BY <2>6, <2>7 DEF Shown, Shows
  <2>9. pc'["utility"].at = "policy" /\ pc'["utility"].unit = u
    BY <1>4, Went DEF Inv, Controllers
  <2>10. UtilityAt'
    BY <1>1, <1>2, <2>0, <2>1, <2>9 DEF UtilityAt
  <2>11. UNCHANGED <<snapshots, wf, objects, born, decisions, outside, faults>>
         /\ \A e \in DOMAIN log' : e \notin DOMAIN log => EventIs(e)'
    BY <1>1, <1>4, <2>3, <2>4
  <2> QED
    BY <1>2, <1>4, <2>1, <2>5, <2>8, <2>10, <2>11, GoKeeps DEF Controllers, Rounds, Steady
<1>5. ASSUME log' = AppendEvent(log, UnitID("UtilityOperationRejected", u), [primitive |-> u]),
             Goes("utility", "idle", None), Becomes(u, [objects[u] EXCEPT !.phase = "Failed"])
      PROVE  Inv'
  <2>0. SUFFICES ASSUME NEW o, o = [objects[u] EXCEPT !.phase = "Failed"],
                        NEW id, id = UnitID("UtilityOperationRejected", u)
                 PROVE  Inv'
    OBVIOUS
  <2>1. objects' = [objects EXCEPT ![u] = o]
    BY <1>1, <1>5, <2>0, Becoming DEF Inv
  <2>2. o \in ObjectRec(o.binding) /\ o.job = objects[u].job /\ o.phase = "Failed"
        /\ o.attempt = objects[u].attempt /\ o.binding = objects[u].binding
    BY <1>1, <2>0, ObjectIs DEF Inv, ObjectRec, Phases
  <2>3. id[1] = "UtilityOperationRejected"
    BY <2>0 DEF UnitID
  <2>4. Grows /\ DOMAIN log' = DOMAIN log \cup {id}
    BY <1>1, <1>5, <2>0, AppendGrows
  <2>5. EventIs(id)'
    BY <1>1, <1>2, <2>0, <2>3 DEF EventIs
  <2>6. \A e \in DOMAIN log' : e \notin DOMAIN log =>
          /\ EventIs(e)'
          /\ e[1] \notin {"UtilityOperationAdmitted", "RecoveryDecisionSelected"}
    BY <2>3, <2>4, <2>5
  <2>7. Places5' /\ pc' \in [Controllers -> [at : Rounds, unit : born' \cup {None}]]
    BY <1>1, <1>5, <2>1, <2>4, PlacesIdle DEF Controllers
  <2>8. faults' \in 0 .. MaxFaults /\ snapshots' \subseteq born
    BY <1>1 DEF Inv, Typed
  <2>9. objects'[u] = o
    BY <1>1, <2>1
  <2>10. /\ BoundTo(u, g)' /\ Binding(g)' = Binding(g) /\ g \in DOMAIN decisions'
         /\ \A x : Logged(x) => Logged(x)'
         /\ Logged(OpAdmitted(u))' => /\ Logged(OpAdmitted(u))
                                      /\ log'[OpAdmitted(u)] = log[OpAdmitted(u)]
    BY <1>1, <1>3, <2>3, <2>4 DEF BoundTo, Logged, Grows, Binding, OpAdmitted, UnitID
  <2>11. Shows(u)'
    BY <1>2, <1>3, <2>2, <2>9, <2>10 DEF Shows, PushShows
  <2> QED
    BY <1>1, <2>1, <2>2, <2>4, <2>6, <2>7, <2>8, <2>11, WriteKeeps
<1> QED
  BY <1>1, <1>4, <1>5

\* recordPolicyDecision.
LEMMA PolicyKeeps ==
  ASSUME Inv, recordPolicyDecision PROVE Inv'
<1>0. SUFFICES ASSUME NEW u, u = pc["utility"].unit, NEW o, o = [objects[u] EXCEPT !.policy = TRUE]
               PROVE  Inv'
  OBVIOUS
<1>1. /\ UNCHANGED <<log, snapshots, wf, born, decisions, outside, faults>>
      /\ pc["utility"].at = "policy" /\ u \in DOMAIN objects
      /\ Becomes(u, o) /\ Goes("utility", "1", u)
  BY <1>0 DEF recordPolicyDecision, At, Exists
<1>2. u \in born /\ u[1] = "push" /\ Logged(OpAdmitted(u)) /\ Shows(u)
  BY <1>0, <1>1 DEF Inv, Places5, UtilityAt, Shown, Shows
<1>3. objects' = [objects EXCEPT ![u] = o]
  BY <1>1, Becoming DEF Inv
<1>4. o \in ObjectRec(o.binding) /\ o.job = objects[u].job /\ o.binding = objects[u].binding
  BY <1>0, <1>1, ObjectIs DEF Inv, ObjectRec, Phases
<1>5. objects'[u] = o /\ DOMAIN objects' = DOMAIN objects
  BY <1>1, <1>3
<1>6. Shows(u)'
  BY <1>1, <1>2, <1>4, <1>5 DEF Shows, PushShows, BoundTo, Binding, Logged
<1>7. Grows
  BY <1>1, SameGrows
<1>8. pc'["utility"].at = "1" /\ pc'["utility"].unit = u
  BY <1>1, Went DEF Inv, Controllers
<1>9. Steady("utility")'
  BY <1>1, <1>2, <1>8 DEF Steady, UtilityAt, Logged
<1>10. Places5' /\ pc' \in [Controllers -> [at : Rounds, unit : born' \cup {None}]]
  BY <1>1, <1>2, <1>5, <1>7, <1>9, PlacesGo DEF Controllers, Rounds
<1>11. faults' \in 0 .. MaxFaults /\ snapshots' \subseteq born
  BY <1>1 DEF Inv, Typed
<1> QED
  BY <1>1, <1>3, <1>4, <1>6, <1>7, <1>10, <1>11, WriteKeeps

\* The count of faults stays within its bound.
LEMMA FaultIs ==
  ASSUME Inv, Fault PROVE faults' \in 0 .. MaxFaults
  BY EvidenceAssumption DEF Inv, Typed, Fault

\* The status of one unit changes, and nobody goes on.
LEMMA EndKeeps ==
  ASSUME Inv, NEW u \in DOMAIN objects, NEW o, o \in ObjectRec(o.binding),
         objects' = [objects EXCEPT ![u] = o],
         UNCHANGED <<log, snapshots, wf, born, decisions, pc, session, reply>>,
         artifacts' \subseteq snapshots, faults' \in 0 .. MaxFaults, Shows(u)'
  PROVE  Inv'
<1>1. Grows
  BY SameGrows
<1>2. Places5' /\ pc' \in [Controllers -> [at : Rounds, unit : born' \cup {None}]]
  BY <1>1, PlacesStay
<1>3. snapshots' \subseteq born
  BY DEF Inv, Typed
<1> QED
  BY <1>1, <1>2, <1>3, LeaveKeeps

\* The same when the unit leaves no artifact.
LEMMA UnitKeeps ==
  ASSUME Inv, NEW u \in DOMAIN objects, NEW o, o \in ObjectRec(o.binding),
         objects' = [objects EXCEPT ![u] = o],
         UNCHANGED <<log, snapshots, wf, born, decisions, pc, outside>>,
         faults' \in 0 .. MaxFaults, Shows(u)'
  PROVE  Inv'
<1>1. UNCHANGED <<session, reply>> /\ artifacts' \subseteq snapshots
  BY DEF outside, Inv, Typed
<1> QED
  BY <1>1, EndKeeps

\* An agent without a stored context fails.
LEMMA UnsavedKeeps ==
  ASSUME Inv, NEW u, u \in DOMAIN objects, u[1] = "author", objects[u].job = "running",
         objects' = Unsaved(u), UNCHANGED <<log, snapshots, wf, born, decisions, pc, outside>>,
         faults' \in 0 .. MaxFaults
  PROVE  Inv'
<1>0. SUFFICES ASSUME NEW o, o = [objects[u] EXCEPT !.phase = "Failed", !.job = "ended"] PROVE Inv'
  OBVIOUS
<1>1. o \in ObjectRec(o.binding) /\ o.job = "ended" /\ o.phase = "Failed"
      /\ o.attempt = objects[u].attempt
  BY <1>0, ObjectIs DEF Inv, ObjectRec, Phases
<1>2. objects' = [objects EXCEPT ![u] = o]
  BY <1>0 DEF Unsaved
<1>3. objects'[u] = o /\ AuthorShows(u)
  BY <1>2 DEF Inv, Shown
<1>4. Shows(u)'
  BY <1>1, <1>3 DEF Shows, AuthorShows, Logged
<1> QED
  BY <1>1, <1>2, <1>4, UnitKeeps

\* GiveUp.
LEMMA GiveUpKeeps ==
  ASSUME Inv, NEW u \in born, GiveUp(u) PROVE Inv'
<1>1. /\ u \in DOMAIN objects /\ u[1] = "author" /\ objects[u].job = "running"
      /\ objects' = Unsaved(u) /\ UNCHANGED <<log, snapshots, wf, born, decisions, pc, outside>>
      /\ Fault
  BY DEF GiveUp, Exists
<1> QED
  BY <1>1, FaultIs, UnsavedKeeps

\* WorkEnds.
LEMMA WorkEndsKeeps ==
  ASSUME Inv, NEW u \in born, WorkEnds(u) PROVE Inv'
<1>1. /\ u \in DOMAIN objects
      /\ UNCHANGED <<log, snapshots, wf, born, decisions, pc, session, reply, faults>>
  BY DEF WorkEnds, Exists
<1>2. PICK phase \in Terminal :
        /\ \/ /\ objects[u].job = "inferring"
              /\ artifacts' = artifacts \cup (IF Producers(u) = {} THEN {u} ELSE {})
           \/ u[1] = "push" /\ objects[u].job = "running" /\ artifacts' = artifacts
        /\ objects' = [objects EXCEPT ![u].phase = phase, ![u].job = "ended"]
  BY DEF WorkEnds
<1>3. SUFFICES ASSUME NEW o, o = [objects[u] EXCEPT !.phase = phase, !.job = "ended"] PROVE Inv'
  OBVIOUS
<1>4. o \in ObjectRec(o.binding) /\ o.job = "ended" /\ o.attempt = objects[u].attempt
      /\ o.binding = objects[u].binding
  BY <1>1, <1>3, ObjectIs DEF Inv, ObjectRec, Phases, Terminal
<1>5. objects' = [objects EXCEPT ![u] = o]
  BY <1>1, <1>2, <1>3
<1>6. objects'[u] = o /\ Shows(u)
  BY <1>1, <1>5 DEF Inv, Shown, Shows
<1>7. u[1] \in StepNames
  BY <1>1, ObjectIs, UnitIs DEF Inv
<1>10. Shows(u)'
  <2>1. CASE u[1] = "author"
    BY <1>1, <1>2, <1>4, <1>6, <2>1 DEF Shows, AuthorShows, Logged
  <2>2. CASE u[1] = "push"
    BY <1>1, <1>2, <1>4, <1>6, <2>2 DEF Shows, PushShows, BoundTo, Binding, Logged
  <2> QED
    BY <1>2, <1>6, <1>7, <2>1, <2>2 DEF Shows, GateShows, StepNames
<1>11. faults' \in 0 .. MaxFaults
  BY <1>1 DEF Inv, Typed
<1>12. artifacts' \subseteq snapshots
  <2>1. objects[u].job = "inferring" => u \in snapshots
    BY <1>1, <1>7 DEF Inv, Shown, AuthorShows, GateShows, PushShows, StepNames
  <2> QED
    BY <1>2, <2>1 DEF Inv, Typed
<1> QED
  BY <1>1, <1>4, <1>5, <1>10, <1>11, <1>12, EndKeeps

\* StoreContextSnapshot.
LEMMA StoreKeeps ==
  ASSUME Inv, NEW u \in born, NEW heard \in BOOLEAN, StoreContextSnapshot(u, heard) PROVE Inv'
<1>1. /\ u \in DOMAIN objects /\ u[1] = "author" /\ objects[u].job = "running"
      /\ UNCHANGED <<wf, born, decisions, pc, outside>>
  BY DEF StoreContextSnapshot, Exists
<1>2. faults' \in 0 .. MaxFaults
  <2>1. faults' = faults + (IF heard THEN 0 ELSE 1) /\ faults' <= MaxFaults
    BY DEF StoreContextSnapshot
  <2>2. faults \in 0 .. MaxFaults /\ MaxFaults \in Nat
    BY EvidenceAssumption DEF Inv, Typed
  <2>3. CASE heard
    BY <2>1, <2>2, <2>3
  <2>4. CASE ~ heard
    BY <2>1, <2>2, <2>4
  <2> QED
    BY <2>3, <2>4
<1>3. CASE ~ IsActive(u)
  BY <1>1, <1>2, <1>3, UnsavedKeeps DEF StoreContextSnapshot
<1>4. CASE IsActive(u)
  <2>0. SUFFICES ASSUME NEW id, id = Saved(u), NEW o,
                        o = IF heard THEN [objects[u] EXCEPT !.job = "inferring"] ELSE objects[u]
                 PROVE  Inv'
    OBVIOUS
  <2>1. /\ snapshots' = snapshots \cup {u} /\ log' = AppendEvent(log, id, [attempt |-> u])
        /\ objects' = IF heard THEN [objects EXCEPT ![u].job = "inferring"] ELSE objects
    BY <1>4, <2>0 DEF StoreContextSnapshot, Saved
  <2>2. /\ o \in ObjectRec(o.binding) /\ o.phase = objects[u].phase
        /\ o.job \in {"running", "inferring"}
    BY <1>1, <2>0, ObjectIs DEF Inv, ObjectRec
  <2>3. objects' = [objects EXCEPT ![u] = o] /\ objects'[u] = o /\ DOMAIN objects' = DOMAIN objects
    BY <1>1, <2>0, <2>1 DEF Inv, Typed
  <2>4. /\ Grows /\ Logged(id)' /\ DOMAIN log' = DOMAIN log \cup {id}
    BY <1>1, <2>1, AppendGrows
  <2>5. id[1] = "ContextSnapshotSaved"
    BY <2>0 DEF Saved, UnitID
  <2>6. EventIs(id)'
    BY <1>1, <2>0, <2>5 DEF EventIs
  <2>7. \A e \in DOMAIN log' : e \notin DOMAIN log =>
          /\ EventIs(e)'
          /\ e[1] \notin {"UtilityOperationAdmitted", "RecoveryDecisionSelected"}
    BY <2>4, <2>5, <2>6
  <2>8. Shows(u)'
    <3>1. AuthorShows(u)
      BY <1>1 DEF Inv, Shown
    <3> QED
      BY <1>1, <2>1, <2>2, <2>3, <2>4, <3>1 DEF Shows, AuthorShows, Logged
  <2>9. Places5' /\ pc' \in [Controllers -> [at : Rounds, unit : born' \cup {None}]]
    BY <1>1, <2>3, <2>4, PlacesStay
  <2>10. Logged(NameID("AgentExecutionAuthorized", u))'
    BY <1>1, <2>4 DEF Inv, Shown, AuthorShows, NameID, Logged, Grows
  <2>11. /\ snapshots \subseteq snapshots' /\ snapshots' \subseteq born
         /\ \A x \in snapshots' : x \notin snapshots => Stored(x)'
    BY <2>0, <2>1, <2>4, <2>10 DEF Inv, Typed, Stored
  <2> QED
    BY <1>1, <1>2, <2>2, <2>3, <2>4, <2>7, <2>8, <2>9, <2>11, WriteKeeps
<1> QED
  BY <1>3, <1>4

-----------------------------------------------------------------------------
(* The API server.                                                          *)

\* A call of the API server touches no controller.
LEMMA CallKeeps ==
  ASSUME Inv, UNCHANGED <<snapshots, artifacts, wf, objects, born, pc>>,
         Grows, faults' \in 0 .. MaxFaults,
         \A e \in DOMAIN log' : e \notin DOMAIN log => EventIs(e)', Shown', Rewind',
         DOMAIN decisions' \subseteq born, \A g \in DOMAIN decisions' : g[1] = "gate",
         session' \in [Users -> SessionRec],
         reply' \in [Users -> [gate : born \cup {None}, choice : Choices]], Answers'
  PROVE  Inv'
<1>1. Typed'
  BY DEF Inv, Typed, StatusRec, ObjectRec, SessionRec
<1>2. Places5'
  BY PlacesStay
<1> QED
  BY <1>1, <1>2, IncarnationsStay, EventsKeep DEF Inv

\* activeApproval.
LEMMA ActiveKeeps ==
  ASSUME Inv, NEW u \in Users, NEW choice \in Choices, activeApproval(u, choice) PROVE Inv'
<1>1. PICK g \in DOMAIN objects :
        /\ g[1] = "gate"
        /\ session' = [session EXCEPT ![u] = [at |-> "read", gate |-> g, choice |-> choice]]
  BY DEF activeApproval
<1>2. /\ UNCHANGED <<log, snapshots, artifacts, wf, objects, born, decisions, pc, reply, faults>>
      /\ g \in born
  BY DEF activeApproval, Inv, Typed
<1>3. /\ Grows /\ Shown' /\ Rewind' /\ \A e \in DOMAIN log' : e \notin DOMAIN log => EventIs(e)'
  BY <1>2, PlainStep
<1>4. session' \in [Users -> SessionRec]
  BY <1>1, <1>2 DEF Inv, Typed, SessionRec
<1>5. Answers'
  <2>1. session'[u].at = "read" /\ session'[u].gate = g
    BY <1>1 DEF Inv, Typed
  <2>2. AnswerOf(u)'
    <3>1. AnswerOf(u) /\ reply' = reply /\ log' = log /\ decisions' = decisions /\ born' = born
      BY <1>2 DEF Inv, Answers
    <3> QED
      BY <1>1, <1>2, <2>1, <3>1 DEF AnswerOf, Logged
  <2>3. \A v \in Users : v # u => AnswerOf(v)'
    BY <1>1, <1>2, <1>3, AnswerStays DEF Inv, Answers, Typed
  <2> QED
    BY <2>2, <2>3 DEF Answers
<1>6. /\ faults' \in 0 .. MaxFaults /\ DOMAIN decisions' \subseteq born
      /\ \A x \in DOMAIN decisions' : x[1] = "gate"
      /\ reply' \in [Users -> [gate : born \cup {None}, choice : Choices]]
  BY <1>2 DEF Inv, Typed
<1> QED
  BY <1>2, <1>3, <1>4, <1>5, <1>6, CallKeeps

\* SubmitApproval.
LEMMA SubmitKeeps ==
  ASSUME Inv, NEW u \in Users, SubmitApproval(u) PROVE Inv'
<1>0. SUFFICES ASSUME NEW g, g = session[u].gate,
                      NEW mine, mine = [user |-> u, choice |-> session[u].choice]
               PROVE  Inv'
  OBVIOUS
<1>1. /\ UNCHANGED <<log, snapshots, artifacts, wf, objects, born, pc, reply, faults>>
      /\ session[u].at = "read"
      /\ decisions' = [x \in DOMAIN decisions \cup {g} |->
                         IF x = g THEN DecisionFor(g, mine) ELSE decisions[x]]
      /\ session' = [session EXCEPT ![u] =
           IF SameDecision(decisions'[g], mine) THEN [session[u] EXCEPT !.at = "record"]
           ELSE NoSession]
  BY <1>0 DEF SubmitApproval
<1>2. g \in born /\ g[1] = "gate"
  BY <1>0, <1>1 DEF Inv, Answers, AnswerOf
<1>3. /\ DOMAIN decisions' = DOMAIN decisions \cup {g}
      /\ \A x \in DOMAIN decisions : decisions'[x] = decisions[x]
  BY <1>1 DEF DecisionFor
<1>4. Grows
  BY <1>1, <1>3 DEF Grows
<1>5. Shown' /\ Rewind'
  BY <1>1, <1>4, ShownStays, RewindStays DEF Inv, Alone
<1>6. SessionRec = [at : {"idle", "read", "record"}, gate : born \cup {None}, choice : Choices]
  BY DEF SessionRec
<1>7. session[u] \in SessionRec /\ NoSession \in SessionRec /\ NoSession.at = "idle"
  BY <1>6 DEF Inv, Typed, NoSession, Choices
<1>8. [session[u] EXCEPT !.at = "record"] \in SessionRec
  BY <1>6, <1>7
<1>9. session' \in [Users -> SessionRec]
  BY <1>1, <1>7, <1>8 DEF Inv, Typed
<1>10. Answers'
  <2>1. \A v \in Users : v # u => AnswerOf(v)'
    <3>1. \A v \in Users : v # u => session'[v] = session[v] /\ reply'[v] = reply[v]
      BY <1>1 DEF Inv, Typed
    <3> QED
      BY <1>4, <3>1, AnswerStays DEF Inv, Answers
  <2>2. session'[u] = IF SameDecision(decisions'[g], mine)
                      THEN [session[u] EXCEPT !.at = "record"] ELSE NoSession
    BY <1>1 DEF Inv, Typed
  <2>3. CASE SameDecision(decisions'[g], mine)
    <3>1. /\ session'[u].at = "record" /\ session'[u].gate = g
          /\ session'[u].choice = session[u].choice
      BY <1>0, <1>6, <1>7, <2>2, <2>3
    <3>2. decisions'[g] = mine
      BY <2>3 DEF SameDecision
    <3>3. AnswerOf(u)'
      BY <1>0, <1>1, <1>2, <1>3, <3>1, <3>2 DEF Inv, Answers, AnswerOf, Logged
    <3> QED
      BY <2>1, <3>3 DEF Answers
  <2>4. CASE ~ SameDecision(decisions'[g], mine)
    <3>1. AnswerOf(u)'
      BY <1>1, <1>3, <1>7, <2>2, <2>4 DEF Inv, Answers, AnswerOf, Logged
    <3> QED
      BY <2>1, <3>1 DEF Answers
  <2> QED
    BY <2>3, <2>4
<1>11. /\ faults' \in 0 .. MaxFaults /\ DOMAIN decisions' \subseteq born
       /\ \A x \in DOMAIN decisions' : x[1] = "gate"
       /\ reply' \in [Users -> [gate : born \cup {None}, choice : Choices]]
       /\ \A e \in DOMAIN log' : e \notin DOMAIN log => EventIs(e)'
  BY <1>1, <1>2, <1>3 DEF Inv, Typed
<1> QED
  BY <1>1, <1>4, <1>5, <1>9, <1>10, <1>11, CallKeeps

\* recordApprovalSubmission.
LEMMA RecordKeeps ==
  ASSUME Inv, NEW u \in Users, recordApprovalSubmission(u) PROVE Inv'
<1>0. SUFFICES ASSUME NEW g, g = session[u].gate PROVE Inv'
  OBVIOUS
<1>1. /\ UNCHANGED <<snapshots, artifacts, wf, objects, born, decisions, pc, faults>>
      /\ session[u].at = "record" /\ log' = RecordApprovalSubmission(log, g)
      /\ reply' = [reply EXCEPT ![u] = [gate |-> g, choice |-> session[u].choice]]
      /\ session' = [session EXCEPT ![u] = NoSession]
  BY <1>0 DEF recordApprovalSubmission
<1>2. /\ g \in DOMAIN decisions /\ g \in born
      /\ decisions[g] = [user |-> u, choice |-> session[u].choice]
  BY <1>0, <1>1 DEF Inv, Answers, AnswerOf, Typed
<1>3. /\ Grows /\ Shown' /\ Rewind' /\ Logged(Submitted(g))'
      /\ \A e \in DOMAIN log' : e \notin DOMAIN log => EventIs(e)'
  BY <1>1, <1>2, SubmissionAppend
<1>4. session[u] \in SessionRec /\ NoSession \in SessionRec /\ NoSession.at = "idle"
  BY DEF Inv, Typed, NoSession, Choices, SessionRec
<1>5. session' \in [Users -> SessionRec]
      /\ reply' \in [Users -> [gate : born \cup {None}, choice : Choices]]
  BY <1>1, <1>2, <1>4 DEF Inv, Typed, SessionRec
<1>6. Answers'
  <2>1. \A v \in Users : v # u => session'[v] = session[v] /\ reply'[v] = reply[v]
    BY <1>1 DEF Inv, Typed
  <2>2. session'[u] = NoSession /\ reply'[u] = [gate |-> g, choice |-> session[u].choice]
    BY <1>1 DEF Inv, Typed
  <2>3. \A v \in Users : v # u => AnswerOf(v)'
    BY <1>3, <2>1, AnswerStays DEF Inv, Answers
  <2>4. AnswerOf(u)'
    BY <1>1, <1>2, <1>3, <1>4, <2>2 DEF AnswerOf
  <2> QED
    BY <2>3, <2>4 DEF Answers
<1>7. /\ faults' \in 0 .. MaxFaults /\ DOMAIN decisions' \subseteq born
      /\ \A x \in DOMAIN decisions' : x[1] = "gate"
  BY <1>1 DEF Inv, Typed
<1> QED
  BY <1>1, <1>3, <1>5, <1>6, <1>7, CallKeeps

\* CutShort.
LEMMA CutKeeps ==
  ASSUME Inv, CutShort PROVE Inv'
<1>1. /\ faults' \in 0 .. MaxFaults
      /\ UNCHANGED <<log, snapshots, artifacts, wf, objects, born, decisions, reply>>
      /\ \/ \E c \in Controllers : Goes(c, "idle", None) /\ session' = session
         \/ \E u \in Users : session' = [session EXCEPT ![u] = NoSession] /\ pc' = pc
  BY FaultIs DEF CutShort
<1>2. /\ Grows /\ Shown' /\ Rewind' /\ \A e \in DOMAIN log' : e \notin DOMAIN log => EventIs(e)'
  BY <1>1, PlainStep
<1>3. ASSUME NEW c \in Controllers, Goes(c, "idle", None), session' = session
      PROVE  Inv'
  <2>1. Places5' /\ pc' \in [Controllers -> [at : Rounds, unit : born' \cup {None}]]
    BY <1>1, <1>2, <1>3, PlacesIdle
  <2>2. Typed'
    BY <1>1, <1>3, <2>1 DEF Inv, Typed, StatusRec, ObjectRec, SessionRec
  <2>3. UNCHANGED outside
    BY <1>1, <1>3 DEF outside
  <2> QED
    BY <1>1, <1>2, <2>1, <2>2, <2>3, IncarnationsStay, EventsKeep, AnswersStay DEF Inv
<1>4. ASSUME NEW u \in Users, session' = [session EXCEPT ![u] = NoSession], pc' = pc
      PROVE  Inv'
  <2>1. NoSession \in SessionRec /\ NoSession.at = "idle"
    BY DEF NoSession, Choices, SessionRec
  <2>2. session' \in [Users -> SessionRec]
    BY <1>4, <2>1 DEF Inv, Typed
  <2>3. Answers'
    <3>1. \A v \in Users : v # u => session'[v] = session[v]
      BY <1>4 DEF Inv, Typed
    <3>2. \A v \in Users : v # u => AnswerOf(v)'
      BY <1>1, <1>2, <3>1, AnswerStays DEF Inv, Answers
    <3>3. session'[u] = NoSession
      BY <1>4 DEF Inv, Typed
    <3>4. AnswerOf(u)'
      BY <1>1, <2>1, <3>3 DEF Inv, Answers, AnswerOf, Logged
    <3> QED
      BY <3>2, <3>4 DEF Answers
  <2>4. /\ DOMAIN decisions' \subseteq born /\ \A g \in DOMAIN decisions' : g[1] = "gate"
        /\ reply' \in [Users -> [gate : born \cup {None}, choice : Choices]]
    BY <1>1 DEF Inv, Typed
  <2>5. UNCHANGED <<snapshots, artifacts, wf, objects, born, pc>>
    BY <1>1, <1>4
  <2> QED
    BY <1>1, <1>2, <2>2, <2>3, <2>4, <2>5, CallKeeps
<1> QED
  BY <1>1, <1>3, <1>4

\* Vanished.
LEMMA VanishedKeeps ==
  ASSUME Inv, Vanished PROVE Inv'
  BY IdleKeeps DEF Vanished, Controllers

-----------------------------------------------------------------------------
(* The workflow, faults and interventions.                                  *)

\* The status of the workflow changes, or units go.
LEMMA StatusKeeps ==
  ASSUME Inv, UNCHANGED <<log, snapshots, born, decisions, outside>>, faults' \in 0 .. MaxFaults,
         wf' \in StatusRec(wf'.recovery), 1 .. wf.iter \subseteq 1 .. wf'.iter,
         objects' = [u \in DOMAIN objects' |-> objects[u]],
         DOMAIN objects' \subseteq DOMAIN objects,
         pc' \in [Controllers -> [at : Rounds, unit : born \cup {None}]],
         \A c \in Controllers : c # "workflow" => pc'[c] = pc[c], WorkflowAt', Rewind'
  PROVE  Inv'
<1>1. Grows
  BY DEF Grows
<1>2. \A u \in DOMAIN objects' : Alone(u)
  BY DEF Alone
<1>3. Typed'
  BY <1>2 DEF Inv, Typed, StatusRec, ObjectRec, SessionRec, outside, Alone
<1>4. Shown' /\ Incarnations' /\ Events' /\ Answers'
  BY <1>1, <1>2, ShownStays, IncarnationsStay, EventsKeep, AnswersStay DEF Inv
<1>5. Places5'
  BY <1>1, AgentStays, UtilityStays, ApprovalStays, AttemptStays DEF Inv, Places5, Controllers
<1> QED
  BY <1>3, <1>4, <1>5 DEF Inv

\* A controller goes to one of its places.
LEMMA PcGoes ==
  ASSUME Inv, NEW c \in Controllers, NEW place \in Rounds, NEW u \in born \cup {None},
         Goes(c, place, u)
  PROVE  /\ pc' \in [Controllers -> [at : Rounds, unit : born \cup {None}]]
         /\ \A d \in Controllers : d # c => pc'[d] = pc[d]
         /\ pc'[c].at = place /\ pc'[c].unit = u
<1>1. pc \in [Controllers -> [at : Rounds, unit : born \cup {None}]]
  BY DEF Inv, Typed
<1>2. [at |-> place, unit |-> u] \in [at : Rounds, unit : born \cup {None}]
  OBVIOUS
<1>3. pc' = [pc EXCEPT ![c] = [at |-> place, unit |-> u]]
  BY DEF Goes
<1> QED
  BY <1>1, <1>2, <1>3

\* An attempt is deleted, or the workflow fails (deletion and terminal status).
LEMMA InterveneKeeps ==
  ASSUME Inv, Intervene PROVE Inv'
<1>1. /\ UNCHANGED <<log, snapshots, born, decisions, pc, outside>> /\ faults' \in 0 .. MaxFaults
      /\ \/ /\ \E u \in DOMAIN objects : objects' = [x \in DOMAIN objects \ {u} |-> objects[x]]
            /\ wf' = wf
         \/ wf' = [wf EXCEPT !.phase = "Failed"] /\ objects' = objects
  BY FaultIs DEF Intervene
<1>2. /\ wf' \in StatusRec(wf'.recovery) /\ wf'.iter = wf.iter /\ wf'.recovery = wf.recovery
      /\ wf'.stage = wf.stage /\ wf'.active = wf.active
  BY <1>1 DEF Inv, Typed, StatusRec
<1>3. objects' = [u \in DOMAIN objects' |-> objects[u]] /\ DOMAIN objects' \subseteq DOMAIN objects
  BY <1>1 DEF Inv, Typed
<1>4. Grows
  BY <1>1, <1>2, SameGrows
<1>5. WorkflowAt' /\ Rewind'
  BY <1>1, <1>2, <1>3, <1>4, WorkflowStays, RewindStays DEF Inv, Places5
<1>6. pc' \in [Controllers -> [at : Rounds, unit : born \cup {None}]]
  BY <1>1 DEF Inv, Typed
<1>7. UNCHANGED <<log, snapshots, born, decisions, outside>> /\ pc' = pc
  BY <1>1
<1> QED
  BY <1>1, <1>2, <1>3, <1>5, <1>6, <1>7, StatusKeeps

\* persistRetryObservation.
LEMMA ObservationKeeps ==
  ASSUME Inv, persistRetryObservation PROVE Inv'
<1>0. SUFFICES ASSUME NEW u, u = pc["workflow"].unit PROVE Inv'
  OBVIOUS
<1>1. /\ UNCHANGED <<log, snapshots, objects, born, decisions, outside, faults>>
      /\ pc["workflow"].at = "observe"
      /\ \/ /\ wf.recovery # None /\ u[1] = "author"
            /\ wf' = [wf EXCEPT !.observed = u] /\ Goes("workflow", "retry", u)
         \/ wf' = wf /\ Goes("workflow", "publish", u)
  BY <1>0 DEF persistRetryObservation, At, Replaces
<1>2. u \in born /\ u[2] = wf.iter /\ (wf.recovery # None => Logged(DecisionID))
  BY <1>0, <1>1 DEF Inv, Places5, WorkflowAt
<1>3. /\ wf' \in StatusRec(wf'.recovery) /\ wf'.iter = wf.iter /\ wf'.recovery = wf.recovery
  BY <1>1, <1>2 DEF Inv, Typed, StatusRec
<1>4. DecisionID' = DecisionID
  BY <1>3 DEF DecisionID
<1>5. /\ pc' \in [Controllers -> [at : Rounds, unit : born \cup {None}]]
      /\ \A d \in Controllers : d # "workflow" => pc'[d] = pc[d]
      /\ pc'["workflow"].unit = u
      /\ \/ pc'["workflow"].at = "retry" /\ wf.recovery # None /\ u[1] = "author"
         \/ pc'["workflow"].at = "publish"
  BY <1>1, <1>2, PcGoes DEF Controllers, Rounds
<1>6. WorkflowAt'
  BY <1>1, <1>2, <1>3, <1>4, <1>5 DEF WorkflowAt, Logged
<1>7. Rewind'
  BY <1>1, <1>3, SameGrows, RewindStays DEF Inv
<1>8. faults' \in 0 .. MaxFaults /\ objects' = [x \in DOMAIN objects' |-> objects[x]]
  BY <1>1 DEF Inv, Typed
<1>9. /\ UNCHANGED <<log, snapshots, born, decisions, outside>>
      /\ DOMAIN objects' \subseteq DOMAIN objects
  BY <1>1
<1> QED
  BY <1>3, <1>5, <1>6, <1>7, <1>8, <1>9, StatusKeeps

\* recordAttemptExecutionRef.
LEMMA PublishKeeps ==
  ASSUME Inv, recordAttemptExecutionRef PROVE Inv'
<1>0. SUFFICES ASSUME NEW u, u = pc["workflow"].unit, NEW o, o = [objects[u] EXCEPT !.ref = TRUE]
               PROVE  Inv'
  OBVIOUS
<1>1. /\ UNCHANGED <<log, snapshots, wf, born, decisions, outside, faults>>
      /\ pc["workflow"].at = "publish" /\ u \in DOMAIN objects
      /\ Becomes(u, o) /\ Goes("workflow", "activate", u)
  BY <1>0 DEF recordAttemptExecutionRef, At, Exists
<1>2. u \in born /\ u[2] = wf.iter /\ (wf.recovery # None => Logged(DecisionID))
  BY <1>0, <1>1 DEF Inv, Places5, WorkflowAt
<1>3. objects' = [objects EXCEPT ![u] = o] /\ objects'[u] = o /\ DOMAIN objects' = DOMAIN objects
  BY <1>1, Becoming DEF Inv
<1>4. o \in ObjectRec(o.binding) /\ o.job = objects[u].job /\ o.binding = objects[u].binding
      /\ o.phase = objects[u].phase /\ o.attempt = objects[u].attempt
      /\ o.decided = objects[u].decided
  BY <1>0, <1>1, ObjectIs DEF Inv, ObjectRec
<1>5. Shows(u)
  BY <1>1 DEF Inv, Shown, Shows
<1>6. Shows(u)'
  BY <1>1, <1>3, <1>4, <1>5 DEF Shows, AuthorShows, GateShows, PushShows, BoundTo, Binding, Logged
<1>7. Grows
  BY <1>1, SameGrows
<1>8. pc'["workflow"].at = "activate" /\ pc'["workflow"].unit = u /\ DecisionID' = DecisionID
  BY <1>1, Went DEF Inv, Controllers, DecisionID
<1>9. Steady("workflow")'
  BY <1>1, <1>2, <1>8 DEF Steady, WorkflowAt, Logged
<1>10. Places5' /\ pc' \in [Controllers -> [at : Rounds, unit : born' \cup {None}]]
  BY <1>1, <1>2, <1>3, <1>7, <1>9, PlacesGo DEF Controllers, Rounds
<1>11. faults' \in 0 .. MaxFaults /\ snapshots' \subseteq born
  BY <1>1 DEF Inv, Typed
<1> QED
  BY <1>1, <1>3, <1>4, <1>6, <1>7, <1>10, <1>11, WriteKeeps

\* The attempt becomes the active one.
LEMMA ActivateKeeps ==
  ASSUME Inv, Activate PROVE Inv'
<1>0. SUFFICES ASSUME NEW u, u = pc["workflow"].unit PROVE Inv'
  OBVIOUS
<1>1. /\ UNCHANGED <<log, snapshots, objects, born, decisions, outside, faults>>
      /\ pc["workflow"].at = "activate" /\ Goes("workflow", "idle", None)
      /\ wf' = wf \/ wf' = [wf EXCEPT !.stage = u[1], !.active = Name(u)]
  BY <1>0 DEF Activate, At
<1>2. u \in born /\ u[1] \in StepNames
  BY <1>0, <1>1, UnitIs DEF Inv, Places5, WorkflowAt, Typed
<1>3. /\ wf' \in StatusRec(wf'.recovery) /\ wf'.iter = wf.iter /\ wf'.recovery = wf.recovery
  <2>1. Name(u) \in {Name(x) : x \in born} \cup {None}
    BY <1>2
  <2> QED
    BY <1>1, <1>2, <2>1 DEF Inv, Typed, StatusRec
<1>4. /\ pc' \in [Controllers -> [at : Rounds, unit : born \cup {None}]]
      /\ \A d \in Controllers : d # "workflow" => pc'[d] = pc[d]
      /\ pc'["workflow"].at = "idle"
  BY <1>1, PcGoes DEF Controllers, Rounds
<1>5. WorkflowAt'
  BY <1>4 DEF WorkflowAt
<1>6. Rewind'
  BY <1>1, <1>3, SameGrows, RewindStays DEF Inv
<1>7. faults' \in 0 .. MaxFaults /\ objects' = [x \in DOMAIN objects' |-> objects[x]]
  BY <1>1 DEF Inv, Typed
<1>8. /\ UNCHANGED <<log, snapshots, born, decisions, outside>>
      /\ DOMAIN objects' \subseteq DOMAIN objects
  BY <1>1
<1> QED
  BY <1>3, <1>4, <1>5, <1>6, <1>7, <1>8, StatusKeeps

\* What a rewind declares is so.
LEMMA CaptureIs ==
  ASSUME Inv, NEW a \in born, NEW r, r = captureWorkflowRecovery(a)
  PROVE  r.trigger = a /\ Declared(r)
<1> DEFINE found == FailureEvents(a)
           authors == {x \in Producers(a) : Exists(x)}
<1>1. /\ r.trigger = a /\ r.events = found
      /\ r.previous = IF authors = {} THEN None ELSE CHOOSE x \in authors : TRUE
      /\ r.missing = (IF found = {} THEN {"failure event"} ELSE {})
                     \cup (IF authors = {} THEN {"prior attempt"} ELSE {})
  BY DEF captureWorkflowRecovery
<1>2. found \subseteq {Failure(a)} \cap DOMAIN log
  BY DEF FailureEvents, Failure
<1>3. \A x \in authors : x # None /\ Logged(Saved(x))
  <2> SUFFICES ASSUME NEW x \in authors PROVE x # None /\ Logged(Saved(x))
    OBVIOUS
  <2>1. x \in snapshots /\ x \in Units
    BY DEF Producers, Inv, Typed
  <2> QED
    BY <2>1, UnitIs DEF Inv, Shown, Stored
<1> HIDE DEF found, authors
<1>4. r.missing = {} => r.previous # None /\ Logged(Saved(r.previous))
  BY <1>1, <1>3
<1> QED
  BY <1>1, <1>2, <1>4 DEF Declared

\* The workflow ends, or rewinds with what it can prove of itself.
LEMMA ConcludeKeeps ==
  ASSUME Inv, Conclude PROVE Inv'
<1>1. PICK a \in Named(wf.active) :
        \/ /\ wf.iter < MaxIteration
           /\ wf' = [wf EXCEPT !.stage = "author", !.iter = wf.iter + 1, !.active = None,
                               !.recovery = captureWorkflowRecovery(a), !.observed = None]
        \/ wf' = [wf EXCEPT !.phase = "Failed"]
        \/ wf' = [wf EXCEPT !.phase = "Succeeded", !.active = None]
  BY DEF Conclude
<1>2. /\ UNCHANGED <<log, snapshots, objects, born, decisions, pc, outside, faults>>
      /\ pc["workflow"].at = "idle"
  BY DEF Conclude, At
<1>3. a \in born
  BY DEF Named, Inv, Typed
<1>4. /\ pc' \in [Controllers -> [at : Rounds, unit : born \cup {None}]]
      /\ WorkflowAt' /\ faults' \in 0 .. MaxFaults
      /\ objects' = [x \in DOMAIN objects' |-> objects[x]]
  BY <1>2 DEF Inv, Typed, WorkflowAt
<1>5. wf.iter \in Nat /\ wf.iter \in 1 .. MaxIteration /\ MaxIteration \in Nat
  BY EvidenceAssumption, WfIs DEF Inv
<1>6. /\ wf' \in StatusRec(wf'.recovery) /\ 1 .. wf.iter \subseteq 1 .. wf'.iter
  <2>1. wf \in StatusRec(wf.recovery) /\ born' = born
    BY <1>2 DEF Inv, Typed
  <2>2. CASE wf.iter < MaxIteration /\ wf' = [wf EXCEPT !.stage = "author", !.iter = wf.iter + 1,
               !.active = None, !.recovery = captureWorkflowRecovery(a), !.observed = None]
    <3>1. SUFFICES ASSUME NEW r, r = captureWorkflowRecovery(a)
                   PROVE  /\ wf' \in StatusRec(wf'.recovery)
                          /\ 1 .. wf.iter \subseteq 1 .. wf'.iter
      OBVIOUS
    <3>2. /\ wf' = [wf EXCEPT !.stage = "author", !.iter = wf.iter + 1, !.active = None,
                              !.recovery = r, !.observed = None]
          /\ wf.iter + 1 \in 1 .. MaxIteration
      BY <1>5, <2>2, <3>1
    <3>3. wf' \in StatusRec(r) /\ wf'.recovery = r /\ wf'.iter = wf.iter + 1
      BY <2>1, <3>2 DEF StatusRec, StepNames
    <3>4. StatusRec(r)' = StatusRec(r) /\ 1 .. wf.iter \subseteq 1 .. wf.iter + 1
      BY <1>5, <2>1 DEF StatusRec
    <3> QED
      BY <3>3, <3>4
  <2>3. CASE wf' = [wf EXCEPT !.phase = "Failed"]
    BY <2>1, <2>3 DEF StatusRec
  <2>4. CASE wf' = [wf EXCEPT !.phase = "Succeeded", !.active = None]
    BY <2>1, <2>4 DEF StatusRec
  <2> QED
    BY <1>1, <2>2, <2>3, <2>4
<1>7. Rewind'
  <2>1. CASE wf'.iter = wf.iter /\ wf'.recovery = wf.recovery
    BY <1>2, <2>1, SameGrows, RewindStays DEF Inv
  <2>2. CASE /\ wf.iter < MaxIteration
             /\ wf' = [wf EXCEPT !.stage = "author", !.iter = wf.iter + 1, !.active = None,
                                 !.recovery = captureWorkflowRecovery(a), !.observed = None]
    <3>1. SUFFICES ASSUME NEW r, r = captureWorkflowRecovery(a) PROVE Rewind'
      OBVIOUS
    <3>2. wf'.recovery = r /\ wf'.iter = wf.iter + 1
      BY <2>2, <3>1 DEF Inv, Typed, StatusRec
    <3>3. r.trigger = a /\ Declared(r)
      BY <1>3, <3>1, CaptureIs
    <3>4. Declared(wf.recovery)' /\ wf'.recovery.trigger \in born'
      BY <1>2, <1>3, <3>2, <3>3 DEF Declared, Logged
    <3>5. ~ Logged(DecisionID)'
      <4>1. SUFFICES ASSUME NEW id, id = RecoveryID(a, wf.iter + 1), id \in DOMAIN log PROVE FALSE
        BY <1>2, <3>2, <3>3 DEF DecisionID, Logged
      <4>2. id[1] = "RecoveryDecisionSelected" /\ id[3] = wf.iter + 1
        BY <4>1 DEF RecoveryID
      <4>3. DecisionIs(id)
        BY <4>1, <4>2 DEF Inv, Events, EventIs
      <4>4. id[3] \in 1 .. wf.iter
        BY <4>3 DEF DecisionIs, RecoveryID
      <4> QED
        BY <1>5, <4>2, <4>4
    <3> QED
      BY <3>4, <3>5 DEF Rewind
  <2>3. \/ wf'.iter = wf.iter /\ wf'.recovery = wf.recovery
        \/ /\ wf.iter < MaxIteration
           /\ wf' = [wf EXCEPT !.stage = "author", !.iter = wf.iter + 1, !.active = None,
                               !.recovery = captureWorkflowRecovery(a), !.observed = None]
    BY <1>1 DEF Inv, Typed, StatusRec
  <2> QED
    BY <2>1, <2>2, <2>3
<1>8. /\ UNCHANGED <<log, snapshots, born, decisions, outside>>
      /\ DOMAIN objects' \subseteq DOMAIN objects
      /\ pc' = pc
  BY <1>2
<1> QED
  BY <1>4, <1>6, <1>7, <1>8, StatusKeeps

\* A reconciliation that finds an obstacle.
LEMMA ErrsKeep ==
  ASSUME Inv, WorkflowErrs PROVE Inv'
  BY IdleKeeps DEF WorkflowErrs, Controllers

-----------------------------------------------------------------------------
(* Attempts are born.                                                       *)

\* The next step of the plan.
LEMMA TargetIs ==
  ASSUME Inv, pc["workflow"].at = "create" PROVE Target \in StepNames
<1>1. wf.stage \in StepNames
  BY WfIs DEF Inv
<1>2. CASE \E a \in Named(wf.active) : objects[a].attempt = "Succeeded"
  <2>1. wf.stage \in {"author", "gate"}
    BY <1>1, <1>2 DEF Inv, Places5, WorkflowAt, StepNames
  <2>2. Steps[1] = "author" /\ Steps[2] = "gate" /\ Steps[3] = "push" /\ Len(Steps) = 3
    BY DEF Steps
  <2>3. Index(wf.stage) \in 1 .. 3 /\ Steps[Index(wf.stage)] = wf.stage
    <3>1. \E k \in 1 .. 3 : Steps[k] = wf.stage
      BY <2>1, <2>2
    <3> QED
      BY <2>2, <3>1 DEF Index
  <2>4. Index(wf.stage) \in {1, 2}
    BY <2>1, <2>2, <2>3
  <2> QED
    BY <1>2, <2>2, <2>4 DEF Target, StepNames
<1>3. CASE ~ \E a \in Named(wf.active) : objects[a].attempt = "Succeeded"
  BY <1>1, <1>3 DEF Target
<1> QED
  BY <1>2, <1>3

\* A new unit was never there before.
LEMMA NewIs ==
  ASSUME Inv, NEW s \in StepNames, NEW n, n = <<s, wf.iter>>, NEW u, u = AttemptFor(n)
  PROVE  /\ Name(u) = n /\ u[1] = s /\ u[2] = wf.iter /\ u \in Units
         /\ u \in DOMAIN objects \/ (u \notin born /\ Named(n) = {} /\ u = NewAttempt(n))
<1>1. wf.iter \in 1 .. MaxIteration
  BY WfIs DEF Inv
<1>2. CASE Named(n) = {}
  <2>1. u = NewAttempt(n)
    BY <1>2 DEF AttemptFor
  <2> DEFINE of == {b \in born : Name(b) = n}
  <2>2. IsFiniteSet(of)
    BY FS_Subset DEF Inv, Typed
  <2>3. Cardinality(of) \in Nat
    BY <2>2, FS_CardinalityType
  <2>4. u = <<s, wf.iter, Cardinality(of) + 1>>
    BY <2>1 DEF NewAttempt
  <2>5. u \in Units /\ Name(u) = n /\ u[1] = s /\ u[2] = wf.iter /\ u[3] = Cardinality(of) + 1
    BY <1>1, <2>3, <2>4 DEF Units, Name
  <2>6. u \notin born
    <3>1. SUFFICES ASSUME u \in born PROVE FALSE
      OBVIOUS
    <3>2. u[3] <= Cardinality(of)
      BY <2>5, <3>1 DEF Inv, Incarnations
    <3> QED
      BY <2>3, <2>5, <3>2
  <2> QED
    BY <1>2, <2>1, <2>5, <2>6
<1>3. CASE Named(n) # {}
  <2>1. u \in Named(n)
    BY <1>3 DEF AttemptFor
  <2>2. u \in DOMAIN objects /\ Name(u) = n
    BY <2>1 DEF Named
  <2> QED
    BY <2>2, ObjectIs, NameIs DEF Inv
<1> QED
  BY <1>2, <1>3

\* A unit is born.
LEMMA BirthCounts ==
  ASSUME Inv, NEW u \in Units, u \notin born, Named(Name(u)) = {},
         u[3] = Cardinality({b \in born : Name(b) = Name(u)}) + 1,
         born' = born \cup {u}, DOMAIN objects' = DOMAIN objects \cup {u}
  PROVE  Incarnations'
<1> DEFINE of(n) == {b \in born : Name(b) = n}
<1>1. \A n : IsFiniteSet(of(n)) /\ Cardinality(of(n)) \in Nat
  BY FS_Subset, FS_CardinalityType DEF Inv, Typed
<1>2. of(Name(u))' = of(Name(u)) \cup {u} /\ u \notin of(Name(u))
  OBVIOUS
<1>3. Cardinality(of(Name(u)) \cup {u}) = Cardinality(of(Name(u))) + 1
  <2> HIDE DEF of
  <2> QED
    BY <1>1, <1>2, FS_AddElement
<1>4. \A b \in born' : b[3] <= Cardinality({c \in born' : Name(c) = Name(b)})
  <2> SUFFICES ASSUME NEW b \in born'
               PROVE  b[3] <= Cardinality({c \in born' : Name(c) = Name(b)})
    OBVIOUS
  <2>0. b \in Units
    BY DEF Inv, Typed
  <2>1. CASE Name(b) = Name(u)
    <3>1. {c \in born' : Name(c) = Name(b)} = of(Name(u)) \cup {u}
      BY <2>1
    <3>2. b = u \/ b[3] <= Cardinality(of(Name(u)))
      BY <2>1 DEF Inv, Incarnations
    <3>3. b[3] \in Nat
      BY <2>0, UnitIs
    <3>4. b[3] <= Cardinality(of(Name(u))) + 1
      <4>1. CASE b = u
        BY <1>1, <3>3, <4>1
      <4>2. CASE b[3] <= Cardinality(of(Name(u)))
        <5> HIDE DEF of
        <5> QED
          BY <1>1, <3>3, <4>2
      <4> QED
        BY <3>2, <4>1, <4>2
    <3> QED
      BY <1>3, <3>1, <3>4
  <2>2. CASE Name(b) # Name(u)
    <3>1. {c \in born' : Name(c) = Name(b)} = {c \in born : Name(c) = Name(b)} /\ b \in born
      BY <2>2
    <3> QED
      BY <3>1 DEF Inv, Incarnations
  <2> QED
    BY <2>1, <2>2
<1>5. \A v, w \in DOMAIN objects' : Name(v) = Name(w) => v = w
  BY DEF Inv, Incarnations, Named
<1> QED
  BY <1>4, <1>5 DEF Incarnations

\* An attempt is created, with its execution, and with the log of an approval if it is a push.
LEMMA BirthKeeps ==
  ASSUME Inv, NEW u \in Units, u \notin born, Named(Name(u)) = {}, u[2] = wf.iter,
         u[3] = Cardinality({b \in born : Name(b) = Name(u)}) + 1,
         born' = born \cup {u}, NEW o, o \in ObjectRec(o.binding), Becomes(u, o),
         o.job = "none", o.phase = "Pending", o.attempt = "open", o.decided = FALSE,
         u[1] = "push" => \E g \in DOMAIN decisions : o.binding = Binding(g) /\ BoundTo(u, g)',
         pc["workflow"].at = "create", Goes("workflow", "observe", u),
         UNCHANGED <<snapshots, wf, decisions, outside, faults>>, Grows,
         \A e \in DOMAIN log' : e \notin DOMAIN log =>
           /\ EventIs(e)'
           /\ e[1] \in {"ApprovalDecisionSubmitted", "ApprovalDecisionAdmitted"}
  PROVE  Inv'
<1>1. /\ DOMAIN objects' = DOMAIN objects \cup {u} /\ objects'[u] = o
      /\ \A x \in DOMAIN objects : x # u => Alone(x)
      /\ objects' = [x \in DOMAIN objects' |-> objects'[x]]
      /\ u \notin DOMAIN objects
  BY DEF Becomes, Alone, Inv, Typed
<1>2. Incarnations'
  BY <1>1, BirthCounts
<1>3. /\ pc' \in [Controllers -> [at : Rounds, unit : born' \cup {None}]]
      /\ \A d \in Controllers : d # "workflow" => pc'[d] = pc[d]
      /\ pc'["workflow"].at = "observe" /\ pc'["workflow"].unit = u
  <2>1. [at |-> "observe", unit |-> u] \in [at : Rounds, unit : born' \cup {None}]
    BY DEF Rounds
  <2>2. \A d \in Controllers : pc[d] \in [at : Rounds, unit : born' \cup {None}]
    BY DEF Inv, Typed
  <2>3. pc' = [pc EXCEPT !["workflow"] = [at |-> "observe", unit |-> u]]
    BY DEF Goes
  <2>4. pc = [d \in Controllers |-> pc[d]] /\ "workflow" \in Controllers
    BY DEF Inv, Typed, Controllers
  <2> QED
    BY <2>1, <2>2, <2>3, <2>4
<1>4. Typed'
  <2>1. IsFiniteSet(born') /\ born' \subseteq Units
    BY FS_AddElement DEF Inv, Typed
  <2>2. \A x \in DOMAIN objects' : objects'[x] \in ObjectRec(objects'[x].binding)
    BY <1>1 DEF Inv, Typed, Alone
  <2>3. wf' \in StatusRec(wf.recovery)'
    <3>1. {Name(x) : x \in born} \subseteq {Name(x) : x \in born'} /\ born \subseteq born'
      OBVIOUS
    <3> QED
      BY <3>1 DEF Inv, Typed, StatusRec
  <2>4. /\ session' \in [Users -> SessionRec']
        /\ reply' \in [Users -> [gate : born' \cup {None}, choice : Choices]]
    <3>1. \A v \in Users : /\ session[v] \in SessionRec'
                            /\ reply[v] \in [gate : born' \cup {None}, choice : Choices]
      BY DEF Inv, Typed, SessionRec
    <3>2. session' = session /\ reply' = reply
      BY DEF outside
    <3> QED
      BY <3>1, <3>2 DEF Inv, Typed
  <2>5. /\ artifacts' \subseteq snapshots' /\ snapshots' \subseteq born'
        /\ DOMAIN decisions' \subseteq born' /\ faults' \in 0 .. MaxFaults
        /\ \A g \in DOMAIN decisions' : g[1] = "gate"
    BY DEF Inv, Typed, outside
  <2>6. DOMAIN objects' \subseteq born'
    BY <1>1 DEF Inv, Typed
  <2>7. \A b : ObjectRec(b)' = ObjectRec(b)
    BY DEF ObjectRec
  <2> QED
    BY <1>1, <1>3, <2>1, <2>2, <2>3, <2>4, <2>5, <2>6 DEF Typed, ObjectRec
<1>5. WorkflowAt'
  <2>1. wf.recovery # None => Logged(DecisionID)
    BY DEF Inv, Places5, WorkflowAt
  <2>2. DecisionID' = DecisionID
    BY DEF DecisionID
  <2>3. wf'.recovery # None => Logged(DecisionID)'
    BY <2>1, <2>2 DEF Logged, Grows
  <2>4. u \in born' /\ u[2] = wf'.iter
    OBVIOUS
  <2>5. pc'["workflow"].at = "observe" /\ pc'["workflow"].unit = u
    BY <1>3
  <2> HIDE DEF DecisionID, Named
  <2> QED
    BY <2>3, <2>4, <2>5 DEF WorkflowAt
<1>6. Places5'
  BY <1>3, <1>5, AgentStays, UtilityStays, ApprovalStays, AttemptStays
     DEF Inv, Places5, Controllers
<1>7. Events' /\ Answers' /\ Rewind'
  BY EventsKeep, AnswersStay, RewindStays DEF Inv
<1>8. \A x : Logged(OpAdmitted(x))' => Logged(OpAdmitted(x))
  BY DEF Logged, OpAdmitted, UnitID
<1>9. ~ Logged(OpAdmitted(u))'
  <2>1. SUFFICES ASSUME NEW id, id = OpAdmitted(u), id \in DOMAIN log PROVE FALSE
    BY <1>8 DEF Logged
  <2>2. id[1] = "UtilityOperationAdmitted" /\ id[2] = u
    BY <2>1 DEF OpAdmitted, UnitID
  <2>3. OperationIs(id)
    BY <2>1, <2>2 DEF Inv, Events, EventIs
  <2>4. id[2] \in born
    BY <2>3 DEF OperationIs, OpAdmitted, UnitID
  <2> QED
    BY <2>2, <2>4
<1>10. Shows(u)'
  <2>1. u[1] = "push" => PushShows(u)'
    <3>1. SUFFICES ASSUME u[1] = "push" PROVE PushShows(u)'
      OBVIOUS
    <3>2. PICK g \in DOMAIN decisions : o.binding = Binding(g) /\ BoundTo(u, g)'
      BY <3>1
    <3>3. g \in DOMAIN decisions' /\ Binding(g)' = Binding(g)
      BY DEF Binding
    <3> QED
      BY <1>1, <1>9, <3>2, <3>3 DEF PushShows
  <2> QED
    BY <1>1, <2>1 DEF Shows, AuthorShows, GateShows
<1>11. Shown'
  <2>1. \A x \in DOMAIN objects' : Shows(x)'
    <3> SUFFICES ASSUME NEW x \in DOMAIN objects', x # u PROVE Shows(x)'
      BY <1>10
    <3> QED
      BY <1>1, <1>8, UnitStays DEF Inv, Shows
  <2>2. \A x \in snapshots' : Stored(x)'
    BY DEF Inv, Shown, Stored, Logged, Grows
  <2> QED
    BY <2>1, <2>2 DEF Shown, Shows
<1> QED
  BY <1>2, <1>4, <1>6, <1>7, <1>11 DEF Inv

\* CreateAttempt: the attempt is born, or found.
LEMMA CreateKeeps ==
  ASSUME Inv, CreateAttempt PROVE Inv'
<1>0. SUFFICES ASSUME NEW n, n = <<Target, wf.iter>>, NEW u, u = AttemptFor(n) PROVE Inv'
  OBVIOUS
<1>1. /\ pc["workflow"].at = "create" /\ born' = born \cup {u}
      /\ Goes("workflow", "observe", u)
      /\ UNCHANGED <<snapshots, wf, decisions, outside, faults>>
  BY <1>0 DEF CreateAttempt, At
<1>2. PICK o :
        /\ IF Exists(u) THEN objects' = objects ELSE Becomes(u, o)
        /\ \/ Target # "push" /\ o = Fresh /\ log' = log
           \/ /\ Target = "push"
              /\ \E g \in DOMAIN objects :
                   /\ Approves(g) /\ o = [Fresh EXCEPT !.binding = ResolvedApproval(g)]
                   /\ log' = RecordApprovalAdmission(log, g)
  BY <1>0 DEF CreateAttempt
<1>3. /\ Name(u) = n /\ u[1] = Target /\ u[2] = wf.iter /\ u \in Units
      /\ u \in DOMAIN objects \/ (u \notin born /\ Named(n) = {} /\ u = NewAttempt(n))
  BY <1>0, <1>1, TargetIs, NewIs
<1>4. /\ Grows
      /\ \A e \in DOMAIN log' : e \notin DOMAIN log =>
           /\ EventIs(e)'
           /\ e[1] \in {"ApprovalDecisionSubmitted", "ApprovalDecisionAdmitted"}
      /\ o.job = "none" /\ o.phase = "Pending" /\ o.attempt = "open" /\ o.decided = FALSE
      /\ o \in ObjectRec(o.binding)
      /\ u[1] = "push" => \E g \in DOMAIN decisions : o.binding = Binding(g) /\ BoundTo(u, g)'
  <2>1. CASE Target # "push" /\ o = Fresh /\ log' = log
    <3>1. Grows
      BY <1>1, <2>1 DEF Grows
    <3> QED
      BY <1>3, <2>1, <3>1 DEF Fresh, ObjectRec, Phases
  <2>2. ASSUME NEW g \in DOMAIN objects, Approves(g),
               o = [Fresh EXCEPT !.binding = ResolvedApproval(g)],
               log' = RecordApprovalAdmission(log, g)
        PROVE  /\ Grows
               /\ \A e \in DOMAIN log' : e \notin DOMAIN log =>
                    /\ EventIs(e)'
                    /\ e[1] \in {"ApprovalDecisionSubmitted", "ApprovalDecisionAdmitted"}
               /\ o.job = "none" /\ o.phase = "Pending" /\ o.attempt = "open" /\ o.decided = FALSE
               /\ o \in ObjectRec(o.binding)
               /\ g \in DOMAIN decisions /\ o.binding = Binding(g) /\ BoundTo(u, g)'
    <3>1. /\ g \in DOMAIN decisions /\ g[1] = "gate" /\ g[2] = wf.iter /\ Logged(Resolved(g))
          /\ decisions[g].choice = "Approved" /\ ResolvedApproval(g) = Binding(g)
      BY <2>2, ApprovedIs
    <3>2. /\ Grows /\ Logged(Admitted(g))'
          /\ \A e \in DOMAIN log' : e \notin DOMAIN log =>
               /\ EventIs(e)'
               /\ e[1] \in {"ApprovalDecisionSubmitted", "ApprovalDecisionAdmitted"}
      <4>1. born \subseteq born' /\ UNCHANGED <<decisions, wf>>
        BY <1>1
      <4> QED
        BY <2>2, <3>1, <4>1, AdmissionEvents
    <3>3. BoundTo(u, g)'
      BY <1>1, <1>3, <3>1, <3>2 DEF BoundTo
    <3>4. /\ o.binding = Binding(g) /\ o \in ObjectRec(Binding(g))
          /\ o.job = "none" /\ o.phase = "Pending" /\ o.attempt = "open" /\ o.decided = FALSE
      BY <2>2, <3>1 DEF Fresh, ObjectRec, Phases
    <3> QED
      BY <3>1, <3>2, <3>3, <3>4
  <2> QED
    BY <1>2, <2>1, <2>2
<1>5. CASE u \in DOMAIN objects
  <2>1. u \in born /\ born' = born /\ objects' = objects
    BY <1>1, <1>2, <1>5 DEF Exists, Inv, Typed
  <2>2. Shown' /\ Rewind'
    BY <1>1, <1>4, <2>1, ShownStays, RewindStays DEF Inv, Alone
  <2>3. pc'["workflow"].at = "observe" /\ pc'["workflow"].unit = u
    BY <1>1, Went DEF Inv, Controllers
  <2>4. WorkflowAt'
    <3>1. DecisionID' = DecisionID
      BY <1>1 DEF DecisionID
    <3>2. wf'.recovery # None => Logged(DecisionID)'
      BY <1>1, <1>4, <3>1 DEF Inv, Places5, WorkflowAt, Logged, Grows
    <3>3. u \in born' /\ u[2] = wf'.iter
      BY <1>1, <1>3
    <3> HIDE DEF DecisionID, Named
    <3> QED
      BY <2>3, <3>2, <3>3 DEF WorkflowAt
  <2>5. UNCHANGED <<snapshots, wf, objects, born, decisions, outside, faults>>
    BY <1>1, <2>1
  <2> QED
    BY <1>1, <1>4, <2>1, <2>2, <2>4, <2>5, GoKeeps DEF Controllers, Rounds, Steady
<1>6. CASE u \notin born /\ Named(n) = {} /\ u = NewAttempt(n)
  <2>1. ~ Exists(u) /\ Becomes(u, o)
    BY <1>2, <1>6 DEF Exists, Inv, Typed
  <2>2. u[3] = Cardinality({b \in born : Name(b) = Name(u)}) + 1
    BY <1>3, <1>6 DEF NewAttempt
  <2>3. UNCHANGED <<snapshots, wf, decisions, outside, faults>>
    BY <1>1
  <2> QED
    BY <1>1, <1>3, <1>4, <1>6, <2>1, <2>2, <2>3, BirthKeeps
<1> QED
  BY <1>3, <1>5, <1>6

\* The invariant holds in the beginning,
LEMMA InitInv == Init => Inv
<1> SUFFICES ASSUME Init PROVE Inv
  OBVIOUS
<1>1. Typed
  <2>1. IsFiniteSet(born)
    BY FS_EmptySet DEF Init
  <2>2. wf \in StatusRec(wf.recovery)
    BY EvidenceAssumption DEF Init, StatusRec, StepNames
  <2>3. pc \in [Controllers -> [at : Rounds, unit : born \cup {None}]]
    BY DEF Init, Rounds, Idle
  <2>4. /\ session \in [Users -> SessionRec]
        /\ reply \in [Users -> [gate : born \cup {None}, choice : Choices]]
    BY DEF Init, SessionRec, NoSession, NoReply, Choices
  <2>5. faults \in 0 .. MaxFaults
    BY EvidenceAssumption DEF Init
  <2> QED
    BY <2>1, <2>2, <2>3, <2>4, <2>5 DEF Init, Typed
<1>2. Incarnations
  BY DEF Init, Incarnations
<1>3. Events
  BY DEF Init, Events, EmptyLog
<1>4. \A c \in Controllers : pc[c].at = "idle"
  BY DEF Init, Idle
<1>5. Places5
  BY <1>4 DEF Places5, WorkflowAt, AttemptAt, ApprovalAt, AgentAt, UtilityAt, Controllers
<1>6. Shown
  BY DEF Init, Shown
<1>7. Rewind
  BY DEF Init, Rewind
<1>8. Answers
  BY DEF Init, Answers, AnswerOf, NoSession, NoReply
<1> QED
  BY <1>1, <1>2, <1>3, <1>5, <1>6, <1>7, <1>8 DEF Inv

\* it is about the variables alone,
LEMMA StutterKeeps ==
  ASSUME Inv, UNCHANGED vars PROVE Inv'
<1>1. UNCHANGED <<log, snapshots, wf, objects, born, decisions>> /\ pc' = pc /\ faults' = faults
      /\ UNCHANGED outside
  BY DEF vars, outside
<1>2. /\ Grows /\ Shown' /\ Rewind' /\ \A e \in DOMAIN log' : e \notin DOMAIN log => EventIs(e)'
  BY <1>1, PlainStep
<1>3. Typed'
  BY <1>1 DEF Inv, Typed, StatusRec, ObjectRec, SessionRec, outside
<1>4. Places5'
  BY <1>1, <1>2, PlacesStay
<1> QED
  BY <1>1, <1>2, <1>3, <1>4, IncarnationsStay, AnswersStay, EventsKeep DEF Inv

\* and every step keeps it.
LEMMA NextKeeps ==
  ASSUME Inv, [Next]_vars PROVE Inv'
<1>1. CASE Workflow
  BY <1>1, StartKeeps, CreateKeeps, ObservationKeeps, RetryKeeps, PublishKeeps, ActivateKeeps,
     ConcludeKeeps, ErrsKeep DEF Workflow
<1>2. CASE Approval
  BY <1>2, ResolveKeeps, AwaitKeeps, ResolveDecisionKeeps, FinishKeeps, AdmittedKeeps DEF Approval
<1>3. CASE Agent
  BY <1>3, StartAgentKeeps, AgentNextKeeps, WorkloadKeeps DEF Agent
<1>4. CASE Utility
  BY <1>4, ValidKeeps, AdmissionKeeps, PolicyKeeps, UtilityNextKeeps, WorkloadKeeps DEF Utility
<1>5. CASE \E u \in Users : Serve(u)
  BY <1>5, ActiveKeeps, SubmitKeeps, RecordKeeps DEF Serve
<1>6. CASE \E u \in born : \/ \E heard \in BOOLEAN : StoreContextSnapshot(u, heard)
                           \/ GiveUp(u) \/ WorkEnds(u)
  BY <1>6, StoreKeeps, GiveUpKeeps, WorkEndsKeeps
<1>7. CASE ObserveEnd \/ appendPhaseEvent \/ Vanished \/ CutShort \/ Intervene
  BY <1>7, ObserveEndKeeps, PhaseEventKeeps, VanishedKeeps, CutKeeps, InterveneKeeps
<1> QED
  BY <1>1, <1>2, <1>3, <1>4, <1>5, <1>6, <1>7, StutterKeeps DEF Next

\* The inductive invariant always holds: every event is what its writer makes of the unit it names,
\* what a unit shows is in the log, and so is what a controller has appended on its way.
THEOREM Invariance == Spec => []Inv
  BY InitInv, NextKeeps, PTL DEF Spec

-----------------------------------------------------------------------------
(* What the log holds.                                                      *)

\* At most one attempt exists under a name.
LEMMA InvTypes == Inv => TypeOK
<1> SUFFICES ASSUME Inv PROVE TypeOK
  OBVIOUS
<1>1. ASSUME NEW n PROVE Cardinality(Named(n)) <= 1
  <2>1. CASE Named(n) = {}
    BY <2>1, FS_EmptySet
  <2>2. CASE Named(n) # {}
    <3>1. PICK u : u \in Named(n)
      BY <2>2
    <3>2. Named(n) = {u}
      BY <3>1 DEF Named, Inv, Incarnations
    <3>3. Cardinality({u}) = 1
      BY FS_Singleton
    <3> QED
      BY <3>2, <3>3
  <2> QED
    BY <2>1, <2>2
<1>2. \A c \in Controllers : pc[c].unit \in born \cup {None}
  BY DEF Inv, Typed
<1> QED
  BY <1>1, <1>2 DEF Inv, Typed, TypeOK, StatusRec

\* What an event refers to was appended before it.
LEMMA InvCauses == Inv => CausesComeFirst
<1> SUFFICES ASSUME Inv, NEW e \in DOMAIN log PROVE References(e) \subseteq DOMAIN log
  BY DEF CausesComeFirst
<1>1. EventIs(e)
  BY DEF Inv, Events
<1>2. CASE e[1] = "ApprovalDecisionAdmitted"
  <2>1. PICK g \in DOMAIN decisions :
          /\ log[e] = [SubmissionEvent(g) EXCEPT !.submission = Submitted(g)]
          /\ Logged(Submitted(g)) /\ Logged(Resolved(g))
    BY <1>1, <1>2 DEF EventIs, AdmissionIs
  <2>2. log[e].submission = Submitted(g) /\ log[e].input = Resolved(g)
    BY <2>1 DEF SubmissionEvent, Resolved
  <2> QED
    BY <1>2, <2>1, <2>2 DEF References, Logged
<1>3. CASE e[1] = "UtilityOperationAdmitted"
  BY <1>1, <1>3 DEF EventIs, OperationIs, BoundTo, References, Logged
<1>4. CASE e[1] = "UtilityExecutionAuthorized"
  <2>1. PICK u \in born :
          /\ log[e] = [primitive |-> u, evidence |-> {OpAdmitted(u)}, authority |-> OpAuthority(u),
                       input |-> Resolved(u)]
          /\ Logged(OpAdmitted(u)) /\ Logged(OpAuthority(u)) /\ Logged(Resolved(u))
    BY <1>1, <1>4 DEF EventIs, UtilityIs
  <2> QED
    BY <1>4, <2>1 DEF References, Logged
<1>5. CASE e[1] = "AgentExecutionAuthorized"
  BY <1>1, <1>5 DEF EventIs, AgentIs, References, Logged
<1>6. CASE e[1] = "RecoveryDecisionSelected"
  BY <1>1, <1>6 DEF EventIs, DecisionIs, Declared, References
<1>7. CASE e[1] = "StepAttemptRetried"
  BY <1>1, <1>7 DEF EventIs, RetryIs, References, Logged
<1> QED
  BY <1>2, <1>3, <1>4, <1>5, <1>6, <1>7 DEF References

\* An agent infers from a stored context.
LEMMA InvContext == Inv => ContextBeforeInference
  BY DEF Inv, Shown, AuthorShows, Stored, Saved, Logged, ContextBeforeInference

\* The identities of events tell units apart.
LEMMA IDsDiffer ==
  ASSUME NEW u, NEW v
  PROVE  /\ Submitted(u) = Submitted(v) => u = v
         /\ Admitted(u) = Admitted(v) => u = v
         /\ OpAdmitted(u) = OpAdmitted(v) => u = v
         /\ OpAuthority(u) = OpAuthority(v) => u = v
         /\ UnitID("UtilityExecutionAuthorized", u) = UnitID("UtilityExecutionAuthorized", v)
            => u = v
         /\ Resolved(u) = Resolved(v) => Name(u) = Name(v)
         /\ Authority(u) = Authority(v) => Name(u) = Name(v)
         /\ Failure(u) = Failure(v) => Name(u) = Name(v)
         /\ NameID("AgentExecutionAuthorized", u) = NameID("AgentExecutionAuthorized", v)
            => Name(u) = Name(v)
         /\ OpAuthority(u) = Authority(v) => u = Name(v)
  <1> HIDE DEF Name
  <1> QED
    BY DEF Submitted, Admitted, OpAdmitted, OpAuthority, Resolved, Authority, Failure, UnitID,
           NameID

\* A unit is not a name.
LEMMA UnitIsNoName ==
  ASSUME NEW u \in Units, NEW v PROVE u # Name(v)
  BY UnitIs DEF Name

\* What the log holds under the names of a unit that is alone under its name.
LEMMA InputsOf ==
  ASSUME Inv, NEW u \in born, ~ Recreated(u), Logged(Resolved(u))
  PROVE  log[Resolved(u)] = InputsEvent(u)
<1>1. InputsAre(Resolved(u))
  BY DEF Inv, Events, EventIs, Resolved, NameID, Logged
<1>2. PICK v \in born : Resolved(u) = Resolved(v) /\ log[Resolved(u)] = InputsEvent(v)
  BY <1>1 DEF InputsAre
<1>3. Name(u) = Name(v)
  BY <1>2, IDsDiffer
<1> QED
  BY <1>2, <1>3, OnlyOne DEF Inv

\* The authority of an agent run,
LEMMA AuthorityOf ==
  ASSUME Inv, NEW u \in born, ~ Recreated(u), u[1] # "push", Logged(Authority(u))
  PROVE  log[Authority(u)] = [primitive |-> u]
<1>1. AuthorityIs(Authority(u))
  BY DEF Inv, Events, EventIs, Authority, NameID, Logged
<1>2. PICK v \in born : /\ Authority(u) = IF v[1] = "push" THEN OpAuthority(v) ELSE Authority(v)
                        /\ log[Authority(u)] = [primitive |-> v]
  BY <1>1 DEF AuthorityIs
<1>3. v \in Units
  BY DEF Inv, Typed
<1>4. OpAuthority(v) # Authority(u)
  BY <1>3, IDsDiffer, UnitIsNoName
<1>5. Name(u) = Name(v)
  BY <1>2, <1>4, IDsDiffer
<1> QED
  BY <1>2, <1>5, OnlyOne DEF Inv

\* the authority of an operation,
LEMMA OpAuthorityOf ==
  ASSUME Inv, NEW u \in born, Logged(OpAuthority(u))
  PROVE  log[OpAuthority(u)] = [primitive |-> u]
<1>1. AuthorityIs(OpAuthority(u))
  BY DEF Inv, Events, EventIs, OpAuthority, UnitID, Logged
<1>2. PICK v \in born : /\ OpAuthority(u) = IF v[1] = "push" THEN OpAuthority(v) ELSE Authority(v)
                        /\ log[OpAuthority(u)] = [primitive |-> v]
  BY <1>1 DEF AuthorityIs
<1>3. u \in Units
  BY DEF Inv, Typed
<1>4. OpAuthority(u) # Authority(v)
  BY <1>3, IDsDiffer, UnitIsNoName
<1> QED
  BY <1>2, <1>4, IDsDiffer

\* the submission of a decision,
LEMMA SubmissionOf ==
  ASSUME Inv, NEW g, Logged(Submitted(g))
  PROVE  g \in DOMAIN decisions /\ log[Submitted(g)] = SubmissionEvent(g)
<1>1. SubmissionIs(Submitted(g))
  BY DEF Inv, Events, EventIs, Submitted, UnitID, Logged
<1> QED
  BY <1>1, IDsDiffer DEF SubmissionIs

\* and its admission.
LEMMA AdmissionOf ==
  ASSUME Inv, NEW g, Logged(Admitted(g))
  PROVE  /\ g \in DOMAIN decisions /\ g[1] = "gate"
         /\ log[Admitted(g)] = [SubmissionEvent(g) EXCEPT !.submission = Submitted(g)]
         /\ Logged(Submitted(g)) /\ Logged(Resolved(g))
<1>1. AdmissionIs(Admitted(g))
  BY DEF Inv, Events, EventIs, Admitted, UnitID, Logged
<1> QED
  BY <1>1, IDsDiffer DEF AdmissionIs

-----------------------------------------------------------------------------
(* Answers and stories.                                                     *)

\* What a push carries is what its gate approved.
LEMMA PushCarries ==
  ASSUME Inv, NEW u \in DOMAIN objects, u[1] = "push"
  PROVE  \E g \in DOMAIN decisions :
           /\ objects[u].binding = Binding(g) /\ BoundTo(u, g) /\ g \in born
           /\ log[Admitted(g)] = [SubmissionEvent(g) EXCEPT !.submission = Submitted(g)]
           /\ Logged(Submitted(g)) /\ Logged(Resolved(g)) /\ Pins(g) = {Candidate(g[2])}
<1>1. PICK g \in DOMAIN decisions : objects[u].binding = Binding(g) /\ BoundTo(u, g)
  BY DEF Inv, Shown, PushShows
<1>2. g \in born /\ Pins(g) = {Candidate(g[2])}
  BY <1>1 DEF Inv, Typed, BoundTo, Pins
<1> QED
  BY <1>1, <1>2, AdmissionOf DEF BoundTo

\* A user's answer stands, and a push carries what was approved.
LEMMA InvAnswers == Inv => AnswersStand
<1> SUFFICES ASSUME Inv PROVE AnswersStand
  OBVIOUS
<1>1. ASSUME NEW u \in Users, reply[u].gate # None
      PROVE  /\ Submitted(reply[u].gate) \in DOMAIN log
             /\ log[Submitted(reply[u].gate)].user = u
             /\ log[Submitted(reply[u].gate)].choice = reply[u].choice
  <2>1. SUFFICES ASSUME NEW g, g = reply[u].gate
                 PROVE  Submitted(g) \in DOMAIN log /\ log[Submitted(g)].user = u
                        /\ log[Submitted(g)].choice = reply[u].choice
    OBVIOUS
  <2>2. Logged(Submitted(g)) /\ decisions[g] = [user |-> u, choice |-> reply[u].choice]
    BY <1>1, <2>1 DEF Inv, Answers, AnswerOf
  <2>3. log[Submitted(g)] = SubmissionEvent(g)
    BY <2>2, SubmissionOf
  <2> QED
    BY <2>2, <2>3 DEF SubmissionEvent, Logged
<1>2. ASSUME NEW u \in DOMAIN objects, u[1] = "push"
      PROVE  /\ objects[u].binding.subject = Candidate(u[2])
             /\ log[objects[u].binding.admission].choice = "Approved"
             /\ log[objects[u].binding.admission].reviewed = {Candidate(u[2])}
  <2>1. PICK g \in DOMAIN decisions :
          /\ objects[u].binding = Binding(g) /\ BoundTo(u, g)
          /\ log[Admitted(g)] = [SubmissionEvent(g) EXCEPT !.submission = Submitted(g)]
          /\ Pins(g) = {Candidate(g[2])}
    BY <1>2, PushCarries
  <2>2. objects[u].binding.subject = Candidate(g[2]) /\ objects[u].binding.admission = Admitted(g)
    BY <2>1 DEF Binding
  <2>3. log[Admitted(g)].choice = decisions[g].choice /\ log[Admitted(g)].reviewed = Pins(g)
    BY <2>1 DEF SubmissionEvent
  <2> QED
    BY <2>1, <2>2, <2>3 DEF BoundTo
<1> QED
  BY <1>1, <1>2 DEF AnswersStand

\* A user told that a decision is recorded finds it in the log as given, and a push that runs
\* carries the candidate its iteration approved (SubmitApproval, resolveApproval).
THEOREM Answered == Spec => []AnswersStand
  BY Invariance, InvAnswers, PTL

\* An operation that names an approval carries what it approved.
LEMMA OperationOf ==
  ASSUME Inv, NEW u, Logged(OpAdmitted(u))
  PROVE  /\ u \in born /\ u[1] = "push" /\ log[OpAdmitted(u)].primitive = u
         /\ \E g \in DOMAIN decisions :
              /\ BoundTo(u, g) /\ log[OpAdmitted(u)].binding = Binding(g)
              /\ log[OpAdmitted(u)].evidence = {Admitted(g)}
<1>1. OperationIs(OpAdmitted(u))
  BY DEF Inv, Events, EventIs, OpAdmitted, UnitID, Logged
<1>2. PICK v \in born, g \in DOMAIN decisions :
        /\ v[1] = "push" /\ OpAdmitted(u) = OpAdmitted(v) /\ BoundTo(v, g)
        /\ log[OpAdmitted(u)]
             = [primitive |-> v, binding |-> Binding(g), evidence |-> {Admitted(g)}]
  BY <1>1 DEF OperationIs
<1>3. u = v
  BY <1>2, IDsDiffer
<1> QED
  BY <1>2, <1>3

\* Every admission that names an approval carries its binding.
LEMMA ApprovedBy ==
  ASSUME Inv, NEW g, Logged(Admitted(g)), NEW e \in Admissions(log, Admitted(g))
  PROVE  /\ BindingAgrees(log, Admitted(g), e)
         /\ \E u \in born : /\ e = OpAdmitted(u) /\ u[1] = "push" /\ u[2] = g[2]
                            /\ log[e].primitive = u /\ log[e].binding = Binding(g)
<1>1. e \in DOMAIN log /\ e[1] = "UtilityOperationAdmitted" /\ Admitted(g) \in log[e].evidence
  BY DEF Admissions, OfType
<1>2. PICK u \in born, h \in DOMAIN decisions :
        /\ u[1] = "push" /\ e = OpAdmitted(u) /\ BoundTo(u, h)
        /\ log[e] = [primitive |-> u, binding |-> Binding(h), evidence |-> {Admitted(h)}]
  BY <1>1 DEF Inv, Events, EventIs, OperationIs
<1>3. h = g
  BY <1>1, <1>2, IDsDiffer
<1>4. /\ log[e].binding = Binding(g) /\ log[e].primitive = u /\ u[2] = g[2] /\ g[1] = "gate"
      /\ decisions[g].choice = "Approved"
  BY <1>2, <1>3 DEF BoundTo
<1>5. /\ log[Admitted(g)].choice = decisions[g].choice /\ log[Admitted(g)].reviewed = Pins(g)
      /\ log[Admitted(g)].request = g
  <2>1. log[Admitted(g)] = [SubmissionEvent(g) EXCEPT !.submission = Submitted(g)]
    BY AdmissionOf
  <2> QED
    BY <2>1 DEF SubmissionEvent
<1>6. log[e].binding.request = g /\ log[e].binding.admission = Admitted(g)
      /\ log[e].binding.subject = Candidate(g[2]) /\ Pins(g) = {Candidate(g[2])}
  BY <1>4 DEF Binding, Pins
<1>7. BindingAgrees(log, Admitted(g), e)
  BY <1>4, <1>5, <1>6 DEF BindingAgrees
<1> QED
  BY <1>2, <1>4, <1>7

\* Every authorization that names an admission shares its subject and its authority.
LEMMA AuthorizedBy ==
  ASSUME Inv, NEW u \in born, u[1] = "push", ~ Recreated(u), NEW e, e = OpAdmitted(u),
         log[e].primitive = u, log[e].binding.subject = Candidate(u[2]),
         NEW x \in Authorizations(log, e)
  PROVE  SharesSubject(log, e, x) /\ AuthorizationIssues(log, e, x) = {}
<1>1. x \in DOMAIN log /\ x[1] = "UtilityExecutionAuthorized" /\ e \in log[x].evidence
  BY DEF Authorizations, OfType
<1>2. PICK v \in born :
        /\ log[x] = [primitive |-> v, evidence |-> {OpAdmitted(v)}, authority |-> OpAuthority(v),
                     input |-> Resolved(v)]
        /\ Logged(OpAuthority(v)) /\ Logged(Resolved(v))
  BY <1>1 DEF Inv, Events, EventIs, UtilityIs
<1>3. v = u
  BY <1>1, <1>2, IDsDiffer
<1>4. /\ log[x].primitive = u /\ log[x].authority = OpAuthority(u) /\ log[x].input = Resolved(u)
      /\ Resolved(u) \in DOMAIN log /\ OpAuthority(u) \in DOMAIN log
  BY <1>2, <1>3 DEF Logged
<1>5. log[Resolved(u)].consumer = u /\ log[Resolved(u)].inputs = {Candidate(u[2])}
  BY <1>4, InputsOf DEF InputsEvent, Pins, Logged
<1>6. log[OpAuthority(u)].primitive = u
  BY <1>4, OpAuthorityOf DEF Logged
<1>7. SharesSubject(log, e, x)
  BY <1>4, <1>5 DEF SharesSubject
<1>8. authority(log, log[x].authority, log[e].primitive) = {}
  BY <1>4, <1>6 DEF authority, source
<1> QED
  BY <1>4, <1>5, <1>7, <1>8 DEF AuthorizationIssues

\* The parts of a story, for an approval whose gate is alone under its name.
LEMMA ApprovalStory ==
  ASSUME Inv, NEW g, Logged(Admitted(g)), ~ Recreated(g),
         \A u \in born : u[1] = "push" /\ u[2] = g[2] /\ Logged(OpAdmitted(u)) => ~ Recreated(u)
  PROVE  approval(log, Admitted(g)) =
           IF /\ log[Admitted(g)].choice = "Approved"
              /\ ~ \E e \in Admissions(log, Admitted(g)) : Authorizations(log, e) # {}
           THEN {Missing} ELSE {}
<1> DEFINE root == Admitted(g)
           a == log[root]
<1>1. /\ g \in DOMAIN decisions /\ a = [SubmissionEvent(g) EXCEPT !.submission = Submitted(g)]
      /\ Logged(Submitted(g)) /\ Logged(Resolved(g)) /\ g[1] = "gate"
  BY AdmissionOf
<1>2. g \in born
  BY <1>1 DEF Inv, Typed
<1>3. /\ a.submission = Submitted(g) /\ a.input = Resolved(g) /\ a.request = g
      /\ a.reviewed = Pins(g) /\ [a EXCEPT !.submission = <<>>] = SubmissionEvent(g)
  <2>1. SUFFICES ASSUME NEW b, b = a, NEW f, f = SubmissionEvent(g)
                 PROVE  /\ b.submission = Submitted(g) /\ b.input = Resolved(g) /\ b.request = g
                        /\ b.reviewed = Pins(g) /\ [b EXCEPT !.submission = <<>>] = f
    OBVIOUS
  <2>2. f = [request |-> g, user |-> decisions[g].user, choice |-> decisions[g].choice,
             reviewed |-> Pins(g), input |-> Resolved(g), submission |-> <<>>]
    BY <2>1 DEF SubmissionEvent, Resolved, None
  <2>3. b = [f EXCEPT !.submission = Submitted(g)]
    BY <1>1, <2>1
  <2>4. b = [request |-> g, user |-> decisions[g].user, choice |-> decisions[g].choice,
             reviewed |-> Pins(g), input |-> Resolved(g), submission |-> Submitted(g)]
    BY <2>2, <2>3
  <2>5. [b EXCEPT !.submission = <<>>] = f
    BY <2>2, <2>4
  <2> QED
    BY <2>4, <2>5
<1>4. source(log, a.submission, log[a.submission] = [a EXCEPT !.submission = <<>>]) = {}
  BY <1>1, <1>3, SubmissionOf DEF source, Logged
<1>5. inputs(log, a.input, a.request, a.reviewed) = {}
  <2>1. log[Resolved(g)] = InputsEvent(g)
    BY <1>1, <1>2, InputsOf
  <2> QED
    BY <1>1, <1>3, <2>1 DEF inputs, source, InputsEvent, Logged
<1>6. bound(log, root) = Admissions(log, root)
  BY ApprovedBy DEF bound
<1>7. ASSUME NEW e \in bound(log, root), NEW x \in Authorizations(log, e)
      PROVE  SharesSubject(log, e, x) /\ AuthorizationIssues(log, e, x) = {}
  <2>1. PICK u \in born : /\ e = OpAdmitted(u) /\ u[1] = "push" /\ u[2] = g[2]
                          /\ log[e].primitive = u /\ log[e].binding = Binding(g)
    BY <1>6, ApprovedBy
  <2>2. Logged(OpAdmitted(u))
    BY <1>6, <2>1 DEF Admissions, OfType, Logged
  <2>3. ~ Recreated(u) /\ log[e].binding.subject = Candidate(u[2])
    BY <2>1, <2>2 DEF Binding
  <2> QED
    BY <2>1, <2>3, AuthorizedBy
<1>8. submitted(log, a) = {} /\ claims(log, root) = {} /\ executions(log, root) = {}
  <2>1. submitted(log, a) = {}
    BY <1>4 DEF submitted
  <2>2. claims(log, root) = {}
    BY <1>6 DEF claims
  <2>3. executions(log, root) = {}
    BY <1>7 DEF executions
  <2> QED
    BY <2>1, <2>2, <2>3
<1>9. (\E e \in bound(log, root) : \E x \in Authorizations(log, e) : SharesSubject(log, e, x))
      <=> \E e \in Admissions(log, root) : Authorizations(log, e) # {}
  BY <1>6, <1>7
<1>10. approval(log, root) = submitted(log, a) \cup inputs(log, a.input, a.request, a.reviewed)
                             \cup claims(log, root) \cup executions(log, root)
                             \cup unused(log, root)
  BY DEF approval
<1>11. unused(log, root) =
         IF a.choice = "Approved" /\ ~ \E e \in Admissions(log, root) : Authorizations(log, e) # {}
         THEN {Missing} ELSE {}
  BY <1>9 DEF unused
<1>12. approval(log, root) = unused(log, root)
  BY <1>5, <1>8, <1>10
<1> QED
  BY <1>11, <1>12

\* The job of a push is explained.
LEMMA InvJobs == Inv => JobIsExplained
<1> SUFFICES ASSUME Inv, NEW u \in DOMAIN objects, u[1] = "push", objects[u].job # "none",
                    ~ Recreated(u), ~ Recreated(objects[u].binding.request)
             PROVE  LET g == objects[u].binding.request
                    IN  Admitted(g) \in DOMAIN log /\ issue(approval(log, Admitted(g))) = "linked"
  BY DEF JobIsExplained
<1>1. PICK g \in DOMAIN decisions : objects[u].binding = Binding(g) /\ BoundTo(u, g) /\ g \in born
  BY PushCarries
<1>2. objects[u].binding.request = g /\ ~ Recreated(g) /\ Logged(Admitted(g))
  BY <1>1 DEF Binding, BoundTo
<1>3. u \in born
  BY DEF Inv, Typed
<1>4. \A v \in born : v[1] = "push" /\ v[2] = g[2] => ~ Recreated(v)
  BY <1>1, <1>3, OnlyOne, NamesAre DEF BoundTo, Inv
<1> DEFINE x == UnitID("UtilityExecutionAuthorized", u)
           e == OpAdmitted(u)
<1>5. x \in DOMAIN log
  BY DEF Inv, Shown, PushShows, Logged
<1>6. e \in log[x].evidence /\ e \in DOMAIN log
  <2>1. UtilityIs(x)
    BY <1>5 DEF Inv, Events, EventIs, UnitID
  <2>2. PICK v \in born :
          /\ x = UnitID("UtilityExecutionAuthorized", v)
          /\ log[x] = [primitive |-> v, evidence |-> {OpAdmitted(v)}, authority |-> OpAuthority(v),
                       input |-> Resolved(v)]
          /\ Logged(OpAdmitted(v))
    BY <2>1 DEF UtilityIs
  <2>3. v = u
    BY <2>2, IDsDiffer
  <2> QED
    BY <2>2, <2>3 DEF Logged
<1>7. log[e].evidence = {Admitted(g)}
  <2>1. PICK h \in DOMAIN decisions :
          log[e].binding = Binding(h) /\ log[e].evidence = {Admitted(h)}
    BY <1>6, OperationOf DEF Logged
  <2>2. log[e].binding = Binding(g)
    BY <1>1, <1>6 DEF Inv, Shown, PushShows, Logged
  <2>3. h = g
    BY <2>1, <2>2 DEF Binding
  <2> QED
    BY <2>1, <2>3
<1>8. e[1] = "UtilityOperationAdmitted" /\ x[1] = "UtilityExecutionAuthorized"
  BY DEF OpAdmitted, UnitID
<1> HIDE DEF x, e
<1>9. e \in Admissions(log, Admitted(g)) /\ x \in Authorizations(log, e)
  BY <1>5, <1>6, <1>7, <1>8 DEF Admissions, Authorizations, OfType
<1>10. approval(log, Admitted(g)) = {}
  BY <1>2, <1>4, <1>9, ApprovalStory
<1> QED
  BY <1>2, <1>10 DEF issue, Logged

\* The parts of a story of a replacement that is alone under its name.
LEMMA DecidedBefore ==
  ASSUME Inv, NEW root \in OfType(log, "StepAttemptRetried")
  PROVE  LET u == log[root].attempt
             d == log[root].decision
         IN  /\ u \in born /\ u[1] = "author" /\ log[root].inputs = Pins(u)
             /\ d \in DOMAIN log /\ DecisionAgrees(log[d], log[root]) /\ Declared(log[d])
             /\ \A id \in log[d].events : /\ id \in DOMAIN log
                                          /\ log[id].target = Name(log[root].trigger)
<1>1. RetryIs(root) /\ root \in DOMAIN log
  BY DEF Inv, Events, EventIs, OfType
<1>2. SUFFICES ASSUME NEW u, NEW d, u = log[root].attempt, d = log[root].decision
               PROVE  /\ u \in born /\ u[1] = "author" /\ log[root].inputs = Pins(u)
                      /\ d \in DOMAIN log /\ DecisionAgrees(log[d], log[root]) /\ Declared(log[d])
                      /\ \A id \in log[d].events : /\ id \in DOMAIN log
                                                   /\ log[id].target = Name(log[root].trigger)
  OBVIOUS
<1>3. /\ u \in born /\ u[1] = "author" /\ log[root].inputs = Pins(u)
      /\ d \in DOMAIN log /\ DecisionAgrees(log[d], log[root]) /\ d[1] = "RecoveryDecisionSelected"
  BY <1>1, <1>2 DEF RetryIs, Logged
<1>4. Declared(log[d])
  BY <1>3 DEF Inv, Events, EventIs, DecisionIs
<1>5. ASSUME NEW id \in log[d].events
      PROVE  id \in DOMAIN log /\ log[id].target = Name(log[root].trigger)
  <2>1. id = Failure(log[root].trigger) /\ id \in DOMAIN log
    BY <1>3, <1>4 DEF Declared, DecisionAgrees
  <2>2. PICK t \in born : id = Failure(t) /\ log[id].target = Name(t)
    BY <2>1 DEF Inv, Events, EventIs, FailureIs, Failure, NameID
  <2> QED
    BY <2>1, <2>2, IDsDiffer
<1> QED
  BY <1>3, <1>4, <1>5

\* What authorized the agent of an attempt.
LEMMA AgentStory ==
  ASSUME Inv, NEW u \in born, u[1] = "author", ~ Recreated(u),
         NEW retry, retry.attempt = u, retry.inputs = Pins(u)
  PROVE  agentAuthorization(log, retry) =
           IF Logged(NameID("AgentExecutionAuthorized", u)) THEN {} ELSE {Missing}
<1> DEFINE found == {e \in OfType(log, "AgentExecutionAuthorized") : log[e].primitive = u}
           id == NameID("AgentExecutionAuthorized", u)
<1>1. ASSUME NEW e \in OfType(log, "AgentExecutionAuthorized")
      PROVE  /\ e = id => log[e].primitive = u
             /\ log[e].primitive = u =>
                  /\ e = id /\ authority(log, log[e].authority, u) = {}
                  /\ inputs(log, log[e].input, u, retry.inputs) = {}
  <2>1. PICK v \in born :
          /\ e = NameID("AgentExecutionAuthorized", v)
          /\ log[e] = [primitive |-> v, authority |-> Authority(v), input |-> Resolved(v)]
          /\ Logged(Authority(v)) /\ Logged(Resolved(v))
    BY DEF OfType, Inv, Events, EventIs, AgentIs
  <2>2. ASSUME e = id PROVE u = v
    <3>1. NameID("AgentExecutionAuthorized", u) = NameID("AgentExecutionAuthorized", v)
      BY <2>1, <2>2
    <3>2. Name(u) = Name(v)
      BY <3>1, IDsDiffer
    <3>3. Typed
      BY DEF Inv
    <3> QED
      BY <3>2, <3>3, OnlyOne
  <2>3. ASSUME u = v PROVE /\ authority(log, log[e].authority, u) = {}
                           /\ inputs(log, log[e].input, u, retry.inputs) = {}
    <3>1. /\ Logged(Authority(u)) /\ Logged(Resolved(u)) /\ u[1] # "push"
          /\ log[e].authority = Authority(u) /\ log[e].input = Resolved(u)
      BY <2>1, <2>3
    <3>2. log[Authority(u)] = [primitive |-> u]
      BY <3>1, AuthorityOf
    <3>3. log[Resolved(u)] = InputsEvent(u)
      BY <3>1, InputsOf
    <3> QED
      BY <3>1, <3>2, <3>3 DEF authority, inputs, source, Logged, InputsEvent
  <2> QED
    BY <2>1, <2>2, <2>3
<1>2. id \in DOMAIN log <=> id \in OfType(log, "AgentExecutionAuthorized")
  BY DEF OfType, NameID
<1>3. agentAuthorization(log, retry) =
        IF found = {} THEN {Missing}
        ELSE UNION {authority(log, log[e].authority, u)
                    \cup inputs(log, log[e].input, u, retry.inputs) : e \in found}
  BY DEF agentAuthorization
<1> HIDE DEF id
<1>4. found = {} <=> id \notin DOMAIN log
  BY <1>1, <1>2
<1>5. \A e \in found : authority(log, log[e].authority, u)
                       \cup inputs(log, log[e].input, u, retry.inputs) = {}
  BY <1>1
<1> HIDE DEF found
<1>6. UNION {authority(log, log[e].authority, u)
             \cup inputs(log, log[e].input, u, retry.inputs) : e \in found} = {}
  BY <1>5
<1> QED
  BY <1>3, <1>4, <1>6 DEF Logged, id

\* What is left of a rewind's story once its decision and failures are found.
LEMMA RewindStory ==
  ASSUME Inv, NEW root \in OfType(log, "StepAttemptRetried")
  PROVE  recovery(log, root) =
           (IF log[root].previous = <<>> THEN {Missing} ELSE contextFor(log, log[root].previous))
           \cup (IF log[log[root].decision].missing # {} THEN {Missing} ELSE {})
           \cup contextFor(log, log[root].attempt) \cup agentAuthorization(log, log[root])
<1>1. SUFFICES ASSUME NEW retry, retry = log[root], NEW id, id = retry.decision,
                      NEW d, d = log[id]
               PROVE  recovery(log, root) =
                        (IF retry.previous = <<>> THEN {Missing}
                         ELSE contextFor(log, retry.previous))
                        \cup (IF d.missing # {} THEN {Missing} ELSE {})
                        \cup contextFor(log, retry.attempt) \cup agentAuthorization(log, retry)
  OBVIOUS
<1>2. /\ id \in DOMAIN log /\ DecisionAgrees(d, retry)
      /\ \A f \in d.events : f \in DOMAIN log /\ log[f].target = Name(retry.trigger)
  BY <1>1, DecidedBefore
<1>3. source(log, id, DecisionAgrees(d, retry)) = {}
  BY <1>2 DEF source
<1>4. \A f \in d.events : source(log, f, log[f].target = Name(retry.trigger)) = {}
  BY <1>2 DEF source
<1>5. failures(log, retry, d) = {}
  BY <1>4 DEF failures
<1>6. recovery(log, root) =
             (IF retry.previous = <<>> THEN {Missing} ELSE contextFor(log, retry.previous))
        \cup (IF d.missing # {} THEN {Missing} ELSE {})
        \cup failures(log, retry, d)
        \cup contextFor(log, retry.attempt)
        \cup agentAuthorization(log, retry)
  BY <1>1, <1>3 DEF recovery
<1> QED
  BY <1>5, <1>6

\* A replacement that succeeded is explained.
LEMMA InvReplacements == Inv => ReplacementIsExplained
<1> SUFFICES ASSUME Inv, NEW root \in OfType(log, "StepAttemptRetried"),
                    NEW u, u = log[root].attempt, NEW d, d = log[root].decision,
                    Exists(u), objects[u].phase = "Succeeded", ~ Recreated(u),
                    d \in DOMAIN log => log[d].missing = {}
             PROVE  issue(recovery(log, root)) = "linked"
  BY DEF ReplacementIsExplained
<1>1. /\ u \in born /\ u[1] = "author" /\ log[root].inputs = Pins(u)
      /\ d \in DOMAIN log /\ DecisionAgrees(log[d], log[root]) /\ Declared(log[d])
  BY DecidedBefore
<1>2. log[d].missing = {} /\ log[root].previous = log[d].previous
  BY <1>1 DEF DecisionAgrees
<1>3. log[root].previous # <<>> /\ contextFor(log, log[root].previous) = {}
  BY <1>1, <1>2 DEF Declared, None, Saved, Logged, contextFor
<1>4. Stored(u)
  BY <1>1 DEF Inv, Shown, AuthorShows, Exists
<1>5. contextFor(log, u) = {}
  BY <1>4 DEF Stored, Saved, Logged, contextFor
<1>6. agentAuthorization(log, log[root]) = {}
  BY <1>1, <1>4, AgentStory DEF Stored
<1>7. recovery(log, root) = {}
  BY <1>2, <1>3, <1>5, <1>6, RewindStory
<1> QED
  BY <1>7 DEF issue

\* The log explains what has been done: causes precede effects, and no job, replacement or inference
\* is without its story (BuildProjection).
THEOREM Explained == Spec => []LogExplains
<1>1. Inv => LogExplains
  BY InvTypes, InvCauses, InvJobs, InvReplacements, InvContext DEF LogExplains
<1> QED
  BY <1>1, Invariance, PTL

\* No story contradicts itself.
LEMMA InvMismatch == Inv => NoFalseMismatch
<1> SUFFICES ASSUME Inv, \A u \in born : u[3] = 1, NEW root \in Roots(log)
             PROVE  BuildProjection(log)[root] # Mismatch
  BY DEF NoFalseMismatch, BuildProjection
<1>1. \A u \in born : ~ Recreated(u)
  BY DEF Recreated
<1>2. Missing # Mismatch /\ "linked" # Mismatch
  BY DEF Missing, Mismatch
<1>3. CASE root \in OfType(log, "StepAttemptRetried")
  <2>1. log[root].attempt \in born /\ log[root].attempt[1] = "author"
        /\ log[root].inputs = Pins(log[root].attempt)
    BY <1>3, DecidedBefore
  <2>2. Mismatch \notin agentAuthorization(log, log[root])
    BY <1>1, <1>2, <2>1, AgentStory
  <2>3. Mismatch \notin contextFor(log, log[root].attempt)
        /\ Mismatch \notin contextFor(log, log[root].previous)
    BY <1>2 DEF contextFor
  <2>4. Mismatch \notin recovery(log, root)
    BY <1>2, <1>3, <2>2, <2>3, RewindStory
  <2>5. root[1] = "StepAttemptRetried"
    BY <1>3 DEF OfType
  <2>6. BuildProjection(log)[root] = issue(recovery(log, root))
    BY <2>5 DEF BuildProjection
  <2> QED
    BY <1>2, <2>4, <2>6 DEF issue
<1>4. CASE root \in OfType(log, "ApprovalDecisionAdmitted")
  <2>1. root \in DOMAIN log /\ root[1] = "ApprovalDecisionAdmitted"
    BY <1>4 DEF OfType
  <2>2. PICK g \in DOMAIN decisions : root = Admitted(g)
    BY <2>1 DEF Inv, Events, EventIs, AdmissionIs
  <2>3. g \in born /\ Logged(Admitted(g))
    BY <2>1, <2>2 DEF Inv, Typed, Logged
  <2>4. Mismatch \notin approval(log, root)
    BY <1>1, <1>2, <2>2, <2>3, ApprovalStory
  <2>5. BuildProjection(log)[root] = issue(approval(log, root))
    BY <2>1 DEF BuildProjection
  <2> QED
    BY <1>2, <2>4, <2>5 DEF issue
<1> QED
  BY <1>3, <1>4 DEF Roots

\* While every attempt was created once, no story is shown as contradictory, whatever repeated, late
\* and interrupted writers left (BuildProjection).
THEOREM NeverContradicted == Spec => []NoFalseMismatch
  BY Invariance, InvMismatch, PTL

=============================================================================
