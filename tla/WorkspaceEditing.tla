-------------------------- MODULE WorkspaceEditing --------------------------
(***************************************************************************)
(* An agent's pod: the wrapper, the reference agent it runs, the MCP       *)
(* sidecar and the overlay on which the sidecar records what the agent     *)
(* does to an immutable checkout.  The sidecar is restarted whenever it    *)
(* dies and forgets what it kept in memory; the overlay stays, with what a *)
(* write that was cut off has left there.                                  *)
(*                                                                         *)
(* A file's content is a member of Contents, which holds "old", what the   *)
(* checkout has, and may hold "dropped", where a test is gone.  The model  *)
(* behind the agent may ask for any call; what it says is left out.        *)
(***************************************************************************)
EXTENDS Naturals, FiniteSets

CONSTANTS
  Paths,      \* the paths of the repository
  Base,       \* which of them the checkout has, and with what content
  Tests,      \* the recognized test paths
  GoTests,    \* ... whose declared tests a repair must keep
  Hidden,     \* the paths below a directory that listings leave out
  Temps,      \* the paths of temporary files
  TempOf,     \* the file each of them is written for
  Contents,   \* what a file may hold
  Tasks,      \* the tasks an agent may have
  MaxRounds,  \* inference rounds of an agent
  MaxCalls,   \* tool calls in one round
  MaxPlan,    \* the paths a plan may name
  MaxFaults   \* how often a container is killed

Absent == "absent"
Unknown == "unknown"
Torn == "torn"   \* a deletion marker that was cut off and names no path
Actions == {"add", "modify", "delete"}
Contracts == {"implementation-plan", "test-change-set", "change-set"}

\* A task: the contract of the output, the accepted plan, the tests of the
\* attempt that is repaired, and whether a repair must preserve them.
ASSUME EditingAssumption ==
  /\ Tests \subseteq Paths /\ GoTests \subseteq Tests /\ Hidden \subseteq Paths
  /\ "old" \in Contents /\ Absent \notin Contents /\ Unknown \notin Contents
  /\ Base \in [Paths -> {"old", Absent}] /\ Torn \notin Paths
  /\ Temps \subseteq Paths /\ TempOf \in [Temps -> Paths]
  /\ \A t \in Temps : Base[t] = Absent
  /\ \A t \in Tasks :
       /\ t.contract \in Contracts
       /\ DOMAIN t.plan \subseteq Paths /\ \A p \in DOMAIN t.plan : t.plan[p] \in Actions
       /\ DOMAIN t.prior \subseteq Tests
       /\ \A p \in DOMAIN t.prior : t.prior[p] \in Contents \cup {Absent}
       /\ DOMAIN t.prior # {} => t.contract = "test-change-set"
       /\ t.preserves \in BOOLEAN
  /\ MaxRounds \in Nat \ {0} /\ MaxCalls \in Nat \ {0} /\ MaxPlan \in Nat /\ MaxFaults \in Nat

VARIABLES
  task,      \* what the agent is to do
  overlay,   \* the files of the overlay
  stones,    \* its deletion markers
  marker,    \* whether the prior tests have been seeded
  server,    \* the sidecar: what it does and what it remembers
  candidate, \* the candidate evidence in the staging directory
  agent,     \* the agent's process
  told,      \* what the agent last heard of a path
  artifact,  \* the output it published
  result,    \* result.json
  wrapper,   \* the wrapper's process
  faults

vars == <<task, overlay, stones, marker, server, candidate, agent, told,
          artifact, result, wrapper, faults>>
files == <<overlay, stones, marker>>
outcome == <<artifact, result, wrapper>>

None == [p \in {} |-> Absent]
Put(f, p, v) == [q \in DOMAIN f \cup {p} |-> IF q = p THEN v ELSE f[q]]
Drop(f, p) == [q \in DOMAIN f \ {p} |-> f[q]]

Down == [at |-> "down", left |-> {}, reads |-> {}, tree |-> "none", listed |-> {}]
Starting == [at |-> "start", round |-> 0, calls |-> 0, inspected |-> FALSE, ready |-> FALSE,
             offers |-> {}, evidence |-> None]

Init ==
  /\ task \in Tasks
  /\ overlay = None /\ stones = {} /\ marker = FALSE
  /\ server = Down /\ candidate = None /\ agent = Starting
  /\ told = [p \in Paths |-> Unknown]
  /\ artifact = None /\ result = "none" /\ wrapper = "running" /\ faults = 0

-----------------------------------------------------------------------------
(* The editor: a checkout under an overlay of files and deletion markers.  *)

View(p) ==
  IF p \in stones THEN Absent
  ELSE IF p \in DOMAIN overlay THEN overlay[p] ELSE Base[p]

\* What a walk finds.
Visible(S) == S \ Hidden
TreeListing == {p \in Visible(Paths) : View(p) # Absent}

\* Deviation: only files are compared, deletions are forgotten.
ChangesOfFiles == [p \in {q \in Visible(DOMAIN overlay) : View(q) # Base[q]} |-> View(p)]

\* The changed files with what became of them, as the editor derives them.
Changes ==
  LET touched == Visible(DOMAIN overlay) \cup (stones \ {Torn})
  IN  [p \in {q \in touched : View(q) # Base[q]} |-> View(p)]

ActionOf(p, content) ==
  IF Base[p] = Absent THEN "add" ELSE IF content = Absent THEN "delete" ELSE "modify"

\* What a deletion marker cannot be read from, the changes cannot be either.
Readable == Torn \notin stones

\* Write puts the file and then lifts the marker;
WriteFile(p, c) == overlay' = Put(overlay, p, c) /\ stones' = stones

Write(p, c) == overlay' = Put(overlay, p, c) /\ stones' = stones \ {p}

\* Delete removes the file and then puts the marker.
RemoveFile(p) == overlay' = Drop(overlay, p) /\ stones' = stones

Delete(p) ==
  /\ overlay' = Drop(overlay, p)
  /\ stones' = IF Base[p] = Absent THEN stones \ {p} ELSE stones \cup {p}

\* A file is written beside its place, in part or in full, and then renamed.
atomicWrite(p) ==
  \E t \in {u \in Temps \ DOMAIN overlay : TempOf[u] = p}, part \in Contents :
    overlay' = Put(overlay, t, part) /\ stones' = stones

\* What an editor that is killed in Write or in Delete may have done.
CutWrite(p, c) == atomicWrite(p) \/ WriteFile(p, c) \/ Write(p, c)
CutDelete(p) ==
  \/ RemoveFile(p) \/ Delete(p)
  \/ Base[p] # Absent /\ overlay' = Drop(overlay, p) /\ stones' = stones \cup {Torn}

-----------------------------------------------------------------------------
(* The sidecar.                                                            *)

Serving == server.at = "serving"
Repairs == DOMAIN task.prior # {}

\* A server that starts seeds the tests it repairs, unless that was finished.
Seeded == marker

\* Deviation: the marker is written before the tests are restored.
StartMarked ==
  /\ wrapper \in {"running", "stopping"} /\ server.at = "down"
  /\ marker' = Repairs
  /\ server' = IF ~ Repairs \/ Seeded THEN [Down EXCEPT !.at = "serving"]
               ELSE [Down EXCEPT !.at = "seeding", !.left = DOMAIN task.prior]
  /\ UNCHANGED <<task, overlay, stones, candidate, agent, told, outcome, faults>>

StartServer ==
  /\ wrapper \in {"running", "stopping"} /\ server.at = "down"
  /\ server' = IF ~ Repairs \/ Seeded THEN [Down EXCEPT !.at = "serving"]
               ELSE [Down EXCEPT !.at = "seeding", !.left = DOMAIN task.prior]
  /\ UNCHANGED <<task, files, candidate, agent, told, outcome, faults>>

\* A prior test is restored over whatever an interrupted seeding left of it.
Restore(p) ==
  IF task.prior[p] # Absent THEN Write(p, task.prior[p])
  ELSE IF View(p) # Absent THEN Delete(p) ELSE UNCHANGED <<overlay, stones>>

Seed ==
  /\ server.at = "seeding"
  /\ \E p \in server.left : Restore(p) /\ server' = [server EXCEPT !.left = @ \ {p}]
  /\ UNCHANGED <<task, marker, candidate, agent, told, outcome, faults>>

\* The marker is written last, and then the server listens.
prepareRefinementWorkspace ==
  /\ server.at = "seeding" /\ server.left = {}
  /\ IF marker THEN server' = [server EXCEPT !.at = "serving"] /\ marker' = marker
     ELSE marker' = TRUE /\ server' = server
  /\ UNCHANGED <<task, overlay, stones, candidate, agent, told, outcome, faults>>

Sidecar == StartServer \/ Seed \/ prepareRefinementWorkspace

-----------------------------------------------------------------------------
(* The mutation policy of the output contract.                             *)

Workspace == task.contract # "implementation-plan"
Planned(p, actions) == p \notin Tests /\ p \in DOMAIN task.plan /\ task.plan[p] \in actions

ValidateUpdate(p) ==
  IF task.contract = "test-change-set" THEN p \in Tests ELSE Planned(p, {"modify", "add"})

ValidateCreate(p) == task.contract = "change-set" /\ Planned(p, {"add"})

ValidateDelete(p) ==
  IF task.contract = "test-change-set" THEN p \in Tests ELSE Planned(p, {"delete"})

-----------------------------------------------------------------------------
(* The agent.  Its first round lists the tree; a round offers tools by the *)
(* evidence there was at its start, and holds up to MaxCalls calls.  When  *)
(* the sidecar dies in a call the agent can only fail: it is "cut off".    *)

Mutations == {"write", "delete"}
Tools == IF Workspace THEN {"tree", "read", "create", "complete"} \cup Mutations
         ELSE {"tree", "read", "candidate", "complete"}

toolsForWorkspaceInspectionState(inspected) ==
  IF ~ Workspace \/ inspected THEN Tools ELSE Tools \ Mutations

toolsForEvidenceState(a) ==
  IF a.ready THEN IF Workspace THEN toolsForWorkspaceInspectionState(a.inspected) ELSE {"complete"}
  ELSE toolsForWorkspaceInspectionState(a.inspected) \ {"complete"}

\* After a call: another one of the same response, or a new round.
Called(a) ==
  LET again == [a EXCEPT !.calls = @ + 1]
      next == [a EXCEPT !.calls = 0, !.round = @ + 1, !.offers = toolsForEvidenceState(a)]
  IN  {x \in {again} : a.round > 0 /\ again.calls < MaxCalls}
        \cup {x \in {next} : next.round < MaxRounds}

Alive == wrapper \in {"running", "stopping"}
Calling(tool) == Alive /\ agent.at = "calling" /\ Serving /\ tool \in agent.offers
Reply(a) == agent' \in Called(a)
Heard(p, c) == told' = [told EXCEPT ![p] = c]

connect ==
  /\ Alive /\ agent.at = "start" /\ Serving
  /\ agent' = [agent EXCEPT !.at = "calling", !.offers = {"tree"}]
  /\ UNCHANGED <<task, files, server, candidate, told, outcome, faults>>

\* A listing may be cut at a number of entries; a complete one stays known.
workspace_tree ==
  /\ Calling("tree")
  /\ \E S \in {TreeListing} \cup {TreeListing \ {p} : p \in TreeListing} :
       server' = [server EXCEPT
         !.tree = IF S = TreeListing \/ @ = "complete" THEN "complete" ELSE "partial",
         !.listed = @ \cup S]
  /\ Reply(agent)
  /\ UNCHANGED <<task, files, candidate, told, outcome, faults>>

workspace_read ==
  /\ Calling("read")
  /\ \E p \in Paths :
       /\ View(p) # Absent
       /\ server' = [server EXCEPT !.reads = @ \cup {p}]
       /\ Heard(p, View(p))
  /\ Reply([agent EXCEPT !.inspected = Workspace])
  /\ UNCHANGED <<task, files, candidate, outcome, faults>>

Exists(p) == View(p) # Absent

\* Deviation: a file that exists counts as read.
ExistsIsRead(p) == Exists(p)

requireUpdate(p) == p \in server.reads
requireCreate(p) == server.tree # "none" /\ p \notin server.listed

\* After a mutation the agent asks whether the workspace has changes.
workspaceHasChanges ==
  IF Readable THEN Reply([agent EXCEPT !.ready = Changes' # None])
  ELSE agent' = [agent EXCEPT !.at = "cut off"]

MayWrite(p) == "write" \in agent.offers /\ Exists(p) /\ requireUpdate(p) /\ ValidateUpdate(p)
MayCreate(p) == "create" \in agent.offers /\ ~ Exists(p) /\ requireCreate(p) /\ ValidateCreate(p)
MayDelete(p) == "delete" \in agent.offers /\ Exists(p) /\ requireUpdate(p) /\ ValidateDelete(p)

\* workspace_write and workspace_replace.
workspace_write ==
  /\ Calling("write")
  /\ \E p \in Paths, c \in Contents :
       /\ MayWrite(p) /\ Write(p, c)
       /\ IF View(p) = c THEN Reply(agent) /\ UNCHANGED told
          ELSE workspaceHasChanges /\ Heard(p, c)
  /\ UNCHANGED <<task, marker, server, candidate, outcome, faults>>

workspace_create ==
  /\ Calling("create")
  /\ \E p \in Paths, c \in Contents :
       /\ MayCreate(p) /\ Write(p, c) /\ Heard(p, c)
       /\ server' = [server EXCEPT !.reads = @ \cup {p}]
  /\ workspaceHasChanges
  /\ UNCHANGED <<task, marker, candidate, outcome, faults>>

workspace_delete ==
  /\ Calling("delete")
  /\ \E p \in Paths : MayDelete(p) /\ Delete(p) /\ Heard(p, Absent)
  /\ workspaceHasChanges
  /\ UNCHANGED <<task, marker, server, candidate, outcome, faults>>

\* A refused call changes nothing.
Refused ==
  /\ Alive /\ agent.at = "calling" /\ Serving
  /\ Reply(agent)
  /\ UNCHANGED <<task, files, server, candidate, told, outcome, faults>>

validateAffectedWorkspacePaths(plan) ==
  /\ server.tree = "complete"
  /\ \A p \in DOMAIN plan : plan[p] = "add" <=> p \notin server.listed

Plans == UNION {[S -> Actions] : S \in {T \in SUBSET Paths : Cardinality(T) \in 1 .. MaxPlan}}

WriteCandidate(plan) == candidate' = plan

candidate_write ==
  /\ Calling("candidate")
  /\ \E plan \in Plans : validateAffectedWorkspacePaths(plan) /\ WriteCandidate(plan)
  /\ Reply([agent EXCEPT !.ready = TRUE])
  /\ UNCHANGED <<task, files, server, told, outcome, faults>>

\* The tests a file of the checkout declares must still be there.
validateRefinementTestPreservation ==
  \A p \in DOMAIN Changes \cap GoTests :
    Base[p] # Absent => Changes[p] \notin {"dropped", Absent}

agent_complete ==
  /\ Calling("complete")
  /\ IF Workspace
     THEN /\ Changes # None
          /\ task.contract = "test-change-set" /\ task.preserves
               => validateRefinementTestPreservation
          /\ agent' = [agent EXCEPT !.at = "finishing", !.evidence = Changes]
     ELSE /\ candidate # None
          /\ agent' = [agent EXCEPT !.at = "finishing", !.evidence = candidate]
  /\ UNCHANGED <<task, files, server, candidate, told, outcome, faults>>

Calls == workspace_tree \/ workspace_read \/ workspace_write \/ workspace_create
           \/ workspace_delete \/ Refused \/ candidate_write \/ agent_complete

\* What the completed output must hold to be an artifact.
validateChangedFiles(written) == \A p \in DOMAIN written : written[p] # Base[p]
TestChangeSet(written) == DOMAIN written \subseteq Tests

Materialize(output) ==
  /\ output # None
  /\ Workspace => validateChangedFiles(output)
  /\ task.contract = "test-change-set" => TestChangeSet(output)

\* The evidence is derived again and must be the one completed.
Evidence == IF Workspace THEN Changes ELSE candidate

writeArtifact ==
  /\ Alive /\ agent.at = "finishing" /\ (Workspace => Serving)
  /\ Evidence = agent.evidence /\ Materialize(Evidence)
  /\ artifact' = Evidence
  /\ agent' = [agent EXCEPT !.at = "published"]
  /\ UNCHANGED <<task, files, server, candidate, told, result, wrapper, faults>>

WriteResult ==
  /\ Alive /\ agent.at = "published"
  /\ result' = "Succeeded" /\ agent' = [agent EXCEPT !.at = "exit 0"]
  /\ UNCHANGED <<task, files, server, candidate, told, artifact, wrapper, faults>>

\* Whatever fails before the artifact is written: a connection, an inference,
\* a call, the rounds.  The rejection is the agent's result.
writeGenerationRejection ==
  /\ Alive /\ agent.at \in {"start", "calling", "finishing", "cut off"}
  /\ result' = "Failed" /\ agent' = [agent EXCEPT !.at = "exit 0"]
  /\ UNCHANGED <<task, files, server, candidate, told, artifact, wrapper, faults>>

Agent == connect \/ Calls \/ writeArtifact \/ WriteResult \/ writeGenerationRejection

-----------------------------------------------------------------------------
(* The wrapper.                                                            *)

Exited == agent.at \in {"exit 0", "exit 1"}
ReadResultForInput == agent.at = "exit 0" /\ result = "Succeeded" /\ artifact # None

\* An agent that exits with a result is judged by it; any other fails.
AgentEnds ==
  /\ wrapper = "running" /\ Exited
  /\ wrapper' = IF ReadResultForInput THEN "succeeded" ELSE "failed"
  /\ result' = IF agent.at = "exit 0" THEN result ELSE "Failed"
  /\ UNCHANGED <<task, files, server, candidate, agent, told, artifact, faults>>

\* Its time is over, or the pod is deleted: the agent is told to stop.
Interrupt ==
  /\ wrapper = "running" /\ wrapper' = "stopping"
  /\ UNCHANGED <<task, files, server, candidate, agent, told, artifact, result, faults>>

\* It stops, or is killed after the grace period; it failed in any case.
Fail ==
  /\ wrapper = "stopping"
  /\ agent' = IF Exited THEN agent ELSE [agent EXCEPT !.at = "killed"]
  /\ wrapper' = "failed" /\ result' = "Failed"
  /\ UNCHANGED <<task, files, server, candidate, told, artifact, faults>>

Wrapper == AgentEnds \/ Interrupt \/ Fail

-----------------------------------------------------------------------------
(* What may be killed: the sidecar, between two calls, in one, or in the   *)
(* seeding of a test; the agent's process; the container of both agent and *)
(* wrapper.                                                                *)

Fault == faults < MaxFaults /\ faults' = faults + 1

KillSidecar ==
  /\ Alive /\ server.at # "down" /\ Fault
  /\ server' = Down
  /\ UNCHANGED <<task, files, candidate, agent, told, outcome>>

KillSeeding ==
  /\ Alive /\ server.at = "seeding" /\ Fault /\ server' = Down
  /\ \E p \in server.left :
       IF task.prior[p] # Absent THEN CutWrite(p, task.prior[p])
       ELSE View(p) # Absent /\ CutDelete(p)
  /\ UNCHANGED <<task, marker, candidate, agent, told, outcome>>

\* The call may have been executed, in part or in full, or not; nobody tells the
\* agent, which then fails.  What it left in the staging directory is not read.
KillServing ==
  /\ Alive /\ agent.at = "calling" /\ Serving /\ Fault /\ server' = Down
  /\ \/ UNCHANGED <<overlay, stones>>
     \/ \E p \in Paths, c \in Contents : (MayWrite(p) \/ MayCreate(p)) /\ CutWrite(p, c)
     \/ \E p \in Paths : MayDelete(p) /\ CutDelete(p)
  /\ agent' = [agent EXCEPT !.at = "cut off"]
  /\ UNCHANGED <<task, marker, candidate, told, outcome>>

KillAgent ==
  /\ Alive /\ ~ Exited /\ Fault
  /\ agent' = [agent EXCEPT !.at = "exit 1"]
  /\ UNCHANGED <<task, files, server, candidate, told, outcome>>

KillWrapper ==
  /\ Alive /\ Fault
  /\ wrapper' = "killed" /\ agent' = [agent EXCEPT !.at = "killed"]
  /\ UNCHANGED <<task, files, server, candidate, told, artifact, result>>

Faults == KillSidecar \/ KillSeeding \/ KillServing \/ KillAgent \/ KillWrapper
Next == Sidecar \/ Agent \/ Wrapper \/ Faults
Spec == Init /\ [][Next]_vars

-----------------------------------------------------------------------------
(* What the pod promises.                                                  *)

\* Every variable has its type (the editor, the sidecar and the agent keep
\* files, deletion markers and evidence of these shapes).
TypeOK ==
  /\ task \in Tasks
  /\ DOMAIN overlay \subseteq Paths /\ (\A p \in DOMAIN overlay : overlay[p] \in Contents)
  /\ stones \subseteq Paths \cup {Torn} /\ marker \in BOOLEAN
  /\ server.at \in {"down", "seeding", "serving"} /\ server.left \subseteq Paths
  /\ server.reads \subseteq Paths /\ server.listed \subseteq Paths
  /\ server.tree \in {"none", "partial", "complete"}
  /\ agent.at \in {"start", "calling", "finishing", "published", "cut off",
                   "exit 0", "exit 1", "killed"}
  /\ agent.round \in 0 .. MaxRounds - 1 /\ agent.calls \in 0 .. MaxCalls - 1
  /\ agent.offers \subseteq Tools
  /\ told \in [Paths -> Contents \cup {Absent, Unknown}]
  /\ DOMAIN artifact \subseteq Paths
  /\ result \in {"none", "Failed", "Succeeded"}
  /\ wrapper \in {"running", "stopping", "succeeded", "failed", "killed"}
  /\ faults \in 0 .. MaxFaults

\* A path's content by what the agent was told of it, or else by the tests
\* it repairs and the checkout.
Meant(p) ==
  IF told[p] # Unknown THEN told[p]
  ELSE IF p \in DOMAIN task.prior THEN task.prior[p] ELSE Base[p]

\* The temporary files that neither the agent nor the repaired attempt knows.
Leftover == {t \in Temps \ DOMAIN task.prior : told[t] = Unknown}

\* A pod that succeeds has published the changes that the agent's calls were
\* acknowledged to make, on top of the tests it repairs: none is left out,
\* but for files written in a directory that listings leave out, and none is
\* another's, but for what a seeding that was killed has left of those tests
\* (execution-model.md, "Trusted runtime code materializes those overlays as
\* complete changed-file manifests").
AcknowledgedIsPublished ==
  wrapper = "succeeded" /\ Workspace =>
    /\ \A p \in Paths \ Leftover :
         IF Meant(p) = Base[p] \/ (p \in Hidden /\ Meant(p) # Absent) THEN p \notin DOMAIN artifact
         ELSE p \in DOMAIN artifact /\ artifact[p] = Meant(p)
    /\ \A t \in Leftover \cap DOMAIN artifact : TempOf[t] \in DOMAIN task.prior

Working == agent.at \in {"start", "calling", "finishing"}

\* What the agent last heard of a file stays true while it works, whatever
\* restart or repeated seeding the sidecar goes through in between.
ViewIsTold == Working => \A p \in Paths : told[p] # Unknown => View(p) = told[p]

\* No call is served before every test of the attempt under repair is back
\* in the workspace, also when the sidecar was killed while it restored them.
SeededBeforeServed ==
  Serving /\ Working =>
    \A p \in DOMAIN task.prior : told[p] = Unknown => View(p) = task.prior[p]

\* The agent's calls change no file of which it does not know the content
\* it replaces, unless they create it.
NoBlindChange ==
  [][\A p \in Paths : Calls /\ View(p)' # View(p) => told[p] = View(p) \/ View(p) = Absent]_vars

\* What a pod publishes does to each path what the accepted plan says is to
\* be done to it, and never touches a test; a test author's touches only
\* tests, and adds none but a temporary file or one of the repaired attempt.
ActsAsPlanned ==
  wrapper = "succeeded" /\ Workspace =>
    \A p \in DOMAIN artifact :
      IF task.contract = "test-change-set"
      THEN p \in Tests /\ (Base[p] = Absent => p \in Temps \cup DOMAIN task.prior)
      ELSE p \notin Tests /\ p \in DOMAIN task.plan /\ task.plan[p] = ActionOf(p, artifact[p])

\* A published plan adds what the checkout lacks and modifies or deletes what
\* it has, of the directories that are listed, however the listings were cut.
PlanFitsRepository ==
  wrapper = "succeeded" /\ ~ Workspace =>
    \A p \in DOMAIN artifact \ Hidden : artifact[p] = "add" <=> Base[p] = Absent

\* The result beside a finished pod is the pod's own verdict: an agent that
\* was interrupted has failed even if it wrote a success meanwhile.
VerdictIsResult ==
  /\ wrapper = "succeeded" => result = "Succeeded" /\ artifact # None
  /\ wrapper = "failed" => result = "Failed"

\* What is published is what the agent was told it did, what its plan allows
\* and what the verdict of the pod says.
PublishedIsMeant == /\ TypeOK
                    /\ AcknowledgedIsPublished
                    /\ ActsAsPlanned
                    /\ PlanFitsRepository
                    /\ VerdictIsResult

\* No restart of the sidecar loses or alters a file that the agent has seen or
\* the tests it is to repair.
WorkspaceSurvives == ViewIsTold /\ SeededBeforeServed

\* Known departure, not checked: a repair publishes nothing that neither its
\* agent nor the repaired attempt has made.  A temporary file that a killed
\* seeding leaves in a directory of tests is published as a new test.
NothingForeign ==
  wrapper = "succeeded" /\ Workspace =>
    \A p \in DOMAIN artifact : told[p] # Unknown \/ p \in DOMAIN task.prior
=============================================================================
