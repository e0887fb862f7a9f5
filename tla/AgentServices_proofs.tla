------------------------ MODULE AgentServices_proofs ------------------------
(***************************************************************************)
(* Theorems about the two services that an agent's run uses: the workspace *)
(* editor that serves its tools (WorkspaceEditing) and the lease of the    *)
(* inference endpoint that it works with (InferenceLeasing).               *)
(***************************************************************************)
EXTENDS WorkspaceEditing, InferenceLeasing, FiniteSetTheorems, TLAPS

-----------------------------------------------------------------------------
(* The workspace editor.                                                    *)
(* The inductive invariant.                                                 *)

\* The types in full: the records of the sidecar and of the agent.
ServerRec == [at : {"down", "seeding", "serving"}, left : SUBSET Paths, reads : SUBSET Paths,
              tree : {"none", "partial", "complete"}, listed : SUBSET Paths]
Places == {"start", "calling", "finishing", "published", "cut off", "exit 0", "exit 1", "killed"}
AgentRec(e) == [at : Places,
                round : 0 .. MaxRounds - 1, calls : 0 .. MaxCalls - 1,
                inspected : BOOLEAN, ready : BOOLEAN, offers : SUBSET Tools, evidence : {e}]

Typed ==
  /\ TypeOK /\ server \in ServerRec /\ agent \in AgentRec(agent.evidence)
  /\ DOMAIN candidate \subseteq Paths

\* The tests under repair are all back.
Open == Repairs => marker

\* A file is what the agent was told, or what it was before the agent heard of it.
Conserved ==
  /\ \A p \in Paths : told[p] # Unknown => View(p) = told[p]
  /\ \A p \in Paths \ (DOMAIN task.prior \cup Temps) : told[p] = Unknown => View(p) = Base[p]
  /\ server.at = "seeding" \/ marker =>
       \A p \in DOMAIN task.prior \ server.left : told[p] = Unknown => View(p) = task.prior[p]
  /\ \A p \in Temps \ DOMAIN task.prior :
       told[p] = Unknown /\ View(p) # Absent => TempOf[p] \in DOMAIN task.prior

\* That holds until the agent is cut off, which then has nothing to publish.
Going == agent.at \in {"start", "calling", "finishing", "published"} \/ artifact # None

\* Nothing is served, and nobody hears of a file, before the tests are back.
Order ==
  /\ server.at = "serving" => Open
  /\ server.at # "seeding" \/ marker => server.left = {}
  /\ server.left \subseteq DOMAIN task.prior
  /\ agent.at \in {"calling", "finishing", "published"} => Open
  /\ \A p \in Paths : told[p] # Unknown => Open
  /\ \A p \in server.reads : told[p] # Unknown

\* What was published stays the evidence there is.
Kept ==
  /\ artifact # None => /\ artifact = Evidence /\ Open
                        /\ agent.at \in {"published", "exit 0", "exit 1", "killed"}
  /\ artifact # None /\ task.contract = "test-change-set" => DOMAIN artifact \subseteq Tests
  /\ agent.at = "published" => artifact # None
  /\ result = "Succeeded" => artifact # None
  /\ agent.at = "exit 0" => result \in {"Succeeded", "Failed"}
  /\ wrapper = "succeeded" => result = "Succeeded"
  /\ wrapper = "failed" => result = "Failed"

Inv == Typed /\ (Going => Conserved) /\ Order /\ Kept

-----------------------------------------------------------------------------
(* Types, and the files of the editor.                                      *)

\* The records by their fields.
LEMMA ServerIs ==
  ASSUME NEW s \in ServerRec
  PROVE  /\ s.at \in {"down", "seeding", "serving"} /\ s.left \subseteq Paths
         /\ s.reads \subseteq Paths /\ s.tree \in {"none", "partial", "complete"}
         /\ s.listed \subseteq Paths
  BY DEF ServerRec

\* A sidecar that is down remembers nothing.
LEMMA DownIs == Down \in ServerRec /\ Down.at = "down" /\ Down.left = {} /\ Down.reads = {}
                /\ Down.tree = "none" /\ Down.listed = {}
  BY DEF Down, ServerRec

\* The agent's record by its fields.
LEMMA AgentIs ==
  ASSUME NEW e, NEW a \in AgentRec(e)
  PROVE  /\ a.at \in Places
         /\ a.round \in 0 .. MaxRounds - 1 /\ a.calls \in 0 .. MaxCalls - 1
         /\ a.inspected \in BOOLEAN /\ a.ready \in BOOLEAN /\ a.offers \subseteq Tools
         /\ a.evidence = e
  BY DEF AgentRec, Places

\* A round offers tools of the task.
LEMMA ToolsOffered ==
  ASSUME NEW a
  PROVE  toolsForEvidenceState(a) \subseteq Tools
<1>1. \A i : toolsForWorkspaceInspectionState(i) \subseteq Tools
  BY DEF toolsForWorkspaceInspectionState
<1>2. ~ Workspace => {"complete"} \subseteq Tools
  BY DEF Tools
<1> QED
  BY <1>1, <1>2 DEF toolsForEvidenceState

\* The agent after a call is the agent, in another round or with another call.
LEMMA CalledIs ==
  ASSUME NEW e, NEW a \in AgentRec(e), NEW b \in Called(a)
  PROVE  b \in AgentRec(e) /\ b.at = a.at
<1> DEFINE again == [a EXCEPT !.calls = @ + 1]
           next == [a EXCEPT !.calls = 0, !.round = @ + 1, !.offers = toolsForEvidenceState(a)]
<1>1. /\ MaxCalls \in Nat \ {0} /\ MaxRounds \in Nat \ {0}
  BY EditingAssumption
<1>2. /\ a.round \in 0 .. MaxRounds - 1 /\ a.calls \in 0 .. MaxCalls - 1
  BY AgentIs
<1>3. CASE b = again /\ again.calls < MaxCalls
  <2>1. again.calls = a.calls + 1
    BY DEF AgentRec
  <2>2. a.calls + 1 \in 0 .. MaxCalls - 1
    BY <1>1, <1>2, <1>3, <2>1
  <2> QED
    BY <1>3, <2>2 DEF AgentRec
<1>4. CASE b = next /\ next.round < MaxRounds
  <2>1. next.round = a.round + 1
    BY DEF AgentRec
  <2>2. a.round + 1 \in 0 .. MaxRounds - 1 /\ 0 \in 0 .. MaxCalls - 1
    BY <1>1, <1>2, <1>4, <2>1
  <2>3. toolsForEvidenceState(a) \in SUBSET Tools
    BY ToolsOffered
  <2> HIDE DEF next
  <2>4. next = [a EXCEPT !.calls = 0, !.round = a.round + 1, !.offers = toolsForEvidenceState(a)]
    BY DEF next, AgentRec
  <2> QED
    BY <1>4, <2>2, <2>3, <2>4 DEF AgentRec
<1> QED
  BY <1>3, <1>4 DEF Called

\* The types of a state, one by one.
LEMMA Types ==
  ASSUME Inv
  PROVE  /\ task \in Tasks /\ task.contract \in Contracts
         /\ DOMAIN task.prior \subseteq Tests /\ DOMAIN task.prior \subseteq Paths
         /\ \A p \in DOMAIN task.prior : task.prior[p] \in Contents \cup {Absent}
         /\ DOMAIN overlay \subseteq Paths /\ \A p \in DOMAIN overlay : overlay[p] \in Contents
         /\ stones \subseteq Paths \cup {Torn} /\ marker \in BOOLEAN
         /\ Unknown \notin Contents \cup {Absent}
         /\ Torn \notin Paths /\ Temps \subseteq Paths /\ TempOf \in [Temps -> Paths]
         /\ Base \in [Paths -> {"old", Absent}] /\ \A p \in Temps : Base[p] = Absent
         /\ Repairs => task.contract = "test-change-set"
         /\ server \in ServerRec /\ agent \in AgentRec(agent.evidence)
         /\ told \in [Paths -> Contents \cup {Absent, Unknown}]
         /\ DOMAIN artifact \subseteq Paths /\ result \in {"none", "Failed", "Succeeded"}
         /\ wrapper \in {"running", "stopping", "succeeded", "failed", "killed"}
         /\ faults \in 0 .. MaxFaults /\ DOMAIN candidate \subseteq Paths
  BY EditingAssumption DEF Inv, Typed, TypeOK, Repairs, Unknown, Absent

\* A file by its path, after each way the editor changes it.
LEMMA ViewSame ==
  ASSUME UNCHANGED <<overlay, stones>>
  PROVE  /\ \A p : View(p)' = View(p)
         /\ Changes' = Changes
  BY DEF View, Changes, Visible

\* A file put into the overlay.
LEMMA PutIs ==
  ASSUME NEW p \in Paths, NEW c, overlay' = Put(overlay, p, c)
  PROVE  /\ DOMAIN overlay' = DOMAIN overlay \cup {p} /\ overlay'[p] = c
         /\ \A q \in DOMAIN overlay : q # p => overlay'[q] = overlay[q]
  BY DEF Put

\* Write: the file holds what was written, whatever the overlay and the markers were.
LEMMA Written ==
  ASSUME NEW p \in Paths, NEW c, Write(p, c)
  PROVE  /\ View(p)' = c /\ \A q \in Paths \ {p} : View(q)' = View(q)
         /\ DOMAIN overlay' = DOMAIN overlay \cup {p} /\ stones' \subseteq stones
         /\ \A q \in DOMAIN overlay' :
              overlay'[q] = c \/ (q \in DOMAIN overlay /\ overlay'[q] = overlay[q])
<1>1. /\ DOMAIN overlay' = DOMAIN overlay \cup {p} /\ overlay'[p] = c
      /\ \A q \in DOMAIN overlay : q # p => overlay'[q] = overlay[q]
      /\ stones' = stones \ {p}
  BY PutIs DEF Write
<1> QED
  BY <1>1 DEF View

\* Delete: the file is gone, of the checkout or not.
LEMMA Deleted ==
  ASSUME NEW p \in Paths, Delete(p), Base \in [Paths -> {"old", Absent}]
  PROVE  /\ View(p)' = Absent /\ \A q \in Paths \ {p} : View(q)' = View(q)
         /\ DOMAIN overlay' \subseteq DOMAIN overlay /\ stones' \subseteq stones \cup {p}
         /\ \A q \in DOMAIN overlay' : overlay'[q] = overlay[q]
  BY DEF View, Delete, Drop

\* The files keep their types.
Files(o, s) == /\ DOMAIN o \subseteq Paths /\ \A q \in DOMAIN o : o[q] \in Contents
               /\ s \subseteq Paths \cup {Torn}

\* A file that is written keeps them.
LEMMA WrittenFiles ==
  ASSUME Inv, NEW p \in Paths, NEW c \in Contents, Write(p, c)
  PROVE  /\ Files(overlay, stones)' /\ View(p)' = c
         /\ \A q \in Paths \ {p} : View(q)' = View(q)
<1>1. /\ View(p)' = c /\ \A q \in Paths \ {p} : View(q)' = View(q)
      /\ DOMAIN overlay' = DOMAIN overlay \cup {p} /\ stones' \subseteq stones
      /\ \A q \in DOMAIN overlay' :
           overlay'[q] = c \/ (q \in DOMAIN overlay /\ overlay'[q] = overlay[q])
  BY Written
<1> QED
  BY <1>1, Types DEF Files

\* A write that was cut off leaves what the file is to hold, or a temporary file of it.
LEMMA CutWritten ==
  ASSUME Inv, NEW p \in Paths, NEW c \in Contents, CutWrite(p, c)
  PROVE  /\ Files(overlay, stones)'
         /\ \A q \in Paths \ {p} : View(q)' = View(q) \/ (q \in Temps /\ TempOf[q] = p)
<1>1. Files(overlay, stones)
  BY Types DEF Files
<1>2. CASE atomicWrite(p)
  <2>1. PICK t \in {u \in Temps \ DOMAIN overlay : TempOf[u] = p}, part \in Contents :
          overlay' = Put(overlay, t, part) /\ stones' = stones
    BY <1>2 DEF atomicWrite
  <2>2. t \in Paths /\ t \in Temps /\ TempOf[t] = p
    BY Types
  <2>3. /\ DOMAIN overlay' = DOMAIN overlay \cup {t} /\ overlay'[t] = part
        /\ \A q \in DOMAIN overlay : q # t => overlay'[q] = overlay[q]
    BY <2>1, <2>2, PutIs
  <2>4. \A q \in Paths \ {t} : View(q)' = View(q)
    BY <2>1, <2>3 DEF View
  <2> QED
    BY <1>1, <2>1, <2>2, <2>3, <2>4 DEF Files
<1>3. CASE WriteFile(p, c)
  <2>1. /\ DOMAIN overlay' = DOMAIN overlay \cup {p} /\ overlay'[p] = c
        /\ \A q \in DOMAIN overlay : q # p => overlay'[q] = overlay[q]
        /\ stones' = stones
    BY <1>3, PutIs DEF WriteFile
  <2> QED
    BY <1>1, <2>1 DEF View, Files
<1>4. CASE Write(p, c)
  BY <1>4, WrittenFiles
<1> QED
  BY <1>2, <1>3, <1>4 DEF CutWrite

\* A deletion that was cut off touches no other file.
LEMMA CutDeleted ==
  ASSUME Inv, NEW p \in Paths, CutDelete(p)
  PROVE  /\ Files(overlay, stones)'
         /\ \A q \in Paths \ {p} : View(q)' = View(q)
<1>1. Files(overlay, stones) /\ Torn \notin Paths
  BY Types DEF Files
<1>2. CASE Delete(p)
  BY <1>1, <1>2, Deleted, Types DEF Files
<1>3. CASE overlay' = Drop(overlay, p) /\ stones' \in {stones, stones \cup {Torn}}
  <2>1. /\ DOMAIN overlay' = DOMAIN overlay \ {p}
        /\ \A q \in DOMAIN overlay' : overlay'[q] = overlay[q]
    BY <1>3 DEF Drop
  <2> QED
    BY <1>1, <1>3, <2>1 DEF View, Files
<1> QED
  BY <1>2, <1>3 DEF CutDelete, RemoveFile

-----------------------------------------------------------------------------
(* The sidecar.                                                             *)

\* The count of faults stays within its bound.
LEMMA FaultTyped ==
  ASSUME Inv, Fault
  PROVE  faults' \in 0 .. MaxFaults
  BY Types, EditingAssumption DEF Fault

\* A step that leaves the files and what was told alone.
Quiet == UNCHANGED <<task, overlay, stones, marker, told>>

\* It keeps the invariant, if the sidecar serves only what is restored.
LEMMA QuietKeeps ==
  ASSUME Inv, Quiet,
         server' \in ServerRec, agent' \in AgentRec(agent'.evidence),
         DOMAIN candidate' \subseteq Paths, DOMAIN artifact' \subseteq Paths,
         result' \in {"none", "Failed", "Succeeded"},
         wrapper' \in {"running", "stopping", "succeeded", "failed", "killed"},
         faults' \in 0 .. MaxFaults,
         \A p \in server'.reads : told[p] # Unknown,
         server'.at = "serving" => Open,
         server'.at # "seeding" \/ marker => server'.left = {},
         server'.left \subseteq DOMAIN task.prior,
         server'.at = "seeding" /\ ~ marker =>
           \/ server'.left = DOMAIN task.prior
           \/ server.at = "seeding" /\ server'.left = server.left,
         agent'.at \in {"calling", "finishing", "published"} => Open,
         Going' => Going,
         Kept'
  PROVE  Inv'
<1>1. /\ task' = task /\ overlay' = overlay /\ stones' = stones /\ marker' = marker /\ told' = told
  BY DEF Quiet
<1>2. /\ \A p : View(p)' = View(p)
      /\ Tools' = Tools /\ Open' = Open
  BY <1>1, ViewSame DEF Tools, Workspace, Open, Repairs
<1>3. Typed'
  <2>1. agent' \in AgentRec(agent.evidence)'
    BY <1>2 DEF AgentRec
  <2> QED
    BY <1>1, <1>2, <2>1, Types, ServerIs, AgentIs DEF Typed, TypeOK, Places
<1>4. Order'
  BY <1>1, <1>2 DEF Order, Inv
<1>5. ASSUME Going'
      PROVE  Conserved'
  <2>0. Conserved
    BY <1>5 DEF Inv
  <2>1. ASSUME server'.at = "seeding" \/ marker,
               NEW p \in DOMAIN task.prior \ server'.left, told[p] = Unknown
        PROVE  View(p) = task.prior[p]
    <3>1. CASE marker
      BY <2>0, <2>1, <3>1 DEF Inv, Conserved, Order
    <3>2. CASE ~ marker
      BY <2>0, <2>1, <3>2 DEF Inv, Conserved
    <3> QED
      BY <3>1, <3>2
  <2> QED
    BY <1>1, <1>2, <2>0, <2>1 DEF Conserved
<1> QED
  BY <1>3, <1>4, <1>5 DEF Inv

\* Before something is published there is nothing to keep;
LEMMA KeptBefore ==
  ASSUME Inv, agent.at \in {"start", "calling", "finishing"},
         UNCHANGED <<artifact, result, wrapper>>,
         agent'.at \notin {"published", "exit 0"}
  PROVE  Kept'
<1>1. artifact = None /\ result # "Succeeded"
  BY DEF Inv, Kept
<1> QED
  BY <1>1 DEF Inv, Kept

\* a step of the sidecar keeps it while the evidence stays.
LEMMA KeptBeside ==
  ASSUME Inv, UNCHANGED <<task, agent, artifact, result, wrapper>>,
         Open => Evidence' = Evidence /\ Open'
  PROVE  Kept'
  BY DEF Inv, Kept

\* The evidence depends on the files, or on the candidate.
LEMMA EvidenceSame ==
  ASSUME UNCHANGED <<task, overlay, stones, candidate>>
  PROVE  Evidence' = Evidence
  BY ViewSame DEF Evidence, Workspace

\* A sidecar that starts to serve.
LEMMA ToServing ==
  ASSUME NEW s \in ServerRec
  PROVE  LET t == [s EXCEPT !.at = "serving"] IN
         /\ t \in ServerRec /\ t.at = "serving" /\ t.left = s.left /\ t.reads = s.reads
         /\ t.listed = s.listed /\ t.tree = s.tree
  BY DEF ServerRec

\* The sidecar starts: it seeds, or serves because the tests are back.
LEMMA StartKeeps ==
  ASSUME Inv, StartServer
  PROVE  Inv'
<1>1. /\ server.at = "down" /\ UNCHANGED <<task, overlay, stones, marker, candidate, agent, told>>
      /\ UNCHANGED <<artifact, result, wrapper, faults>>
      /\ server' = IF ~ Repairs \/ marker THEN [Down EXCEPT !.at = "serving"]
                   ELSE [Down EXCEPT !.at = "seeding", !.left = DOMAIN task.prior]
  BY DEF StartServer, Seeded, files, outcome
<1>2. Kept'
  BY <1>1, EvidenceSame, KeptBeside DEF Open, Repairs
<1>3. CASE ~ Repairs \/ marker
  <2>1. /\ server' \in ServerRec /\ server'.at = "serving" /\ server'.left = {}
        /\ server'.reads = {}
    BY <1>1, <1>3, DownIs, ToServing
  <2> QED
    BY <1>1, <1>2, <1>3, <2>1, Types, QuietKeeps DEF Quiet, Open, Inv, Order, Going
<1>4. CASE ~ (~ Repairs \/ marker)
  <2>1. /\ server' \in ServerRec /\ server'.at = "seeding" /\ server'.left = DOMAIN task.prior
        /\ server'.reads = {}
    BY <1>1, <1>4, Types DEF Down, ServerRec
  <2> QED
    BY <1>1, <1>2, <1>4, <2>1, Types, QuietKeeps DEF Quiet, Open, Inv, Order, Going
<1> QED
  BY <1>3, <1>4

\* The tests are back: the marker is written, and then the server listens.
LEMMA PrepareKeeps ==
  ASSUME Inv, prepareRefinementWorkspace
  PROVE  Inv'
<1>1. /\ server.at = "seeding" /\ server.left = {}
      /\ UNCHANGED <<task, overlay, stones, candidate, agent, told>>
      /\ UNCHANGED <<artifact, result, wrapper, faults>>
  BY DEF prepareRefinementWorkspace, outcome
<1>2. CASE marker
  <2>1. server' = [server EXCEPT !.at = "serving"] /\ marker' = marker
    BY <1>2 DEF prepareRefinementWorkspace
  <2>2. /\ server' \in ServerRec /\ server'.at = "serving" /\ server'.left = {}
        /\ server'.reads = server.reads
    BY <1>1, <2>1, Types, ToServing
  <2>3. Kept'
    BY <1>1, <2>1, EvidenceSame, KeptBeside DEF Open, Repairs
  <2> QED
    BY <1>1, <1>2, <2>1, <2>2, <2>3, Types, QuietKeeps DEF Quiet, Open, Inv, Order, Going
<1>3. CASE ~ marker
  <2>1. server' = server /\ marker' = TRUE
    BY <1>3 DEF prepareRefinementWorkspace
  <2>2. \A p : View(p)' = View(p)
    BY <1>1, ViewSame
  <2>3. Tools' = Tools /\ Open'
    BY <1>1, <2>1 DEF Tools, Workspace, Open
  <2>4. Kept'
    BY <1>1, <2>3, EvidenceSame, KeptBeside
  <2>5. Typed'
    <3>1. TypeOK'
      BY <1>1, <2>1, <2>3 DEF Inv, Typed, TypeOK
    <3>2. AgentRec(agent.evidence)' = AgentRec(agent.evidence)
      BY <1>1, <2>3 DEF AgentRec
    <3> QED
      BY <1>1, <2>1, <3>1, <3>2 DEF Inv, Typed
  <2>6. Order'
    BY <1>1, <2>1, <2>3 DEF Inv, Order
  <2>7. Going' => Conserved'
    <3>1. Going' = Going
      BY <1>1 DEF Going
    <3>2. Conserved => Conserved'
      BY <1>1, <2>1, <2>2 DEF Conserved
    <3> QED
      BY <3>1, <3>2 DEF Inv
  <2> QED
    BY <2>4, <2>5, <2>6, <2>7 DEF Inv
<1> QED
  BY <1>2, <1>3 DEF prepareRefinementWorkspace

\* While tests are restored nothing is open, and nobody has heard of a file.
LEMMA Closed ==
  ASSUME Inv, server.at = "seeding", NEW p \in server.left
  PROVE  /\ p \in DOMAIN task.prior /\ p \in Paths /\ ~ marker /\ Repairs /\ ~ Open
         /\ task.prior[p] \in Contents \cup {Absent} /\ artifact = None
         /\ \A q \in Paths : told[q] = Unknown
<1>1. /\ p \in DOMAIN task.prior /\ p \in Paths /\ ~ marker /\ Repairs
      /\ task.prior[p] \in Contents \cup {Absent}
  BY Types DEF Inv, Order, Repairs
<1>2. ~ Open
  BY <1>1 DEF Open
<1> QED
  BY <1>1, <1>2 DEF Inv, Order, Kept

\* Nothing was published: so it stays.
LEMMA KeptClosed ==
  ASSUME Inv, artifact = None, UNCHANGED <<agent, artifact, result, wrapper>>
  PROVE  Kept'
  BY DEF Inv, Kept

\* A test is restored while nobody has heard of a file.
LEMMA SeedKeeps ==
  ASSUME Inv, Seed
  PROVE  Inv'
<1>1. /\ server.at = "seeding"
      /\ UNCHANGED <<task, marker, candidate, agent, told, artifact, result, wrapper, faults>>
  BY DEF Seed, outcome
<1>2. PICK p \in server.left : Restore(p) /\ server' = [server EXCEPT !.left = @ \ {p}]
  BY DEF Seed
<1>3. /\ p \in DOMAIN task.prior /\ p \in Paths /\ ~ marker /\ Repairs /\ ~ Open
      /\ task.prior[p] \in Contents \cup {Absent} /\ artifact = None
      /\ \A q \in Paths : told[q] = Unknown
  BY <1>1, <1>2, Closed
<1>4. /\ \A q \in Paths \ {p} : View(q)' = View(q)
      /\ Files(overlay, stones)' /\ View(p)' = task.prior[p]
  <2>1. CASE task.prior[p] = Absent /\ View(p) = Absent
    BY <1>2, <2>1, Types, ViewSame DEF Restore, Files
  <2>2. CASE task.prior[p] = Absent /\ View(p) # Absent
    BY <1>2, <1>3, <2>2, Types, Deleted DEF Restore, Files
  <2>3. CASE task.prior[p] # Absent
    BY <1>2, <1>3, <2>3, WrittenFiles DEF Restore
  <2> QED
    BY <2>1, <2>2, <2>3
<1>5. /\ server' \in ServerRec /\ server'.at = "seeding" /\ server'.reads = server.reads
      /\ server'.left = server.left \ {p}
  BY <1>1, <1>2, Types DEF ServerRec
<1>6. Tools' = Tools /\ Open' = Open
  BY <1>1 DEF Tools, Workspace, Open, Repairs
<1>7. Kept'
  BY <1>1, <1>3, KeptClosed
<1>8. Going' = Going
  BY <1>1 DEF Going
<1>9. Typed'
  <2>1. agent' \in AgentRec(agent.evidence)'
    BY <1>1, <1>6, Types DEF AgentRec
  <2> QED
    BY <1>1, <1>4, <1>5, <1>6, <2>1, Types, ServerIs DEF Inv, Typed, TypeOK, Files
<1>10. Order'
  BY <1>1, <1>3, <1>5, <1>6, Types DEF Inv, Order
<1>11. Going => Conserved'
  BY <1>1, <1>3, <1>4, <1>5, Types DEF Inv, Conserved
<1> QED
  BY <1>7, <1>8, <1>9, <1>10, <1>11 DEF Inv

\* The sidecar is killed while it restores one.
LEMMA KillSeedingKeeps ==
  ASSUME Inv, KillSeeding
  PROVE  Inv'
<1>1. /\ server.at = "seeding" /\ server' = Down /\ Fault
      /\ UNCHANGED <<task, marker, candidate, agent, told, artifact, result, wrapper>>
  BY DEF KillSeeding, outcome
<1>2. PICK p \in server.left :
        IF task.prior[p] # Absent THEN CutWrite(p, task.prior[p])
        ELSE View(p) # Absent /\ CutDelete(p)
  BY DEF KillSeeding
<1>3. /\ p \in DOMAIN task.prior /\ p \in Paths /\ ~ marker /\ Repairs /\ ~ Open
      /\ task.prior[p] \in Contents \cup {Absent} /\ artifact = None
      /\ \A q \in Paths : told[q] = Unknown
  BY <1>1, <1>2, Closed
<1>4. /\ Files(overlay, stones)'
      /\ \A q \in Paths \ {p} : View(q)' = View(q) \/ (q \in Temps /\ TempOf[q] = p)
  BY <1>2, <1>3, CutWritten, CutDeleted
<1>5. Tools' = Tools /\ Open' = Open
  BY <1>1 DEF Tools, Workspace, Open, Repairs
<1>6. Kept'
  BY <1>1, <1>3, KeptClosed
<1>7. Going' = Going
  BY <1>1 DEF Going
<1>8. Typed'
  <2>1. agent' \in AgentRec(agent.evidence)' /\ faults' \in 0 .. MaxFaults
    BY <1>1, <1>5, Types, FaultTyped DEF AgentRec
  <2> QED
    BY <1>1, <1>4, <1>5, <2>1, Types, DownIs DEF Inv, Typed, TypeOK, Files
<1>9. Order'
  BY <1>1, <1>3, <1>5, DownIs, Types DEF Inv, Order
<1>10. Going => Conserved'
  BY <1>1, <1>3, <1>4, DownIs, Types DEF Inv, Conserved
<1> QED
  BY <1>6, <1>7, <1>8, <1>9, <1>10 DEF Inv

-----------------------------------------------------------------------------
(* The calls of the agent.                                                  *)

\* What a file holds is never unknown.
LEMMA ViewTyped ==
  ASSUME Inv, NEW p \in Paths
  PROVE  View(p) \in Contents \cup {Absent} /\ View(p) # Unknown
<1>1. Base[p] \in {"old", Absent} /\ "old" \in Contents /\ Unknown \notin Contents
  BY EditingAssumption
<1> QED
  BY <1>1, Types DEF View, Unknown, Absent

\* A call about one file, which the agent is told of.
LEMMA LoudKeeps ==
  ASSUME Inv, NEW p \in Paths, NEW R \in SUBSET {p}, NEW c \in Contents \cup {Absent},
         agent.at = "calling", agent' \in AgentRec(agent'.evidence),
         agent'.at \in {"calling", "cut off"},
         UNCHANGED <<task, marker, candidate, artifact, result, wrapper, faults>>,
         server' = [server EXCEPT !.reads = server.reads \cup R],
         View(p)' = c, \A q \in Paths \ {p} : View(q)' = View(q),
         Files(overlay, stones)',
         told' = [told EXCEPT ![p] = c]
  PROVE  Inv'
<1>1. c # Unknown
  BY Types
<1>2. /\ told' \in [Paths -> Contents \cup {Absent, Unknown}] /\ told'[p] = c
      /\ \A q \in Paths \ {p} : told'[q] = told[q]
  BY Types
<1>3. /\ server' \in ServerRec /\ server'.at = server.at /\ server'.left = server.left
      /\ server'.reads = server.reads \cup R
  BY Types DEF ServerRec
<1>4. Tools' = Tools /\ Open' = Open /\ Open
  BY DEF Tools, Workspace, Open, Repairs, Inv, Order
<1>5. Kept'
  BY KeptBefore
<1>6. Typed'
  <2>1. agent' \in AgentRec(agent.evidence)'
    BY <1>4 DEF AgentRec
  <2> QED
    BY <1>2, <1>3, <1>4, <2>1, Types, ServerIs, AgentIs DEF Typed, TypeOK, Files, Places
<1>7. Order'
  <2>1. \A q \in server'.reads : told'[q] # Unknown
    BY <1>1, <1>2, <1>3, Types, ServerIs DEF Inv, Order
  <2>2. server.at # "seeding" \/ marker => server.left = {}
    BY DEF Inv, Order
  <2> QED
    BY <1>3, <1>4, <2>1, <2>2 DEF Inv, Order
<1>8. Conserved'
  <2>0. Conserved
    BY DEF Inv, Going
  <2>1. \A q \in Paths : told'[q] # Unknown => View(q)' = told'[q]
    BY <1>2, <2>0 DEF Conserved
  <2>2. \A q \in Paths \ (DOMAIN task.prior \cup Temps) : told'[q] = Unknown => View(q)' = Base[q]
    BY <1>1, <1>2, <2>0 DEF Conserved
  <2>3. ASSUME server.at = "seeding" \/ marker, NEW q \in DOMAIN task.prior \ server.left,
               told'[q] = Unknown
        PROVE  View(q)' = task.prior[q]
    <3>1. q \in Paths \ {p}
      BY <1>1, <2>3, Types
    <3>2. View(q)' = View(q) /\ told[q] = Unknown
      BY <1>2, <2>3, <3>1
    <3> QED
      BY <2>0, <2>3, <3>2 DEF Conserved
  <2>4. \A q \in Temps \ DOMAIN task.prior :
          told'[q] = Unknown /\ View(q)' # Absent => TempOf[q] \in DOMAIN task.prior
    <3> SUFFICES ASSUME NEW q \in Temps \ DOMAIN task.prior, told'[q] = Unknown, View(q)' # Absent
                 PROVE  TempOf[q] \in DOMAIN task.prior
      OBVIOUS
    <3>1. q \in Paths \ {p} /\ q \in Temps
      BY <1>1, <1>2, Types
    <3> QED
      BY <1>2, <2>0, <3>1 DEF Conserved
  <2> QED
    BY <1>3, <2>1, <2>2, <2>3, <2>4 DEF Conserved
<1> QED
  BY <1>5, <1>6, <1>7, <1>8 DEF Inv

\* What the agent may do to itself in a call.
LEMMA Replied ==
  ASSUME Inv, NEW i \in BOOLEAN, NEW r \in BOOLEAN,
         agent' \in Called([agent EXCEPT !.inspected = i, !.ready = r])
  PROVE  agent' \in AgentRec(agent'.evidence) /\ agent'.at = agent.at
<1> DEFINE a == [agent EXCEPT !.inspected = i, !.ready = r]
<1>1. a \in AgentRec(agent.evidence) /\ a.at = agent.at
  BY Types DEF AgentRec
<1>2. agent' \in Called(a)
  OBVIOUS
<1> HIDE DEF a
<1>3. agent' \in AgentRec(agent.evidence) /\ agent'.at = a.at
  BY <1>1, <1>2, CalledIs
<1>4. agent'.evidence = agent.evidence
  BY <1>3, AgentIs
<1> QED
  BY <1>1, <1>3, <1>4

\* The agent by the two of its fields that a call may change.
LEMMA Same ==
  ASSUME Inv
  PROVE  /\ agent = [agent EXCEPT !.inspected = agent.inspected, !.ready = agent.ready]
         /\ agent.inspected \in BOOLEAN /\ agent.ready \in BOOLEAN
         /\ \A i : [agent EXCEPT !.inspected = i]
                     = [agent EXCEPT !.inspected = i, !.ready = agent.ready]
         /\ \A r : [agent EXCEPT !.ready = r]
                     = [agent EXCEPT !.inspected = agent.inspected, !.ready = r]
  BY Types DEF AgentRec

\* The agent in another place.
LEMMA Moved ==
  ASSUME Inv,
         NEW where \in Places
  PROVE  LET a == [agent EXCEPT !.at = where] IN a \in AgentRec(a.evidence) /\ a.at = where
  BY Types DEF AgentRec

\* The agent after a mutation: in the next call, or cut off because its changes cannot be read.
LEMMA Mutated ==
  ASSUME Inv, agent.at = "calling", workspaceHasChanges
  PROVE  agent' \in AgentRec(agent'.evidence) /\ agent'.at \in {"calling", "cut off"}
<1>1. CASE Readable
  <2>1. (Changes' # None) \in BOOLEAN
    OBVIOUS
  <2> QED
    BY <1>1, <2>1, Same, Replied DEF workspaceHasChanges, Reply
<1>2. CASE ~ Readable
  BY <1>2, Moved DEF workspaceHasChanges, Places
<1> QED
  BY <1>1, <1>2

\* The agent connects.
LEMMA ConnectKeeps ==
  ASSUME Inv, connect
  PROVE  Inv'
<1>1. /\ agent.at = "start" /\ server.at = "serving"
      /\ agent' = [agent EXCEPT !.at = "calling", !.offers = {"tree"}]
      /\ UNCHANGED <<task, overlay, stones, marker, server, candidate, told, artifact, result,
                     wrapper, faults>>
  BY DEF connect, Serving, files, outcome
<1>2. {"tree"} \subseteq Tools
  BY DEF Tools
<1>3. agent' \in AgentRec(agent'.evidence) /\ agent'.at = "calling"
  BY <1>1, <1>2, Types DEF AgentRec, Places
<1>4. Kept'
  BY <1>1, <1>3, KeptBefore
<1> QED
  BY <1>1, <1>3, <1>4, Types, QuietKeeps DEF Quiet, Inv, Order, Going

\* A call that changes no file and tells of none.
LEMMA QuietCall ==
  ASSUME Inv, agent.at = "calling", Quiet, agent' \in AgentRec(agent'.evidence),
         agent'.at \in {"calling", "finishing"}, DOMAIN candidate' \subseteq Paths,
         UNCHANGED <<artifact, result, wrapper, faults>>,
         server' \in ServerRec, server'.at = server.at, server'.left = server.left,
         server'.reads = server.reads
  PROVE  Inv'
<1>1. Kept' /\ Going
  BY KeptBefore DEF Going
<1> QED
  BY <1>1, Types, QuietKeeps DEF Inv, Order

\* A listing.
LEMMA TreeKeeps ==
  ASSUME Inv, workspace_tree
  PROVE  Inv'
<1>1. /\ agent.at = "calling" /\ agent' \in Called(agent) /\ Quiet
      /\ UNCHANGED <<candidate, artifact, result, wrapper, faults>>
  BY DEF workspace_tree, Calling, Reply, Quiet, files, outcome
<1>2. agent' \in AgentRec(agent'.evidence) /\ agent'.at = "calling"
  BY <1>1, Same, Replied
<1>3. PICK S \in {TreeListing} \cup {TreeListing \ {p} : p \in TreeListing} :
        server' = [server EXCEPT
          !.tree = IF S = TreeListing \/ @ = "complete" THEN "complete" ELSE "partial",
          !.listed = @ \cup S]
  BY DEF workspace_tree
<1>4. S \subseteq Paths
  BY DEF TreeListing, Visible
<1>5. /\ server' \in ServerRec /\ server'.at = server.at /\ server'.left = server.left
      /\ server'.reads = server.reads
  BY <1>3, <1>4, Types DEF ServerRec
<1> QED
  BY <1>1, <1>2, <1>5, Types, QuietCall

\* A file is read.
LEMMA ReadKeeps ==
  ASSUME Inv, workspace_read
  PROVE  Inv'
<1>1. /\ agent.at = "calling" /\ agent' \in Called([agent EXCEPT !.inspected = Workspace])
      /\ UNCHANGED <<task, overlay, stones, marker, candidate, artifact, result, wrapper, faults>>
  BY DEF workspace_read, Calling, Reply, files, outcome
<1>2. PICK p \in Paths :
        /\ View(p) # Absent
        /\ server' = [server EXCEPT !.reads = @ \cup {p}]
        /\ told' = [told EXCEPT ![p] = View(p)]
  BY DEF workspace_read, Heard
<1>3. Workspace \in BOOLEAN
  BY DEF Workspace
<1>4. agent' \in AgentRec(agent'.evidence) /\ agent'.at = "calling"
  BY <1>1, <1>3, Same, Replied
<1>5. View(p) \in Contents \cup {Absent} /\ \A q : View(q)' = View(q)
  BY <1>1, ViewTyped, ViewSame
<1>6. Files(overlay, stones)'
  BY <1>1, Types DEF Files
<1> QED
  BY <1>1, <1>2, <1>4, <1>5, <1>6, LoudKeeps

\* A call that reads no file.
LEMMA Unread ==
  ASSUME Inv
  PROVE  server = [server EXCEPT !.reads = server.reads \cup {}]
  BY Types DEF ServerRec

\* A file is written.  What is not changed had been heard of before.
LEMMA WriteKeeps ==
  ASSUME Inv, workspace_write
  PROVE  Inv'
<1>1. /\ agent.at = "calling"
      /\ UNCHANGED <<task, marker, server, candidate, artifact, result, wrapper, faults>>
  BY DEF workspace_write, Calling, outcome
<1>2. PICK p \in Paths, c \in Contents :
        /\ requireUpdate(p) /\ Write(p, c)
        /\ IF View(p) = c THEN Reply(agent) /\ UNCHANGED told
           ELSE workspaceHasChanges /\ Heard(p, c)
  BY DEF workspace_write, MayWrite
<1>3. agent' \in AgentRec(agent'.evidence) /\ agent'.at \in {"calling", "cut off"}
  <2>1. CASE Reply(agent)
    BY <1>1, <2>1, Same, Replied DEF Reply
  <2> QED
    BY <1>1, <1>2, <2>1, Mutated
<1>4. told' = [told EXCEPT ![p] = c]
  <2>1. CASE View(p) = c
    <3>1. told' = told /\ told[p] = c
      BY <1>1, <1>2, <2>1, Types, ServerIs DEF requireUpdate, Inv, Order, Conserved, Going
    <3> QED
      BY <3>1, Types
  <2>2. CASE View(p) # c
    BY <1>2, <2>2 DEF Heard
  <2> QED
    BY <2>1, <2>2
<1>5. /\ View(p)' = c /\ \A q \in Paths \ {p} : View(q)' = View(q)
      /\ Files(overlay, stones)'
  BY <1>2, WrittenFiles
<1>6. server' = [server EXCEPT !.reads = server.reads \cup {}]
  BY <1>1, Unread
<1> QED
  BY <1>1, <1>3, <1>4, <1>5, <1>6, LoudKeeps

\* A file is created.
LEMMA CreateKeeps ==
  ASSUME Inv, workspace_create
  PROVE  Inv'
<1>1. /\ agent.at = "calling" /\ workspaceHasChanges
      /\ UNCHANGED <<task, marker, candidate, artifact, result, wrapper, faults>>
  BY DEF workspace_create, Calling, outcome
<1>2. PICK p \in Paths, c \in Contents :
        /\ Write(p, c) /\ told' = [told EXCEPT ![p] = c]
        /\ server' = [server EXCEPT !.reads = server.reads \cup {p}]
  BY DEF workspace_create, Heard
<1>3. agent' \in AgentRec(agent'.evidence) /\ agent'.at \in {"calling", "cut off"}
  BY <1>1, Mutated
<1>4. /\ View(p)' = c /\ \A q \in Paths \ {p} : View(q)' = View(q)
      /\ Files(overlay, stones)'
  BY <1>2, WrittenFiles
<1> QED
  BY <1>1, <1>2, <1>3, <1>4, LoudKeeps

\* A file is deleted.
LEMMA DeleteKeeps ==
  ASSUME Inv, workspace_delete
  PROVE  Inv'
<1>1. /\ agent.at = "calling" /\ workspaceHasChanges
      /\ UNCHANGED <<task, marker, server, candidate, artifact, result, wrapper, faults>>
  BY DEF workspace_delete, Calling, outcome
<1>2. PICK p \in Paths : Delete(p) /\ told' = [told EXCEPT ![p] = Absent]
  BY DEF workspace_delete, Heard
<1>3. agent' \in AgentRec(agent'.evidence) /\ agent'.at \in {"calling", "cut off"}
  BY <1>1, Mutated
<1>4. /\ View(p)' = Absent /\ \A q \in Paths \ {p} : View(q)' = View(q)
      /\ Files(overlay, stones)'
  BY <1>2, Deleted, Types DEF Files
<1>5. server' = [server EXCEPT !.reads = server.reads \cup {}]
  BY <1>1, Unread
<1> QED
  BY <1>1, <1>2, <1>3, <1>4, <1>5, LoudKeeps

\* The evidence is about paths of the repository,
LEMMA ChangesPaths ==
  ASSUME Inv
  PROVE  DOMAIN Changes \subseteq Paths /\ DOMAIN Evidence \subseteq Paths
  BY Types DEF Changes, Visible, Evidence

\* and so is a plan.
LEMMA PlanPaths ==
  ASSUME NEW plan \in Plans
  PROVE  DOMAIN plan \subseteq Paths
<1>1. PICK S \in SUBSET Paths : plan \in [S -> Actions]
  BY DEF Plans
<1> QED
  BY <1>1

\* The calls that touch no file.
LEMMA OtherCallKeeps ==
  ASSUME Inv, Refused \/ candidate_write \/ agent_complete
  PROVE  Inv'
<1>1. /\ agent.at = "calling" /\ Quiet /\ UNCHANGED <<server, artifact, result, wrapper, faults>>
  BY DEF Refused, candidate_write, agent_complete, Calling, Quiet, files, outcome
<1>2. CASE Refused
  <2>1. agent' \in AgentRec(agent'.evidence) /\ agent'.at = "calling" /\ candidate' = candidate
    BY <1>1, <1>2, Same, Replied DEF Refused, Reply
  <2> QED
    BY <1>1, <2>1, Types, QuietCall
<1>3. CASE candidate_write
  <2>1. agent' \in AgentRec(agent'.evidence) /\ agent'.at = "calling"
    BY <1>1, <1>3, Same, Replied DEF candidate_write, Reply
  <2>2. DOMAIN candidate' \subseteq Paths
    BY <1>3, PlanPaths DEF candidate_write, WriteCandidate
  <2> QED
    BY <1>1, <2>1, <2>2, Types, QuietCall
<1>4. CASE agent_complete
  <2>1. PICK e : agent' = [agent EXCEPT !.at = "finishing", !.evidence = e]
    BY <1>4 DEF agent_complete
  <2>2. agent' \in AgentRec(agent'.evidence) /\ agent'.at = "finishing" /\ candidate' = candidate
    BY <1>4, <2>1, Types DEF agent_complete, AgentRec, Places
  <2> QED
    BY <1>1, <2>2, Types, QuietCall
<1> QED
  BY <1>2, <1>3, <1>4

-----------------------------------------------------------------------------
(* The end of the agent, the wrapper and faults.                            *)

\* The artifact is written.
LEMMA PublishKeeps ==
  ASSUME Inv, writeArtifact
  PROVE  Inv'
<1>1. /\ agent.at = "finishing" /\ artifact' = Evidence /\ Evidence # None /\ Going
      /\ task.contract = "test-change-set" => DOMAIN Evidence \subseteq Tests
      /\ agent' = [agent EXCEPT !.at = "published"] /\ Quiet
      /\ UNCHANGED <<server, candidate, result, wrapper, faults>>
  BY DEF writeArtifact, Materialize, TestChangeSet, Quiet, files, Going
<1>2. agent' \in AgentRec(agent'.evidence) /\ agent'.at = "published"
  BY <1>1, Moved DEF Places
<1>3. Evidence' = Evidence /\ Open' = Open /\ Open
  BY <1>1, EvidenceSame DEF Quiet, Inv, Order, Open, Repairs
<1>4. result # "Succeeded" /\ wrapper # "succeeded"
  BY <1>1 DEF Inv, Kept
<1>5. Kept'
  BY <1>1, <1>2, <1>3, <1>4 DEF Inv, Kept, Quiet
<1> QED
  BY <1>1, <1>2, <1>3, <1>5, Types, ChangesPaths, QuietKeeps DEF Inv, Order

\* The agent's result is written.
LEMMA ResultKeeps ==
  ASSUME Inv, WriteResult \/ writeGenerationRejection
  PROVE  Inv'
<1>1. /\ agent' = [agent EXCEPT !.at = "exit 0"] /\ Quiet /\ Alive
      /\ UNCHANGED <<server, candidate, artifact, wrapper, faults>>
      /\ result' \in {"Succeeded", "Failed"}
      /\ result' = "Succeeded" => agent.at = "published"
      /\ agent.at = "published" \/ agent.at \in {"start", "calling", "finishing", "cut off"}
  BY DEF WriteResult, writeGenerationRejection, Quiet, files
<1>2. agent' \in AgentRec(agent'.evidence) /\ agent'.at = "exit 0"
  BY <1>1, Moved DEF Places
<1>3. Evidence' = Evidence /\ Open' = Open /\ (Going' => Going)
  BY <1>1, <1>2, EvidenceSame DEF Quiet, Open, Repairs, Going
<1>4. Kept'
  BY <1>1, <1>2, <1>3 DEF Inv, Kept, Alive, Quiet
<1> QED
  BY <1>1, <1>2, <1>3, <1>4, Types, QuietKeeps DEF Inv, Order

\* The wrapper judges the agent, or stops it.
LEMMA WrapperKeeps ==
  ASSUME Inv, Wrapper
  PROVE  Inv'
<1>1. Quiet /\ UNCHANGED <<server, candidate, artifact, faults>>
  BY DEF Wrapper, AgentEnds, Interrupt, Fail, Quiet, files
<1>2. Evidence' = Evidence /\ Open' = Open
  BY <1>1, EvidenceSame DEF Quiet, Open, Repairs
<1>3. CASE AgentEnds
  <2>1. /\ agent' = agent /\ agent.at \in {"exit 0", "exit 1"} /\ wrapper = "running"
        /\ wrapper' = IF ReadResultForInput THEN "succeeded" ELSE "failed"
        /\ result' = IF agent.at = "exit 0" THEN result ELSE "Failed"
    BY <1>3 DEF AgentEnds, Exited
  <2>2. Kept'
    BY <1>1, <1>2, <2>1 DEF Inv, Kept, ReadResultForInput, Quiet
  <2> QED
    BY <1>1, <2>1, <2>2, Types, QuietKeeps DEF Inv, Order, Going
<1>4. CASE Interrupt
  <2>1. agent' = agent /\ result' = result /\ wrapper = "running" /\ wrapper' = "stopping"
    BY <1>4 DEF Interrupt
  <2>2. Kept'
    BY <1>1, <1>2, <2>1 DEF Inv, Kept, Quiet
  <2> QED
    BY <1>1, <2>1, <2>2, Types, QuietKeeps DEF Inv, Order, Going
<1>5. CASE Fail
  <2>1. /\ \/ agent' = agent /\ agent.at \in {"exit 0", "exit 1"}
           \/ agent' = [agent EXCEPT !.at = "killed"]
        /\ wrapper' = "failed" /\ result' = "Failed"
    BY <1>5 DEF Fail, Exited
  <2>2. /\ agent' \in AgentRec(agent'.evidence)
        /\ agent' = agent \/ agent'.at = "killed"
        /\ agent'.at \in {"exit 0", "exit 1", "killed"}
    BY <2>1, Types, Moved DEF Places
  <2>3. Kept'
    BY <1>1, <1>2, <2>1, <2>2 DEF Inv, Kept, Quiet
  <2> QED
    BY <1>1, <2>1, <2>2, <2>3, Types, QuietKeeps DEF Inv, Order, Going
<1> QED
  BY <1>3, <1>4, <1>5 DEF Wrapper

\* The sidecar is killed in a call: the agent is cut off, and has published nothing.
LEMMA KillServingKeeps ==
  ASSUME Inv, KillServing
  PROVE  Inv'
<1>1. /\ agent.at = "calling" /\ server' = Down /\ Fault
      /\ agent' = [agent EXCEPT !.at = "cut off"]
      /\ UNCHANGED <<task, marker, candidate, told, artifact, result, wrapper>>
  BY DEF KillServing, outcome
<1>2. Files(overlay, stones)'
  <2>1. CASE UNCHANGED <<overlay, stones>>
    BY <2>1, Types DEF Files
  <2>2. ASSUME NEW p \in Paths, NEW c \in Contents, CutWrite(p, c)
        PROVE  Files(overlay, stones)'
    BY <2>2, CutWritten
  <2>3. ASSUME NEW p \in Paths, CutDelete(p)
        PROVE  Files(overlay, stones)'
    BY <2>3, CutDeleted
  <2> QED
    BY <2>1, <2>2, <2>3 DEF KillServing
<1>3. agent' \in AgentRec(agent'.evidence) /\ agent'.at = "cut off" /\ artifact = None
  BY <1>1, Moved DEF Places, Inv, Kept
<1>4. Tools' = Tools /\ Open' = Open /\ ~ Going'
  BY <1>1, <1>3 DEF Tools, Workspace, Open, Repairs, Going, None
<1>5. Kept'
  BY <1>1, <1>3 DEF Inv, Kept, None
<1>6. Typed'
  <2>1. agent' \in AgentRec(agent.evidence)' /\ faults' \in 0 .. MaxFaults
    BY <1>1, <1>3, <1>4, FaultTyped DEF AgentRec
  <2> QED
    BY <1>1, <1>2, <1>3, <1>4, <2>1, Types, DownIs, AgentIs
       DEF Inv, Typed, TypeOK, Files, Places
<1>7. Order'
  BY <1>1, <1>3, <1>4, DownIs, Types DEF Inv, Order
<1> QED
  BY <1>4, <1>5, <1>6, <1>7 DEF Inv

\* A container is killed.
LEMMA FaultsKeep ==
  ASSUME Inv, KillSidecar \/ KillAgent \/ KillWrapper
  PROVE  Inv'
<1>1. Quiet /\ UNCHANGED <<candidate, artifact, result>> /\ faults' \in 0 .. MaxFaults /\ Alive
  BY FaultTyped DEF KillSidecar, KillAgent, KillWrapper, Quiet, files, outcome
<1>2. Evidence' = Evidence /\ Open' = Open
  BY <1>1, EvidenceSame DEF Quiet, Open, Repairs
<1>3. CASE KillSidecar
  <2>1. server' = Down /\ agent' = agent /\ wrapper' = wrapper
    BY <1>3 DEF KillSidecar, outcome
  <2>2. Kept'
    BY <1>1, <1>2, <2>1 DEF Inv, Kept, Quiet
  <2> QED
    BY <1>1, <2>1, <2>2, Types, DownIs, QuietKeeps DEF Inv, Order, Going
<1>4. CASE KillAgent \/ KillWrapper
  <2>1. /\ agent' = [agent EXCEPT !.at = "exit 1"] \/ agent' = [agent EXCEPT !.at = "killed"]
        /\ server' = server /\ wrapper' \in {wrapper, "killed"}
        /\ agent.at # "exit 0" \/ wrapper' = "killed"
    BY <1>4 DEF KillAgent, KillWrapper, outcome, Exited
  <2>2. agent' \in AgentRec(agent'.evidence) /\ agent'.at \in {"exit 1", "killed"}
    BY <2>1, Moved DEF Places
  <2>3. Kept'
    BY <1>1, <1>2, <2>1, <2>2 DEF Inv, Kept, Alive, Quiet
  <2> QED
    BY <1>1, <2>1, <2>2, <2>3, Types, QuietKeeps DEF Inv, Order, Going
<1> QED
  BY <1>3, <1>4

-----------------------------------------------------------------------------
(* The invariant holds, and the workspace survives.                         *)

\* The invariant holds in the beginning,
LEMMA InitInv ==
  ASSUME Init
  PROVE  Inv
<1>1. /\ task \in Tasks /\ overlay = None /\ stones = {} /\ marker = FALSE /\ server = Down
      /\ candidate = None /\ agent = Starting /\ told = [p \in Paths |-> Unknown]
      /\ artifact = None /\ result = "none" /\ wrapper = "running" /\ faults = 0
      /\ DOMAIN None = {} /\ DOMAIN task.prior \subseteq Tests
  BY EditingAssumption DEF Init, None
<1>2. /\ Starting.at = "start" /\ Starting \in AgentRec(Starting.evidence)
      /\ Starting.round \in 0 .. MaxRounds - 1 /\ Starting.calls \in 0 .. MaxCalls - 1
      /\ Starting.offers \subseteq Tools
  BY EditingAssumption DEF Starting, AgentRec, Places
<1>3. Typed
  <2>1. /\ server \in ServerRec /\ agent \in AgentRec(agent.evidence)
        /\ told \in [Paths -> Contents \cup {Absent, Unknown}] /\ faults \in 0 .. MaxFaults
    BY <1>1, <1>2, DownIs, EditingAssumption
  <2>2. TypeOK
    BY <1>1, <1>2, <2>1, DownIs DEF TypeOK
  <2> QED
    BY <1>1, <2>1, <2>2 DEF Typed
<1>4. \A p : View(p) = Base[p]
  BY <1>1 DEF View
<1>5. Conserved /\ Order
  BY <1>1, <1>2, <1>4, DownIs, EditingAssumption DEF Conserved, Order
<1>6. Kept
  BY <1>1, <1>2 DEF Kept
<1> QED
  BY <1>3, <1>5, <1>6 DEF Inv

\* and every step keeps it.
LEMMA NextKeeps ==
  ASSUME Inv, [Next]_vars
  PROVE  Inv'
<1>1. CASE UNCHANGED vars
  <2>1. Quiet /\ UNCHANGED <<server, candidate, agent, artifact, result, wrapper, faults>>
    BY <1>1 DEF vars, Quiet
  <2>2. Kept'
    BY <2>1, EvidenceSame, KeptBeside DEF Quiet, Open, Repairs
  <2> QED
    BY <2>1, <2>2, Types, QuietKeeps DEF Inv, Order, Going
<1>2. CASE Sidecar
  BY <1>2, StartKeeps, SeedKeeps, PrepareKeeps DEF Sidecar
<1>3. CASE Agent
  BY <1>3, ConnectKeeps, TreeKeeps, ReadKeeps, WriteKeeps, CreateKeeps, DeleteKeeps,
     OtherCallKeeps, PublishKeeps, ResultKeeps DEF Agent, Calls
<1>4. CASE Faults
  BY <1>4, FaultsKeep, KillSeedingKeeps, KillServingKeeps DEF Faults
<1> QED
  BY <1>1, <1>2, <1>3, <1>4, WrapperKeeps DEF Next

\* The inductive invariant always holds: files are what the agent was told of them, nothing is told
\* before the tests under repair are back, and what was published stays the evidence.
THEOREM Invariance == Spec => []Inv
<1>1. Init => Inv
  BY InitInv
<1>2. Inv /\ [Next]_vars => Inv'
  BY NextKeeps
<1> QED
  BY <1>1, <1>2, PTL DEF Spec

\* No restart of the sidecar loses or alters a file that the agent has heard of or a test it is to
\* repair (prepareRefinementWorkspace).
THEOREM FilesSurvive == Spec => []WorkspaceSurvives
<1>1. ASSUME Inv
      PROVE  ViewIsTold
  BY <1>1 DEF Inv, Conserved, ViewIsTold, Working, Going
<1>2. ASSUME Inv
      PROVE  SeededBeforeServed
  <2> SUFFICES ASSUME server.at = "serving", Working, NEW p \in DOMAIN task.prior,
                      told[p] = Unknown
               PROVE  View(p) = task.prior[p]
    BY DEF SeededBeforeServed, Serving
  <2>1. marker /\ server.left = {} /\ Going
    BY <1>2 DEF Inv, Order, Open, Repairs, Working, Going
  <2> QED
    BY <1>2, <2>1 DEF Inv, Conserved
<1>3. Inv => WorkspaceSurvives
  BY <1>1, <1>2 DEF WorkspaceSurvives
<1> QED
  BY <1>3, Invariance, PTL

\* The agent's calls change no file of which it does not know the content they replace
\* (requireUpdate, requireCreate).
THEOREM NothingBlind == Spec => NoBlindChange
<1>1. ASSUME Inv, Calls, NEW p \in Paths, View(p)' # View(p)
      PROVE  told[p] = View(p) \/ View(p) = Absent
  <2>1. CASE workspace_tree \/ workspace_read \/ Refused \/ candidate_write \/ agent_complete
    <3>1. UNCHANGED <<overlay, stones>>
      BY <2>1 DEF workspace_tree, workspace_read, Refused, candidate_write, agent_complete, files
    <3> QED
      BY <1>1, <3>1, ViewSame
  <2>2. \A q \in Paths : requireUpdate(q) => told[q] = View(q)
    <3>1. CASE Going
      BY <1>1, <3>1, Types, ServerIs DEF requireUpdate, Inv, Order, Conserved
    <3>2. Going
      BY <1>1 DEF Calls, workspace_tree, workspace_read, workspace_write, workspace_create,
                  workspace_delete, Refused, candidate_write, agent_complete, Calling, Going
    <3> QED
      BY <3>1, <3>2
  <2>3. CASE workspace_write
    <3>1. PICK q \in Paths, c \in Contents : requireUpdate(q) /\ Write(q, c)
      BY <2>3 DEF workspace_write, MayWrite
    <3>2. \A r \in Paths \ {q} : View(r)' = View(r)
      BY <3>1, Written
    <3> QED
      BY <1>1, <2>2, <3>1, <3>2
  <2>4. CASE workspace_create
    <3>1. PICK q \in Paths, c \in Contents : ~ Exists(q) /\ Write(q, c)
      BY <2>4 DEF workspace_create, MayCreate
    <3>2. \A r \in Paths \ {q} : View(r)' = View(r)
      BY <3>1, Written
    <3> QED
      BY <1>1, <3>1, <3>2 DEF Exists
  <2>5. CASE workspace_delete
    <3>1. PICK q \in Paths : requireUpdate(q) /\ Delete(q)
      BY <2>5 DEF workspace_delete, MayDelete
    <3>2. \A r \in Paths \ {q} : View(r)' = View(r)
      BY <3>1, Deleted, EditingAssumption
    <3> QED
      BY <1>1, <2>2, <3>1, <3>2
  <2> QED
    BY <1>1, <2>1, <2>3, <2>4, <2>5 DEF Calls
<1>2. Inv => [\A p \in Paths : Calls /\ View(p)' # View(p)
                                 => told[p] = View(p) \/ View(p) = Absent]_vars
  BY <1>1
<1> QED
  BY <1>2, Invariance, PTL DEF Spec, NoBlindChange

-----------------------------------------------------------------------------
(* What is published.                                                       *)

\* The accepted plan of a task adds only what the checkout lacks (PlanFitsRepository).
PlansFit ==
  \A t \in Tasks : t.contract = "change-set" =>
    \A p \in DOMAIN t.plan \ Hidden : t.plan[p] = "add" => Base[p] = Absent

\* The files that Changes finds: of a directory that is not listed only those deleted.
Found(p) == View(p) # Base[p] /\ (p \in Hidden => View(p) = Absent)

\* A file that differs from the checkout may do so.
Allowed(p) ==
  IF task.contract = "test-change-set" THEN Base[p] = Absent => p \in Temps \cup DOMAIN task.prior
  ELSE p \notin Tests /\ p \in DOMAIN task.plan
       /\ (Found(p) => task.plan[p] = ActionOf(p, View(p)))

AsPlanned == Going /\ Workspace => \A p \in Paths : View(p) # Base[p] => Allowed(p)

\* A planner changes nothing, and plans from what there is.
Held == {p \in Paths \ Hidden : Base[p] # Absent}
Planning ==
  ~ Workspace =>
    /\ \A p \in Paths : View(p) = Base[p]
    /\ server.listed \subseteq Held
    /\ server.tree = "complete" => Held \subseteq server.listed
    /\ \A p \in DOMAIN candidate \ Hidden : candidate[p] = "add" <=> Base[p] = Absent

\* The steps that change files: the seeding, three of the calls, and the kills that cut them off.
LEMMA FilesMove ==
  ASSUME [Next]_vars
  PROVE  /\ task' = task
         /\ \/ UNCHANGED <<overlay, stones>>
            \/ Seed \/ workspace_write \/ workspace_create \/ workspace_delete
            \/ KillSeeding \/ KillServing
<1>1. CASE UNCHANGED vars
  BY <1>1 DEF vars
<1>2. CASE Sidecar
  BY <1>2 DEF Sidecar, StartServer, Seed, prepareRefinementWorkspace, files
<1>3. CASE Agent
  <2>1. CASE Calls
    BY <2>1 DEF Calls, workspace_tree, workspace_read, Refused, candidate_write, agent_complete,
                workspace_write, workspace_create, workspace_delete, files
  <2> QED
    BY <1>3, <2>1 DEF Agent, connect, writeArtifact, WriteResult, writeGenerationRejection, files
<1>4. CASE Wrapper
  BY <1>4 DEF Wrapper, AgentEnds, Interrupt, Fail, files
<1>5. CASE Faults
  BY <1>5 DEF Faults, KillSidecar, KillSeeding, KillServing, KillAgent, KillWrapper, files
<1> QED
  BY <1>1, <1>2, <1>3, <1>4, <1>5 DEF Next

\* The seeding, also when it is killed, changes a test under repair or leaves a temporary file.
LEMMA SeedMoves ==
  ASSUME Inv, Seed \/ KillSeeding
  PROVE  /\ Repairs
         /\ \A q \in Paths \ (DOMAIN task.prior \cup Temps) : View(q)' = View(q)
<1>1. PICK p \in server.left :
        /\ p \in DOMAIN task.prior
        /\ \/ Restore(p)
           \/ task.prior[p] # Absent /\ CutWrite(p, task.prior[p])
           \/ CutDelete(p)
  BY Types, ServerIs DEF Seed, KillSeeding, Inv, Order
<1>2. /\ p \in Paths /\ task.prior[p] \in Contents \cup {Absent}
      /\ Base \in [Paths -> {"old", Absent}]
  BY <1>1, Types
<1>3. \A q \in Paths \ {p} : View(q)' = View(q) \/ q \in Temps
  <2>1. CASE Restore(p)
    BY <1>2, <2>1, Written, Deleted, ViewSame DEF Restore
  <2>2. CASE task.prior[p] # Absent /\ CutWrite(p, task.prior[p])
    BY <1>2, <2>2, CutWritten
  <2>3. CASE CutDelete(p)
    BY <1>2, <2>3, CutDeleted
  <2> QED
    BY <1>1, <2>1, <2>2, <2>3
<1> QED
  BY <1>1, <1>3 DEF Repairs

\* Who may publish now could do so before.
LEMMA GoingBack ==
  ASSUME Inv, [Next]_vars, Going'
  PROVE  Going /\ ~ KillServing
<1>1. agent.at \in {"calling", "finishing", "start"} => artifact = None
  BY DEF Inv, Kept
<1>2. CASE UNCHANGED <<agent, artifact>>
  BY <1>1, <1>2, Types DEF Going, KillServing, AgentRec, None
<1>3. CASE Calls \/ connect \/ writeArtifact
  <2>1. Going
    BY <1>3 DEF Calls, workspace_tree, workspace_read, workspace_write, workspace_create,
       workspace_delete, Refused, candidate_write, agent_complete, Calling, connect, writeArtifact,
       Going
  <2>2. UNCHANGED faults
    BY <1>3 DEF Calls, workspace_tree, workspace_read, workspace_write, workspace_create,
       workspace_delete, Refused, candidate_write, agent_complete, connect, writeArtifact
  <2> QED
    <3>1. faults \in 0 .. MaxFaults /\ MaxFaults \in Nat
      BY Types, EditingAssumption
    <3>2. faults + 1 # faults
      BY <3>1
    <3> QED
      BY <2>1, <2>2, <3>2 DEF KillServing, Fault
<1>4. CASE WriteResult \/ writeGenerationRejection \/ Fail \/ KillAgent \/ KillWrapper
  <2>1. artifact' = artifact /\ agent'.at \in {agent.at, "exit 0", "exit 1", "killed"}
    BY <1>4, Types DEF WriteResult, writeGenerationRejection, Fail, KillAgent, KillWrapper, outcome,
       AgentRec
  <2> QED
    BY <1>4, <2>1, Types DEF Going, KillServing, AgentRec, WriteResult, writeGenerationRejection,
       Fail, KillAgent, KillWrapper, Down
<1>5. CASE KillServing
  BY <1>1, <1>5, Types DEF KillServing, Going, AgentRec, outcome, None
<1> QED
  BY <1>2, <1>3, <1>4, <1>5 DEF Next, Sidecar, StartServer, Seed, prepareRefinementWorkspace, Agent,
     Wrapper, AgentEnds, Interrupt, Faults, KillSidecar, KillSeeding, vars, outcome

\* Whatever differs from the checkout is planned, or a test (the mutation policies).
LEMMA PlannedKeeps ==
  ASSUME PlansFit, Inv, AsPlanned, [Next]_vars
  PROVE  AsPlanned'
<1>1. task' = task
  BY FilesMove
<1> SUFFICES ASSUME Going', Workspace, NEW p \in Paths, View(p)' # Base[p]
             PROVE  Allowed(p)'
  BY <1>1 DEF AsPlanned, Workspace
<1>2. /\ task \in Tasks /\ Base[p] \in {"old", Absent} /\ Absent \notin Contents
      /\ task.contract \in {"test-change-set", "change-set"} /\ ~ KillServing
      /\ \A q \in Paths : View(q) # Base[q] => Allowed(q)
  BY Types, GoingBack, EditingAssumption DEF Workspace, Contracts, AsPlanned
<1>3. ASSUME View(p)' = View(p)
      PROVE  Allowed(p)'
  BY <1>1, <1>2, <1>3 DEF Allowed, ActionOf, Found
<1>4. CASE Seed \/ KillSeeding
  <2>1. /\ task.contract = "test-change-set"
        /\ p \notin DOMAIN task.prior \cup Temps => View(p)' = View(p)
    BY <1>4, SeedMoves, Types
  <2> QED
    BY <1>1, <1>3, <2>1 DEF Allowed
<1>5. CASE workspace_write
  <2>1. PICK r \in Paths, c \in Contents : Exists(r) /\ ValidateUpdate(r) /\ Write(r, c)
    BY <1>5 DEF workspace_write, MayWrite
  <2>2. View(r)' = c /\ \A q \in Paths \ {r} : View(q)' = View(q)
    BY <2>1, Written
  <2>3. CASE p = r /\ task.contract = "test-change-set"
    BY <1>1, <1>2, <2>1, <2>3 DEF Allowed, Exists
  <2>4. CASE p = r /\ task.contract = "change-set"
    <3>1. p \notin Tests /\ p \in DOMAIN task.plan /\ task.plan[p] \in {"modify", "add"}
      BY <2>1, <2>4 DEF ValidateUpdate, Planned
    <3>2. ASSUME p \notin Hidden
          PROVE  task.plan[p] = ActionOf(p, c)
      <4>1. c # Absent
        BY <1>2
      <4>2. CASE Base[p] = Absent
        BY <1>2, <2>1, <2>4, <3>2, <4>2 DEF Allowed, Exists, Found, ActionOf
      <4>3. CASE Base[p] # Absent
        BY <1>2, <2>4, <3>1, <3>2, <4>1, <4>3 DEF PlansFit, ActionOf
      <4> QED
        BY <4>2, <4>3
    <3> QED
      BY <1>1, <1>2, <2>2, <2>4, <3>1, <3>2 DEF Allowed, ActionOf, Found
  <2>5. CASE p # r
    BY <1>3, <2>2, <2>5
  <2> QED
    BY <1>2, <2>3, <2>4, <2>5
<1>6. CASE workspace_create
  <2>1. PICK r \in Paths, c \in Contents : ValidateCreate(r) /\ Write(r, c)
    BY <1>6 DEF workspace_create, MayCreate
  <2>2. View(r)' = c /\ \A q \in Paths \ {r} : View(q)' = View(q)
    BY <2>1, Written
  <2>3. CASE p = r
    <3>1. /\ task.contract = "change-set" /\ p \notin Tests /\ p \in DOMAIN task.plan
          /\ task.plan[p] = "add"
      BY <2>1, <2>3 DEF ValidateCreate, Planned
    <3>2. p \notin Hidden => Base[p] = Absent
      BY <1>2, <3>1 DEF PlansFit
    <3> QED
      BY <1>1, <1>2, <2>2, <2>3, <3>1, <3>2 DEF Allowed, ActionOf, Found
  <2> QED
    BY <1>3, <2>2, <2>3
<1>7. CASE workspace_delete
  <2>1. PICK r \in Paths : Exists(r) /\ ValidateDelete(r) /\ Delete(r)
    BY <1>7 DEF workspace_delete, MayDelete
  <2>2. View(r)' = Absent /\ \A q \in Paths \ {r} : View(q)' = View(q)
    BY <2>1, Deleted, EditingAssumption
  <2>3. CASE p = r
    <3>1. Base[p] # Absent
      BY <2>2, <2>3
    <3>2. CASE task.contract = "test-change-set"
      BY <1>1, <3>1, <3>2 DEF Allowed
    <3>3. CASE task.contract = "change-set"
      <4>1. p \notin Tests /\ p \in DOMAIN task.plan /\ task.plan[p] = "delete"
        BY <2>1, <2>3, <3>3 DEF ValidateDelete, Planned
      <4> QED
        BY <1>1, <2>2, <2>3, <3>1, <3>3, <4>1 DEF Allowed, ActionOf
    <3> QED
      BY <1>2, <3>2, <3>3
  <2> QED
    BY <1>3, <2>2, <2>3
<1>8. CASE UNCHANGED <<overlay, stones>>
  BY <1>3, <1>8, ViewSame
<1> QED
  BY <1>2, <1>4, <1>5, <1>6, <1>7, <1>8, FilesMove

\* A planner's complete listing is the checkout, as far as it is listed.
LEMMA ListingIs ==
  ASSUME \A p \in Paths : View(p) = Base[p]
  PROVE  TreeListing = Held
  BY DEF TreeListing, Visible, Held

\* What the sidecar remembers of listings grows with a listing and goes with the sidecar.
LEMMA ListedMoves ==
  ASSUME Inv, [Next]_vars, ~ workspace_tree
  PROVE  \/ server'.listed = server.listed /\ server'.tree = server.tree
         \/ server'.listed = {} /\ server'.tree = "none"
<1>1. server \in ServerRec
  BY Types
<1>2. CASE UNCHANGED server
  BY <1>2
<1>3. CASE StartServer
  BY <1>3 DEF StartServer, Down
<1>4. CASE Seed
  BY <1>1, <1>4 DEF Seed, ServerRec
<1>5. CASE prepareRefinementWorkspace
  BY <1>1, <1>5 DEF prepareRefinementWorkspace, ServerRec
<1>6. CASE workspace_read \/ workspace_create
  BY <1>1, <1>6 DEF workspace_read, workspace_create, ServerRec
<1>7. CASE KillSidecar \/ KillSeeding \/ KillServing
  BY <1>7, DownIs DEF KillSidecar, KillSeeding, KillServing
<1>8. \/ UNCHANGED server \/ StartServer \/ Seed \/ prepareRefinementWorkspace
      \/ workspace_read \/ workspace_create \/ KillSidecar \/ KillSeeding \/ KillServing
  <2>1. CASE Agent
    <3>1. CASE Calls
      BY <3>1 DEF Calls, workspace_tree, Refused, candidate_write, agent_complete,
                  workspace_write, workspace_delete
    <3> QED
      BY <2>1, <3>1 DEF Agent, connect, writeArtifact, WriteResult, writeGenerationRejection
  <2>2. CASE Wrapper \/ Faults
    BY <2>2 DEF Wrapper, AgentEnds, Interrupt, Fail, Faults, KillAgent, KillWrapper
  <2>3. CASE UNCHANGED vars
    BY <2>3 DEF vars
  <2> QED
    BY <2>1, <2>2, <2>3 DEF Next, Sidecar
<1> QED
  BY <1>2, <1>3, <1>4, <1>5, <1>6, <1>7, <1>8

\* The candidate is written by its call alone.
LEMMA CandidateMoves ==
  ASSUME [Next]_vars
  PROVE  UNCHANGED candidate \/ candidate_write
<1>1. CASE Agent
  <2>1. CASE Calls
    BY <2>1 DEF Calls, workspace_tree, workspace_read, workspace_write, workspace_create,
                workspace_delete, Refused, agent_complete
  <2> QED
    BY <1>1, <2>1 DEF Agent, connect, writeArtifact, WriteResult, writeGenerationRejection
<1>2. CASE Sidecar
  BY <1>2 DEF Sidecar, StartServer, Seed, prepareRefinementWorkspace
<1>3. CASE Wrapper \/ Faults
  BY <1>3 DEF Wrapper, AgentEnds, Interrupt, Fail, Faults, KillSidecar, KillSeeding, KillServing,
              KillAgent, KillWrapper
<1>4. CASE UNCHANGED vars
  BY <1>4 DEF vars
<1> QED
  BY <1>1, <1>2, <1>3, <1>4 DEF Next

\* A planner's candidate adds what the checkout lacks.
LEMMA PlanningKeeps ==
  ASSUME Inv, Planning, [Next]_vars
  PROVE  Planning'
<1>1. task' = task
  BY FilesMove
<1> SUFFICES ASSUME ~ Workspace
             PROVE  /\ \A p \in Paths : View(p)' = Base[p]
                    /\ server'.listed \subseteq Held
                    /\ server'.tree = "complete" => Held \subseteq server'.listed
                    /\ \A p \in DOMAIN candidate' \ Hidden :
                         candidate'[p] = "add" <=> Base[p] = Absent
  BY <1>1 DEF Planning, Workspace
<1>2. /\ \A p \in Paths : View(p) = Base[p]
      /\ server.listed \subseteq Held /\ (server.tree = "complete" => Held \subseteq server.listed)
      /\ \A p \in DOMAIN candidate \ Hidden : candidate[p] = "add" <=> Base[p] = Absent
  BY DEF Planning
<1>3. UNCHANGED <<overlay, stones>>
  <2>1. ~ Seed /\ ~ KillSeeding
    BY SeedMoves, Types DEF Workspace
  <2>2. {"write", "create", "delete"} \cap agent.offers = {}
    BY Types, AgentIs DEF Tools
  <2> QED
    BY <2>1, <2>2, FilesMove DEF workspace_write, workspace_create, workspace_delete, Calling,
       KillServing, MayWrite, MayCreate, MayDelete
<1>4. \A p \in Paths : View(p)' = Base[p]
  BY <1>2, <1>3, ViewSame
<1>5. /\ server'.listed \subseteq Held
      /\ server'.tree = "complete" => Held \subseteq server'.listed
  <2>1. CASE workspace_tree
    <3>1. PICK S \in {TreeListing} \cup {TreeListing \ {p} : p \in TreeListing} :
            server' = [server EXCEPT
              !.tree = IF S = TreeListing \/ @ = "complete" THEN "complete" ELSE "partial",
              !.listed = @ \cup S]
      BY <2>1 DEF workspace_tree
    <3>2. TreeListing = Held /\ S \subseteq Held
      BY <1>2, <3>1, ListingIs
    <3>3. /\ server'.listed = server.listed \cup S
          /\ server'.tree = "complete" => S = Held \/ server.tree = "complete"
      BY <3>1, <3>2, Types DEF ServerRec
    <3> QED
      BY <1>2, <3>2, <3>3
  <2>2. CASE ~ workspace_tree
    BY <1>2, <2>2, ListedMoves
  <2> QED
    BY <2>1, <2>2
<1>6. \A p \in DOMAIN candidate' \ Hidden : candidate'[p] = "add" <=> Base[p] = Absent
  <2>1. CASE candidate_write
    <3>1. PICK plan \in Plans : /\ server.tree = "complete" /\ candidate' = plan
                                /\ \A p \in DOMAIN plan : plan[p] = "add" <=> p \notin server.listed
      BY <2>1 DEF candidate_write, validateAffectedWorkspacePaths, WriteCandidate
    <3>2. server.listed = Held /\ DOMAIN plan \subseteq Paths
      BY <1>2, <3>1, PlanPaths
    <3> QED
      BY <3>1, <3>2 DEF Held
  <2> QED
    BY <1>2, <2>1, CandidateMoves
<1> QED
  BY <1>4, <1>5, <1>6

\* What a pod that succeeded has published is what its agent was told it did, what its plan allows
\* and what the verdict of the pod says (agent_complete, writeArtifact, AgentEnds).
THEOREM OutputMeant ==
  ASSUME PlansFit PROVE Spec => []PublishedIsMeant
<1>1. Init => AsPlanned /\ Planning
  <2> SUFFICES ASSUME Init PROVE AsPlanned /\ Planning
    OBVIOUS
  <2>1. \A p : View(p) = Base[p]
    BY DEF Init, None, View
  <2>2. server.listed = {} /\ server.tree = "none" /\ DOMAIN candidate = {}
    BY DEF Init, Down, None
  <2> QED
    BY <2>1, <2>2 DEF AsPlanned, Planning
<1>2. Inv /\ AsPlanned /\ Planning /\ [Next]_vars => AsPlanned' /\ Planning'
  BY PlannedKeeps, PlanningKeeps
<1>3. ASSUME Inv, AsPlanned, Planning
      PROVE  PublishedIsMeant
  <2>1. wrapper = "succeeded" =>
          /\ result = "Succeeded" /\ artifact # None /\ artifact = Evidence /\ Open /\ Going
          /\ task.contract = "test-change-set" => DOMAIN artifact \subseteq Tests
    BY <1>3 DEF Inv, Kept, Going
  <2>2. VerdictIsResult
    BY <1>3, <2>1 DEF VerdictIsResult, Inv, Kept
  <2>3. /\ DOMAIN Changes \subseteq Paths
        /\ \A p \in Paths : p \in DOMAIN Changes <=> Found(p)
        /\ \A p \in DOMAIN Changes : Changes[p] = View(p)
    <3>1. DOMAIN Changes
            = {q \in Visible(DOMAIN overlay) \cup (stones \ {Torn}) : View(q) # Base[q]}
      BY DEF Changes
    <3>2. ASSUME NEW p \in Paths
          PROVE  p \in DOMAIN Changes <=> Found(p)
      <4>1. p # Torn /\ (p \in DOMAIN overlay => overlay[p] # Absent)
        BY <1>3, Types, EditingAssumption
      <4> QED
        BY <3>1, <4>1 DEF View, Visible, Found
    <3> QED
      BY <1>3, <3>2, ChangesPaths DEF Changes
  <2>4. ASSUME Open, Going, NEW p \in Paths \ Leftover
        PROVE  View(p) = Meant(p)
    <3>0. Conserved
      BY <1>3, <2>4 DEF Inv
    <3>1. CASE told[p] # Unknown
      BY <3>0, <3>1 DEF Conserved, Meant
    <3>2. CASE told[p] = Unknown /\ p \in DOMAIN task.prior
      <4>1. marker /\ server.left = {}
        BY <1>3, <2>4, <3>2 DEF Open, Repairs, Inv, Order
      <4> QED
        BY <3>0, <3>2, <4>1 DEF Conserved, Meant
    <3>3. CASE told[p] = Unknown /\ p \notin DOMAIN task.prior
      BY <3>0, <3>3 DEF Conserved, Meant, Leftover
    <3> QED
      BY <3>1, <3>2, <3>3
  <2>5. AcknowledgedIsPublished
    <3> SUFFICES ASSUME wrapper = "succeeded", Workspace
                 PROVE  /\ \A p \in Paths \ Leftover :
                             IF Meant(p) = Base[p] \/ (p \in Hidden /\ Meant(p) # Absent)
                             THEN p \notin DOMAIN artifact
                             ELSE p \in DOMAIN artifact /\ artifact[p] = Meant(p)
                        /\ \A t \in Leftover \cap DOMAIN artifact :
                             TempOf[t] \in DOMAIN task.prior
      BY DEF AcknowledgedIsPublished
    <3>1. artifact = Changes /\ Open /\ Going
      BY <2>1 DEF Evidence
    <3>2. ASSUME NEW p \in Paths \ Leftover
          PROVE  IF Meant(p) = Base[p] \/ (p \in Hidden /\ Meant(p) # Absent)
                 THEN p \notin DOMAIN artifact
                 ELSE p \in DOMAIN artifact /\ artifact[p] = Meant(p)
      BY <2>3, <2>4, <3>1 DEF Found
    <3>3. ASSUME NEW t \in Leftover \cap DOMAIN artifact
          PROVE  TempOf[t] \in DOMAIN task.prior
      <4>1. View(t) # Absent /\ t \in Temps \ DOMAIN task.prior /\ told[t] = Unknown
        BY <1>3, <2>3, <3>1, <3>3, Types DEF Leftover, Found
      <4> QED
        BY <1>3, <3>1, <3>3, <4>1 DEF Inv, Conserved
    <3> QED
      BY <3>2, <3>3
  <2>6. ActsAsPlanned
    <3> SUFFICES ASSUME wrapper = "succeeded", Workspace, NEW p \in DOMAIN artifact
                 PROVE  IF task.contract = "test-change-set"
                        THEN p \in Tests /\ (Base[p] = Absent => p \in Temps \cup DOMAIN task.prior)
                        ELSE p \notin Tests /\ p \in DOMAIN task.plan
                             /\ task.plan[p] = ActionOf(p, artifact[p])
      BY DEF ActsAsPlanned
    <3>1. artifact = Changes
      BY <2>1 DEF Evidence
    <3>2. p \in Paths /\ Found(p) /\ artifact[p] = View(p)
      BY <2>3, <3>1
    <3>3. Allowed(p)
      BY <1>3, <2>1, <3>2 DEF AsPlanned, Found
    <3> QED
      BY <2>1, <3>2, <3>3 DEF Allowed
  <2>7. PlanFitsRepository
    BY <1>3, <2>1 DEF PlanFitsRepository, Evidence, Planning
  <2> QED
    BY <1>3, <2>2, <2>5, <2>6, <2>7 DEF PublishedIsMeant, Inv, Typed
<1>4. Inv /\ AsPlanned /\ Planning => PublishedIsMeant
  BY <1>3
<1> QED
  BY <1>1, <1>2, <1>4, Invariance, PTL DEF Spec

-----------------------------------------------------------------------------
(* The inference lease.                                                     *)
(* Sums of demands.                                                         *)

\* The demand of some leases is finite, and each lease asks for what Est says.
LEMMA AskedIsFinite ==
  ASSUME NEW S, S \subseteq Leases
  PROVE  IsFiniteSet(Asked(S)) /\ Total(S) \in Nat
<1> DEFINE part == [l \in S |-> {l} \X (1 .. Est[l])]
           parts == {{l} \X (1 .. Est[l]) : l \in S}
<1>1. IsFiniteSet(S)
  BY LeasesAssumption, FS_Subset
<1>2. part \in Surjection(S, parts)
  BY DEF Surjection
<1>3. IsFiniteSet(parts)
  <2> HIDE DEF part, parts
  <2> QED
    BY <1>1, <1>2, FS_Surjection
<1>4. ASSUME NEW P \in parts
      PROVE  IsFiniteSet(P)
  <2>1. PICK l \in S : P = {l} \X (1 .. Est[l])
    OBVIOUS
  <2>2. IsFiniteSet({l})
    BY FS_Singleton
  <2>3. Est[l] \in Int
    BY LeasesAssumption
  <2>4. IsFiniteSet(1 .. Est[l])
    BY <2>3, FS_Interval
  <2> QED
    BY <2>1, <2>2, <2>4, FS_Product
<1>5. IsFiniteSet(UNION parts)
  <2> HIDE DEF parts
  <2> QED
    BY <1>3, <1>4, FS_UNION
<1>6. IsFiniteSet(Asked(S))
  BY <1>5 DEF Asked
<1> QED
  BY <1>6, FS_CardinalityType DEF Total

\* One lease asks for what Est says.
LEMMA TotalOfOne ==
  ASSUME NEW l \in Leases
  PROVE  Total({l}) = Est[l]
<1>1. Est[l] \in Nat
  BY LeasesAssumption
<1>2. Asked({l}) = {l} \X (1 .. Est[l])
  BY DEF Asked
<1>3. IsFiniteSet({l}) /\ Cardinality({l}) = 1
  BY FS_Singleton
<1>4. IsFiniteSet(1 .. Est[l]) /\ Cardinality(1 .. Est[l]) = Est[l]
  <2>1. 1 \in Int /\ Est[l] \in Int
    BY <1>1
  <2>2. /\ IsFiniteSet(1 .. Est[l])
        /\ Cardinality(1 .. Est[l]) = IF 1 > Est[l] THEN 0 ELSE Est[l] - 1 + 1
    BY <2>1, FS_Interval, Zenon
  <2> QED
    BY <1>1, <2>2
<1>5. Cardinality({l} \X (1 .. Est[l])) = 1 * Est[l]
  <2>1. Cardinality({l} \X (1 .. Est[l])) = Cardinality({l}) * Cardinality(1 .. Est[l])
    BY <1>3, <1>4, FS_Product, Zenon
  <2> QED
    BY <1>3, <1>4, <2>1, Zenon
<1>6. 1 * Est[l] = Est[l]
  BY <1>1
<1>7. Total({l}) = Cardinality({l} \X (1 .. Est[l]))
  BY <1>2, Zenon DEF Total
<1> QED
  BY <1>5, <1>6, <1>7, Zenon

\* Nobody asks for nothing.
LEMMA TotalOfNone == Total({}) = 0
<1>1. Asked({}) = {}
  BY DEF Asked
<1> QED
  BY <1>1, FS_EmptySet DEF Total

\* Who asks for more people asks for no less.
LEMMA TotalGrows ==
  ASSUME NEW T, T \subseteq Leases, NEW S, S \subseteq T
  PROVE  Total(S) <= Total(T)
<1>1. Asked(S) \subseteq Asked(T)
  BY DEF Asked
<1>2. IsFiniteSet(Asked(T))
  BY AskedIsFinite
<1> QED
  BY <1>1, <1>2, FS_Subset DEF Total

\* A lease that joins adds its own demand.
LEMMA TotalWith ==
  ASSUME NEW S, S \subseteq Leases, NEW l \in Leases, l \notin S
  PROVE  Total(S \cup {l}) = Total(S) + Est[l]
<1>1. IsFiniteSet(Asked(S)) /\ IsFiniteSet(Asked({l}))
  BY AskedIsFinite
<1>2. Asked(S \cup {l}) = Asked(S) \cup Asked({l})
  BY DEF Asked
<1>3. Asked(S) \cap Asked({l}) = {}
  BY DEF Asked
<1>4. Cardinality(Asked(S) \cup Asked({l})) =
        Cardinality(Asked(S)) + Cardinality(Asked({l})) - Cardinality(Asked(S) \cap Asked({l}))
  BY <1>1, FS_Union
<1>5. Cardinality(Asked(S) \cap Asked({l})) = 0
  BY <1>3, FS_EmptySet, Zenon
<1>6. Total(S \cup {l}) = Total(S) + Total({l}) - 0
  BY <1>2, <1>4, <1>5, Zenon DEF Total
<1>7. Total(S) \in Nat /\ Total({l}) \in Nat
  BY AskedIsFinite
<1>8. Total({l}) = Est[l]
  BY TotalOfOne
<1> QED
  BY <1>6, <1>7, <1>8

\* A lease that leaves takes its own demand away.
LEMMA TotalWithout ==
  ASSUME NEW S, S \subseteq Leases, NEW l \in S
  PROVE  /\ Total(S \ {l}) = Total(S) - Est[l]
         /\ Total(S) >= Est[l]
<1> DEFINE R == S \ {l}
<1>1. R \subseteq Leases /\ l \notin R /\ R \cup {l} = S /\ l \in Leases
  OBVIOUS
<1> HIDE DEF R
<1>2. Total(S) = Total(R) + Est[l]
  BY <1>1, TotalWith
<1>3. Total(R) \in Nat /\ Est[l] \in Nat
  BY <1>1, AskedIsFinite, LeasesAssumption
<1>4. Total(R) = Total(S) - Est[l] /\ Total(S) >= Est[l]
  BY <1>2, <1>3
<1> QED
  BY <1>4 DEF R

-----------------------------------------------------------------------------
(* The invariant of the books.                                              *)

\* A reconciliation in flight has its lease, an eviction its victim.
InFlight ==
  /\ at # "idle" => cur \in Leases
  /\ at = "interrupt" => victim \in Leases

Books == LeasingTypeOK /\ InFlight /\ LedgerBalances

\* The endpoint e lists the leases of A, and their demand.
Lists(e, A) ==
  endpoint' = [endpoint EXCEPT ![e].active = A, ![e].allocated = Total(A)]

\* The lists of one endpoint change.
LEMMA ListsKeeps ==
  ASSUME Books, NEW e \in Endpoints, NEW A, A \subseteq Leases, Lists(e, A)
  PROVE  /\ endpoint' \in [Endpoints -> EndpointRecords]
         /\ \A f \in Endpoints :
              /\ endpoint'[f].phase = endpoint[f].phase
              /\ endpoint'[f].active = IF f = e THEN A ELSE endpoint[f].active
              /\ endpoint'[f].allocated = IF f = e THEN Total(A) ELSE endpoint[f].allocated
<1>1. Total(A) \in Nat
  BY AskedIsFinite
<1>2. endpoint \in [Endpoints -> EndpointRecords]
  BY DEF Books, LeasingTypeOK
<1> QED
  BY <1>1, <1>2 DEF Lists, EndpointRecords

\* What a cached endpoint is.
LEMMA EndpointIs ==
  ASSUME Books, NEW e \in Endpoints
  PROVE  Endpoint(e) \in EndpointRecords /\ endpoint[e] \in EndpointRecords
  BY DEF Books, LeasingTypeOK, Endpoint

\* What a cached lease is.
LEMMA LeaseIs ==
  ASSUME Books, NEW l \in Leases
  PROVE  Lease(l) \in LeaseRecords /\ lease[l] \in LeaseRecords /\ EndpointOf[l] \in Endpoints
  BY LeasesAssumption DEF Books, LeasingTypeOK, Lease

\* A reservation is given back, or there is none to give.
LEMMA RemovalIs ==
  ASSUME Books, NEW l \in Leases, NEW r, removeEndpointReservation(l, r)
  PROVE  \/ UNCHANGED endpoint /\ (~ r.bound \/ l \notin Endpoint(EndpointOf[l]).active)
         \/ /\ r.bound /\ l \in endpoint[EndpointOf[l]].active
            /\ Endpoint(EndpointOf[l]) = endpoint[EndpointOf[l]]
            /\ Lists(EndpointOf[l], endpoint[EndpointOf[l]].active \ {l})
<1> DEFINE e == EndpointOf[l]
           s == endpoint[e]
<1>1. e \in Endpoints /\ s \in EndpointRecords
  BY LeaseIs, EndpointIs
<1>2. CASE ~ r.bound \/ l \notin Endpoint(e).active
  BY <1>2 DEF removeEndpointReservation
<1>3. CASE r.bound /\ l \in Endpoint(e).active
  <2>1. /\ Endpoint(e) = s
        /\ endpoint' = [endpoint EXCEPT ![e] =
             [s EXCEPT !.active = s.active \ {l},
                       !.allocated = IF s.allocated > Est[l] THEN s.allocated - Est[l] ELSE 0]]
    BY <1>1, <1>3 DEF removeEndpointReservation, Update, EndpointRecords
  <2>2. s.allocated = Total(s.active) /\ s.active \subseteq Leases /\ l \in s.active
    BY <1>1, <1>3, <2>1 DEF Books, LedgerBalances, EndpointRecords
  <2>3. Total(s.active \ {l}) = Total(s.active) - Est[l] /\ Total(s.active) >= Est[l]
    BY <2>2, TotalWithout
  <2>4. Total(s.active) \in Nat /\ Est[l] \in Nat
    BY <2>2, AskedIsFinite, LeasesAssumption
  <2>5. Total(s.active \ {l}) =
          IF s.allocated > Est[l] THEN s.allocated - Est[l] ELSE 0
    BY <2>2, <2>3, <2>4
  <2>6. endpoint \in [Endpoints -> EndpointRecords]
    BY DEF Books, LeasingTypeOK
  <2>7. endpoint' = [endpoint EXCEPT ![e] =
             [s EXCEPT !.active = s.active \ {l}, !.allocated = Total(s.active \ {l})]]
    BY <2>1, <2>5, Zenon
  <2>8. Lists(e, s.active \ {l})
    BY <2>7 DEF Lists
  <2> QED
    BY <1>3, <2>1, <2>2, <2>8
<1> QED
  BY <1>2, <1>3

\* A reservation is made, or stands already.
LEMMA ReserveIs ==
  ASSUME Books, Reserve
  PROVE  LET e == EndpointOf[cur]
             S == Pruned(e) \cup {cur}
         IN /\ cur \in Leases /\ e \in Endpoints /\ S \subseteq Leases
            /\ \/ UNCHANGED endpoint /\ cur \in Endpoint(e).active
               \/ /\ Endpoint(e) = endpoint[e] /\ Lists(e, S)
                  /\ cur \notin Pruned(e) => Total(S) <= Cap[e]
<1> DEFINE e == EndpointOf[cur]
           S == Pruned(e) \cup {cur}
           s == Endpoint(e)
           r == [s EXCEPT !.active = S, !.allocated = Total(S)]
<1>1. cur \in Leases
  BY DEF Reserve, Books, InFlight
<1>2. e \in Endpoints /\ s \in EndpointRecords
  BY <1>1, LeaseIs, EndpointIs
<1>3. S \subseteq Leases
  BY <1>1, <1>2 DEF Pruned, EndpointRecords
<1>4. Save(e, r) /\ (cur \notin Pruned(e) => Total(S) <= Cap[e])
  BY DEF Reserve
<1>5. CASE r = s
  <2>1. UNCHANGED endpoint
    BY <1>4, <1>5 DEF Save
  <2>2. r.active = S
    BY <1>2 DEF EndpointRecords
  <2>3. cur \in s.active
    BY <1>5, <2>2
  <2> QED
    BY <1>1, <1>2, <1>3, <2>1, <2>3
<1>6. CASE r # s
  <2>1. s = endpoint[e] /\ endpoint' = [endpoint EXCEPT ![e] = r]
    BY <1>4, <1>6 DEF Save, Update
  <2>2. Lists(e, S)
    BY <2>1 DEF Lists
  <2> QED
    BY <1>1, <1>2, <1>3, <1>4, <2>1, <2>2
<1> QED
  BY <1>5, <1>6

\* An endpoint's phase follows its pod, or it is created with nobody on it.
LEMMA EndpointWritten ==
  ASSUME Books, NEW e \in Endpoints,
         \/ Observe(e)
         \/ \E l \in Leases : e = EndpointOf[l] /\ ensureEndpoint(l)
  PROVE  /\ endpoint' \in [Endpoints -> EndpointRecords]
         /\ Endpoint(e) = endpoint[e]
         /\ \A f \in Endpoints \ {e} : endpoint'[f] = endpoint[f]
         /\ endpoint'[e].phase # "Absent"
         /\ \/ endpoint[e].phase # "Absent" /\ endpoint'[e].active = endpoint[e].active
               /\ endpoint'[e].allocated = endpoint[e].allocated
            \/ /\ endpoint[e].phase = "Absent"
               /\ endpoint'[e].active = {} /\ endpoint'[e].allocated = 0
<1>1. endpoint \in [Endpoints -> EndpointRecords] /\ pod[e] \in {"down", "ready", "failed"}
  BY DEF Books, LeasingTypeOK
<1>2. CASE Observe(e)
  <2> DEFINE p == PhaseOf(pod[e])
  <2>1. p \in {"Preparing", "Running", "Failed"}
    BY <1>1 DEF PhaseOf
  <2>2. /\ Endpoint(e) = endpoint[e] /\ endpoint[e].phase # "Absent"
        /\ endpoint' = [endpoint EXCEPT ![e] = [endpoint[e] EXCEPT !.phase = p]]
    BY <1>2 DEF Observe, Update
  <2> HIDE DEF p
  <2> QED
    BY <1>1, <2>1, <2>2 DEF EndpointRecords
<1>3. CASE \E l \in Leases : e = EndpointOf[l] /\ ensureEndpoint(l)
  <2>1. /\ Endpoint(e) = endpoint[e] /\ endpoint[e].phase = "Absent"
        /\ endpoint' = [endpoint EXCEPT ![e] = [AbsentEndpoint EXCEPT !.phase = "Preparing"]]
    BY <1>3 DEF ensureEndpoint, Update
  <2>2. [AbsentEndpoint EXCEPT !.phase = "Preparing"] =
          [phase |-> "Preparing", active |-> {}, allocated |-> 0]
    BY DEF AbsentEndpoint
  <2> QED
    BY <1>1, <2>1, <2>2 DEF EndpointRecords
<1> QED
  BY <1>2, <1>3

\* The steps that write an endpoint, and how.
LEMMA EndpointMoves ==
  ASSUME Books, LeasingNext
  PROVE  \/ UNCHANGED endpoint
         \/ \E e \in Endpoints : \/ Observe(e)
                                 \/ \E l \in Leases : e = EndpointOf[l] /\ ensureEndpoint(l)
         \/ Reserve
         \/ \E l \in Leases : /\ removeEndpointReservation(l, Lease(l))
                              /\ StartInterrupt(l) \/ StartRelease(l) \/ StartFinalize(l)
<1> USE DEF objectVars
<1>1. ASSUME NEW l \in Leases, Reconcile(l)
      PROVE  \/ UNCHANGED endpoint
             \/ EndpointOf[l] \in Endpoints /\ ensureEndpoint(l)
             \/ /\ removeEndpointReservation(l, Lease(l))
                /\ StartRelease(l) \/ StartFinalize(l)
  <2>1. CASE Pend(l) \/ Reuse(l) \/ Evict(l) \/ Reject(l) \/ UseEndpoint(l)
    BY <2>1 DEF Pend, Reuse, Evict, Reject, UseEndpoint
  <2>2. CASE ensureEndpoint(l)
    BY <2>2, LeaseIs
  <2>3. CASE StartRelease(l) \/ StartFinalize(l)
    BY <2>3 DEF StartRelease, StartFinalize
  <2> QED
    BY <1>1, <2>1, <2>2, <2>3 DEF Reconcile
<1>2. ASSUME NEW l \in Leases, AgentRun(l) \/ InputsLost(l) \/ DeleteRun(l)
      PROVE  UNCHANGED endpoint
  BY <1>2 DEF AgentRun, InputsLost, DeleteRun, ensureLease, RecordRef, StartWork, FinishWork,
     LoseLease, reconcileInferenceLeaseRelease, RunGone, Run
<1>3. CASE Proceed
  <2>1. CASE Reserve
    BY <2>1
  <2>2. CASE ReserveFails \/ BindStatus \/ interruptLease \/ AllEvicted \/ releaseLease
             \/ RemoveFinalizer \/ Conflict
    BY <2>2 DEF ReserveFails, BindStatus, interruptLease, AllEvicted, releaseLease,
       RemoveFinalizer, Conflict
  <2>3. ASSUME NEW v \in Leases, StartInterrupt(v)
        PROVE  UNCHANGED endpoint \/ removeEndpointReservation(v, Lease(v))
    BY <2>3 DEF StartInterrupt
  <2> QED
    BY <1>3, <2>1, <2>2, <2>3 DEF Proceed
<1>4. CASE Crash \/ Sync \/ \E e \in Endpoints : PodReady(e) \/ PodStops(e)
  BY <1>4 DEF Crash, Sync, PodReady, PodStops
<1> QED
  BY <1>1, <1>2, <1>3, <1>4 DEF LeasingNext

\* The endpoints keep their types, and their books balance.
LEMMA LedgerStep ==
  ASSUME Books, LeasingNext
  PROVE  endpoint' \in [Endpoints -> EndpointRecords] /\ LedgerBalances'
<1>1. LedgerBalances /\ endpoint \in [Endpoints -> EndpointRecords]
  BY DEF Books, LeasingTypeOK
<1>2. CASE UNCHANGED endpoint
  BY <1>1, <1>2 DEF LedgerBalances
<1>3. ASSUME NEW e \in Endpoints, NEW A, A \subseteq Leases, Lists(e, A)
      PROVE  endpoint' \in [Endpoints -> EndpointRecords] /\ LedgerBalances'
  BY <1>1, <1>3, ListsKeeps DEF LedgerBalances
<1>4. ASSUME NEW e \in Endpoints,
             Observe(e) \/ \E l \in Leases : e = EndpointOf[l] /\ ensureEndpoint(l)
      PROVE  endpoint' \in [Endpoints -> EndpointRecords] /\ LedgerBalances'
  <2>1. \A f \in Endpoints \ {e} : endpoint'[f] = endpoint[f]
    BY <1>4, EndpointWritten
  <2>2. endpoint' \in [Endpoints -> EndpointRecords]
    BY <1>4, EndpointWritten
  <2>3. \/ /\ endpoint'[e].active = endpoint[e].active
           /\ endpoint'[e].allocated = endpoint[e].allocated
        \/ endpoint'[e].active = {} /\ endpoint'[e].allocated = 0
    BY <1>4, EndpointWritten
  <2>4. endpoint'[e].allocated = Total(endpoint'[e].active)
    BY <1>1, <2>3, TotalOfNone DEF LedgerBalances
  <2> QED
    BY <1>1, <2>1, <2>2, <2>4 DEF LedgerBalances
<1>5. CASE Reserve
  BY <1>2, <1>3, <1>5, ReserveIs
<1>6. ASSUME NEW l \in Leases, removeEndpointReservation(l, Lease(l))
      PROVE  endpoint' \in [Endpoints -> EndpointRecords] /\ LedgerBalances'
  <2>1. EndpointOf[l] \in Endpoints /\ endpoint[EndpointOf[l]].active \ {l} \subseteq Leases
    BY <1>1, LeaseIs DEF EndpointRecords
  <2> QED
    BY <1>2, <1>3, <1>6, <2>1, RemovalIs
<1> QED
  BY <1>2, <1>4, <1>5, <1>6, EndpointMoves

\* The leases keep their types.
LEMMA LeaseStep ==
  ASSUME Books, LeasingNext
  PROVE  lease' \in [Leases -> LeaseRecords]
<1> USE DEF objectVars
<1>1. lease \in [Leases -> LeaseRecords] /\ seen \in LeaseRecords /\ victimSeen \in LeaseRecords
  BY DEF Books, LeasingTypeOK
<1>2. \A l \in Leases : Lease(l) \in LeaseRecords
  BY LeaseIs
<1>3. CASE UNCHANGED lease
  BY <1>1, <1>3
<1>4. ASSUME NEW l \in Leases, NEW from \in LeaseRecords, NEW p \in LeasePhases,
             SetPhase(l, from, p)
      PROVE  lease' \in [Leases -> LeaseRecords]
  BY <1>1, <1>4 DEF SetPhase, LeaseRecords
<1>5. \A p \in {"Pending", "Failed", "Interrupted", "Succeeded", "New", "Absent", "Running"} :
        p \in LeasePhases
  BY DEF LeasePhases, Over
<1>6. ASSUME NEW l \in Leases, Reconcile(l)
      PROVE  lease' \in [Leases -> LeaseRecords]
  <2>1. CASE Pend(l)
    BY <2>1, <1>2, <1>4, <1>5 DEF Pend
  <2>2. CASE Reject(l)
    BY <2>2, <1>2, <1>4, <1>5 DEF Reject
  <2>3. CASE Reuse(l) \/ Evict(l) \/ UseEndpoint(l) \/ ensureEndpoint(l) \/ StartRelease(l)
             \/ StartFinalize(l)
    BY <2>3, <1>3 DEF Reuse, Evict, UseEndpoint, ensureEndpoint, StartRelease, StartFinalize
  <2> QED
    BY <1>6, <2>1, <2>2, <2>3 DEF Reconcile
<1>7. ASSUME NEW l \in Leases, AgentRun(l) \/ InputsLost(l) \/ DeleteRun(l)
      PROVE  lease' \in [Leases -> LeaseRecords]
  <2>1. CASE ensureLease(l)
    BY <2>1, <1>1, <1>5 DEF ensureLease, LeaseRecords
  <2>2. CASE reconcileInferenceLeaseRelease(l)
    BY <2>2, <1>1 DEF reconcileInferenceLeaseRelease, LeaseRecords
  <2>3. CASE RunGone(l)
    <3> DEFINE d == lease[l].phase # "Absent"
    <3>1. d \in BOOLEAN /\ lease' = [lease EXCEPT ![l].deleting = d]
      BY <2>3 DEF RunGone
    <3> HIDE DEF d
    <3> QED
      BY <1>1, <3>1 DEF LeaseRecords
  <2>4. CASE UNCHANGED lease
    BY <2>4, <1>3
  <2> QED
    BY <1>7, <2>1, <2>2, <2>3, <2>4 DEF AgentRun, InputsLost, DeleteRun, RecordRef, StartWork,
       FinishWork, LoseLease, Run
<1>8. CASE Proceed
  <2>1. CASE BindStatus
    <3>1. /\ cur \in Leases
          /\ lease' = [lease EXCEPT ![cur] = [seen EXCEPT !.phase = "Running", !.bound = TRUE]]
      BY <2>1 DEF BindStatus, Books, InFlight
    <3> QED
      BY <1>1, <1>5, <3>1 DEF LeaseRecords
  <2>2. CASE interruptLease
    BY <2>2, <1>1, <1>4, <1>5 DEF interruptLease, Books, InFlight
  <2>3. CASE releaseLease
    BY <2>3, <1>1, <1>4, <1>5 DEF releaseLease, Books, InFlight
  <2>4. CASE RemoveFinalizer
    <3>1. cur \in Leases /\ lease' = [lease EXCEPT ![cur] = AbsentLease]
      BY <2>4 DEF RemoveFinalizer, Books, InFlight
    <3> QED
      BY <1>1, <1>5, <3>1 DEF LeaseRecords, AbsentLease
  <2>5. CASE Reserve \/ ReserveFails \/ AllEvicted \/ Conflict
             \/ \E v \in Leases : StartInterrupt(v)
    BY <2>5, <1>3 DEF Reserve, ReserveFails, AllEvicted, Conflict, StartInterrupt
  <2> QED
    BY <1>8, <2>1, <2>2, <2>3, <2>4, <2>5 DEF Proceed
<1>9. CASE \/ Crash \/ Sync
           \/ \E e \in Endpoints : Observe(e) \/ PodReady(e) \/ PodStops(e)
  BY <1>9, <1>3 DEF Crash, Sync, Observe, PodReady, PodStops
<1> QED
  BY <1>6, <1>7, <1>8, <1>9 DEF LeasingNext

\* The progress of the reconciliation in flight, and what it may hold.
Flight ==
  /\ at \in {"idle", "finalize", "release", "evict", "interrupt", "bind", "status"}
  /\ cur \in Leases \cup {NoLease} /\ victim \in Leases \cup {NoLease}
  /\ seen \in LeaseRecords /\ victimSeen \in LeaseRecords
  /\ victims \subseteq Leases

\* A reconciliation moves to another stage, with what it has read.
LEMMA GotoKeeps ==
  ASSUME Books, NEW l \in Leases, NEW V, V \subseteq Leases,
         NEW stage \in {"finalize", "release", "evict", "bind"}, Goto(stage, l, V)
  PROVE  Flight' /\ InFlight'
<1>1. l # NoLease /\ Lease(l) \in LeaseRecords
  BY LeasesAssumption, LeaseIs
<1>2. AbsentLease \in LeaseRecords
  BY DEF AbsentLease, LeaseRecords, LeasePhases
<1> QED
  BY <1>1, <1>2 DEF Goto, Flight, InFlight

\* A reconciliation ends.
LEMMA ReturnKeeps ==
  ASSUME Return
  PROVE  Flight' /\ InFlight'
<1>1. AbsentLease \in LeaseRecords
  BY DEF AbsentLease, LeaseRecords, LeasePhases
<1> QED
  BY <1>1 DEF Return, Goto, Flight, InFlight

\* Every step keeps the reconciliation in flight in order.
LEMMA FlightStep ==
  ASSUME Books, LeasingNext
  PROVE  Flight' /\ InFlight'
<1>1. Flight /\ InFlight
  BY DEF Books, LeasingTypeOK, Flight
<1>2. CASE UNCHANGED flightVars
  BY <1>1, <1>2 DEF flightVars, Flight, InFlight
<1>3. ASSUME NEW l \in Leases, Reconcile(l)
      PROVE  Flight' /\ InFlight'
  <2>1. CASE Pend(l) \/ Reject(l) \/ ensureEndpoint(l)
    BY <2>1, <1>2 DEF Pend, Reject, ensureEndpoint
  <2>2. CASE Reuse(l)
    BY <2>2, GotoKeeps DEF Reuse
  <2>3. CASE UseEndpoint(l)
    BY <2>3, GotoKeeps DEF UseEndpoint
  <2>4. CASE StartRelease(l)
    BY <2>4, GotoKeeps DEF StartRelease
  <2>5. CASE StartFinalize(l)
    BY <2>5, GotoKeeps DEF StartFinalize
  <2>6. CASE Evict(l)
    <3>1. PICK V \in Sacrifices(l) : Goto("evict", l, V)
      BY <2>6 DEF Evict
    <3>2. V \subseteq Leases
      BY <3>1 DEF Sacrifices, evictionCandidates
    <3> QED
      BY <3>1, <3>2, GotoKeeps
  <2> QED
    BY <1>3, <2>1, <2>2, <2>3, <2>4, <2>5, <2>6 DEF Reconcile
<1>4. ASSUME NEW l \in Leases, AgentRun(l) \/ InputsLost(l) \/ DeleteRun(l)
      PROVE  Flight' /\ InFlight'
  BY <1>2, <1>4 DEF AgentRun, InputsLost, DeleteRun, ensureLease, RecordRef, StartWork, FinishWork,
     LoseLease, reconcileInferenceLeaseRelease, RunGone, Run
<1>5. CASE Proceed
  <2>1. CASE ReserveFails \/ BindStatus \/ releaseLease \/ RemoveFinalizer \/ Conflict
    BY <2>1, ReturnKeeps DEF ReserveFails, BindStatus, releaseLease, RemoveFinalizer, Conflict
  <2>2. CASE Reserve
    BY <2>2, <1>1 DEF Reserve, Continue, Flight, InFlight
  <2>3. CASE AllEvicted
    BY <2>3, <1>1 DEF AllEvicted, Continue, Flight, InFlight
  <2>4. CASE interruptLease
    <3>1. AbsentLease \in LeaseRecords
      BY DEF AbsentLease, LeaseRecords, LeasePhases
    <3> QED
      BY <2>4, <3>1, <1>1 DEF interruptLease, Flight, InFlight
  <2>5. ASSUME NEW v \in Leases, StartInterrupt(v)
        PROVE  Flight' /\ InFlight'
    <3>1. Lease(v) \in LeaseRecords
      BY LeaseIs
    <3>2. /\ at = "evict" /\ victims' = victims \ {v} /\ UNCHANGED <<cur, seen>>
          /\ \/ UNCHANGED <<at, victim, victimSeen>>
             \/ at' = "interrupt" /\ victim' = v /\ victimSeen' = Lease(v)
      BY <2>5 DEF StartInterrupt
    <3> QED
      BY <3>1, <3>2, <1>1 DEF Flight, InFlight
  <2> QED
    BY <1>5, <2>1, <2>2, <2>3, <2>4, <2>5 DEF Proceed
<1>6. CASE Crash
  BY <1>6, ReturnKeeps DEF Crash
<1>7. CASE Sync \/ \E e \in Endpoints : Observe(e) \/ PodReady(e) \/ PodStops(e)
  BY <1>2, <1>7 DEF Sync, Observe, PodReady, PodStops
<1> QED
  BY <1>3, <1>4, <1>5, <1>6, <1>7 DEF LeasingNext

\* The caches, the pods, the runs and the count of crashes keep their types.
LEMMA RestStep ==
  ASSUME Books, LeasingNext
  PROVE  /\ leaseCache' \in [Leases -> LeaseRecords]
         /\ endpointCache' \in [Endpoints -> EndpointRecords]
         /\ pod' \in [Endpoints -> {"down", "ready", "failed"}]
         /\ run' \in [Leases -> {"New", "Working", "Over", "Deleted", "Gone"}]
         /\ ref' \in [Leases -> BOOLEAN]
         /\ crashes' \in 0 .. MaxCrashes
<1> USE DEF cacheVars, runVars
<1>1. /\ lease \in [Leases -> LeaseRecords] /\ endpoint \in [Endpoints -> EndpointRecords]
      /\ leaseCache \in [Leases -> LeaseRecords]
      /\ endpointCache \in [Endpoints -> EndpointRecords]
      /\ pod \in [Endpoints -> {"down", "ready", "failed"}]
      /\ run \in [Leases -> {"New", "Working", "Over", "Deleted", "Gone"}]
      /\ ref \in [Leases -> BOOLEAN]
      /\ crashes \in 0 .. MaxCrashes /\ MaxCrashes \in Nat
  BY BoundAssumption DEF Books, LeasingTypeOK
<1>2. ASSUME NEW l \in Leases, Reconcile(l)
      PROVE  UNCHANGED <<cacheVars, pod, runVars, crashes>>
  BY <1>2 DEF Reconcile, Pend, Reuse, Evict, Reject, ensureEndpoint, UseEndpoint, StartRelease,
     StartFinalize
<1>3. ASSUME NEW l \in Leases, AgentRun(l) \/ InputsLost(l) \/ DeleteRun(l)
      PROVE  /\ UNCHANGED <<cacheVars, pod>>
             /\ \/ UNCHANGED run
                \/ \E to \in {"Working", "Over", "Deleted", "Gone"} :
                     run' = [run EXCEPT ![l] = to]
             /\ UNCHANGED ref \/ ref' = [ref EXCEPT ![l] = TRUE]
             /\ UNCHANGED crashes \/ (crashes < MaxCrashes /\ crashes' = crashes + 1)
  <2>1. CASE ensureLease(l)
    BY <2>1 DEF ensureLease
  <2>2. CASE RecordRef(l)
    BY <2>2 DEF RecordRef
  <2>3. CASE reconcileInferenceLeaseRelease(l)
    BY <2>3 DEF reconcileInferenceLeaseRelease
  <2>4. CASE StartWork(l)
    <3>1. /\ run' = [run EXCEPT ![l] = "Working"]
          /\ UNCHANGED <<cacheVars, pod, ref, crashes>>
      BY <2>4 DEF StartWork, Run
    <3> QED
      BY <3>1
  <2>5. CASE FinishWork(l)
    <3>1. /\ run' = [run EXCEPT ![l] = "Over"]
          /\ UNCHANGED <<cacheVars, pod, ref, crashes>>
      BY <2>5 DEF FinishWork, Run
    <3> QED
      BY <3>1
  <2>6. CASE LoseLease(l)
    <3>1. /\ run' = [run EXCEPT ![l] = "Over"]
          /\ UNCHANGED <<cacheVars, pod, ref, crashes>>
      BY <2>6 DEF LoseLease, Run
    <3> QED
      BY <3>1
  <2>7. CASE RunGone(l)
    <3>1. /\ run' = [run EXCEPT ![l] = "Gone"]
          /\ UNCHANGED <<cacheVars, pod, ref, crashes>>
      BY <2>7 DEF RunGone, Run
    <3> QED
      BY <3>1
  <2>8. CASE InputsLost(l)
    <3>1. /\ run' = [run EXCEPT ![l] = "Over"]
          /\ UNCHANGED <<cacheVars, pod, ref, crashes>>
      BY <2>8 DEF InputsLost, Run
    <3> QED
      BY <3>1
  <2>9. CASE DeleteRun(l)
    <3>1. /\ run' = [run EXCEPT ![l] = "Deleted"]
          /\ UNCHANGED <<cacheVars, pod, ref, crashes>>
      BY <2>9 DEF DeleteRun, Run
    <3> QED
      BY <3>1
  <2> QED
    BY <1>3, <2>1, <2>2, <2>3, <2>4, <2>5, <2>6, <2>7, <2>8, <2>9 DEF AgentRun
<1>4. CASE Proceed
  <2>1. UNCHANGED <<cacheVars, pod, runVars, crashes>>
    BY <1>4 DEF Proceed, Reserve, ReserveFails, BindStatus, StartInterrupt, interruptLease,
       AllEvicted, releaseLease, RemoveFinalizer, Conflict
  <2> QED
    BY <2>1, <1>1
<1>5. CASE Crash
  BY <1>5, <1>1 DEF Crash
<1>6. ASSUME NEW e \in Endpoints, Observe(e) \/ PodReady(e) \/ PodStops(e)
      PROVE  /\ UNCHANGED <<cacheVars, runVars, crashes>>
             /\ pod' \in [Endpoints -> {"down", "ready", "failed"}]
  BY <1>6, <1>1 DEF Observe, PodReady, PodStops
<1>7. CASE Sync
  BY <1>7, <1>1 DEF Sync
<1>8. ASSUME NEW l \in Leases, AgentRun(l) \/ InputsLost(l) \/ DeleteRun(l)
      PROVE  /\ run' \in [Leases -> {"New", "Working", "Over", "Deleted", "Gone"}]
             /\ ref' \in [Leases -> BOOLEAN] /\ crashes' \in 0 .. MaxCrashes
             /\ UNCHANGED <<cacheVars, pod>>
  <2>1. run' \in [Leases -> {"New", "Working", "Over", "Deleted", "Gone"}]
    BY <1>1, <1>3, <1>8
  <2>2. ref' \in [Leases -> BOOLEAN]
    BY <1>1, <1>3, <1>8
  <2>3. crashes' \in 0 .. MaxCrashes
    BY <1>1, <1>3, <1>8
  <2> QED
    BY <1>3, <1>8, <2>1, <2>2, <2>3
<1> QED
  BY <1>1, <1>2, <1>4, <1>5, <1>6, <1>7, <1>8 DEF LeasingNext

\* The books are kept by every step.
LEMMA BooksStep == Books /\ [LeasingNext]_leasingVars => Books'
<1>1. ASSUME Books, LeasingNext
      PROVE  Books'
  BY <1>1, LedgerStep, LeaseStep, FlightStep, RestStep DEF Books, LeasingTypeOK, Flight
<1>2. ASSUME Books, UNCHANGED leasingVars
      PROVE  Books'
  BY <1>2 DEF Books, LeasingTypeOK, InFlight, LedgerBalances, leasingVars, objectVars, cacheVars,
     runVars, flightVars
<1> QED
  BY <1>1, <1>2

\* Nothing is on the books at first.
LEMMA BooksInit == LeasingInit => Books
<1> SUFFICES ASSUME LeasingInit PROVE Books
  OBVIOUS
<1>1. AbsentLease \in LeaseRecords
  BY DEF AbsentLease, LeaseRecords, LeasePhases
<1>2. AbsentEndpoint \in EndpointRecords
  BY DEF AbsentEndpoint, EndpointRecords
<1>3. LeasingTypeOK /\ InFlight
  BY <1>1, <1>2, BoundAssumption DEF LeasingInit, LeasingTypeOK, InFlight
<1>4. LedgerBalances
  BY TotalOfNone DEF LeasingInit, LedgerBalances, AbsentEndpoint
<1> QED
  BY <1>3, <1>4 DEF Books

\* Leases, endpoints, runs and the reconciliation in flight are well formed.
THEOREM LeasesTyped == LeasingSpec => []LeasingTypeOK
<1>1. Books => LeasingTypeOK
  BY DEF Books
<1> QED
  BY <1>1, BooksInit, BooksStep, PTL DEF LeasingSpec

\* What an endpoint has allocated is the sum of what the leases it lists ask for, at any
\* moment of any admission, eviction, release, repair or crash.
THEOREM LedgerBalanced == LeasingSpec => []LedgerBalances
<1>1. Books => LedgerBalances
  BY DEF Books
<1> QED
  BY <1>1, BooksInit, BooksStep, PTL DEF LeasingSpec

-----------------------------------------------------------------------------
(* The invariant of the capacity.                                           *)

\* An eviction is cut off between its two writes: the reservation of a lease that runs is given
\* back, and its phase is not written.
CutOff == at = "interrupt" /\ Crash

\* The run of l still wants its lease.
Wanted(l) == run[l] \in {"New", "Working"}

\* The stages of an admission, after its first reads.
Admitting == {"evict", "interrupt", "bind", "status"}

\* The first write of an eviction of l is done, and the second would succeed.
Giving(l) == at = "interrupt" /\ victim = l /\ lease[l] = victimSeen

\* What a reconciliation has read and found before it got where it is.
StagesFit ==
  /\ \A v \in victims : Evictable[v]
  /\ at = "interrupt" => Evictable[victim]
  /\ at \in Admitting => /\ seen.phase = "Pending"
                         /\ endpoint[EndpointOf[cur]].phase # "Absent"
  /\ at = "finalize" => seen.deleting

\* A lease that runs knows its endpoint, and one that knows it runs or has run.
Coherent(r) == /\ r.phase = "Running" => r.bound
               /\ r.bound => r.phase \in Over \cup {"Running"}

Coherence == \A l \in Leases : Coherent(lease[l]) /\ Coherent(leaseCache[l])

\* An endpoint that does not exist lists nobody, and no copy of it shows one.
Existence ==
  \A e \in Endpoints : endpoint[e].phase = "Absent" =>
    endpoint[e].active = {} /\ Endpoint(e).phase = "Absent"

\* What a copy may show of the lease of a run that wants it: the current phase or the one
\* before, and no older one than a reconciliation in flight has read.
ShownFit(l) ==
  /\ ~ lease[l].release /\ ~ lease[l].deleting
  /\ ~ Lease(l).release /\ ~ Lease(l).deleting
  /\ lease[l].phase = "Absent" => Lease(l).phase = "Absent"
  /\ lease[l].phase = "New" => Lease(l).phase \in {"Absent", "New"}
  /\ lease[l].phase = "Pending" => Lease(l).phase \in {"New", "Pending"}
  /\ lease[l].phase = "Running" => Lease(l).phase \in {"Pending", "Running"}
  /\ at \in Admitting /\ cur = l => Lease(l).phase \notin {"Absent", "New"}
  /\ l \in victims => Lease(l).phase \notin {"Absent", "New", "Pending"}

\* Such a lease is listed from its reservation until it is over, but for the moment between
\* the two writes of its eviction.
KeptListed(l) ==
  /\ l \in endpoint[EndpointOf[l]].active \/ l \in Endpoint(EndpointOf[l]).active =>
       Lease(l).phase \notin {"Absent", "New"}
  /\ lease[l].phase \in {"New", "Pending"} /\ l \in Endpoint(EndpointOf[l]).active =>
       l \in endpoint[EndpointOf[l]].active
  /\ at = "status" /\ cur = l /\ lease[l].phase = "Pending" =>
       l \in endpoint[EndpointOf[l]].active
  /\ lease[l].phase = "Running" => l \in endpoint[EndpointOf[l]].active \/ Giving(l)

\* What is listed fits, and so it does with a lease that is just being evicted.
ReservationsFit ==
  /\ \A e \in Endpoints : Total(endpoint[e].active) <= Cap[e]
  /\ \A l \in Leases : Wanted(l) /\ Giving(l) /\ lease[l].phase = "Running" =>
       Total(endpoint[EndpointOf[l]].active \cup {l}) <= Cap[EndpointOf[l]]

CapacityInv ==
  /\ Books /\ StagesFit /\ Coherence /\ Existence /\ ReservationsFit
  /\ \A l \in Leases : Wanted(l) => ShownFit(l) /\ KeptListed(l)

-----------------------------------------------------------------------------
(* What a step may do, to each part of the state.                           *)

\* A run that wants its lease has always wanted it.
LEMMA WantedBefore ==
  ASSUME Books, LeasingNext, NEW l \in Leases, Wanted(l)'
  PROVE  Wanted(l)
<1> USE DEF runVars
<1>1. run \in [Leases -> {"New", "Working", "Over", "Deleted", "Gone"}]
  BY DEF Books, LeasingTypeOK
<1>2. CASE UNCHANGED run
  BY <1>2 DEF Wanted
<1>3. ASSUME NEW k \in Leases, NEW to, Run(k, {"New"}, to) \/ Run(k, {"Working"}, to)
                                       \/ Run(k, {"New", "Working"}, to)
      PROVE  Wanted(l)
  BY <1>1, <1>3 DEF Run, Wanted
<1>4. ASSUME NEW k \in Leases, AgentRun(k) \/ InputsLost(k) \/ DeleteRun(k)
      PROVE  Wanted(l)
  <2>1. CASE ensureLease(k) \/ RecordRef(k) \/ reconcileInferenceLeaseRelease(k)
    BY <1>2, <2>1 DEF ensureLease, RecordRef, reconcileInferenceLeaseRelease
  <2>2. CASE StartWork(k) \/ FinishWork(k) \/ LoseLease(k) \/ InputsLost(k)
    BY <1>3, <2>2 DEF StartWork, FinishWork, LoseLease, InputsLost
  <2>3. CASE RunGone(k)
    BY <1>1, <2>3 DEF RunGone, Wanted
  <2>4. CASE DeleteRun(k)
    BY <1>1, <2>4 DEF DeleteRun, Run, Wanted
  <2> QED
    BY <1>4, <2>1, <2>2, <2>3, <2>4 DEF AgentRun
<1>5. CASE \/ \E k \in Leases : Reconcile(k)
           \/ Proceed \/ Crash \/ Sync
           \/ \E e \in Endpoints : Observe(e) \/ PodReady(e) \/ PodStops(e)
  <2>1. UNCHANGED run
    BY <1>5 DEF Reconcile, Pend, Reuse, Evict, Reject, ensureEndpoint, UseEndpoint, StartRelease,
       StartFinalize, Proceed, Reserve, ReserveFails, BindStatus, StartInterrupt, interruptLease,
       AllEvicted, releaseLease, RemoveFinalizer, Conflict, Crash, Sync, Observe, PodReady,
       PodStops
  <2> QED
    BY <1>2, <2>1
<1> QED
  BY <1>4, <1>5 DEF LeasingNext

\* The copies either stay or become what there is.
LEMMA Views ==
  ASSUME Books, LeasingNext
  PROVE  /\ \A l \in Leases : /\ Lease(l)' = Lease(l) \/ Lease(l)' = lease'[l]
                              /\ leaseCache'[l] = leaseCache[l] \/ leaseCache'[l] = lease'[l]
         /\ \A e \in Endpoints : Endpoint(e)' = Endpoint(e) \/ Endpoint(e)' = endpoint'[e]
<1> USE DEF Lease, Endpoint, cacheVars
<1>1. CASE UNCHANGED cacheVars
  BY <1>1
<1>2. CASE Sync
  <2>1. /\ UNCHANGED <<lease, endpoint>>
        /\ leaseCache \in [Leases -> LeaseRecords]
        /\ endpointCache \in [Endpoints -> EndpointRecords]
    BY <1>2 DEF Sync, objectVars, Books, LeasingTypeOK
  <2>2. CASE \E l \in Leases : /\ leaseCache' = [leaseCache EXCEPT ![l] = lease[l]]
                               /\ UNCHANGED endpointCache
    BY <2>1, <2>2
  <2>3. CASE \E e \in Endpoints : /\ endpointCache' = [endpointCache EXCEPT ![e] = endpoint[e]]
                                  /\ UNCHANGED leaseCache
    BY <2>1, <2>3
  <2> QED
    BY <1>2, <2>2, <2>3 DEF Sync
<1>3. ASSUME NEW l \in Leases, Reconcile(l) \/ AgentRun(l) \/ InputsLost(l) \/ DeleteRun(l)
      PROVE  UNCHANGED cacheVars
  <2>1. ASSUME Reconcile(l) PROVE UNCHANGED cacheVars
    BY <2>1 DEF Reconcile, Pend, Reuse, Evict, Reject, ensureEndpoint, UseEndpoint, StartRelease,
       StartFinalize
  <2>2. ASSUME AgentRun(l) \/ InputsLost(l) \/ DeleteRun(l) PROVE UNCHANGED cacheVars
    BY <2>2 DEF AgentRun, ensureLease, RecordRef, StartWork, FinishWork, LoseLease, InputsLost,
       DeleteRun, reconcileInferenceLeaseRelease, RunGone, Run
  <2> QED
    BY <1>3, <2>1, <2>2
<1>4. CASE Proceed \/ Crash
  <2>1. UNCHANGED cacheVars
    BY <1>4 DEF Proceed, Reserve, ReserveFails, BindStatus, StartInterrupt, interruptLease,
       AllEvicted, releaseLease, RemoveFinalizer, Conflict, Crash
  <2> QED
    BY <1>1, <2>1
<1>5. CASE \E e \in Endpoints : Observe(e) \/ PodReady(e) \/ PodStops(e)
  <2>1. UNCHANGED cacheVars
    BY <1>5 DEF Observe, PodReady, PodStops
  <2> QED
    BY <1>1, <2>1
<1> QED
  BY <1>1, <1>2, <1>3, <1>4, <1>5 DEF LeasingNext

\* A lease l of which Lease(l) is v is admitted, and may cost others theirs.
Admits(l) ==
  /\ at = "idle" /\ Lease(l).phase = "Pending"
  /\ at' \in {"evict", "bind"} /\ cur' = l /\ seen' = Lease(l)
  /\ \A v \in victims' : v \in Leases /\ Evictable[v] /\ Lease(v).phase = "Running"
  /\ Endpoint(EndpointOf[l]).phase # "Absent"
  /\ UNCHANGED <<lease, endpoint>>

\* The reconciliation in flight ends, for a reason.
Ends ==
  /\ at' = "idle" /\ victims' = {}
  /\ at = "interrupt" => lease[victim] # victimSeen \/ Crash

\* A cleanup begins.
Cleans(l) ==
  /\ at = "idle" /\ victims' = {}
  /\ \/ at' = "release"
     \/ at' = "finalize" /\ seen' = Lease(l) /\ Lease(l).deleting

\* Where the reconciliation in flight goes.
LEMMA StageMoves ==
  ASSUME Books, LeasingNext
  PROVE  \/ UNCHANGED flightVars /\ ~ Reserve /\ \A v \in Leases : ~ StartInterrupt(v)
         \/ Ends
         \/ \E l \in Leases : Admits(l) \/ Cleans(l)
         \/ Reserve \/ AllEvicted \/ interruptLease \/ \E v \in Leases : StartInterrupt(v)
<1> USE DEF objectVars
<1>1. \A l \in Leases : l # NoLease
  BY LeasesAssumption
<1>2. ASSUME Return
      PROVE  at' = "idle" /\ victims' = {}
  BY <1>2 DEF Return, Goto
<1>3. ASSUME NEW l \in Leases, Reconcile(l)
      PROVE  UNCHANGED flightVars \/ Admits(l) \/ Cleans(l)
  <2>1. CASE Pend(l) \/ Reject(l) \/ ensureEndpoint(l)
    BY <2>1 DEF Pend, Reject, ensureEndpoint
  <2>2. CASE Reuse(l)
    BY <2>2, <1>1 DEF Reuse, Deciding, Reconciling, Goto, compatible, Admits
  <2>3. CASE UseEndpoint(l)
    BY <2>3, <1>1 DEF UseEndpoint, Creating, Deciding, Reconciling, Goto, Admits
  <2>4. CASE StartRelease(l)
    BY <2>4 DEF StartRelease, Reconciling, Goto, Cleans
  <2>5. CASE StartFinalize(l)
    BY <2>5, <1>1 DEF StartFinalize, Goto, Cleans
  <2>6. CASE Evict(l)
    <3>1. PICK V \in Sacrifices(l) : Goto("evict", l, V)
      BY <2>6 DEF Evict
    <3>2. \A v \in V : v \in Leases /\ Evictable[v] /\ Lease(v).phase = "Running"
      BY <3>1 DEF Sacrifices, evictionCandidates
    <3>3. /\ at = "idle" /\ Lease(l).phase = "Pending" /\ UNCHANGED <<lease, endpoint>>
          /\ Endpoint(EndpointOf[l]).phase # "Absent"
      BY <2>6 DEF Evict, Deciding, Reconciling, compatible
    <3>4. at' = "evict" /\ cur' = l /\ seen' = Lease(l) /\ victims' = V
      BY <3>1, <1>1 DEF Goto
    <3> QED
      BY <3>2, <3>3, <3>4 DEF Admits
  <2> QED
    BY <1>3, <2>1, <2>2, <2>3, <2>4, <2>5, <2>6 DEF Reconcile
<1>4. ASSUME NEW l \in Leases, AgentRun(l) \/ InputsLost(l) \/ DeleteRun(l)
      PROVE  UNCHANGED flightVars
  BY <1>4 DEF AgentRun, InputsLost, DeleteRun, ensureLease, RecordRef, StartWork, FinishWork,
     LoseLease, reconcileInferenceLeaseRelease, RunGone, Run
<1>5. CASE ReserveFails \/ BindStatus \/ releaseLease \/ RemoveFinalizer
  BY <1>2, <1>5 DEF ReserveFails, BindStatus, releaseLease, RemoveFinalizer, Ends
<1>6. CASE Conflict
  BY <1>2, <1>6 DEF Conflict, Ends
<1>7. CASE Crash
  <2>1. Return
    BY <1>7 DEF Crash
  <2> QED
    BY <1>2, <1>7, <2>1 DEF Ends
<1>8. CASE Sync \/ \E e \in Endpoints : Observe(e) \/ PodReady(e) \/ PodStops(e)
  <2>1. UNCHANGED flightVars
    BY <1>8 DEF Sync, Observe, PodReady, PodStops
  <2> QED
    BY <2>1
<1> QED
  BY <1>3, <1>4, <1>5, <1>6, <1>7, <1>8 DEF LeasingNext, Proceed

\* A lease is written: the lease k, which becomes r.
Writes(k, r) == k \in Leases /\ r \in LeaseRecords /\ lease' = [lease EXCEPT ![k] = r]

\* A record of another phase.
InPhase(r, p) == [r EXCEPT !.phase = p]

\* The writes of a lease.
LEMMA LeaseMoves ==
  ASSUME Books, LeasingNext
  PROVE  \/ UNCHANGED lease
         \/ \E k \in Leases :
              \/ /\ ensureLease(k) /\ lease[k] = AbsentLease
                 /\ Writes(k, InPhase(AbsentLease, "New"))
              \/ /\ Pend(k) /\ lease[k].phase = "New" /\ Writes(k, InPhase(lease[k], "Pending"))
              \/ \E p \in {"Failed", "Interrupted", "Succeeded"} : Writes(k, InPhase(lease[k], p))
              \/ /\ ~ Wanted(k)
                 /\ \E d, b \in BOOLEAN :
                      Writes(k, [lease[k] EXCEPT !.deleting = d, !.release = b])
         \/ /\ BindStatus /\ lease[cur] = seen
            /\ Writes(cur, [InPhase(lease[cur], "Running") EXCEPT !.bound = TRUE])
         \/ RemoveFinalizer /\ lease[cur] = seen /\ Writes(cur, AbsentLease)
<1> USE DEF objectVars, InPhase
<1>1. /\ lease \in [Leases -> LeaseRecords] /\ seen \in LeaseRecords /\ victimSeen \in LeaseRecords
      /\ run \in [Leases -> {"New", "Working", "Over", "Deleted", "Gone"}]
  BY DEF Books, LeasingTypeOK
<1>2. \A p \in {"Pending", "Failed", "Interrupted", "Succeeded", "New", "Absent", "Running"} :
        p \in LeasePhases
  BY DEF LeasePhases, Over
<1>3. \A r \in LeaseRecords, p \in LeasePhases : InPhase(r, p) \in LeaseRecords
  BY DEF LeaseRecords
<1>4. AbsentLease \in LeaseRecords
  BY <1>2 DEF AbsentLease, LeaseRecords
<1>5. ASSUME NEW k \in Leases, NEW from \in LeaseRecords,
             NEW p \in {"Failed", "Interrupted", "Succeeded"}, SetPhase(k, from, p)
      PROVE  Writes(k, InPhase(lease[k], p))
  <2>1. from = lease[k] /\ lease' = [lease EXCEPT ![k] = InPhase(from, p)]
    BY <1>5 DEF SetPhase
  <2>2. InPhase(from, p) \in LeaseRecords
    BY <1>2, <1>3
  <2> QED
    BY <2>1, <2>2 DEF Writes
<1>6. ASSUME NEW k \in Leases, Pend(k)
      PROVE  lease[k].phase = "New" /\ Writes(k, InPhase(lease[k], "Pending"))
  <2>1. /\ Lease(k) = lease[k] /\ Lease(k).phase = "New"
        /\ lease' = [lease EXCEPT ![k] = InPhase(Lease(k), "Pending")]
    BY <1>6 DEF Pend, Reconciling, SetPhase
  <2>2. InPhase(lease[k], "Pending") \in LeaseRecords
    BY <1>1, <1>2, <1>3
  <2> QED
    BY <2>1, <2>2 DEF Writes
<1>7. ASSUME NEW k \in Leases, ensureLease(k)
      PROVE  lease[k] = AbsentLease /\ Writes(k, InPhase(AbsentLease, "New"))
  <2>1. lease[k] = AbsentLease /\ lease' = [lease EXCEPT ![k].phase = "New"]
    BY <1>7 DEF ensureLease
  <2>2. InPhase(AbsentLease, "New") \in LeaseRecords
    BY <1>2, <1>3, <1>4
  <2>3. lease' = [lease EXCEPT ![k] = InPhase(AbsentLease, "New")]
    BY <2>1
  <2> QED
    BY <2>1, <2>2, <2>3 DEF Writes
<1>8. ASSUME NEW k \in Leases, reconcileInferenceLeaseRelease(k) \/ RunGone(k)
      PROVE  ~ Wanted(k) /\ \E d, b \in BOOLEAN :
               Writes(k, [lease[k] EXCEPT !.deleting = d, !.release = b])
  <2>1. run[k] \in {"Over", "Deleted"}
    BY <1>8 DEF reconcileInferenceLeaseRelease, RunGone
  <2>2. lease[k] \in LeaseRecords
    BY <1>1
  <2>3. ASSUME NEW d \in BOOLEAN, lease' = [lease EXCEPT ![k].deleting = d]
        PROVE  Writes(k, [lease[k] EXCEPT !.deleting = d, !.release = lease[k].release])
    <3>1. [lease[k] EXCEPT !.deleting = d, !.release = lease[k].release] =
            [lease[k] EXCEPT !.deleting = d]
      BY <2>2 DEF LeaseRecords
    <3>2. [lease[k] EXCEPT !.deleting = d] \in LeaseRecords
      BY <2>2 DEF LeaseRecords
    <3> QED
      BY <2>3, <3>1, <3>2 DEF Writes
  <2>4. ASSUME lease' = [lease EXCEPT ![k].release = TRUE]
        PROVE  Writes(k, [lease[k] EXCEPT !.deleting = lease[k].deleting, !.release = TRUE])
    <3>1. [lease[k] EXCEPT !.deleting = lease[k].deleting, !.release = TRUE] =
            [lease[k] EXCEPT !.release = TRUE]
      BY <2>2 DEF LeaseRecords
    <3>2. [lease[k] EXCEPT !.release = TRUE] \in LeaseRecords
      BY <2>2 DEF LeaseRecords
    <3> QED
      BY <2>4, <3>1, <3>2 DEF Writes
  <2>5. \/ lease' = [lease EXCEPT ![k].release = TRUE]
        \/ \E d \in BOOLEAN : lease' = [lease EXCEPT ![k].deleting = d]
    BY <1>8 DEF reconcileInferenceLeaseRelease, RunGone
  <2>6. lease[k].release \in BOOLEAN /\ lease[k].deleting \in BOOLEAN
    BY <2>2 DEF LeaseRecords
  <2> QED
    BY <2>1, <2>3, <2>4, <2>5, <2>6 DEF Wanted
<1>9. CASE interruptLease
  BY <1>1, <1>5, <1>9 DEF interruptLease, Books, InFlight
<1>10. CASE releaseLease
  BY <1>1, <1>5, <1>10 DEF releaseLease, Books, InFlight
<1>11. ASSUME NEW k \in Leases, Reject(k)
       PROVE  Writes(k, InPhase(lease[k], "Failed"))
  BY <1>5, <1>11, LeaseIs DEF Reject
<1>12. CASE BindStatus
  <2>1. /\ cur \in Leases /\ lease[cur] = seen
        /\ lease' = [lease EXCEPT ![cur] = [seen EXCEPT !.phase = "Running", !.bound = TRUE]]
    BY <1>12 DEF BindStatus, Books, InFlight
  <2>2. [seen EXCEPT !.phase = "Running", !.bound = TRUE] =
          [InPhase(seen, "Running") EXCEPT !.bound = TRUE]
    BY <1>1 DEF LeaseRecords
  <2>3. [InPhase(seen, "Running") EXCEPT !.bound = TRUE] \in LeaseRecords
    BY <1>1, <1>2 DEF LeaseRecords
  <2> QED
    BY <1>12, <2>1, <2>2, <2>3 DEF Writes
<1>13. CASE RemoveFinalizer
  BY <1>4, <1>13 DEF RemoveFinalizer, Writes, Books, InFlight
<1> HIDE DEF InPhase
<1>14. ASSUME NEW l \in Leases, Reconcile(l)
       PROVE  UNCHANGED lease \/ Pend(l) \/ Reject(l)
  BY <1>14 DEF Reconcile, Reuse, Evict, ensureEndpoint, UseEndpoint, StartRelease, StartFinalize
<1>15. ASSUME NEW l \in Leases, AgentRun(l) \/ InputsLost(l) \/ DeleteRun(l)
       PROVE  UNCHANGED lease \/ ensureLease(l) \/ reconcileInferenceLeaseRelease(l) \/ RunGone(l)
  BY <1>15 DEF AgentRun, InputsLost, DeleteRun, RecordRef, StartWork, FinishWork, LoseLease, Run
<1>16. ASSUME \/ Reserve \/ ReserveFails \/ AllEvicted \/ Conflict \/ Crash \/ Sync
              \/ \E v \in Leases : StartInterrupt(v)
              \/ \E e \in Endpoints : Observe(e) \/ PodReady(e) \/ PodStops(e)
       PROVE  UNCHANGED lease
  BY <1>16 DEF Reserve, ReserveFails, AllEvicted, Conflict, Crash, Sync, StartInterrupt, Observe,
     PodReady, PodStops
<1>17. \/ UNCHANGED lease
       \/ \E l \in Leases : \/ Pend(l) \/ Reject(l) \/ ensureLease(l)
                            \/ reconcileInferenceLeaseRelease(l) \/ RunGone(l)
       \/ interruptLease \/ releaseLease \/ BindStatus \/ RemoveFinalizer
  BY <1>14, <1>15, <1>16 DEF LeasingNext, Proceed
<1> QED
  BY <1>6, <1>7, <1>8, <1>9, <1>10, <1>11, <1>12, <1>13, <1>17

\* Leases and their copies stay coherent.
LEMMA CoherenceStep ==
  ASSUME Books, Coherence, StagesFit, LeasingNext
  PROVE  Coherence'
<1>1. lease \in [Leases -> LeaseRecords]
  BY DEF Books, LeasingTypeOK
<1>2. \A l \in Leases : Coherent(lease[l])
  BY DEF Coherence
<1>3. ASSUME NEW k \in Leases, NEW r \in LeaseRecords, Coherent(r), Writes(k, r)
      PROVE  \A l \in Leases : Coherent(lease'[l])
  BY <1>1, <1>2, <1>3 DEF Writes
<1>4. \A l \in Leases : Coherent(lease'[l])
  <2>1. CASE UNCHANGED lease
    BY <1>2, <2>1
  <2>2. ASSUME NEW k \in Leases, lease[k] = AbsentLease, Writes(k, InPhase(AbsentLease, "New"))
        PROVE  \A l \in Leases : Coherent(lease'[l])
    <3>1. Coherent(InPhase(AbsentLease, "New"))
      BY DEF Coherent, InPhase, AbsentLease
    <3> QED
      BY <1>3, <2>2, <3>1 DEF Writes
  <2>3. ASSUME NEW k \in Leases, lease[k].phase = "New", Writes(k, InPhase(lease[k], "Pending"))
        PROVE  \A l \in Leases : Coherent(lease'[l])
    <3>1. ~ lease[k].bound
      BY <1>2, <2>3 DEF Coherent, Over
    <3>2. Coherent(InPhase(lease[k], "Pending"))
      BY <1>1, <3>1 DEF Coherent, InPhase, LeaseRecords
    <3> QED
      BY <1>3, <2>3, <3>2 DEF Writes
  <2>4. ASSUME NEW k \in Leases, NEW p \in {"Failed", "Interrupted", "Succeeded"},
               Writes(k, InPhase(lease[k], p))
        PROVE  \A l \in Leases : Coherent(lease'[l])
    <3>1. Coherent(InPhase(lease[k], p))
      BY <1>1 DEF Coherent, InPhase, LeaseRecords, Over
    <3> QED
      BY <1>3, <2>4, <3>1 DEF Writes
  <2>5. ASSUME NEW k \in Leases, NEW d \in BOOLEAN, NEW b \in BOOLEAN,
               Writes(k, [lease[k] EXCEPT !.deleting = d, !.release = b])
        PROVE  \A l \in Leases : Coherent(lease'[l])
    <3>1. Coherent([lease[k] EXCEPT !.deleting = d, !.release = b])
      BY <1>1, <1>2 DEF Coherent, LeaseRecords
    <3> QED
      BY <1>3, <2>5, <3>1 DEF Writes
  <2>6. ASSUME cur \in Leases, Writes(cur, [InPhase(lease[cur], "Running") EXCEPT !.bound = TRUE])
        PROVE  \A l \in Leases : Coherent(lease'[l])
    <3>1. Coherent([InPhase(lease[cur], "Running") EXCEPT !.bound = TRUE])
      BY <1>1, <2>6 DEF Coherent, InPhase, LeaseRecords
    <3> QED
      BY <1>3, <2>6, <3>1 DEF Writes
  <2>7. ASSUME cur \in Leases, Writes(cur, AbsentLease)
        PROVE  \A l \in Leases : Coherent(lease'[l])
    <3>1. Coherent(AbsentLease)
      BY DEF Coherent, AbsentLease
    <3> QED
      BY <1>3, <2>7, <3>1 DEF Writes
  <2> QED
    BY <2>1, <2>2, <2>3, <2>4, <2>5, <2>6, <2>7, LeaseMoves DEF Writes
<1>5. \A l \in Leases : Coherent(leaseCache'[l])
  BY <1>4, Views DEF Coherence
<1> QED
  BY <1>4, <1>5 DEF Coherence, Coherent

\* The leases that the endpoint e lists become those of A, and no other list changes.
Relisted(e, A) ==
  \A f \in Endpoints : endpoint'[f].active = IF f = e THEN A ELSE endpoint[f].active

\* An endpoint that exists goes on existing.
LEMMA PhaseStays ==
  ASSUME Books, LeasingNext, NEW e \in Endpoints, endpoint[e].phase # "Absent"
  PROVE  endpoint'[e].phase # "Absent"
<1>1. CASE UNCHANGED endpoint
  BY <1>1
<1>2. ASSUME NEW f \in Endpoints,
             Observe(f) \/ \E l \in Leases : f = EndpointOf[l] /\ ensureEndpoint(l)
      PROVE  endpoint'[e].phase # "Absent"
  <2>1. endpoint'[f].phase # "Absent"
    BY <1>2, EndpointWritten
  <2>2. e # f => endpoint'[e] = endpoint[e]
    BY <1>2, EndpointWritten
  <2> QED
    BY <2>1, <2>2
<1>3. ASSUME NEW f \in Endpoints, NEW A, A \subseteq Leases, Lists(f, A)
      PROVE  endpoint'[e].phase # "Absent"
  BY <1>3, ListsKeeps
<1>4. CASE Reserve
  BY <1>1, <1>3, <1>4, ReserveIs
<1>5. ASSUME NEW l \in Leases, removeEndpointReservation(l, Lease(l))
      PROVE  endpoint'[e].phase # "Absent"
  <2>1. EndpointOf[l] \in Endpoints /\ endpoint[EndpointOf[l]].active \ {l} \subseteq Leases
    BY LeaseIs, EndpointIs DEF EndpointRecords
  <2> QED
    BY <1>1, <1>3, <1>5, <2>1, RemovalIs
<1> QED
  BY <1>1, <1>2, <1>4, <1>5, EndpointMoves

\* A reservation is taken away by the step that ends its lease.
Drops(l) ==
  /\ Lease(l).bound
  /\ l \in endpoint[EndpointOf[l]].active
  /\ Relisted(EndpointOf[l], endpoint[EndpointOf[l]].active \ {l})
  /\ StartInterrupt(l) \/ StartRelease(l) \/ StartFinalize(l)

\* A reservation is made on the endpoint as it is.
Reserved(e) ==
  /\ Reserve /\ e = EndpointOf[cur] /\ Endpoint(e) = endpoint[e]
  /\ Relisted(e, Pruned(e) \cup {cur})
  /\ cur \notin Pruned(e) => Total(Pruned(e) \cup {cur}) <= Cap[e]

\* The steps that change who is listed.
LEMMA ListMoves ==
  ASSUME Books, Existence, LeasingNext
  PROVE  \/ \A e \in Endpoints : endpoint'[e].active = endpoint[e].active
         \/ \E e \in Endpoints : Reserved(e)
         \/ \E l \in Leases : Drops(l)
<1>1. CASE UNCHANGED endpoint
  BY <1>1
<1>2. ASSUME NEW f \in Endpoints,
             Observe(f) \/ \E l \in Leases : f = EndpointOf[l] /\ ensureEndpoint(l)
      PROVE  \A e \in Endpoints : endpoint'[e].active = endpoint[e].active
  <2>1. endpoint'[f].active = endpoint[f].active
    BY <1>2, EndpointWritten DEF Existence
  <2>2. \A e \in Endpoints \ {f} : endpoint'[e] = endpoint[e]
    BY <1>2, EndpointWritten
  <2> QED
    BY <2>1, <2>2
<1>3. ASSUME NEW f \in Endpoints, NEW A, A \subseteq Leases, Lists(f, A)
      PROVE  Relisted(f, A)
  BY <1>3, ListsKeeps DEF Relisted
<1>4. CASE Reserve
  <2> DEFINE e == EndpointOf[cur]
             S == Pruned(e) \cup {cur}
  <2>1. /\ e \in Endpoints /\ S \subseteq Leases
        /\ \/ UNCHANGED endpoint
           \/ /\ Endpoint(e) = endpoint[e] /\ Lists(e, S)
              /\ cur \notin Pruned(e) => Total(S) <= Cap[e]
    BY <1>4, ReserveIs
  <2>2. CASE /\ Endpoint(e) = endpoint[e] /\ Lists(e, S)
             /\ cur \notin Pruned(e) => Total(S) <= Cap[e]
    <3>1. Relisted(e, S)
      BY <1>3, <2>1, <2>2
    <3>2. Reserved(e)
      BY <1>4, <2>2, <3>1 DEF Reserved
    <3> QED
      BY <2>1, <3>2
  <2> QED
    BY <1>1, <2>1, <2>2
<1>5. ASSUME NEW l \in Leases, removeEndpointReservation(l, Lease(l)),
             StartInterrupt(l) \/ StartRelease(l) \/ StartFinalize(l)
      PROVE  (\A e \in Endpoints : endpoint'[e].active = endpoint[e].active) \/ Drops(l)
  <2>1. EndpointOf[l] \in Endpoints /\ endpoint[EndpointOf[l]].active \ {l} \subseteq Leases
    BY LeaseIs, EndpointIs DEF EndpointRecords
  <2>2. \/ UNCHANGED endpoint
        \/ /\ Lease(l).bound /\ l \in endpoint[EndpointOf[l]].active
           /\ Lists(EndpointOf[l], endpoint[EndpointOf[l]].active \ {l})
    BY <1>5, RemovalIs
  <2> QED
    BY <1>3, <1>5, <2>1, <2>2 DEF Drops
<1> QED
  BY <1>1, <1>2, <1>4, <1>5, EndpointMoves

\* What a reconciliation has found stays so.
LEMMA StagesFitStep ==
  ASSUME Books, StagesFit, Existence, LeasingNext
  PROVE  StagesFit'
<1>1. at # "idle" => /\ cur \in Leases /\ EndpointOf[cur] \in Endpoints
  BY LeaseIs DEF Books, InFlight
<1>2. at \in Admitting => endpoint'[EndpointOf[cur]].phase # "Absent"
  BY <1>1, PhaseStays DEF StagesFit, Admitting
<1>3. victims \subseteq Leases
  BY DEF Books, LeasingTypeOK
<1>4. CASE UNCHANGED flightVars
  BY <1>2, <1>4 DEF StagesFit, flightVars
<1>5. CASE Ends
  BY <1>5 DEF StagesFit, Ends, Admitting
<1>6. ASSUME NEW l \in Leases, Cleans(l)
      PROVE  StagesFit'
  BY <1>6 DEF StagesFit, Cleans, Admitting
<1>7. ASSUME NEW l \in Leases, Admits(l)
      PROVE  StagesFit'
  <2>1. EndpointOf[l] \in Endpoints
    BY LeaseIs
  <2>2. endpoint'[EndpointOf[l]].phase # "Absent"
    BY <1>7, <2>1 DEF Admits, Existence
  <2> QED
    BY <1>7, <2>2 DEF StagesFit, Admits, Admitting
<1>8. CASE Reserve \/ AllEvicted
  BY <1>2, <1>8 DEF StagesFit, Reserve, AllEvicted, Continue, Admitting
<1>9. CASE interruptLease
  BY <1>2, <1>9 DEF StagesFit, interruptLease, Admitting
<1>10. ASSUME NEW v \in Leases, StartInterrupt(v)
       PROVE  StagesFit'
  BY <1>2, <1>10 DEF StagesFit, StartInterrupt, Admitting
<1> QED
  BY <1>4, <1>5, <1>6, <1>7, <1>8, <1>9, <1>10, StageMoves

\* What does not exist lists nobody, and no copy shows it.
LEMMA ExistenceStep ==
  ASSUME Books, StagesFit, Existence, LeasingNext
  PROVE  Existence'
<1> SUFFICES ASSUME NEW e \in Endpoints, endpoint'[e].phase = "Absent"
             PROVE  endpoint'[e].active = {} /\ Endpoint(e)'.phase = "Absent"
  BY DEF Existence, Endpoint
<1>1. endpoint[e].phase = "Absent"
  BY PhaseStays
<1>2. endpoint[e].active = {} /\ Endpoint(e).phase = "Absent"
  BY <1>1 DEF Existence
<1>3. ASSUME NEW f \in Endpoints, Reserved(f)
      PROVE  endpoint'[e].active = {}
  <2>1. f # e
    BY <1>1, <1>3 DEF Reserved, Reserve, StagesFit, Admitting
  <2> QED
    BY <1>2, <1>3, <2>1 DEF Reserved, Relisted
<1>4. ASSUME NEW l \in Leases, Drops(l)
      PROVE  endpoint'[e].active = {}
  BY <1>2, <1>4 DEF Drops, Relisted
<1>5. endpoint'[e].active = {}
  BY <1>2, <1>3, <1>4, ListMoves
<1>6. Endpoint(e)' = Endpoint(e) \/ Endpoint(e)' = endpoint'[e]
  BY Views
<1> QED
  BY <1>2, <1>5, <1>6

\* The ways of a lease whose run wants it.
Keeps(l) == lease'[l] = lease[l]

Appears(l) ==
  /\ lease[l].phase = "Absent" /\ Lease(l).phase = "Absent"
  /\ lease'[l] = InPhase(AbsentLease, "New")

Queues(l) ==
  /\ at = "idle" /\ lease[l].phase = "New" /\ Lease(l).phase = "New"
  /\ lease'[l] = InPhase(lease[l], "Pending")

Finishes(l) == \E p \in Over : lease'[l] = InPhase(lease[l], p)

Binds(l) ==
  /\ BindStatus /\ cur = l /\ lease[l].phase = "Pending"
  /\ lease'[l] = [InPhase(lease[l], "Running") EXCEPT !.bound = TRUE]

\* What becomes of such a lease.
LEMMA PhaseMoves ==
  ASSUME CapacityInv, LeasingNext, NEW l \in Leases, Wanted(l)'
  PROVE  Keeps(l) \/ Appears(l) \/ Queues(l) \/ Finishes(l) \/ Binds(l)
<1>1. Books /\ StagesFit
  BY DEF CapacityInv
<1>2. lease \in [Leases -> LeaseRecords]
  BY <1>1 DEF Books, LeasingTypeOK
<1>3. Wanted(l) /\ ~ lease[l].deleting
  BY <1>1, WantedBefore DEF CapacityInv, ShownFit
<1>4. ASSUME NEW k \in Leases, NEW r, Writes(k, r)
      PROVE  lease'[l] = IF k = l THEN r ELSE lease[l]
  BY <1>2, <1>4 DEF Writes
<1>5. CASE UNCHANGED lease
  BY <1>5 DEF Keeps
<1>6. ASSUME NEW k \in Leases, ensureLease(k), lease[k] = AbsentLease,
             Writes(k, InPhase(AbsentLease, "New"))
      PROVE  Keeps(l) \/ Appears(l)
  <2>1. Lease(k).phase = "Absent" /\ lease[k].phase = "Absent"
    BY <1>6 DEF ensureLease, AbsentLease
  <2> QED
    BY <1>4, <1>6, <2>1 DEF Keeps, Appears
<1>7. ASSUME NEW k \in Leases, Pend(k), lease[k].phase = "New",
             Writes(k, InPhase(lease[k], "Pending"))
      PROVE  Keeps(l) \/ Queues(l)
  <2>1. at = "idle" /\ Lease(k).phase = "New"
    BY <1>7 DEF Pend, Reconciling
  <2> QED
    BY <1>4, <1>7, <2>1 DEF Keeps, Queues
<1>8. ASSUME NEW k \in Leases, NEW p \in {"Failed", "Interrupted", "Succeeded"},
             Writes(k, InPhase(lease[k], p))
      PROVE  Keeps(l) \/ Finishes(l)
  <2>1. p \in Over
    BY DEF Over
  <2> QED
    BY <1>4, <1>8, <2>1 DEF Keeps, Finishes
<1>9. ASSUME NEW k \in Leases, NEW r, ~ Wanted(k), Writes(k, r)
      PROVE  Keeps(l)
  BY <1>3, <1>4, <1>9 DEF Keeps
<1>10. CASE BindStatus /\ lease[cur] = seen
            /\ Writes(cur, [InPhase(lease[cur], "Running") EXCEPT !.bound = TRUE])
  <2>1. cur \in Leases
    BY <1>10 DEF Writes
  <2>2. lease[cur].phase = "Pending"
    BY <1>1, <1>10 DEF BindStatus, StagesFit, Admitting
  <2>3. lease'[l] = IF cur = l THEN [InPhase(lease[cur], "Running") EXCEPT !.bound = TRUE]
                              ELSE lease[l]
    BY <1>4, <1>10, <2>1
  <2>4. CASE cur = l
    BY <1>10, <2>2, <2>3, <2>4 DEF Binds
  <2>5. CASE cur # l
    BY <2>3, <2>5 DEF Keeps
  <2> QED
    BY <2>4, <2>5
<1>11. CASE RemoveFinalizer /\ lease[cur] = seen /\ Writes(cur, AbsentLease)
  <2>1. cur \in Leases /\ lease[cur].deleting
    BY <1>1, <1>11 DEF RemoveFinalizer, StagesFit, Writes
  <2> QED
    BY <1>3, <1>4, <1>11, <2>1 DEF Keeps
<1> QED
  BY <1>1, <1>5, <1>6, <1>7, <1>8, <1>9, <1>10, <1>11, LeaseMoves

\* The same, as far as the phases and the requests go.
LEMMA PhasesAre ==
  ASSUME CapacityInv, LeasingNext, NEW l \in Leases, Wanted(l)'
  PROVE  /\ lease'[l].release = FALSE /\ lease'[l].deleting = FALSE
         /\ \/ lease'[l].phase = lease[l].phase /\ Keeps(l)
            \/ lease[l].phase = "Absent" /\ Lease(l).phase = "Absent" /\ lease'[l].phase = "New"
            \/ /\ lease[l].phase = "New" /\ Lease(l).phase = "New"
               /\ lease'[l].phase = "Pending" /\ at = "idle"
            \/ lease'[l].phase \in Over
            \/ lease[l].phase = "Pending" /\ lease'[l].phase = "Running" /\ Binds(l)
<1>1. lease[l] \in LeaseRecords
  BY LeaseIs DEF CapacityInv
<1>2. ~ lease[l].release /\ ~ lease[l].deleting
  BY WantedBefore DEF CapacityInv, ShownFit
<1>3. lease[l].release = FALSE /\ lease[l].deleting = FALSE
  BY <1>1, <1>2 DEF LeaseRecords
<1>4. CASE Keeps(l)
  BY <1>3, <1>4 DEF Keeps
<1>5. CASE Appears(l)
  BY <1>5 DEF Appears, InPhase, AbsentLease
<1>6. CASE Queues(l)
  BY <1>1, <1>3, <1>6 DEF Queues, InPhase, LeaseRecords
<1>7. CASE Finishes(l)
  BY <1>1, <1>3, <1>7 DEF Finishes, InPhase, LeaseRecords
<1>8. CASE Binds(l)
  <2>1. lease'[l].phase = "Running"
    BY <1>1, <1>8 DEF Binds, InPhase, LeaseRecords
  <2>2. lease'[l].release = FALSE /\ lease'[l].deleting = FALSE
    BY <1>1, <1>3, <1>8 DEF Binds, InPhase, LeaseRecords
  <2> QED
    BY <1>8, <2>1, <2>2 DEF Binds
<1> QED
  BY <1>4, <1>5, <1>6, <1>7, <1>8, PhaseMoves

\* The phases a lease goes through, in order.
LEMMA FurtherOn ==
  ASSUME CapacityInv, LeasingNext, NEW l \in Leases, Wanted(l)',
         Lease(l).phase \notin {"Absent", "New"}
  PROVE  /\ Lease(l)'.phase \notin {"Absent", "New"}
         /\ Lease(l).phase # "Pending" => Lease(l)'.phase # "Pending"
<1>1. ShownFit(l)
  BY WantedBefore DEF CapacityInv
<1>2. /\ lease[l].phase \notin {"Absent", "New"}
      /\ Lease(l).phase # "Pending" => lease[l].phase # "Pending"
  BY <1>1 DEF ShownFit
<1>3. /\ lease'[l].phase \notin {"Absent", "New"}
      /\ Lease(l).phase # "Pending" => lease'[l].phase # "Pending"
  BY <1>2, PhasesAre DEF Over
<1>4. Lease(l)' = Lease(l) \/ Lease(l)' = lease'[l]
  BY Views DEF CapacityInv
<1> QED
  BY <1>3, <1>4

\* The copies of a wanted lease stay close to it.
LEMMA ShownFitStep ==
  ASSUME CapacityInv, LeasingNext, NEW l \in Leases, Wanted(l)'
  PROVE  ShownFit(l)'
<1> DEFINE p == lease[l].phase
           q == lease'[l].phase
           s == Lease(l).phase
           t == Lease(l)'.phase
<1>1. Books /\ ShownFit(l)
  BY WantedBefore DEF CapacityInv
<1>2. Lease(l)' = Lease(l) \/ Lease(l)' = lease'[l]
  BY <1>1, Views
<1>3. ~ lease'[l].release /\ ~ lease'[l].deleting
  BY PhasesAre
<1>4. ~ Lease(l)'.release /\ ~ Lease(l)'.deleting
  BY <1>1, <1>2, <1>3 DEF ShownFit
<1>5. Binds(l) => s \notin {"Absent", "New"}
  BY <1>1 DEF Binds, BindStatus, ShownFit, Admitting
<1>6. /\ q = "Absent" => t = "Absent"
      /\ q = "New" => t \in {"Absent", "New"}
      /\ q = "Pending" => t \in {"New", "Pending"}
      /\ q = "Running" => t \in {"Pending", "Running"}
  <2>1. t = s \/ t = q
    BY <1>2
  <2>2. /\ p = "Absent" => s = "Absent"
        /\ p = "New" => s \in {"Absent", "New"}
        /\ p = "Pending" => s \in {"New", "Pending"}
        /\ p = "Running" => s \in {"Pending", "Running"}
    BY <1>1 DEF ShownFit
  <2>3. \/ q = p
        \/ p = "Absent" /\ s = "Absent" /\ q = "New"
        \/ p = "New" /\ s = "New" /\ q = "Pending"
        \/ q \in Over
        \/ p = "Pending" /\ q = "Running" /\ s \notin {"Absent", "New"}
    BY <1>5, PhasesAre
  <2> QED
    BY <2>1, <2>2, <2>3 DEF Over
<1>7. at' \in Admitting /\ cur' = l => t \notin {"Absent", "New"}
  <2>1. at \in Admitting /\ cur = l => s \notin {"Absent", "New"}
    BY <1>1 DEF ShownFit
  <2>2. at' \in Admitting /\ cur' = l => (at \in Admitting /\ cur = l) \/ s = "Pending"
    BY <1>1, StageMoves DEF flightVars, Ends, Admits, Cleans, Reserve, AllEvicted, Continue,
       interruptLease, StartInterrupt, Admitting
  <2> QED
    BY <2>1, <2>2, FurtherOn
<1>8. l \in victims' => t \notin {"Absent", "New", "Pending"}
  <2>1. l \in victims => s \notin {"Absent", "New", "Pending"}
    BY <1>1 DEF ShownFit
  <2>2. l \in victims' => l \in victims \/ s = "Running"
    BY <1>1, StageMoves DEF flightVars, Ends, Admits, Cleans, Reserve, AllEvicted, Continue,
       interruptLease, StartInterrupt
  <2> QED
    BY <2>1, <2>2, FurtherOn
<1> QED
  BY <1>3, <1>4, <1>6, <1>7, <1>8 DEF ShownFit, Lease

\* An eviction of l begins with the lease as it is.
Interrupts(l) ==
  /\ StartInterrupt(l) /\ at' = "interrupt" /\ victim' = l /\ victimSeen' = lease[l]
  /\ UNCHANGED lease

\* A reservation of a wanted lease that waits or runs stays, but for the eviction's first write.
LEMMA ListedUntilOver ==
  ASSUME CapacityInv, LeasingNext, NEW l \in Leases, Wanted(l)',
         l \in endpoint[EndpointOf[l]].active, lease[l].phase \in {"Pending", "Running"}
  PROVE  \/ l \in endpoint'[EndpointOf[l]].active
         \/ lease[l].phase = "Running" /\ Interrupts(l)
<1> DEFINE e == EndpointOf[l]
<1>1. Books /\ Existence /\ ShownFit(l)
  BY WantedBefore DEF CapacityInv
<1>2. /\ e \in Endpoints /\ lease[l] \in LeaseRecords /\ Lease(l) \in LeaseRecords
      /\ leaseCache[l] \in LeaseRecords
  BY <1>1, LeaseIs DEF Books, LeasingTypeOK
<1>3. Lease(l).phase \notin Over \cup {"Absent"} /\ ~ Lease(l).deleting /\ ~ Lease(l).release
  BY <1>1 DEF ShownFit, Over
<1>4. CASE \A f \in Endpoints : endpoint'[f].active = endpoint[f].active
  BY <1>2, <1>4
<1>5. ASSUME NEW f \in Endpoints, Reserved(f)
      PROVE  l \in endpoint'[e].active
  <2>1. CASE f = e
    <3>1. l \in Pruned(f)
      BY <1>3, <1>5, <2>1 DEF Reserved, Pruned, Live
    <3> QED
      BY <1>2, <1>5, <2>1, <3>1 DEF Reserved, Relisted
  <2>2. CASE f # e
    BY <1>2, <1>5, <2>2 DEF Reserved, Relisted
  <2> QED
    BY <2>1, <2>2
<1>6. ASSUME NEW k \in Leases, k # l, Drops(k)
      PROVE  l \in endpoint'[e].active
  BY <1>2, <1>6 DEF Drops, Relisted
<1>7. CASE Drops(l)
  <2>1. StartInterrupt(l)
    BY <1>3, <1>7 DEF Drops, StartRelease, StartFinalize
  <2>2. at = "evict" /\ l \in victims /\ UNCHANGED lease
    BY <2>1 DEF StartInterrupt
  <2>3. Lease(l).phase = "Running" /\ lease[l].phase = "Running"
    BY <1>1, <1>3, <2>2 DEF ShownFit, Over
  <2>4. lease[l].bound /\ Lease(l).bound
    BY <2>3 DEF CapacityInv, Coherence, Coherent, Lease
  <2>5. Lease(l) = lease[l]
    <3>1. lease[l] = [phase |-> "Running", bound |-> TRUE, release |-> FALSE, deleting |-> FALSE]
      BY <1>1, <1>2, <2>3, <2>4 DEF ShownFit, LeaseRecords
    <3>2. Lease(l) = [phase |-> "Running", bound |-> TRUE, release |-> FALSE, deleting |-> FALSE]
      BY <1>2, <1>3, <2>3, <2>4 DEF LeaseRecords
    <3> QED
      BY <3>1, <3>2
  <2>6. at' = "interrupt" /\ victim' = l /\ victimSeen' = lease[l]
    BY <2>1, <2>3, <2>5 DEF StartInterrupt
  <2> QED
    BY <2>1, <2>2, <2>3, <2>6 DEF Interrupts
<1> QED
  BY <1>1, <1>4, <1>5, <1>6, <1>7, ListMoves

\* Who is listed was listed or makes its reservation.
LEMMA ListedBefore ==
  ASSUME CapacityInv, LeasingNext, NEW l \in Leases, l \in endpoint'[EndpointOf[l]].active
  PROVE  l \in endpoint[EndpointOf[l]].active \/ (at \in Admitting /\ cur = l)
<1>1. Books /\ Existence /\ EndpointOf[l] \in Endpoints
  BY LeaseIs DEF CapacityInv
<1>2. ASSUME NEW f \in Endpoints, Reserved(f)
      PROVE  l \in endpoint[EndpointOf[l]].active \/ (at \in Admitting /\ cur = l)
  BY <1>1, <1>2 DEF Reserved, Reserve, Relisted, Pruned, Admitting
<1>3. ASSUME NEW k \in Leases, Drops(k)
      PROVE  l \in endpoint[EndpointOf[l]].active
  BY <1>1, <1>3 DEF Drops, Relisted
<1> QED
  BY <1>1, <1>2, <1>3, ListMoves

\* A wanted lease is listed when it is bound, and until it is over.
LEMMA KeptListedStep ==
  ASSUME ~ CutOff, CapacityInv, LeasingNext, NEW l \in Leases, Wanted(l)'
  PROVE  KeptListed(l)'
<1> DEFINE e == EndpointOf[l]
           A == endpoint[e].active
           B == Endpoint(e).active
           Bn == Endpoint(e)'.active
           p == lease[l].phase
           s == Lease(l).phase
<1>1. Books /\ StagesFit /\ ShownFit(l) /\ KeptListed(l) /\ e \in Endpoints
  BY WantedBefore, LeaseIs DEF CapacityInv
<1>2. Endpoint(e)' = Endpoint(e) \/ Endpoint(e)' = endpoint'[e]
  BY <1>1, Views
<1>3. l \in endpoint'[e].active \/ l \in Bn => Lease(l)'.phase \notin {"Absent", "New"}
  <2>1. l \in A \/ l \in B \/ (at \in Admitting /\ cur = l) => s \notin {"Absent", "New"}
    BY <1>1 DEF KeptListed, ShownFit
  <2>2. l \in endpoint'[e].active \/ l \in Bn => l \in A \/ l \in B \/ (at \in Admitting /\ cur = l)
    BY <1>2, ListedBefore
  <2> QED
    BY <2>1, <2>2, FurtherOn
<1>4. ASSUME l \in A, p = "Pending"
      PROVE  l \in endpoint'[e].active
  BY <1>4, ListedUntilOver
<1>5. lease'[l].phase \in {"New", "Pending"} /\ l \in Bn => l \in endpoint'[e].active
  <2> SUFFICES ASSUME lease'[l].phase \in {"New", "Pending"}, l \in B
               PROVE  l \in endpoint'[e].active
    BY <1>2
  <2>1. s \notin {"Absent", "New"}
    BY <1>1 DEF KeptListed
  <2>2. p = "Pending"
    BY <1>1, <2>1, PhasesAre DEF ShownFit, Over
  <2>3. l \in A
    BY <1>1, <2>2 DEF KeptListed
  <2> QED
    BY <1>4, <2>2, <2>3
<1>6. at' = "status" /\ cur' = l /\ lease'[l].phase = "Pending" => l \in endpoint'[e].active
  <2> SUFFICES ASSUME at' = "status", cur' = l, lease'[l].phase = "Pending"
               PROVE  l \in endpoint'[e].active
    OBVIOUS
  <2>1. (UNCHANGED flightVars /\ at = "status" /\ cur = l) \/ Reserve
    BY <1>1, StageMoves DEF flightVars, Ends, Admits, Cleans, AllEvicted, Continue,
       interruptLease, StartInterrupt
  <2>2. CASE at = "status" /\ cur = l
    <3>1. p = "Pending"
      BY <2>2, PhasesAre DEF Over
    <3>2. l \in A
      BY <1>1, <2>2, <3>1 DEF KeptListed
    <3> QED
      BY <1>4, <3>1, <3>2
  <2>3. CASE Reserve
    <3>1. cur = l /\ lease' = lease
      BY <2>3 DEF Reserve, Continue
    <3>2. \/ UNCHANGED endpoint /\ l \in B
          \/ Lists(e, Pruned(e) \cup {l}) /\ Pruned(e) \cup {l} \subseteq Leases
      BY <1>1, <2>3, <3>1, ReserveIs
    <3>3. CASE UNCHANGED endpoint /\ l \in B
      BY <1>1, <3>1, <3>3 DEF KeptListed
    <3>4. CASE Lists(e, Pruned(e) \cup {l}) /\ Pruned(e) \cup {l} \subseteq Leases
      BY <1>1, <3>4, ListsKeeps
    <3> QED
      BY <3>2, <3>3, <3>4
  <2> QED
    BY <2>1, <2>2, <2>3
<1>7. lease'[l].phase = "Running" => l \in endpoint'[e].active \/ Giving(l)'
  <2> SUFFICES ASSUME lease'[l].phase = "Running"
               PROVE  l \in endpoint'[e].active \/ Giving(l)'
    OBVIOUS
  <2>1. (p = "Running" /\ Keeps(l)) \/ (p = "Pending" /\ Binds(l))
    BY PhasesAre DEF Over
  <2>2. CASE p = "Pending" /\ Binds(l)
    <3>1. l \in A
      BY <1>1, <2>2 DEF Binds, BindStatus, KeptListed
    <3> QED
      BY <1>4, <2>2, <3>1
  <2>3. CASE p = "Running" /\ Keeps(l) /\ l \in A
    <3>1. Interrupts(l) => Giving(l)'
      BY DEF Interrupts, Giving
    <3> QED
      BY <2>3, <3>1, ListedUntilOver
  <2>4. CASE p = "Running" /\ Keeps(l) /\ Giving(l)
    <3>1. at = "interrupt" /\ victim = l /\ lease[l] = victimSeen /\ lease'[l] = lease[l]
      BY <2>4 DEF Giving, Keeps
    <3>2. ~ Ends
      BY <3>1 DEF Ends, CutOff
    <3>3. ~ interruptLease
      <4> SUFFICES ASSUME interruptLease PROVE FALSE
        OBVIOUS
      <4>1. lease' = [lease EXCEPT ![l] = [victimSeen EXCEPT !.phase = "Interrupted"]]
        BY <3>1 DEF interruptLease, SetPhase
      <4>2. lease \in [Leases -> LeaseRecords] /\ victimSeen \in LeaseRecords
        BY <1>1 DEF Books, LeasingTypeOK
      <4>3. lease'[l].phase = "Interrupted"
        BY <4>1, <4>2 DEF LeaseRecords
      <4> QED
        BY <4>3
    <3>4. UNCHANGED flightVars
      BY <1>1, <3>1, <3>2, <3>3, StageMoves DEF Admits, Cleans, Reserve, AllEvicted,
         StartInterrupt
    <3> QED
      BY <3>1, <3>4 DEF Giving, flightVars
  <2>5. p = "Running" => l \in A \/ Giving(l)
    BY <1>1 DEF KeptListed
  <2> QED
    BY <2>1, <2>2, <2>3, <2>4, <2>5
<1> QED
  BY <1>3, <1>5, <1>6, <1>7 DEF KeptListed, Lease, Endpoint

\* The reservations fit after every step, with a lease that is just being evicted.
LEMMA ReservationsFitStep ==
  ASSUME CapacityInv, LeasingNext
  PROVE  ReservationsFit'
<1>1. Books /\ Existence /\ endpoint \in [Endpoints -> EndpointRecords]
  BY DEF CapacityInv, Books, LeasingTypeOK
<1>2. \A e \in Endpoints : /\ endpoint[e].active \subseteq Leases
                           /\ Total(endpoint[e].active) <= Cap[e]
  BY <1>1 DEF CapacityInv, ReservationsFit, EndpointRecords
<1>3. \A e \in Endpoints : Cap[e] \in Nat
  BY CapacityAssumption
<1>4. ASSUME NEW e \in Endpoints, NEW S, S \subseteq endpoint[e].active
      PROVE  Total(S) <= Cap[e]
  <2>1. Total(S) <= Total(endpoint[e].active)
    BY <1>2, <1>4, TotalGrows
  <2>2. S \subseteq Leases
    BY <1>2, <1>4
  <2>3. Total(S) \in Nat /\ Total(endpoint[e].active) \in Nat
    BY <1>2, <2>2, AskedIsFinite
  <2> QED
    BY <1>2, <1>3, <2>1, <2>3
<1>5. ASSUME NEW e \in Endpoints
      PROVE  Total(endpoint'[e].active) <= Cap[e]
  <2>1. CASE \A f \in Endpoints : endpoint'[f].active = endpoint[f].active
    BY <1>2, <2>1
  <2>2. ASSUME NEW f \in Endpoints, Reserved(f)
        PROVE  Total(endpoint'[e].active) <= Cap[e]
    <3>1. CASE e # f
      BY <1>2, <2>2, <3>1 DEF Reserved, Relisted
    <3>2. CASE e = f /\ cur \notin Pruned(e)
      BY <2>2, <3>2 DEF Reserved, Relisted
    <3>3. CASE e = f /\ cur \in Pruned(e)
      <4>1. endpoint'[e].active = Pruned(e) \cup {cur} /\ Endpoint(e) = endpoint[e]
        BY <2>2, <3>3 DEF Reserved, Relisted
      <4>2. Pruned(e) \subseteq endpoint[e].active
        BY <4>1 DEF Pruned
      <4>3. endpoint'[e].active \subseteq endpoint[e].active
        BY <3>3, <4>1, <4>2
      <4> QED
        BY <1>4, <4>3
    <3> QED
      BY <3>1, <3>2, <3>3
  <2>3. ASSUME NEW l \in Leases, Drops(l)
        PROVE  Total(endpoint'[e].active) <= Cap[e]
    <3>1. endpoint'[e].active \subseteq endpoint[e].active
      BY <2>3 DEF Drops, Relisted
    <3> QED
      BY <1>4, <3>1
  <2> QED
    BY <1>1, <2>1, <2>2, <2>3, ListMoves
<1>6. ASSUME NEW l \in Leases, Wanted(l)', Giving(l)', lease'[l].phase = "Running"
      PROVE  Total(endpoint'[EndpointOf[l]].active \cup {l}) <= Cap[EndpointOf[l]]
  <2> DEFINE e == EndpointOf[l]
  <2>1. Wanted(l) /\ e \in Endpoints /\ KeptListed(l)
    BY <1>1, <1>6, WantedBefore, LeaseIs DEF CapacityInv
  <2>2. at' = "interrupt" /\ victim' = l /\ lease'[l] = victimSeen'
    BY <1>6 DEF Giving
  <2>3. (lease'[l] = lease[l] /\ lease[l].phase = "Running") \/ Binds(l)
    BY <1>6, PhasesAre DEF Over, Keeps
  <2>4. CASE at = "interrupt" /\ UNCHANGED flightVars /\ \A v \in Leases : ~ StartInterrupt(v)
    <3>1. ~ Binds(l) /\ ~ Reserve
      BY <2>4 DEF Binds, BindStatus, Reserve
    <3>2. victim = l /\ lease[l] = victimSeen
      BY <2>2, <2>3, <2>4, <3>1 DEF flightVars
    <3>3. Giving(l) /\ lease[l].phase = "Running"
      BY <2>3, <2>4, <3>1, <3>2 DEF Giving
    <3>4. Total(endpoint[e].active \cup {l}) <= Cap[e]
      BY <2>1, <3>3 DEF CapacityInv, ReservationsFit
    <3>5. \A k \in Leases : ~ Drops(k)
      BY <2>4 DEF Drops, StartRelease, Reconciling, StartFinalize
    <3>6. endpoint'[e].active = endpoint[e].active
      BY <1>1, <2>1, <3>1, <3>5, ListMoves DEF Reserved
    <3> QED
      BY <3>4, <3>6
  <2>5. ASSUME NEW v \in Leases, StartInterrupt(v)
        PROVE  Total(endpoint'[e].active \cup {l}) <= Cap[e]
    <3>1. at = "evict" /\ UNCHANGED lease
      BY <2>5 DEF StartInterrupt
    <3>2. lease[l].phase = "Running" /\ ~ Giving(l)
      BY <1>6, <3>1 DEF Giving
    <3>3. l \in endpoint[e].active
      BY <2>1, <3>2 DEF KeptListed
    <3>4. ~ Reserve
      BY <3>1 DEF Reserve
    <3>5. endpoint'[e].active \subseteq endpoint[e].active
      BY <1>1, <2>1, <3>4, ListMoves DEF Drops, Relisted, Reserved
    <3>6. endpoint'[e].active \cup {l} \subseteq endpoint[e].active
      BY <3>3, <3>5
    <3> QED
      BY <1>4, <2>1, <3>6
  <2>6. \/ at = "interrupt" /\ UNCHANGED flightVars /\ \A v \in Leases : ~ StartInterrupt(v)
        \/ \E v \in Leases : StartInterrupt(v)
    BY <1>1, <2>2, StageMoves DEF flightVars, Ends, Admits, Cleans, Reserve, AllEvicted,
       Continue, interruptLease
  <2> QED
    BY <2>4, <2>5, <2>6
<1> QED
  BY <1>5, <1>6 DEF ReservationsFit

\* Nothing is reserved at first.
LEMMA CapacityInit == LeasingInit => CapacityInv
<1> SUFFICES ASSUME LeasingInit PROVE CapacityInv
  OBVIOUS
<1>1. Books
  BY BooksInit
<1>2. \A l \in Leases : lease[l] = AbsentLease /\ leaseCache[l] = AbsentLease
  BY DEF LeasingInit
<1>3. \A e \in Endpoints : endpoint[e] = AbsentEndpoint /\ endpointCache[e] = AbsentEndpoint
  BY DEF LeasingInit
<1>4. at = "idle" /\ victims = {}
  BY DEF LeasingInit
<1>5. StagesFit
  BY <1>4 DEF StagesFit, Admitting
<1>6. Coherence
  BY <1>2 DEF Coherence, Coherent, AbsentLease
<1>7. Existence
  BY <1>3 DEF Existence, Endpoint, AbsentEndpoint
<1>8. ReservationsFit
  BY <1>3, <1>4, TotalOfNone, CapacityAssumption DEF ReservationsFit, AbsentEndpoint, Giving
<1>9. \A l \in Leases : ShownFit(l)
  BY <1>2, <1>4 DEF ShownFit, Lease, AbsentLease, Admitting
<1>10. \A l \in Leases : KeptListed(l)
  <2>1. \A l \in Leases : EndpointOf[l] \in Endpoints
    BY LeasesAssumption
  <2> QED
    BY <1>2, <1>3, <1>4, <2>1 DEF KeptListed, Endpoint, AbsentLease, AbsentEndpoint
<1> QED
  BY <1>1, <1>5, <1>6, <1>7, <1>8, <1>9, <1>10 DEF CapacityInv

\* What the capacity rests on survives every step.
LEMMA CapacityStep ==
  CapacityInv /\ [LeasingNext]_leasingVars /\ [~ CutOff]_leasingVars => CapacityInv'
<1>1. ASSUME CapacityInv, LeasingNext, ~ CutOff
      PROVE  CapacityInv'
  <2>1. Books /\ StagesFit /\ Coherence /\ Existence
    BY <1>1 DEF CapacityInv
  <2>2. Books'
    BY <1>1, <2>1, BooksStep
  <2>3. StagesFit' /\ Coherence' /\ Existence'
    BY <1>1, <2>1, StagesFitStep, CoherenceStep, ExistenceStep
  <2>4. ReservationsFit'
    BY <1>1, ReservationsFitStep
  <2>5. ASSUME NEW l \in Leases, Wanted(l)'
        PROVE  ShownFit(l)' /\ KeptListed(l)'
    BY <1>1, <2>5, ShownFitStep, KeptListedStep
  <2> QED
    BY <2>2, <2>3, <2>4, <2>5 DEF CapacityInv
<1>2. ASSUME CapacityInv, UNCHANGED leasingVars
      PROVE  CapacityInv'
  <2>1. UNCHANGED <<lease, endpoint, leaseCache, endpointCache, run, at, cur, seen, victims,
                    victim, victimSeen>>
    BY <1>2 DEF leasingVars, objectVars, cacheVars, runVars, flightVars
  <2>2. Books'
    BY <1>2, BooksStep DEF CapacityInv
  <2>3. StagesFit' /\ Coherence' /\ Existence'
    BY <1>2, <2>1 DEF CapacityInv, StagesFit, Coherence, Existence, Endpoint
  <2>4. \A l \in Leases : /\ Wanted(l)' <=> Wanted(l)
                          /\ Giving(l)' <=> Giving(l)
    BY <2>1 DEF Wanted, Giving
  <2>5. ReservationsFit'
    BY <1>2, <2>1, <2>4 DEF CapacityInv, ReservationsFit
  <2>6. ASSUME NEW l \in Leases, Wanted(l)'
        PROVE  ShownFit(l)' /\ KeptListed(l)'
    <3>1. ShownFit(l) /\ KeptListed(l)
      BY <1>2, <2>4, <2>6 DEF CapacityInv
    <3>2. ShownFit(l)'
      BY <2>1, <3>1 DEF ShownFit, Lease
    <3>3. KeptListed(l)'
      BY <2>1, <2>4, <3>1 DEF KeptListed, Lease, Endpoint
    <3> QED
      BY <3>2, <3>3
  <2> QED
    BY <2>2, <2>3, <2>5, <2>6 DEF CapacityInv
<1> QED
  BY <1>1, <1>2

\* The leases that runs work on are listed, but for one that is being evicted.
LEMMA WorkIsListed == CapacityInv => AdmittedWorkFits
<1> SUFFICES ASSUME CapacityInv, NEW e \in Endpoints
             PROVE  Total({l \in Leases : /\ EndpointOf[l] = e
                                          /\ run[l] = "Working"
                                          /\ lease[l].phase = "Running"}) <= Cap[e]
  BY DEF AdmittedWorkFits
<1> DEFINE W == {l \in Leases : /\ EndpointOf[l] = e
                                /\ run[l] = "Working" /\ lease[l].phase = "Running"}
           A == endpoint[e].active
<1>1. \A l \in W : l \in A \/ Giving(l)
  BY DEF CapacityInv, Wanted, KeptListed
<1>2. A \subseteq Leases /\ Total(A) <= Cap[e] /\ Cap[e] \in Nat
  BY EndpointIs, CapacityAssumption DEF CapacityInv, ReservationsFit, EndpointRecords
<1>3. ASSUME NEW T, T \subseteq Leases, W \subseteq T, Total(T) <= Cap[e]
      PROVE  Total(W) <= Cap[e]
  <2>1. Total(W) <= Total(T)
    BY <1>3, TotalGrows
  <2>2. Total(W) \in Nat /\ Total(T) \in Nat
    BY <1>3, AskedIsFinite
  <2> HIDE DEF W
  <2> QED
    BY <1>2, <1>3, <2>1, <2>2
<1>4. CASE \E l \in W : Giving(l)
  <2>1. PICK l \in W : Giving(l)
    BY <1>4
  <2>2. \A k \in W : Giving(k) => k = l
    BY <2>1 DEF Giving
  <2>3. W \subseteq A \cup {l} /\ A \cup {l} \subseteq Leases
    BY <1>1, <1>2, <2>2
  <2>4. Total(A \cup {l}) <= Cap[e]
    BY <2>1 DEF CapacityInv, ReservationsFit, Wanted
  <2> QED
    BY <1>3, <2>3, <2>4
<1>5. CASE \A l \in W : ~ Giving(l)
  <2>1. W \subseteq A
    BY <1>1, <1>5
  <2> QED
    BY <1>2, <1>3, <2>1
<1> QED
  BY <1>4, <1>5

\* As long as no eviction is cut off between its two writes, the runs that work on an
\* endpoint ask for no more than it has: whatever the caches show, wherever else a
\* reconciliation is cut off, and however runs, leases and pods end.
THEOREM AdmittedFits ==
  LeasingSpec /\ [][~ CutOff]_leasingVars => []AdmittedWorkFits
<1>1. CapacityInv /\ [LeasingNext]_leasingVars /\ [~ CutOff]_leasingVars => CapacityInv'
  BY CapacityStep
<1> QED
  BY <1>1, CapacityInit, WorkIsListed, PTL DEF LeasingSpec
=============================================================================
