---- MODULE UtilityEffects_proofs ----
EXTENDS UtilityEffects, FiniteSetTheorems, SequenceTheorems, TLAPS

-----------------------------------------------------------------------------
(* The inductive invariant.                                                 *)

\* The operations that come after an accepted test, and those that publish.
Late == {"commit", "push", "build", "request", "merge"}
Ends == {"request", "merge"}

\* A tree of the source: what somebody pushed to it changes other files.
Plain(t) == t["code"] = 0 /\ t["test"] = 0 /\ t["upstream"] \in {0, 1}

\* The merges among the commits.
Merges == {c \in Commits : Cardinality(commits[c].parents) > 1}

\* History is a function defined by its own values.  That there is one, and only one, is an
\* invariant of the commits: every new one has its parents among those that exist.
Reach(cs, h, c) == {c} \cup UNION {h[p] : p \in cs[c].parents}
Histories(cs, h) == h = [c \in 1..Len(cs) |-> Reach(cs, h, c)]
IsHistory(cs, h) == Histories(cs, h) /\ \A g : Histories(cs, g) => g = h
Determined(cs) == \E h : IsHistory(cs, h)

\* Evidence names commits and images that exist.
Ranges(e) ==
  /\ e.source \in 0..Len(commits) /\ e.revision \in 0..Len(commits)
  /\ e.proof \in 0..Len(commits) /\ e.image \in 0..Len(images)

\* TypeOK with the commits and images that the artifacts name.
Typed == TypeOK /\ Ranges(evidence) /\ Ranges(out)

\* Parents come before their children, and a history holds nothing newer.
Graph ==
  /\ Determined(commits)
  /\ \A c \in Commits : /\ commits[c].parents \subseteq 1..(c - 1)
                        /\ c \in History[c] /\ History[c] \subseteq 1..c

\* What the accepted artifacts are while an operation is active.
Through ==
  /\ (evidence.source # 0) <=> (op # "initialize")
  /\ evidence.prepared = IF op \in {"initialize", "prepare"} THEN NoTree ELSE Candidate(iter)
  /\ evidence.report = IF op \in Late THEN Candidate(iter) ELSE NoTree
  /\ (evidence.revision # 0) <=> (op \in Late \ {"commit"})
  /\ evidence.revision # 0 => Tree(evidence.revision) = Candidate(iter)
  /\ evidence.proof = IF op \in {"build"} \cup Ends THEN evidence.revision ELSE 0
  /\ (evidence.image # 0) <=> (op \in Ends)

\* A workflow is published on the artifact of the operation that publishes.
Ending ==
  /\ op \in Ends => op = plan
  /\ outcome = "published" => op = plan /\ evidence.final # 0
  /\ evidence.final # 0 => /\ outcome = "published"
                           /\ plan = "merge" => Merges = {evidence.final}
                           /\ plan = "request" => requests # <<>>

\* The source has nothing of a candidate in it; before it is fetched nobody has the candidate.
Sources ==
  /\ op = "initialize" => \A c \in Commits : Plain(Tree(c))
  /\ \A c \in 1..evidence.source : Plain(Tree(c))
  /\ op # "initialize" => origin = evidence.source
  /\ remote["target"] # 0
  /\ op = "initialize" => remote["candidate"] = 0
  /\ op \in {"build"} \cup Ends => remote["candidate"] # 0

\* What a job recorded under a key is the candidate of that key.
Markers == \A i \in 1..MaxIterations :
             markers[i] # NoTree => op # "initialize" /\ markers[i] = Candidate(i)

\* HEAD is the branch that is checked out, and which one that is the operation says.
Branched ==
  /\ branch # "detached" => head = refs[branch]
  /\ op = "initialize" => branch = "detached"
  /\ op \in {"test", "commit", "push", "build", "request"} => branch = "candidate"
  /\ op = "merge" => branch \in {"candidate", "target"}
  /\ branch = "target" => op = "merge"

\* What others edited and is not committed can be seen in the index or in the worktree.
Edited ==
  /\ \A f \in Files : Tree(head)[f] = Foreign => index[f] = Foreign
  /\ op \in {"test", "commit"} => \A f \in Files : work[f] \in {index[f], Foreign}

\* There is one candidate commit, and the artifacts name no other.
OwnOne ==
  /\ \A c \in Own : commits[c].key = iter /\ Tree(c) = Candidate(iter)
  /\ \A c, d \in Own : c = d
  /\ op \notin Late => Own = {}
  /\ evidence.revision # 0 => Own \subseteq {evidence.revision}

\* m merges the candidate; there is no other merge.
Merged(m) ==
  /\ m # 0 /\ Merges = {m} /\ evidence.revision \in History[m]
  /\ \A f \in Files : Tree(m)[f] # Foreign

\* The target branch is where the source is, or holds the merge.
MergeOne ==
  /\ refs["target"] # 0 => op = "merge"
  /\ (Merges = {} /\ refs["target"] \in {0, evidence.source}) \/ Merged(refs["target"])

\* There is one merge request, and one for another commit means the branch has moved.
RequestOne ==
  /\ Len(requests) <= 1
  /\ requests # <<>> => op = "request"
  /\ \A n \in Requests :
       requests[n].head # evidence.revision => remote["candidate"] # evidence.revision

\* Where the job of an operation can be.
Stages(o) ==
  {"idle", "done"} \cup
     CASE o = "initialize" -> {"fetch", "checkout"}
       [] o = "prepare" -> {"marker", "snapshot", "adding", "restore", "restoring", "branch",
                            "apply"}
       [] o = "test" -> {"verify", "testing"}
       [] o = "commit" -> {"commit", "committing"}
       [] o = "push" -> {"push", "pushing", "confirm"}
       [] o = "build" -> {"build", "building", "record"}
       [] o = "request" -> {"find", "refcheck", "post", "refind", "confirm"}
       [] o = "merge" -> {"merge", "merging", "pushing", "confirm"}

\* The files of the candidate are written one by one into a clean base.
Applied ==
  /\ branch = "candidate" /\ head = Base
  /\ \A f \in {"code", "test"} : /\ work[f] \in {0, Accepted(iter)[f]}
                                 /\ index[f] \in {0, work[f]}
  /\ work["upstream"] = Tree(Base)["upstream"] /\ index["upstream"] = Tree(Base)["upstream"]

\* What the job has seen to before it came to a stage.
Located(s) ==
  /\ s = "checkout" => origin \in Commits
  /\ s = "restoring" => head = Base /\ \A f \in Files : work[f] # Foreign
  /\ s = "branch" => requireCleanBaseWorkspace
  /\ s = "apply" => Applied
  /\ s = "committing" => index = Candidate(iter) /\ Own = {}
  /\ s \in {"pushing", "confirm"} => /\ op = "push" => refs["candidate"] = evidence.revision
                                     /\ op = "merge" => Merged(refs["target"])
  /\ s = "record" => images # <<>>
  /\ s = "refcheck" => \A n \in Requests : Passed(n)
  /\ s = "post" => requests = <<>>
  /\ s = "merging" => Merges = {} /\ branch = "target" /\ head = Base

\* A job is where its operation takes it, and hands on nothing before it ends.
Reached ==
  /\ at \in Stages(op) /\ Located(at)
  /\ outcome # "open" => at = "idle"
  /\ at = "idle" => out = NoEvidence
  /\ at \notin {"idle", "done"} => out = evidence
  /\ at = "confirm" /\ op = "request" => seen \in Requests

\* What a job that has finished hands on.
Results(e) ==
  /\ op = "initialize" => e = [evidence EXCEPT !.source = origin] /\ origin \in Commits
  /\ op = "prepare" => /\ e = [evidence EXCEPT !.prepared = Candidate(iter)]
                       /\ work = index /\ branch = "candidate"
  /\ op = "test" => e = [evidence EXCEPT !.report = Candidate(iter)]
  /\ op = "commit" => /\ e = [evidence EXCEPT !.revision = e.revision]
                      /\ e.revision \in Commits /\ Tree(e.revision) = Candidate(iter)
                      /\ Own \subseteq {e.revision}
  /\ op = "push" => e = [evidence EXCEPT !.proof = evidence.revision] /\ remote["candidate"] # 0
  /\ op = "build" => e = [evidence EXCEPT !.image = e.image] /\ e.image # 0
  /\ op = "request" => /\ e = [evidence EXCEPT !.final = e.final] /\ e.final # 0
                       /\ requests # <<>>
  /\ op = "merge" => /\ e = [evidence EXCEPT !.final = refs["target"]]
                     /\ Merged(refs["target"])

\* The artifact that waits to be read is the result of the operation.
Handed == at = "done" => Results(out)

\* The parts about data, and the inductive invariant.
Data == /\ Graph /\ Through /\ Ending /\ Sources /\ Markers /\ Branched /\ Edited
        /\ OwnOne /\ MergeOne /\ RequestOne
Inv == Typed /\ Data /\ Reached /\ Handed

-----------------------------------------------------------------------------
(* Histories of commits.                                                    *)

\* History is the value CHOOSE gives for its equation.
LEMMA HistoryIs == History = CHOOSE h : Histories(commits, h)
  BY DEF History, Histories, Reach, Commits

\* Where there is one solution History is it.
LEMMA HistoryEquation ==
  ASSUME Determined(commits)
  PROVE  IsHistory(commits, History)
<1> DEFINE P(h) == Histories(commits, h)
<1>1. PICK h : P(h) /\ \A g : P(g) => g = h
  BY DEF Determined, IsHistory
<1> HIDE DEF P
<1>2. P(CHOOSE g : P(g))
  BY <1>1
<1>3. P(History)
  BY <1>2, HistoryIs DEF P
<1> QED
  BY <1>1, <1>3 DEF P, IsHistory

\* What a commit reaches depends on its parents alone.
LEMMA ReachAgrees ==
  ASSUME NEW cs, NEW ds, NEW h, NEW k, NEW c, cs[c].parents = ds[c].parents,
         \A p \in cs[c].parents : h[p] = k[p]
  PROVE  Reach(cs, h, c) = Reach(ds, k, c)
  BY DEF Reach

\* A solution of the equation, by its values, and back.
LEMMA HistoriesBy ==
  ASSUME NEW cs, NEW h, NEW n, n = Len(cs), DOMAIN h = 1..n,
         h = [c \in 1..n |-> h[c]],
         \A c \in 1..n : h[c] = Reach(cs, h, c)
  PROVE  Histories(cs, h)
  BY DEF Histories

\* The values of a solution.
LEMMA HistoriesAt ==
  ASSUME NEW cs, NEW h, Histories(cs, h)
  PROVE  /\ h = [c \in 1..Len(cs) |-> h[c]]
         /\ \A c \in 1..Len(cs) : h[c] = Reach(cs, h, c)
<1> DEFINE f == [c \in 1..Len(cs) |-> Reach(cs, h, c)]
<1>1. h = f
  BY DEF Histories
<1>2. DOMAIN f = 1..Len(cs) /\ \A c \in 1..Len(cs) : f[c] = Reach(cs, h, c)
  OBVIOUS
<1>3. f = [c \in 1..Len(cs) |-> f[c]]
  OBVIOUS
<1> HIDE DEF f
<1> QED
  BY <1>1, <1>2, <1>3

\* One more commit extends the solution, and in one way.
LEMMA Extended ==
  ASSUME NEW n \in Nat, NEW cs, NEW ds, Len(cs) = n, Len(ds) = n + 1,
         \A c \in 1..n : cs[c].parents = ds[c].parents,
         \A c \in 1..(n + 1) : ds[c].parents \subseteq 1..(c - 1),
         NEW h, IsHistory(cs, h)
  PROVE  \E k : IsHistory(ds, k) /\ \A c \in 1..n : k[c] = h[c]
<1> DEFINE k == [c \in 1..(n + 1) |-> IF c = n + 1 THEN Reach(ds, h, c) ELSE h[c]]
<1>1. /\ \A c \in 1..n : k[c] = h[c]
      /\ k[n + 1] = Reach(ds, h, n + 1)
      /\ DOMAIN k = 1..(n + 1) /\ k = [c \in 1..(n + 1) |-> k[c]]
  OBVIOUS
<1> HIDE DEF k
<1>2. \A c \in 1..(n + 1) : \A p \in ds[c].parents : p \in 1..n
  OBVIOUS
<1>3. Histories(ds, k)
  <2>1. ASSUME NEW c \in 1..n
        PROVE  k[c] = Reach(ds, k, c)
    <3>1. c \in 1..(n + 1) /\ cs[c].parents = ds[c].parents
      OBVIOUS
    <3>2. \A p \in cs[c].parents : h[p] = k[p]
      BY <1>1, <1>2, <3>1
    <3>3. Reach(cs, h, c) = Reach(ds, k, c)
      BY <3>1, <3>2, ReachAgrees
    <3> QED
      BY <1>1, <3>3, HistoriesAt DEF IsHistory
  <2>2. k[n + 1] = Reach(ds, k, n + 1)
    <3>1. n + 1 \in 1..(n + 1)
      OBVIOUS
    <3>2. \A p \in ds[n + 1].parents : h[p] = k[p]
      BY <1>1, <1>2, <3>1
    <3>3. Reach(ds, h, n + 1) = Reach(ds, k, n + 1)
      BY <3>2, ReachAgrees
    <3> QED
      BY <1>1, <3>3
  <2>3. \A c \in 1..(n + 1) : c \in 1..n \/ c = n + 1
    OBVIOUS
  <2>4. \A c \in 1..(n + 1) : k[c] = Reach(ds, k, c)
    BY <2>1, <2>2, <2>3
  <2> QED
    BY <1>1, <2>4, HistoriesBy
<1>4. ASSUME NEW g, Histories(ds, g)
      PROVE  g = k
  <2> DEFINE e == [c \in 1..n |-> g[c]]
  <2>1. DOMAIN e = 1..n /\ \A c \in 1..n : e[c] = g[c]
    OBVIOUS
  <2>2. e = [c \in 1..n |-> e[c]]
    OBVIOUS
  <2> HIDE DEF e
  <2>3. /\ g = [c \in 1..(n + 1) |-> g[c]]
        /\ \A c \in 1..(n + 1) : g[c] = Reach(ds, g, c)
    BY <1>4, HistoriesAt
  <2>4. ASSUME NEW c \in 1..n
        PROVE  e[c] = Reach(cs, e, c)
    <3>1. c \in 1..(n + 1) /\ cs[c].parents = ds[c].parents
      OBVIOUS
    <3>2. \A p \in cs[c].parents : e[p] = g[p]
      BY <1>2, <2>1, <3>1
    <3>3. Reach(cs, e, c) = Reach(ds, g, c)
      BY <3>1, <3>2, ReachAgrees
    <3>4. g[c] = Reach(ds, g, c)
      BY <2>3, <3>1
    <3> QED
      BY <2>1, <3>3, <3>4
  <2>5. Histories(cs, e)
    BY <2>1, <2>2, <2>4, HistoriesBy
  <2>6. e = h
    BY <2>5 DEF IsHistory
  <2>7. \A c \in 1..n : g[c] = k[c]
    BY <1>1, <2>1, <2>6
  <2>8. g[n + 1] = k[n + 1]
    <3>1. n + 1 \in 1..(n + 1)
      OBVIOUS
    <3>2. \A p \in ds[n + 1].parents : p \in 1..n
      BY <1>2, <3>1
    <3>3. \A p \in ds[n + 1].parents : g[p] = h[p]
      BY <2>1, <2>6, <3>2
    <3>4. Reach(ds, g, n + 1) = Reach(ds, h, n + 1)
      BY <3>3, ReachAgrees
    <3>5. g[n + 1] = Reach(ds, g, n + 1)
      BY <2>3, <3>1
    <3> QED
      BY <1>1, <3>4, <3>5
  <2>9. \A c \in 1..(n + 1) : g[c] = k[c]
    <3>1. \A c \in 1..(n + 1) : c \in 1..n \/ c = n + 1
      OBVIOUS
    <3> QED
      BY <2>7, <2>8, <3>1
  <2> QED
    BY <1>1, <2>3, <2>9
<1>5. IsHistory(ds, k)
  BY <1>3, <1>4 DEF IsHistory
<1> QED
  BY <1>1, <1>5

HistoryOf(cs) == CHOOSE h : Histories(cs, h)

\* The history after a step is that of the commits after it.
LEMMA HistoryNext == History' = HistoryOf(commits')
  BY DEF History, HistoryOf, Histories, Reach, Commits

\* It is the solution, where there is one.
LEMMA HistoryOfIs ==
  ASSUME NEW cs, NEW h, IsHistory(cs, h)
  PROVE  HistoryOf(cs) = h
<1> DEFINE P(g) == Histories(cs, g)
<1>1. P(h) /\ \A g : P(g) => g = h
  BY DEF IsHistory
<1> HIDE DEF P
<1>2. (CHOOSE g : P(g)) = h
  BY <1>1
<1> QED
  BY <1>2 DEF P, HistoryOf

\* The records that commits are.
CommitRecords == [tree : Trees, key : 0..MaxIterations, parents : SUBSET Nat]

\* The commits after a new one.
LEMMA Appended ==
  ASSUME Typed, NEW tree \in Trees, NEW key \in 0..MaxIterations, NEW parents \in SUBSET Commits,
         NewCommit(tree, key, parents)
  PROVE  /\ Len(commits) \in Nat /\ Len(commits)' = Len(commits) + 1
         /\ Commits' = Commits \cup {Len(commits) + 1}
         /\ commits' \in Seq(CommitRecords)
         /\ \A c \in Commits : commits'[c] = commits[c]
         /\ commits'[Len(commits) + 1] = [tree |-> tree, key |-> key, parents |-> parents]
<1> DEFINE r == [tree |-> tree, key |-> key, parents |-> parents]
<1>1. commits \in Seq(CommitRecords)
  BY DEF Typed, TypeOK, CommitRecords
<1>2. r \in CommitRecords
  BY DEF CommitRecords, Commits
<1>3. commits' = Append(commits, r)
  BY DEF NewCommit
<1> HIDE DEF r
<1>4. /\ Len(commits) \in Nat /\ Len(commits)' = Len(commits) + 1
      /\ commits' \in Seq(CommitRecords)
      /\ \A c \in 1..Len(commits) : commits'[c] = commits[c]
      /\ commits'[Len(commits) + 1] = r
  BY <1>1, <1>2, <1>3
<1> QED
  BY <1>4 DEF Commits, r

\* A new commit leaves every history alone, and its own holds those of its parents.
LEMMA Grown ==
  ASSUME Typed, Graph, NEW tree \in Trees, NEW key \in 0..MaxIterations,
         NEW parents \in SUBSET Commits,
         NewCommit(tree, key, parents)
  PROVE  /\ Graph'
         /\ \A c \in Commits : History'[c] = History[c]
         /\ \A p \in parents : History[p] \subseteq History'[Len(commits) + 1]
<1> DEFINE n == Len(commits)
<1>1. /\ n \in Nat /\ Len(commits)' = n + 1
      /\ Commits = 1..n /\ Commits' = 1..(n + 1)
      /\ \A c \in 1..n : commits'[c] = commits[c]
      /\ commits'[n + 1].parents = parents
  <2>1. /\ n \in Nat /\ Len(commits)' = n + 1
        /\ \A c \in Commits : commits'[c] = commits[c]
        /\ commits'[n + 1] = [tree |-> tree, key |-> key, parents |-> parents]
    BY Appended
  <2> QED
    BY <2>1 DEF Commits
<1> HIDE DEF n
<1>2. IsHistory(commits, History)
  BY HistoryEquation DEF Graph
<1>3. /\ \A c \in 1..n : /\ commits[c].parents = commits'[c].parents
                         /\ commits[c].parents \subseteq 1..(c - 1)
      /\ \A c \in 1..(n + 1) : commits'[c].parents \subseteq 1..(c - 1)
  <2>1. \A c \in 1..n : /\ commits[c].parents = commits'[c].parents
                       /\ commits[c].parents \subseteq 1..(c - 1)
    BY <1>1 DEF Graph
  <2>2. commits'[n + 1].parents \subseteq 1..((n + 1) - 1)
    BY <1>1
  <2>3. \A c \in 1..(n + 1) : c \in 1..n \/ c = n + 1
    BY <1>1
  <2> QED
    BY <2>1, <2>2, <2>3
<1>4. Len(commits) = n
  BY DEF n
<1>5. PICK k : IsHistory(commits', k) /\ \A c \in 1..n : k[c] = History[c]
  <2>1. Len(commits') = n + 1
    BY <1>1
  <2>2. \A c \in 1..n : commits[c].parents = commits'[c].parents
    BY <1>3
  <2>3. n \in Nat /\ Len(commits) = n
    BY <1>1, <1>4
  <2>4. \A c \in 1..(n + 1) : commits'[c].parents \subseteq 1..(c - 1)
    BY <1>3
  <2> QED
    BY <1>2, <2>1, <2>2, <2>3, <2>4, Extended, SMT
<1>6. History' = k
  BY <1>5, HistoryNext, HistoryOfIs
<1>7. Determined(commits)'
  BY <1>5 DEF Determined
<1>8. \A c \in Commits : History'[c] = History[c]
  BY <1>1, <1>5, <1>6
<1>9. History'[n + 1] = {n + 1} \cup UNION {History[p] : p \in parents}
  <2>1. k[n + 1] = Reach(commits', k, n + 1)
    BY <1>1, <1>5, HistoriesAt DEF IsHistory
  <2>2. \A p \in parents : k[p] = History[p]
    BY <1>1, <1>5
  <2>3. Reach(commits', k, n + 1) = {n + 1} \cup UNION {History[p] : p \in parents}
    BY <1>1, <2>2 DEF Reach
  <2> QED
    BY <1>6, <2>1, <2>3
<1>10. ASSUME NEW c \in 1..(n + 1)
       PROVE  c \in History'[c] /\ History'[c] \subseteq 1..c
  <2>1. CASE c \in 1..n
    BY <1>1, <1>8, <2>1 DEF Graph
  <2>2. CASE c = n + 1
    <3>1. \A p \in parents : History[p] \subseteq 1..(n + 1)
      BY <1>1 DEF Graph
    <3> QED
      BY <1>1, <1>9, <2>2, <3>1
  <2> QED
    BY <1>1, <2>1, <2>2
<1>11. Graph'
  BY <1>1, <1>3, <1>7, <1>10 DEF Graph
<1>12. \A p \in parents : History[p] \subseteq History'[n + 1]
  BY <1>9
<1> QED
  BY <1>4, <1>8, <1>11, <1>12

-----------------------------------------------------------------------------
(* The types, and what stays the same.                                      *)

\* The stages of TypeOK, and the requests.
Stage == {"idle", "fetch", "checkout", "marker", "snapshot", "adding", "restore",
             "restoring", "branch", "apply", "verify", "testing", "commit",
             "committing", "push", "pushing", "confirm", "build", "building",
             "record", "find", "refcheck", "post", "refind", "merge", "merging", "done"}
RequestRecords == [head : Commits, state : {"open", "closed", "merged"}]

\* The types, to be cited one by one.
LEMMA TypeFacts ==
  ASSUME Typed
  PROVE  /\ plan \in {"request", "merge"} /\ op \in Operations /\ at \in Stage
         /\ try \in 1..MaxTries /\ iter \in 1..MaxIterations
         /\ outcome \in {"open", "published", "failed"}
         /\ evidence \in Evidence /\ out \in Evidence
         /\ work \in Trees /\ index \in Trees
         /\ branch \in Branches \cup {"detached"} /\ head \in Commits
         /\ refs \in [Branches -> 0..Len(commits)] /\ origin \in 0..Len(commits)
         /\ commits \in Seq(CommitRecords)
         /\ snapshot \in {"absent", "partial", "clean"}
         /\ markers \in [1..MaxIterations -> Trees]
         /\ builds \in [1..MaxIterations -> 0..Len(images)] /\ images \in Seq(Trees)
         /\ remote \in [Branches -> 0..Len(commits)]
         /\ requests \in Seq(RequestRecords) /\ seen \in 0..Len(requests)
         /\ events \in 0..MaxEvents
  BY DEF Typed, TypeOK, Stage, CommitRecords, RequestRecords

\* The same of the next state.
LEMMA TypedNext ==
  ASSUME /\ plan' \in {"request", "merge"} /\ op' \in Operations /\ at' \in Stage
         /\ try' \in 1..MaxTries /\ iter' \in 1..MaxIterations
         /\ outcome' \in {"open", "published", "failed"}
         /\ evidence' \in Evidence /\ out' \in Evidence
         /\ work' \in Trees /\ index' \in Trees
         /\ branch' \in Branches \cup {"detached"} /\ head' \in Commits'
         /\ refs' \in [Branches -> 0..Len(commits')] /\ origin' \in 0..Len(commits')
         /\ commits' \in Seq(CommitRecords)
         /\ snapshot' \in {"absent", "partial", "clean"}
         /\ markers' \in [1..MaxIterations -> Trees]
         /\ builds' \in [1..MaxIterations -> 0..Len(images')] /\ images' \in Seq(Trees)
         /\ remote' \in [Branches -> 0..Len(commits')]
         /\ requests' \in Seq(RequestRecords') /\ seen' \in 0..Len(requests')
         /\ events' \in 0..MaxEvents
         /\ Ranges(evidence)' /\ Ranges(out)'
  PROVE  Typed'
  BY DEF Typed, TypeOK, Stage, CommitRecords, RequestRecords

\* The types of one commit.
LEMMA CommitFacts ==
  ASSUME Typed
  PROVE  /\ Len(commits) \in Nat /\ Commits = 1..Len(commits)
         /\ \A c \in Commits : /\ commits[c] \in CommitRecords /\ Tree(c) \in Trees
                               /\ Tree(c) = commits[c].tree
                               /\ commits[c].key \in 0..MaxIterations
<1>1. commits \in Seq(CommitRecords)
  BY TypeFacts
<1>2. \A c \in 1..Len(commits) : commits[c] \in CommitRecords
  BY <1>1
<1>3. \A r \in CommitRecords : r.tree \in Trees /\ r.key \in 0..MaxIterations
  BY DEF CommitRecords
<1> QED
  BY <1>1, <1>2, <1>3 DEF Commits, Tree

\* What follows from the assumption on the bounds.
LEMMA Bounds ==
  /\ MaxIterations \in Nat /\ 1 \in 1..MaxIterations /\ MaxTries \in Nat /\ 1 \in 1..MaxTries
  /\ MaxEvents \in Nat
  /\ Foreign \in Contents /\ Torn \in Contents /\ None \in Contents
  /\ 0 \in Contents /\ 1 \in Contents /\ 1..MaxIterations \subseteq Contents
  BY BoundsAssumption DEF Contents, Foreign, Torn, None

\* The types of the constants.
LEMMA Fixed ==
  /\ NoTree \in Trees /\ Source \in Trees /\ NoEvidence \in Evidence
  /\ NoTree["code"] = None /\ Plain(Source)
<1>1. NoTree \in Trees /\ Source \in Trees
  BY Bounds DEF NoTree, Source, Trees
<1>2. NoEvidence \in Evidence
  BY <1>1 DEF NoEvidence, Evidence
<1>3. NoTree["code"] = None /\ Plain(Source)
  BY DEF NoTree, Source, Files, Plain
<1> QED
  BY <1>1, <1>2, <1>3

\* A tree is a function of the files.
LEMMA TreeFacts ==
  ASSUME NEW t \in Trees
  PROVE  /\ DOMAIN t = Files /\ t["code"] \in Contents /\ t["test"] \in Contents
         /\ t["upstream"] \in Contents
         /\ \A f \in Files, v \in Contents : [t EXCEPT ![f] = v] \in Trees
         /\ \A u \in Trees : (\A f \in Files : t[f] = u[f]) => t = u
         /\ Plain(t) => \A f \in Files : t[f] # Foreign /\ t[f] # Torn /\ t[f] # None
<1>1. DOMAIN t = Files /\ \A f \in Files : t[f] \in Contents
  BY DEF Trees
<1>2. \A f \in Files, v \in Contents : [t EXCEPT ![f] = v] \in Trees
  BY DEF Trees
<1>3. \A u \in Trees : (\A f \in Files : t[f] = u[f]) => t = u
  BY DEF Trees
<1>4. Plain(t) => \A f \in Files : t[f] # Foreign /\ t[f] # Torn /\ t[f] # None
  BY DEF Plain, Files, Foreign, Torn, None
<1> QED
  BY <1>1, <1>2, <1>3, <1>4 DEF Files

\* The files of the accepted change sets.
LEMMA AcceptedFacts ==
  ASSUME NEW i
  PROVE  Accepted(i)["code"] = 1 /\ Accepted(i)["test"] = i /\ Accepted(i)["upstream"] = 0
  BY DEF Accepted, Files

\* The base is a commit of the source.
LEMMA BaseFacts ==
  ASSUME Typed, Through, Sources, op # "initialize"
  PROVE  /\ Base \in Commits /\ Tree(Base) \in Trees /\ Plain(Tree(Base))
<1>1. evidence.source # 0 /\ evidence.source \in 0..Len(commits) /\ Len(commits) \in Nat
  BY CommitFacts DEF Through, Typed, Ranges
<1> QED
  BY <1>1, CommitFacts DEF Base, Sources

\* The candidate of an iteration, file by file.
LEMMA CandidateFacts ==
  ASSUME Typed, Through, Sources, op # "initialize", NEW i \in 1..MaxIterations
  PROVE  /\ Candidate(i) \in Trees /\ Candidate(i)["code"] = 1 /\ Candidate(i)["test"] = i
         /\ Candidate(i)["upstream"] = Tree(Base)["upstream"]
         /\ Candidate(i) # NoTree
         /\ \A f \in Files : Candidate(i)[f] # Foreign
<1>1. /\ Candidate(i)["code"] = 1 /\ Candidate(i)["test"] = i
      /\ Candidate(i)["upstream"] = Tree(Base)["upstream"]
  BY AcceptedFacts DEF Candidate, Files
<1>2. Tree(Base)["upstream"] \in {0, 1}
  BY BaseFacts DEF Plain
<1>3. \A f \in Files : Candidate(i)[f] \in 0..MaxIterations
  BY <1>1, <1>2, Bounds DEF Files
<1>4. Candidate(i) \in Trees
  <2>1. Candidate(i) = [f \in Files |-> Candidate(i)[f]]
    BY DEF Candidate
  <2>2. 0..MaxIterations \subseteq Contents
    BY Bounds DEF Contents, None
  <2> QED
    BY <1>3, <2>1, <2>2 DEF Trees
<1>5. Candidate(i) # NoTree
  BY <1>1, Fixed DEF None
<1>6. \A f \in Files : Candidate(i)[f] # Foreign
  BY <1>3, Bounds DEF Foreign
<1> QED
  BY <1>1, <1>4, <1>5, <1>6

\* The same of the current iteration.
LEMMA CandidateIter ==
  ASSUME Typed, Through, Sources, op # "initialize"
  PROVE  /\ Candidate(iter) \in Trees /\ Candidate(iter)["code"] = 1
         /\ Candidate(iter)["test"] = iter
         /\ Candidate(iter)["upstream"] = Tree(Base)["upstream"]
         /\ Candidate(iter) # NoTree
         /\ \A f \in Files : Candidate(iter)[f] # Foreign
<1>1. iter \in 1..MaxIterations
  BY TypeFacts
<1> QED
  BY <1>1, CandidateFacts

\* Without a new commit all that depends on the commits stays.
LEMMA CommitsSame ==
  ASSUME commits' = commits
  PROVE  /\ Commits' = Commits /\ History' = History /\ Own' = Own /\ Merges' = Merges
         /\ \A c : Tree(c)' = Tree(c)
         /\ RequestRecords' = RequestRecords
<1>1. Commits' = Commits /\ History' = History /\ \A c : Tree(c)' = Tree(c)
  BY DEF Commits, History, Tree
<1>2. Own' = Own /\ Merges' = Merges
  BY <1>1 DEF Own, Merges
<1>3. RequestRecords' = RequestRecords
  BY <1>1 DEF RequestRecords
<1> QED
  BY <1>1, <1>2, <1>3

\* The candidate depends on the tree of the base.
LEMMA CandidateSame ==
  ASSUME evidence'.source = evidence.source,
         Tree(Base)' = Tree(Base)
  PROVE  /\ Base' = Base /\ \A i : Candidate(i)' = Candidate(i)
         /\ iter' = iter => Candidate(iter)' = Candidate(iter)
<1>1. Base' = Base
  BY DEF Base
<1>2. \A i : Candidate(i)' = Candidate(i)
  BY <1>1, Zenon DEF Candidate, Accepted
<1>3. iter' = iter => Candidate(iter)' = Candidate(iter)
  BY <1>1, Zenon DEF Candidate, Accepted
<1> QED
  BY <1>1, <1>2, <1>3

\* So it stays while no commit is made.
LEMMA Same ==
  ASSUME commits' = commits, evidence'.source = evidence.source
  PROVE  /\ Base' = Base /\ Tree(Base)' = Tree(Base)
         /\ \A i : Candidate(i)' = Candidate(i)
         /\ iter' = iter => Candidate(iter)' = Candidate(iter)
<1>1. Tree(Base)' = Tree(Base)
  BY DEF Tree, Base
<1> QED
  BY <1>1, CandidateSame DEF Base

\* And so does the merge.
LEMMA MergedSame ==
  ASSUME commits' = commits, evidence'.revision = evidence.revision
  PROVE  \A m : Merged(m)' = Merged(m)
<1>1. History' = History /\ Merges' = Merges /\ \A c : Tree(c)' = Tree(c)
  BY CommitsSame
<1> QED
  BY <1>1, Zenon DEF Merged

\* Each part of the invariant stays while what it speaks of stays: the graph,
LEMMA GraphSame ==
  ASSUME Graph, commits' = commits
  PROVE  Graph'
  BY CommitsSame DEF Graph, Determined

\* the accepted artifacts,
LEMMA ThroughSame ==
  ASSUME Through, op' = op, iter' = iter, evidence' = evidence, commits' = commits
  PROVE  Through'
<1>1. /\ Candidate(iter)' = Candidate(iter)
      /\ Tree(evidence.revision)' = Tree(evidence.revision)
  BY Same, CommitsSame
<1> QED
  BY <1>1 DEF Through, Tree

\* the source,
LEMMA SourcesSame ==
  ASSUME Sources, op' = op, evidence'.source = evidence.source, commits' = commits,
         origin' = origin, remote' = remote
  PROVE  Sources'
  BY CommitsSame DEF Sources, Tree

\* the markers,
LEMMA MarkersSame ==
  ASSUME Markers, op' = op, evidence'.source = evidence.source, commits' = commits,
         markers' = markers
  PROVE  Markers'
  BY Same DEF Markers

\* the candidate commit,
LEMMA OwnSame ==
  ASSUME OwnOne, op' = op, iter' = iter, evidence' = evidence, commits' = commits
  PROVE  OwnOne'
<1>1. Own' = Own /\ Candidate(iter)' = Candidate(iter) /\ \A c : Tree(c)' = Tree(c)
  BY Same, CommitsSame
<1> QED
  BY <1>1 DEF OwnOne, Tree

\* the merge,
LEMMA MergeSame ==
  ASSUME MergeOne, op' = op, evidence' = evidence, commits' = commits,
         refs'["target"] = refs["target"]
  PROVE  MergeOne'
<1>1. Merges' = Merges /\ Merged(refs["target"])' = Merged(refs["target"])
  <2>1. History' = History /\ Merges' = Merges /\ \A c : Tree(c)' = Tree(c)
    BY CommitsSame
  <2> QED
    BY <2>1 DEF Merged, Tree
<1> QED
  BY <1>1 DEF MergeOne

\* the requests,
LEMMA RequestsSame ==
  ASSUME RequestOne, op' = op, evidence' = evidence, remote' = remote, requests' = requests
  PROVE  RequestOne'
  BY DEF RequestOne, Requests

\* the end,
LEMMA EndingSame ==
  ASSUME Ending, op' = op, plan' = plan, evidence' = evidence, commits' = commits,
         requests' = requests, outcome' = outcome
  PROVE  Ending'
  BY CommitsSame DEF Ending

\* the branch,
LEMMA BranchedSame ==
  ASSUME Branched, op' = op, branch' = branch, head' = head, refs' = refs
  PROVE  Branched'
  BY DEF Branched

\* and the edits of others.
LEMMA EditedSame ==
  ASSUME Edited, op' = op, work' = work, index' = index, head' = head, commits' = commits
  PROVE  Edited'
  BY DEF Edited, Tree

\* The variables that Data speaks of.
dataVars == <<plan, op, iter, outcome, evidence, work, index, branch, head, refs, origin, commits,
              markers, remote, requests>>

\* A step that writes none of them keeps all its parts.
LEMMA DataSame ==
  ASSUME Data, UNCHANGED dataVars
  PROVE  Data'
<1>1. /\ plan' = plan /\ op' = op /\ iter' = iter /\ outcome' = outcome /\ evidence' = evidence
      /\ work' = work /\ index' = index /\ branch' = branch /\ head' = head /\ refs' = refs
      /\ origin' = origin /\ commits' = commits /\ markers' = markers /\ remote' = remote
      /\ requests' = requests
  BY DEF dataVars
<1>2. Graph' /\ Through' /\ Ending' /\ Sources' /\ Markers'
  BY <1>1, GraphSame, ThroughSame, EndingSame, SourcesSame, MarkersSame DEF Data
<1>3. Branched' /\ Edited' /\ OwnOne' /\ MergeOne' /\ RequestOne'
  BY <1>1, BranchedSame, EditedSame, OwnSame, MergeSame, RequestsSame DEF Data
<1> QED
  BY <1>2, <1>3 DEF Data

-----------------------------------------------------------------------------
(* How a job goes on, ends or is given up.                                  *)

\* The stages of every operation.
LEMMA StagesAre ==
  /\ Stages("initialize") = {"idle", "done", "fetch", "checkout"}
  /\ Stages("prepare") = {"idle", "done", "marker", "snapshot", "adding", "restore",
                          "restoring", "branch", "apply"}
  /\ Stages("test") = {"idle", "done", "verify", "testing"}
  /\ Stages("commit") = {"idle", "done", "commit", "committing"}
  /\ Stages("push") = {"idle", "done", "push", "pushing", "confirm"}
  /\ Stages("build") = {"idle", "done", "build", "building", "record"}
  /\ Stages("request") = {"idle", "done", "find", "refcheck", "post", "refind", "confirm"}
  /\ Stages("merge") = {"idle", "done", "merge", "merging", "pushing", "confirm"}
  BY DEF Stages

\* They are stages of TypeOK.
LEMMA StagesTyped ==
  ASSUME NEW o \in Operations
  PROVE  Stages(o) \subseteq Stage /\ "idle" \in Stages(o) /\ "done" \in Stages(o)
  BY StagesAre DEF Operations, Stage

\* The stage tells the operation.
LEMMA OpOf ==
  ASSUME Inv
  PROVE  /\ op \in Operations /\ at \in Stages(op)
         /\ at \in {"fetch", "checkout"} => op = "initialize"
         /\ at \in {"marker", "snapshot", "adding", "restore", "restoring", "branch", "apply"}
              => op = "prepare"
         /\ at \in {"verify", "testing"} => op = "test"
         /\ at \in {"commit", "committing"} => op = "commit"
         /\ at = "push" => op = "push"
         /\ at \in {"build", "building", "record"} => op = "build"
         /\ at \in {"find", "refcheck", "post", "refind"} => op = "request"
         /\ at \in {"merge", "merging"} => op = "merge"
         /\ at = "pushing" => op \in {"push", "merge"}
         /\ at = "confirm" => op \in {"push", "request", "merge"}
<1>1. op \in Operations /\ at \in Stages(op)
  BY TypeFacts DEF Inv, Reached
<1> QED
  BY <1>1, StagesAre DEF Operations

\* While there is a job the workflow is open.
LEMMA Busy ==
  ASSUME Inv, at # "idle"
  PROVE  /\ outcome = "open" /\ evidence.final = 0
         /\ at # "done" => out = evidence
  BY DEF Inv, Data, Reached, Ending

\* The types, when no data is written.
LEMMA QuietTyped ==
  ASSUME Typed, UNCHANGED dataVars, images' = images,
         at' \in Stage, try' \in 1..MaxTries, out' \in Evidence, Ranges(out)',
         snapshot' \in {"absent", "partial", "clean"},
         builds' \in [1..MaxIterations -> 0..Len(images)],
         seen' \in 0..Len(requests), events' \in 0..MaxEvents
  PROVE  Typed'
<1>1. /\ plan' = plan /\ op' = op /\ iter' = iter /\ outcome' = outcome /\ evidence' = evidence
      /\ work' = work /\ index' = index /\ branch' = branch /\ head' = head /\ refs' = refs
      /\ origin' = origin /\ commits' = commits /\ markers' = markers /\ remote' = remote
      /\ requests' = requests
  BY DEF dataVars
<1>2. Commits' = Commits /\ RequestRecords' = RequestRecords
  BY <1>1, CommitsSame
<1>3. Ranges(evidence)'
  BY <1>1 DEF Typed, Ranges
<1> QED
  BY <1>1, <1>2, <1>3, TypeFacts, TypedNext

\* No evidence names nothing.
LEMMA ZeroRanges ==
  ASSUME Typed, out' = NoEvidence, commits' = commits, images' = images
  PROVE  Ranges(out)'
<1>1. Len(commits) \in Nat /\ Len(images) \in Nat
  BY TypeFacts
<1>2. /\ NoEvidence.source = 0 /\ NoEvidence.revision = 0 /\ NoEvidence.proof = 0
      /\ NoEvidence.image = 0
  BY DEF NoEvidence
<1> QED
  BY <1>1, <1>2 DEF Ranges

\* A job that goes on keeps the invariant, if it has seen to what the next stage needs.
LEMMA GotoKeeps ==
  ASSUME Inv, at \notin {"idle", "done"}, NEW s, s \in Stages(op), s \notin {"idle", "done"},
         at' = s, UNCHANGED dataVars, try' = try, out' = out, images' = images,
         snapshot' = snapshot, builds' = builds, seen' \in 0..Len(requests),
         events' \in 0..MaxEvents, Located(s),
         s = "confirm" /\ op = "request" => seen' \in Requests
  PROVE  Inv'
<1>1. /\ op' = op /\ iter' = iter /\ outcome' = outcome /\ evidence' = evidence
      /\ work' = work /\ index' = index /\ branch' = branch /\ head' = head /\ refs' = refs
      /\ origin' = origin /\ commits' = commits /\ requests' = requests
  BY DEF dataVars
<1>2. s \in Stage
  BY OpOf, StagesTyped
<1>3. Ranges(out)'
  BY <1>1 DEF Inv, Typed, Ranges
<1>4. Typed'
  BY <1>2, <1>3, TypeFacts, QuietTyped DEF Inv
<1>5. Data'
  BY DataSame DEF Inv
<1>6. Located(at)'
  <2>1. /\ Commits' = Commits /\ Own' = Own /\ Merges' = Merges
        /\ Tree(Base)' = Tree(Base) /\ Base' = Base
        /\ Candidate(iter)' = Candidate(iter)
        /\ Merged(refs["target"])' = Merged(refs["target"])
    BY <1>1, CommitsSame, Same, MergedSame DEF Merged
  <2>2. requireCleanBaseWorkspace' = requireCleanBaseWorkspace
    BY <1>1, <2>1 DEF requireCleanBaseWorkspace
  <2>3. Applied' = Applied
    BY <1>1, <2>1 DEF Applied, Accepted
  <2>4. Requests' = Requests /\ \A n : Passed(n)' = Passed(n)
    BY <1>1 DEF Requests, Passed
  <2>5. at' = s
    OBVIOUS
  <2> QED
    BY <1>1, <2>1, <2>2, <2>3, <2>4, <2>5 DEF Located
<1>7. Reached'
  BY <1>1, <1>6 DEF Inv, Reached, Requests
<1>8. Handed'
  BY DEF Handed
<1> QED
  BY <1>4, <1>5, <1>7, <1>8 DEF Inv

\* A job that ends keeps it with a result of its operation.
LEMMA FinishKeeps ==
  ASSUME Inv, at \notin {"idle", "done"},
         at' = "done", UNCHANGED dataVars, try' = try, images' = images, snapshot' = snapshot,
         builds' \in [1..MaxIterations -> 0..Len(images)], seen' = seen, events' = events,
         out' \in Evidence, Ranges(out)', Results(out)'
  PROVE  Inv'
<1>1. op' = op /\ outcome' = outcome
  BY DEF dataVars
<1>2. Typed'
  BY TypeFacts, QuietTyped DEF Inv, Stage
<1>3. Data'
  BY DataSame DEF Inv
<1>4. Reached'
  <2>1. "done" \in Stages(op)
    BY OpOf, StagesTyped
  <2>2. Located(at)'
    BY DEF Located
  <2> QED
    BY <1>1, <2>1, <2>2, Busy DEF Reached
<1>5. Handed'
  BY DEF Handed
<1> QED
  BY <1>2, <1>3, <1>4, <1>5 DEF Inv

\* The job is gone, and the step is repeated, rewound or failed.
GivenUp ==
  /\ plan' = plan /\ at' = "idle" /\ out' = NoEvidence /\ seen' = 0
  /\ \/ RetryStep
     \/ op = "test" /\ Rewind
     \/ outcome' = "failed" /\ UNCHANGED <<op, try, iter, evidence>>

\* The step is tried again or the workflow fails; or a failed test starts an iteration.
LEMMA GivenUpCases ==
  ASSUME Inv, at # "idle", GivenUp
  PROVE  \/ /\ op' = op /\ iter' = iter /\ evidence' = evidence
            /\ try' \in 1..MaxTries /\ outcome' \in {"open", "failed"}
         \/ /\ op = "test" /\ op' = "prepare" /\ iter' = iter + 1 /\ iter' \in 1..MaxIterations
            /\ try' = 1 /\ outcome' = "open"
            /\ evidence' = [evidence EXCEPT !.prepared = NoTree]
<1>1. /\ try \in 1..MaxTries /\ iter \in 1..MaxIterations /\ outcome = "open"
      /\ MaxTries \in Nat /\ MaxIterations \in Nat
  BY TypeFacts, Busy, Bounds DEF Inv
<1>2. CASE op = "test" /\ Rewind
  BY <1>1, <1>2 DEF Rewind
<1>3. CASE RetryStep
  BY <1>1, <1>3 DEF RetryStep
<1>4. CASE outcome' = "failed" /\ UNCHANGED <<op, try, iter, evidence>>
  BY <1>1, <1>4
<1> QED
  BY <1>2, <1>3, <1>4 DEF GivenUp

\* A job that is gone keeps the invariant, and leaves the workspace as it was: only while the
\* candidate is prepared may it leave a file torn.
LEMMA GivenUpKeeps ==
  ASSUME Inv, at # "idle", GivenUp,
         index' = index, branch' = branch, head' = head, refs' = refs, origin' = origin,
         markers' = markers, builds' = builds, commits' = commits, remote' = remote,
         requests' = requests, images' = images,
         work' \in Trees, work' = work \/ op = "prepare",
         snapshot' \in {"absent", "partial", "clean"}, events' \in 0..MaxEvents
  PROVE  Inv'
<1>1. plan' = plan /\ at' = "idle" /\ out' = NoEvidence /\ seen' = 0
  BY DEF GivenUp
<1>2. outcome = "open" /\ evidence.final = 0 /\ evidence \in Evidence /\ op \in Operations
      /\ iter \in 1..MaxIterations
  BY Busy, TypeFacts DEF Inv
<1>3. /\ op' \in Operations /\ iter' \in 1..MaxIterations /\ try' \in 1..MaxTries
      /\ outcome' \in {"open", "failed"} /\ evidence' \in Evidence
      /\ evidence'.source = evidence.source /\ evidence'.revision = evidence.revision
      /\ evidence'.proof = evidence.proof /\ evidence'.image = evidence.image
      /\ evidence'.final = 0
  BY <1>2, GivenUpCases, Bounds, Fixed DEF Operations, Evidence
<1>4. Typed'
  <2>1. Commits' = Commits /\ RequestRecords' = RequestRecords
    BY CommitsSame
  <2>2. Ranges(evidence)'
    BY <1>3 DEF Inv, Typed, Ranges
  <2>3. Ranges(out)'
    BY <1>1, ZeroRanges DEF Inv
  <2>4. at' \in Stage /\ seen' \in 0..Len(requests)
    BY <1>1, TypeFacts DEF Stage, Inv
  <2> QED
    BY <1>1, <1>3, <2>1, <2>2, <2>3, <2>4, Fixed, TypeFacts, TypedNext DEF Inv
<1>5. Graph'
  BY GraphSame DEF Inv, Data
<1>6. ASSUME op' = op, iter' = iter, evidence' = evidence
      PROVE  Data'
  <2>1. Through' /\ Sources' /\ Markers' /\ Branched'
    BY <1>6, ThroughSame, SourcesSame, MarkersSame, BranchedSame DEF Inv, Data
  <2>2. OwnOne' /\ MergeOne' /\ RequestOne'
    BY <1>6, OwnSame, MergeSame, RequestsSame DEF Inv, Data
  <2>3. Ending'
    BY <1>1, <1>3, <1>6 DEF Inv, Data, Ending
  <2>4. Edited'
    BY <1>6 DEF Inv, Data, Edited, Tree
  <2> QED
    BY <1>5, <2>1, <2>2, <2>3, <2>4 DEF Data
<1>7. ASSUME op = "test", op' = "prepare",
             evidence' = [evidence EXCEPT !.prepared = NoTree]
      PROVE  Data'
  <2>1. /\ evidence'.prepared = NoTree /\ evidence'.report = evidence.report
    BY <1>2, <1>7 DEF Evidence
  <2>2. Through'
    BY <1>3, <1>7, <2>1 DEF Inv, Data, Through, Late, Ends
  <2>3. Sources'
    BY <1>3, <1>7, CommitsSame DEF Inv, Data, Sources, Tree, Ends
  <2>4. Markers'
    BY <1>3, <1>7, Same DEF Inv, Data, Markers
  <2>5. Branched'
    BY <1>7 DEF Inv, Data, Branched
  <2>6. Edited'
    BY <1>7 DEF Inv, Data, Edited, Tree
  <2>7. evidence.revision = 0 /\ Own = {}
    BY <1>7 DEF Inv, Data, Through, OwnOne, Late
  <2>8. OwnOne'
    BY <1>3, <2>7, CommitsSame DEF OwnOne
  <2>9. MergeOne'
    <3>1. Merges = {} /\ refs["target"] = 0
      BY <1>7 DEF Inv, Data, MergeOne, Merged
    <3> QED
      BY <3>1, CommitsSame DEF MergeOne
  <2>10. requests = <<>>
    BY <1>7 DEF Inv, Data, RequestOne
  <2>11. RequestOne'
    BY <2>10 DEF RequestOne, Requests
  <2>12. Ending'
    BY <1>1, <1>3, <1>7 DEF Ending, Ends
  <2> QED
    BY <1>5, <2>2, <2>3, <2>4, <2>5, <2>6, <2>8, <2>9, <2>11, <2>12 DEF Data
<1>8. Data'
  BY <1>6, <1>7, GivenUpCases
<1>9. Reached'
  <2>1. "idle" \in Stages(op')
    BY <1>3, StagesTyped
  <2> QED
    BY <1>1, <2>1 DEF Reached, Located, Stages
<1>10. Handed'
  BY <1>1 DEF Handed
<1> QED
  BY <1>4, <1>8, <1>9, <1>10 DEF Inv

\* The count of events stays within its bound.
LEMMA HappensTyped ==
  ASSUME Typed, NEW e, Happens(e)
  PROVE  events' \in 0..MaxEvents
<1>1. events \in 0..MaxEvents
  BY TypeFacts
<1>2. MaxEvents \in Nat /\ events < MaxEvents /\ events' = events + 1
  BY Bounds DEF Happens
<1> QED
  BY <1>1, <1>2

\* A step that touches neither the workspace nor the repository.
Quiet == UNCHANGED <<localVars, commits, remoteVars>>

\* Variable by variable.
LEMMA QuietMeans ==
  ASSUME Quiet
  PROVE  /\ work' = work /\ index' = index /\ branch' = branch /\ head' = head /\ refs' = refs
         /\ snapshot' = snapshot /\ origin' = origin /\ markers' = markers /\ builds' = builds
         /\ commits' = commits /\ remote' = remote /\ requests' = requests /\ images' = images
  BY DEF Quiet, localVars, treeVars, remoteVars

\* A job goes on and nothing else happens.
LEMMA StepKeeps ==
  ASSUME Inv, Quiet, NEW from, NEW to, Step(from, to), from \notin {"idle", "done"},
         to \in Stages(op), to \notin {"idle", "done"}, Located(to),
         to = "confirm" => op # "request"
  PROVE  Inv'
<1>1. UNCHANGED dataVars
  BY QuietMeans DEF Step, Goto, dataVars
<1>2. seen' \in 0..Len(requests) /\ events' \in 0..MaxEvents
  BY TypeFacts DEF Inv, Step, Goto
<1> QED
  BY <1>1, <1>2, QuietMeans, GotoKeeps DEF Step, Goto

\* A job fails and nothing else happens.
LEMMA FailKeeps ==
  ASSUME Inv, Quiet, at # "idle", Failed, events' \in 0..MaxEvents
  PROVE  Inv'
<1>1. work \in Trees /\ snapshot \in {"absent", "partial", "clean"}
  BY TypeFacts DEF Inv
<1>2. GivenUp
  BY DEF Failed, GivenUp
<1> QED
  BY <1>1, <1>2, QuietMeans, GivenUpKeeps

\* A job ends and nothing else happens.
LEMMA DoneKeeps ==
  ASSUME Inv, Quiet, at \notin {"idle", "done"}, Finish(out'), out' \in Evidence, Ranges(out'),
         Results(out')
  PROVE  Inv'
<1>1. UNCHANGED dataVars
  BY QuietMeans DEF Finish, Goto, dataVars
<1>2. Ranges(out)'
  BY QuietMeans DEF Ranges
<1>3. Results(out)'
  <2>1. /\ Commits' = Commits /\ Own' = Own /\ Candidate(iter)' = Candidate(iter)
        /\ \A c : Tree(c)' = Tree(c)
        /\ Merged(refs["target"])' = Merged(refs["target"])
    <3>1. History' = History /\ Merges' = Merges
      BY QuietMeans, CommitsSame
    <3> QED
      BY <1>1, <3>1, CommitsSame, Same DEF dataVars, Merged, Tree
  <2>2. Tree(out.revision)' = Tree(out'.revision)
    BY QuietMeans DEF Tree
  <2> QED
    BY <1>1, <2>1, <2>2, QuietMeans DEF Results, dataVars
<1>4. builds \in [1..MaxIterations -> 0..Len(images)]
  BY TypeFacts DEF Inv
<1> QED
  BY <1>1, <1>2, <1>3, <1>4, QuietMeans, FinishKeeps DEF Finish, Goto

\* A result of a job differs from the evidence in the field of its operation.
LEMMA ResultTyped ==
  ASSUME Typed
  PROVE  /\ evidence \in Evidence /\ Len(commits) \in Nat /\ Len(images) \in Nat
         /\ \A n \in 0..Len(commits) :
              /\ [evidence EXCEPT !.source = n] \in Evidence
              /\ Ranges([evidence EXCEPT !.source = n])
              /\ [evidence EXCEPT !.revision = n] \in Evidence
              /\ Ranges([evidence EXCEPT !.revision = n])
              /\ [evidence EXCEPT !.proof = n] \in Evidence
              /\ Ranges([evidence EXCEPT !.proof = n])
         /\ \A n \in 0..Len(images) :
              /\ [evidence EXCEPT !.image = n] \in Evidence
              /\ Ranges([evidence EXCEPT !.image = n])
         /\ \A n \in Nat :
              /\ [evidence EXCEPT !.final = n] \in Evidence
              /\ Ranges([evidence EXCEPT !.final = n])
         /\ \A t \in Trees :
              /\ [evidence EXCEPT !.prepared = t] \in Evidence
              /\ Ranges([evidence EXCEPT !.prepared = t])
              /\ [evidence EXCEPT !.report = t] \in Evidence
              /\ Ranges([evidence EXCEPT !.report = t])
<1>1. evidence \in Evidence /\ Ranges(evidence) /\ Len(commits) \in Nat /\ Len(images) \in Nat
  BY TypeFacts DEF Typed
<1>2. \A n \in 0..Len(commits) :
        /\ [evidence EXCEPT !.source = n] \in Evidence
        /\ Ranges([evidence EXCEPT !.source = n])
  BY <1>1 DEF Ranges, Evidence
<1>3. \A n \in 0..Len(commits) :
        /\ [evidence EXCEPT !.revision = n] \in Evidence
        /\ Ranges([evidence EXCEPT !.revision = n])
  BY <1>1 DEF Ranges, Evidence
<1>4. \A n \in 0..Len(commits) :
        /\ [evidence EXCEPT !.proof = n] \in Evidence
        /\ Ranges([evidence EXCEPT !.proof = n])
  BY <1>1 DEF Ranges, Evidence
<1>5. \A n \in 0..Len(images) :
        /\ [evidence EXCEPT !.image = n] \in Evidence
        /\ Ranges([evidence EXCEPT !.image = n])
  BY <1>1 DEF Ranges, Evidence
<1>6. \A n \in Nat :
        /\ [evidence EXCEPT !.final = n] \in Evidence
        /\ Ranges([evidence EXCEPT !.final = n])
  BY <1>1 DEF Ranges, Evidence
<1>7. \A t \in Trees :
        /\ [evidence EXCEPT !.prepared = t] \in Evidence
        /\ Ranges([evidence EXCEPT !.prepared = t])
  BY <1>1 DEF Ranges, Evidence
<1>8. \A t \in Trees :
        /\ [evidence EXCEPT !.report = t] \in Evidence
        /\ Ranges([evidence EXCEPT !.report = t])
  BY <1>1 DEF Ranges, Evidence
<1> QED
  BY <1>1, <1>2, <1>3, <1>4, <1>5, <1>6, <1>7, <1>8

-----------------------------------------------------------------------------
(* Steps that leave the checkout and the commits alone.                     *)

\* A job starts with the evidence accepted so far.
LEMMA StartKeeps ==
  ASSUME Inv, Start
  PROVE  Inv'
<1>1. Quiet /\ at = "idle" /\ outcome = "open" /\ out' = evidence /\ seen' = 0
      /\ try' = try /\ events' = events
  BY DEF Start, Quiet
<1>2. UNCHANGED dataVars
  BY <1>1, QuietMeans DEF Start, dataVars
<1>3. op' = op /\ outcome' = outcome /\ evidence' = evidence
  BY <1>2 DEF dataVars
<1>4. at' \in {"fetch", "marker", "verify", "commit", "push", "build", "find", "merge"}
      /\ at' \in Stages(op)
  <2>1. op \in Operations
    BY OpOf
  <2> QED
    BY <1>1, <2>1, StagesAre DEF Start, Operations
<1>5. Typed'
  <2>1. Ranges(out)'
    BY <1>1, QuietMeans DEF Ranges, Inv, Typed
  <2>2. at' \in Stage
    BY <1>4 DEF Stage
  <2>3. seen' \in 0..Len(requests) /\ out' \in Evidence
    BY <1>1, TypeFacts DEF Inv
  <2> QED
    BY <1>1, <1>2, <2>1, <2>2, <2>3, QuietMeans, TypeFacts, QuietTyped DEF Inv
<1>6. Data'
  BY <1>2, DataSame DEF Inv
<1>7. Reached'
  BY <1>1, <1>3, <1>4 DEF Reached, Located
<1>8. Handed'
  BY <1>4 DEF Handed
<1> QED
  BY <1>5, <1>6, <1>7, <1>8 DEF Inv

\* A job is killed, or its tests fail.
LEMMA KillKeeps ==
  ASSUME Inv, Kill \/ TestFails
  PROVE  Inv'
<1>1. Quiet /\ at # "idle" /\ Failed
  BY DEF Kill, TestFails, Quiet
<1>2. events' \in 0..MaxEvents
  BY HappensTyped DEF Kill, TestFails, Inv
<1> QED
  BY <1>1, <1>2, FailKeeps

\* A job or its result is lost, or not collected.
LEMMA LoseJobKeeps ==
  ASSUME Inv, LoseJob \/ NotCollected
  PROVE  Inv'
<1>1. Quiet /\ at # "idle" /\ GivenUp
  BY DEF LoseJob, NotCollected, Quiet, GivenUp, localVars, remoteVars
<1>2. events' \in 0..MaxEvents
  BY HappensTyped DEF LoseJob, NotCollected, Inv
<1>3. work \in Trees /\ snapshot \in {"absent", "partial", "clean"}
  BY TypeFacts DEF Inv
<1> QED
  BY <1>1, <1>2, <1>3, QuietMeans, GivenUpKeeps

\* The leaf of every early return.
LEMMA RefusedKeeps ==
  ASSUME Inv, Quiet, at # "idle", Failed, UNCHANGED events
  PROVE  Inv'
<1>1. events' \in 0..MaxEvents
  BY TypeFacts DEF Inv
<1> QED
  BY <1>1, FailKeeps

\* A recorded candidate is the candidate of the iteration.
LEMMA ReadMarkerKeeps ==
  ASSUME Inv, ReadMarker
  PROVE  Inv'
<1>1. Quiet /\ at = "marker" /\ op = "prepare" /\ "snapshot" \in Stages(op)
  BY OpOf, StagesAre DEF ReadMarker, Quiet
<1>2. CASE Step("marker", "snapshot")
  BY <1>1, <1>2, StepKeeps DEF Located
<1>3. CASE /\ markers[iter] # NoTree /\ verifyPreparedWorkspace(markers[iter])
           /\ Finish([evidence EXCEPT !.prepared = markers[iter]])
  <2>1. markers[iter] = Candidate(iter) /\ markers[iter] \in Trees
    BY <1>3, TypeFacts DEF Inv, Data, Markers
  <2>2. out' = [evidence EXCEPT !.prepared = markers[iter]]
    BY <1>3 DEF Finish
  <2>3. out' \in Evidence /\ Ranges(out')
    BY <2>1, <2>2, ResultTyped DEF Inv
  <2>4. Results(out')
    BY <1>1, <1>3, <2>1, <2>2 DEF Results, verifyPreparedWorkspace
  <2> QED
    BY <1>1, <1>3, <2>2, <2>3, <2>4, DoneKeeps
<1>4. CASE Failed /\ UNCHANGED events
  BY <1>1, <1>4, RefusedKeeps
<1> QED
  BY <1>2, <1>3, <1>4 DEF ReadMarker

\* The snapshot of the source is there, is made, or is broken.
LEMMA SnapshotKeeps ==
  ASSUME Inv, ensureSourceSnapshot
  PROVE  Inv'
<1>1. Quiet /\ at = "snapshot" /\ "adding" \in Stages(op) /\ "restore" \in Stages(op)
  BY OpOf, StagesAre DEF ensureSourceSnapshot, Quiet
<1>2. CASE Step("snapshot", "adding")
  BY <1>1, <1>2, StepKeeps DEF Located
<1>3. CASE Step("snapshot", "restore")
  BY <1>1, <1>3, StepKeeps DEF Located
<1>4. CASE Failed /\ UNCHANGED events
  BY <1>1, <1>4, RefusedKeeps
<1> QED
  BY <1>2, <1>3, <1>4 DEF ensureSourceSnapshot

\* A dirty base is restored only when the dirt is a recorded candidate.
LEMMA RestoreKeeps ==
  ASSUME Inv, restoreCandidateBase
  PROVE  Inv'
<1>1. /\ Quiet /\ at = "restore" /\ op = "prepare"
      /\ "branch" \in Stages(op) /\ "restoring" \in Stages(op)
  BY OpOf, StagesAre DEF restoreCandidateBase, Quiet
<1>2. CASE requireCleanBaseWorkspace /\ Step("restore", "branch")
  BY <1>1, <1>2, StepKeeps DEF Located
<1>3. CASE head = Base /\ Recorded /\ Step("restore", "restoring")
  <2>1. PICK i \in 1..MaxIterations : markers[i] # NoTree /\ verifyPreparedWorkspace(markers[i])
    BY <1>3 DEF Recorded
  <2>2. work = Candidate(i)
    BY <2>1 DEF Inv, Data, Markers, verifyPreparedWorkspace
  <2>3. \A f \in Files : work[f] # Foreign
    BY <1>1, <2>2, CandidateFacts DEF Inv, Data
  <2> QED
    BY <1>1, <1>3, <2>3, StepKeeps DEF Located
<1>4. CASE Failed /\ UNCHANGED events
  BY <1>1, <1>4, RefusedKeeps
<1> QED
  BY <1>2, <1>3, <1>4 DEF restoreCandidateBase

\* A restored base is clean.
LEMMA RestoredKeeps ==
  ASSUME Inv, Restored
  PROVE  Inv'
<1>1. Quiet /\ at = "restoring" /\ "branch" \in Stages(op)
  BY OpOf, StagesAre DEF Restored, Quiet, Step
<1> QED
  BY <1>1, StepKeeps DEF Restored, Located

\* The snapshot is made.
LEMMA AddWorktreeKeeps ==
  ASSUME Inv, AddWorktree
  PROVE  Inv'
<1>1. at = "adding" /\ "snapshot" \in Stages(op)
  BY OpOf, StagesAre DEF AddWorktree, Step
<1>2. UNCHANGED dataVars
  BY DEF AddWorktree, Step, Goto, dataVars, remoteVars
<1>3. /\ at' = "snapshot" /\ try' = try /\ out' = out /\ seen' = seen /\ events' = events
      /\ snapshot' = "clean" /\ images' = images /\ builds' = builds
  BY DEF AddWorktree, Step, Goto, remoteVars
<1>4. op' = op /\ outcome' = outcome /\ evidence' = evidence
  BY <1>2 DEF dataVars
<1>5. Typed'
  <2>1. Ranges(out)'
    BY <1>2, <1>3 DEF Inv, Typed, Ranges, dataVars
  <2> QED
    BY <1>2, <1>3, <2>1, TypeFacts, QuietTyped DEF Inv, Stage
<1>6. Data'
  BY <1>2, DataSame DEF Inv
<1>7. Reached'
  BY <1>1, <1>3, <1>4 DEF Inv, Reached, Located
<1>8. Handed'
  BY <1>3 DEF Handed
<1> QED
  BY <1>5, <1>6, <1>7, <1>8 DEF Inv

\* The tests start on the candidate.
LEMMA StartTestKeeps ==
  ASSUME Inv, StartTest
  PROVE  Inv'
<1>1. Quiet /\ at = "verify" /\ "testing" \in Stages(op)
  BY OpOf, StagesAre DEF StartTest, Quiet
<1>2. CASE Step("verify", "testing")
  BY <1>1, <1>2, StepKeeps DEF Located
<1>3. CASE Failed /\ UNCHANGED events
  BY <1>1, <1>3, RefusedKeeps
<1> QED
  BY <1>2, <1>3 DEF StartTest

\* The report is about the candidate: the index is what was prepared.
LEMMA TestPassesKeeps ==
  ASSUME Inv, TestPasses
  PROVE  Inv'
<1>1. Quiet /\ at = "testing" /\ op = "test"
  BY OpOf DEF TestPasses, Quiet
<1>2. CASE index = evidence.prepared /\ Finish([evidence EXCEPT !.report = index])
  <2>1. index = Candidate(iter) /\ index \in Trees
    BY <1>1, <1>2, TypeFacts DEF Inv, Data, Through
  <2>2. out' = [evidence EXCEPT !.report = index]
    BY <1>2 DEF Finish
  <2>3. out' \in Evidence /\ Ranges(out')
    BY <2>1, <2>2, ResultTyped DEF Inv
  <2>4. Results(out')
    BY <1>1, <2>1, <2>2 DEF Results
  <2> QED
    BY <1>1, <1>2, <2>2, <2>3, <2>4, DoneKeeps
<1>3. CASE Failed /\ UNCHANGED events
  BY <1>1, <1>3, RefusedKeeps
<1> QED
  BY <1>2, <1>3 DEF TestPasses

\* The commits of the key are the candidate commit.
LEMMA OwnFacts ==
  ASSUME Inv
  PROVE  /\ Own = Keyed
         /\ \A c \in Own : c \in Commits /\ Own = {c}
<1>1. \A c \in Commits : commits[c].key = iter => commits[c].key # 0
  BY TypeFacts, Bounds DEF Inv
<1>2. Own = Keyed
  BY <1>1 DEF Own, Keyed, Inv, Data, OwnOne
<1>3. \A c \in Own : c \in Commits /\ Own = {c}
  BY DEF Own, Inv, Data, OwnOne
<1> QED
  BY <1>2, <1>3

\* A candidate commit that is there is taken, and is the tested tree.
LEMMA GitCommitKeeps ==
  ASSUME Inv, GitCommit
  PROVE  Inv'
<1>1. Quiet /\ at = "commit" /\ op = "commit" /\ "committing" \in Stages(op)
  BY OpOf, StagesAre DEF GitCommit, Quiet
<1>2. op # "initialize" /\ evidence.prepared = Candidate(iter)
  BY <1>1 DEF Inv, Data, Through
<1>3. ASSUME NEW c \in Commits, Tree(c) = Candidate(iter), Own \subseteq {c}, Finish(Revision(c))
      PROVE  Inv'
  <2>1. out' = [evidence EXCEPT !.revision = c]
    BY <1>3 DEF Finish, Revision
  <2>2. c \in 0..Len(commits) /\ evidence \in Evidence
    BY CommitFacts, TypeFacts DEF Inv
  <2>3. out' \in Evidence /\ Ranges(out')
    BY <2>1, <2>2, ResultTyped DEF Inv
  <2>4. out'.revision = c
    BY <2>1, <2>2 DEF Evidence
  <2>5. Results(out')
    BY <1>1, <1>3, <2>1, <2>4 DEF Results
  <2>6. Finish(out')
    BY <1>3 DEF Finish
  <2> QED
    BY <1>1, <2>3, <2>5, <2>6, DoneKeeps
<1>4. CASE \E c \in Keyed : validateCandidateRevisionState /\ Tree(c) = index /\ Finish(Revision(c))
  <2>1. PICK c \in Keyed : validateCandidateRevisionState /\ Tree(c) = index /\ Finish(Revision(c))
    BY <1>4
  <2>2. c \in Commits /\ Own = {c}
    BY OwnFacts
  <2>3. Tree(c) = Candidate(iter)
    BY <1>2, <2>1 DEF validateCandidateRevisionState
  <2> QED
    BY <1>3, <2>1, <2>2, <2>3
<1>5. CASE /\ validateCandidateRevisionState /\ Keyed = {} /\ work = Tree(head)
           /\ Finish(Revision(head))
  <2>1. index = Candidate(iter) /\ index \in Trees /\ work \in Trees /\ head \in Commits
    BY <1>2, <1>5, TypeFacts DEF validateCandidateRevisionState, Inv
  <2>2. \A f \in Files : index[f] # Foreign
    BY <1>2, <2>1, CandidateIter DEF Inv, Data
  <2>3. \A f \in Files : work[f] = index[f]
    BY <1>1, <1>5, <2>2 DEF Inv, Data, Edited
  <2>4. work = index
    BY <2>1, <2>3, TreeFacts
  <2>5. Own = {}
    BY <1>5, OwnFacts
  <2> QED
    BY <1>3, <1>5, <2>1, <2>4, <2>5
<1>6. CASE validateCandidateRevisionState /\ Keyed = {} /\ Step("commit", "committing")
  <2>1. index = Candidate(iter) /\ Own = {}
    BY <1>2, <1>6, OwnFacts DEF validateCandidateRevisionState
  <2> QED
    BY <1>1, <1>6, <2>1, StepKeeps DEF Located
<1>7. CASE Failed /\ UNCHANGED events
  BY <1>1, <1>7, RefusedKeeps
<1> QED
  BY <1>4, <1>5, <1>6, <1>7 DEF GitCommit

\* While the candidate is pushed its branch is the revision.
LEMMA PushedKeeps ==
  ASSUME Inv, Quiet, op = "push", at \notin {"idle", "done"}, refs["candidate"] = evidence.revision,
         remote["candidate"] = refs["candidate"], Finish(Pushed("candidate"))
  PROVE  Inv'
<1>1. out' = [evidence EXCEPT !.proof = evidence.revision]
  BY DEF Finish, Pushed
<1>2. evidence.revision \in 0..Len(commits) /\ evidence.revision # 0
  BY DEF Inv, Typed, Ranges, Data, Through, Late
<1>3. out' \in Evidence /\ Ranges(out')
  BY <1>1, <1>2, ResultTyped DEF Inv
<1>4. Results(out')
  BY <1>1, <1>2 DEF Results
<1>5. Finish(out')
  BY DEF Finish
<1> QED
  BY <1>3, <1>4, <1>5, DoneKeeps

\* The candidate is pushed, or is there already.
LEMMA GitPushKeeps ==
  ASSUME Inv, GitPush
  PROVE  Inv'
<1>1. Quiet /\ at = "push" /\ op = "push" /\ "pushing" \in Stages(op)
  BY OpOf, StagesAre DEF GitPush, Quiet
<1>2. CASE refs["candidate"] = evidence.revision /\ Observe("candidate")
  <2>1. CASE remote["candidate"] = refs["candidate"] /\ Finish(Pushed("candidate"))
    BY <1>1, <1>2, <2>1, PushedKeeps
  <2>2. CASE Goto("pushing") /\ UNCHANGED <<out, seen>>
    <3>1. Step("push", "pushing")
      BY <1>1, <2>2 DEF Step
    <3> QED
      BY <1>1, <1>2, <3>1, StepKeeps DEF Located
  <2> QED
    BY <1>2, <2>1, <2>2 DEF Observe
<1>3. CASE Failed /\ UNCHANGED events
  BY <1>1, <1>3, RefusedKeeps
<1> QED
  BY <1>2, <1>3 DEF GitPush

\* While the merge is pushed the target branch is the merge.
LEMMA MergePushedKeeps ==
  ASSUME Inv, Quiet, op = "merge", at \notin {"idle", "done"}, Merged(refs["target"]),
         Finish([evidence EXCEPT !.final = refs["target"]])
  PROVE  Inv'
<1>1. out' = [evidence EXCEPT !.final = refs["target"]] /\ Finish(out')
  BY DEF Finish
<1>2. refs["target"] \in Nat
  BY TypeFacts DEF Inv, Branches
<1>3. out' \in Evidence /\ Ranges(out')
  BY <1>1, <1>2, ResultTyped DEF Inv
<1>4. Results(out')
  BY <1>1 DEF Results
<1> QED
  BY <1>1, <1>3, <1>4, DoneKeeps

\* What was pushed is what the branch holds.
LEMMA ConfirmPushKeeps ==
  ASSUME Inv, ConfirmPush
  PROVE  Inv'
<1>1. Quiet /\ at = "confirm" /\ op \in {"push", "merge"}
  BY DEF ConfirmPush, Quiet
<1>2. ASSUME op = "push", remote[PushedBranch] = refs[PushedBranch], Finish(Pushed(PushedBranch))
      PROVE  Inv'
  <2>1. PushedBranch = "candidate"
    BY <1>2 DEF PushedBranch
  <2>2. refs["candidate"] = evidence.revision
    BY <1>1, <1>2 DEF Inv, Reached, Located
  <2> QED
    BY <1>1, <1>2, <2>1, <2>2, PushedKeeps
<1>3. ASSUME op = "merge", Finish(Pushed(PushedBranch))
      PROVE  Inv'
  <2>1. PushedBranch = "target" /\ Merged(refs["target"])
    BY <1>1, <1>3 DEF PushedBranch, Inv, Reached, Located
  <2>2. Finish([evidence EXCEPT !.final = refs["target"]])
    BY <1>3, <2>1 DEF Pushed
  <2> QED
    BY <1>1, <1>3, <2>1, <2>2, MergePushedKeeps
<1>4. CASE Failed /\ UNCHANGED events
  BY <1>1, <1>4, RefusedKeeps
<1> QED
  BY <1>1, <1>2, <1>3, <1>4 DEF ConfirmPush

\* An image recorded for the key is taken.
LEMMA BuildImageKeeps ==
  ASSUME Inv, BuildImage
  PROVE  Inv'
<1>1. Quiet /\ at = "build" /\ op = "build" /\ "building" \in Stages(op)
  BY OpOf, StagesAre DEF BuildImage, Quiet
<1>2. CASE builds[iter] # 0 /\ Finish([evidence EXCEPT !.image = builds[iter]])
  <2>1. builds[iter] \in 0..Len(images) /\ evidence \in Evidence
    BY TypeFacts DEF Inv
  <2>2. out' = [evidence EXCEPT !.image = builds[iter]] /\ Finish(out')
    BY <1>2 DEF Finish
  <2>3. out' \in Evidence /\ Ranges(out')
    BY <2>1, <2>2, ResultTyped DEF Inv
  <2>4. out'.image = builds[iter]
    BY <2>1, <2>2 DEF Evidence
  <2>5. Results(out')
    BY <1>1, <1>2, <2>2, <2>4 DEF Results
  <2> QED
    BY <1>1, <2>2, <2>3, <2>5, DoneKeeps
<1>3. CASE Step("build", "building")
  BY <1>1, <1>3, StepKeeps DEF Located
<1>4. CASE Failed /\ UNCHANGED events
  BY <1>1, <1>4, RefusedKeeps
<1> QED
  BY <1>2, <1>3, <1>4 DEF BuildImage

\* The image is recorded.
LEMMA RecordBuildKeeps ==
  ASSUME Inv, RecordBuild
  PROVE  Inv'
<1>1. at = "record" /\ op = "build" /\ images # <<>>
  BY OpOf DEF RecordBuild, Inv, Reached, Located
<1>2. UNCHANGED dataVars /\ images' = images /\ snapshot' = snapshot
  BY DEF RecordBuild, Finish, Goto, dataVars, treeVars, remoteVars
<1>3. /\ builds' = [builds EXCEPT ![iter] = Len(images)]
      /\ out' = [evidence EXCEPT !.image = Len(images)]
      /\ at' = "done" /\ try' = try /\ seen' = seen /\ events' = events
  BY DEF RecordBuild, Finish, Goto
<1>4. Len(images) \in Nat /\ Len(images) # 0 /\ images \in Seq(Trees)
  BY <1>1, TypeFacts DEF Inv
<1>5. builds' \in [1..MaxIterations -> 0..Len(images)]
  BY <1>3, <1>4, TypeFacts DEF Inv
<1>6. out' \in Evidence /\ Ranges(out') /\ evidence \in Evidence
  <2>1. Len(images) \in 0..Len(images)
    BY <1>4
  <2> QED
    BY <1>3, <2>1, ResultTyped DEF Inv
<1>7. out'.image = Len(images)
  BY <1>3, <1>6 DEF Evidence
<1>8. Ranges(out)'
  BY <1>2, <1>6 DEF Ranges, dataVars
<1>9. Results(out)'
  BY <1>1, <1>2, <1>3, <1>4, <1>7 DEF Results, dataVars
<1> QED
  BY <1>1, <1>2, <1>3, <1>5, <1>6, <1>8, <1>9, FinishKeeps

\* There is at most one request to look at.
LEMMA RelevantIsFirst ==
  ASSUME Inv, Relevant # {}
  PROVE  Newest(Relevant) = 1 /\ 1 \in Requests /\ Requests = {1}
<1>1. requests \in Seq(RequestRecords) /\ Len(requests) <= 1
  BY TypeFacts DEF Inv, Data, RequestOne
<1>2. Requests = {1} /\ Relevant = {1}
  BY <1>1 DEF Relevant, Requests
<1>3. Newest({1}) = 1
  BY DEF Newest
<1> QED
  BY <1>2, <1>3

\* A request was found or opened.
LEMMA FoundKeeps ==
  ASSUME Inv, Quiet, at \notin {"idle", "done"}, op = "request", NEW n \in Requests, Found(n)
  PROVE  Inv'
<1>1. "confirm" \in Stages(op) /\ "confirm" \notin {"idle", "done"}
  BY StagesAre
<1>2. UNCHANGED dataVars /\ try' = try /\ out' = out /\ at' = "confirm" /\ seen' = n
      /\ events' = events
  BY QuietMeans DEF Found, Goto, dataVars
<1>3. n \in 0..Len(requests) /\ Requests' = Requests
  BY TypeFacts, QuietMeans DEF Requests, Inv
<1>4. events' \in 0..MaxEvents
  BY <1>2, TypeFacts DEF Inv
<1>5. Located("confirm")
  BY DEF Located
<1> QED
  BY <1>1, <1>2, <1>3, <1>4, <1>5, QuietMeans, GotoKeeps

\* Requests are looked for; one that is found is of this commit.
LEMMA FindRequestKeeps ==
  ASSUME Inv, FindRequest
  PROVE  Inv'
<1>1. Quiet /\ at = "find" /\ op = "request" /\ "refcheck" \in Stages(op)
  BY OpOf, StagesAre DEF FindRequest, Quiet
<1>2. CASE Relevant = {} /\ Step("find", "refcheck")
  <2>1. \A n \in Requests : Passed(n)
    BY <1>2 DEF Relevant
  <2> QED
    BY <1>1, <1>2, <2>1, StepKeeps DEF Located
<1>3. CASE Relevant # {} /\ Found(Newest(Relevant))
  BY <1>1, <1>3, RelevantIsFirst, FoundKeeps
<1>4. CASE Failed /\ UNCHANGED events
  BY <1>1, <1>4, RefusedKeeps
<1> QED
  BY <1>2, <1>3, <1>4 DEF FindRequest

\* After a lost answer they are looked for again.
LEMMA FindAgainKeeps ==
  ASSUME Inv, FindAgain
  PROVE  Inv'
<1>1. Quiet /\ at = "refind" /\ op = "request"
  BY OpOf DEF FindAgain, Quiet
<1>2. CASE Relevant # {} /\ Found(Newest(Relevant))
  BY <1>1, <1>2, RelevantIsFirst, FoundKeeps
<1>3. CASE Failed /\ UNCHANGED events
  BY <1>1, <1>3, RefusedKeeps
<1> QED
  BY <1>2, <1>3 DEF FindAgain

\* A request that is not opened is looked for, too.
LEMMA PostFailsKeeps ==
  ASSUME Inv, PostFails
  PROVE  Inv'
<1>1. /\ Quiet /\ at = "post" /\ op = "request" /\ "refind" \in Stages(op)
      /\ UNCHANGED dataVars /\ at' = "refind" /\ UNCHANGED <<try, out, seen>>
  BY OpOf, StagesAre, QuietMeans DEF PostFails, Quiet, dataVars
<1>2. seen' \in 0..Len(requests) /\ events' \in 0..MaxEvents
  BY <1>1, TypeFacts, HappensTyped DEF Inv, PostFails
<1> QED
  BY <1>1, <1>2, QuietMeans, GotoKeeps DEF Located

\* With the branch at the revision there is no request to pass over.
LEMMA CheckSourceKeeps ==
  ASSUME Inv, CheckSource
  PROVE  Inv'
<1>1. Quiet /\ at = "refcheck" /\ op = "request" /\ "post" \in Stages(op)
  BY OpOf, StagesAre DEF CheckSource, Quiet
<1>2. CASE remote["candidate"] = evidence.revision /\ Step("refcheck", "post")
  <2>1. \A n \in Requests : Passed(n)
    BY <1>1 DEF Inv, Reached, Located
  <2>2. Requests = {}
    BY <1>2, <2>1 DEF Passed, Inv, Data, RequestOne
  <2>3. requests \in Seq(RequestRecords) /\ Len(requests) \in Nat
    BY TypeFacts DEF Inv
  <2>4. Len(requests) = 0
    <3>1. 1 \notin 1..Len(requests)
      BY <2>2 DEF Requests
    <3> QED
      BY <2>3, <3>1
  <2>5. requests = <<>>
    BY <2>3, <2>4
  <2> QED
    BY <1>1, <1>2, <2>5, StepKeeps DEF Located
<1>3. CASE Failed /\ UNCHANGED events
  BY <1>1, <1>3, RefusedKeeps
<1> QED
  BY <1>2, <1>3 DEF CheckSource

\* The request that was found is handed on.
LEMMA ConfirmRequestKeeps ==
  ASSUME Inv, ConfirmRequest
  PROVE  Inv'
<1>1. Quiet /\ at = "confirm" /\ op = "request"
  BY DEF ConfirmRequest, Quiet
<1>2. CASE Finish([evidence EXCEPT !.final = seen])
  <2>1. seen \in Requests /\ seen \in Nat /\ evidence \in Evidence
    BY <1>1, TypeFacts DEF Inv, Reached
  <2>2. out' = [evidence EXCEPT !.final = seen] /\ Finish(out')
    BY <1>2 DEF Finish
  <2>3. out' \in Evidence /\ Ranges(out')
    BY <2>1, <2>2, ResultTyped DEF Inv
  <2>4. out'.final = seen /\ seen # 0 /\ requests # <<>>
    <3>1. out'.final = seen
      BY <2>1, <2>2 DEF Evidence
    <3>2. seen \in 1..Len(requests)
      BY <2>1 DEF Requests
    <3>3. requests # <<>>
      BY <3>2
    <3>4. requests \in Seq(RequestRecords)
      BY TypeFacts DEF Inv
    <3>5. seen # 0
      BY <3>2, <3>4
    <3> QED
      BY <3>1, <3>3, <3>5
  <2>5. Results(out')
    BY <1>1, <2>2, <2>4 DEF Results
  <2> QED
    BY <1>1, <2>2, <2>3, <2>5, DoneKeeps
<1>3. CASE Failed /\ UNCHANGED events
  BY <1>1, <1>3, RefusedKeeps
<1> QED
  BY <1>2, <1>3 DEF ConfirmRequest

-----------------------------------------------------------------------------
(* Steps that change the checkout.                                          *)

\* What a job changes in the workspace leaves the commits alone.
WorkTyped ==
  /\ UNCHANGED <<plan, op, iter, outcome, evidence, commits, images, remote, requests, try,
                 seen, events, snapshot, builds>>
  /\ at' \in Stage /\ out' \in Evidence /\ Ranges(out')
  /\ work' \in Trees /\ index' \in Trees /\ branch' \in Branches \cup {"detached"}
  /\ head' \in Commits /\ refs' \in [Branches -> 0..Len(commits)] /\ origin' \in 0..Len(commits)
  /\ markers' \in [1..MaxIterations -> Trees]

\* Then the types are kept.
LEMMA WorkTypedKeeps ==
  ASSUME Typed, WorkTyped
  PROVE  Typed'
<1>1. commits' = commits /\ images' = images /\ evidence' = evidence
  BY DEF WorkTyped
<1>2. Commits' = Commits /\ RequestRecords' = RequestRecords
  BY <1>1, CommitsSame
<1>3. Ranges(evidence)' /\ Ranges(out)'
  BY <1>1 DEF Ranges, Typed, WorkTyped
<1> QED
  BY <1>1, <1>2, <1>3, TypeFacts, TypedNext DEF WorkTyped

\* Those parts of the invariant that say nothing of the checkout.
LEMMA WorkKeeps ==
  ASSUME Inv, WorkTyped, refs'["target"] = refs["target"]
  PROVE  Graph' /\ Through' /\ Ending' /\ OwnOne' /\ MergeOne' /\ RequestOne'
<1>1. /\ plan' = plan /\ op' = op /\ iter' = iter /\ outcome' = outcome /\ evidence' = evidence
      /\ commits' = commits /\ remote' = remote /\ requests' = requests
  BY DEF WorkTyped
<1>2. Graph' /\ Through' /\ Ending'
  BY <1>1, GraphSame, ThroughSame, EndingSame DEF Inv, Data
<1>3. OwnOne' /\ MergeOne' /\ RequestOne'
  BY <1>1, OwnSame, MergeSame, RequestsSame DEF Inv, Data
<1> QED
  BY <1>2, <1>3

\* The source is fetched.
LEMMA FetchKeeps ==
  ASSUME Inv, Fetch
  PROVE  Inv'
<1>1. at = "fetch" /\ op = "initialize" /\ "checkout" \in Stages(op)
  BY OpOf, StagesAre DEF Fetch, Step
<1>2. /\ origin' = remote["target"] /\ origin' \in Commits
  <2>1. remote["target"] \in 0..Len(commits) /\ remote["target"] # 0 /\ Len(commits) \in Nat
    BY TypeFacts DEF Inv, Data, Sources, Branches
  <2> QED
    BY <2>1 DEF Fetch, Commits
<1>3. at' = "checkout" /\ out' = out
  BY DEF Fetch, Step, Goto
<1>4. WorkTyped
  <2>1. out \in Evidence /\ Ranges(out)
    BY TypeFacts DEF Inv, Typed
  <2> QED
    BY <1>2, <1>3, <2>1, TypeFacts DEF Fetch, Step, Goto, WorkTyped, treeVars, remoteVars, Stage,
       Inv, Commits
<1>5. /\ op' = op /\ outcome' = outcome /\ evidence' = evidence /\ commits' = commits
      /\ refs' = refs /\ markers' = markers /\ branch' = branch /\ head' = head /\ work' = work
      /\ index' = index /\ remote' = remote
  BY DEF Fetch, Step, Goto, treeVars, remoteVars
<1>6. Sources'
  BY <1>1, <1>5, CommitsSame DEF Inv, Data, Sources, Tree
<1>7. Markers' /\ Branched' /\ Edited'
  BY <1>5, MarkersSame, BranchedSame, EditedSame DEF Inv, Data
<1>8. Reached'
  BY <1>1, <1>2, <1>3, <1>5, CommitsSame DEF Inv, Reached, Located
<1>9. Handed'
  BY <1>3 DEF Handed
<1> QED
  BY <1>4, <1>5, <1>6, <1>7, <1>8, <1>9, WorkTypedKeeps, WorkKeeps DEF Inv, Data

\* The workspace is the source.
LEMMA InitializeRepositoryKeeps ==
  ASSUME Inv, InitializeRepository
  PROVE  Inv'
<1>1. at = "checkout" /\ op = "initialize" /\ origin \in Commits
  BY OpOf DEF InitializeRepository, Inv, Reached, Located
<1>2. /\ at' = "done" /\ out' = [evidence EXCEPT !.source = origin]
      /\ head' = origin /\ branch' = "detached" /\ work' = Tree(origin) /\ index' = Tree(origin)
      /\ op' = op /\ outcome' = outcome /\ evidence' = evidence /\ commits' = commits
      /\ refs' = refs /\ markers' = markers /\ origin' = origin /\ remote' = remote
  BY DEF InitializeRepository, Finish, Goto, remoteVars
<1>3. Tree(origin) \in Trees /\ origin \in 0..Len(commits)
  BY <1>1, CommitFacts, TypeFacts DEF Inv
<1>4. out' \in Evidence /\ Ranges(out')
  BY <1>2, <1>3, ResultTyped DEF Inv
<1>5. WorkTyped
  BY <1>1, <1>2, <1>3, <1>4, TypeFacts
     DEF InitializeRepository, Finish, Goto, WorkTyped, remoteVars, Stage, Inv
<1>6. Sources' /\ Markers'
  BY <1>2, SourcesSame, MarkersSame DEF Inv, Data
<1>7. Branched' /\ Edited'
  <2>1. Tree(head)' = Tree(origin)
    BY <1>2 DEF Tree
  <2> QED
    BY <1>1, <1>2, <2>1 DEF Branched, Edited
<1>8. Reached'
  BY <1>1, <1>2, StagesTyped, OpOf, Busy DEF Reached, Located
<1>9. Handed'
  BY <1>1, <1>2, CommitsSame DEF Handed, Results
<1> QED
  BY <1>2, <1>5, <1>6, <1>7, <1>8, <1>9, WorkTypedKeeps, WorkKeeps DEF Inv, Data

\* While the candidate is prepared nothing of it is committed or published.
LEMMA PrepareFacts ==
  ASSUME Inv, op = "prepare"
  PROVE  /\ Base \in Commits /\ Tree(Base) \in Trees /\ Plain(Tree(Base))
         /\ \A f \in Files : Tree(Base)[f] \in Contents /\ Tree(Base)[f] # Foreign
         /\ Tree(Base)["code"] = 0 /\ Tree(Base)["test"] = 0
         /\ \A f \in Files : Accepted(iter)[f] \in Contents
         /\ Accepted(iter)["code"] = 1 /\ Accepted(iter)["test"] = iter
         /\ iter \in 1..MaxIterations
<1>1. Base \in Commits /\ Tree(Base) \in Trees /\ Plain(Tree(Base))
  BY BaseFacts DEF Inv, Data
<1>2. /\ \A f \in Files : Tree(Base)[f] \in Contents /\ Tree(Base)[f] # Foreign
      /\ Tree(Base)["code"] = 0 /\ Tree(Base)["test"] = 0
  BY <1>1, TreeFacts DEF Plain, Files
<1>3. iter \in 1..MaxIterations
  BY TypeFacts DEF Inv
<1>4. \A f \in Files : Accepted(iter)[f] \in Contents
  BY <1>3, Bounds, AcceptedFacts DEF Files
<1> QED
  BY <1>1, <1>2, <1>3, <1>4, AcceptedFacts

\* One path of the base is restored.
LEMMA RestoreFileKeeps ==
  ASSUME Inv, RestoreFile
  PROVE  Inv'
<1>1. at = "restoring" /\ op = "prepare" /\ head = Base /\ \A f \in Files : work[f] # Foreign
  BY OpOf DEF RestoreFile, Inv, Reached, Located
<1>2. PICK g \in Files : /\ work' = [work EXCEPT ![g] = Tree(Base)[g]]
                         /\ index' = [index EXCEPT ![g] = Tree(Base)[g]]
  BY DEF RestoreFile
<1>3. Tree(Base)[g] \in Contents /\ \A f \in Files : Tree(Base)[f] # Foreign
  BY <1>1, PrepareFacts
<1>4. work \in Trees /\ index \in Trees /\ work' \in Trees /\ index' \in Trees
  BY <1>2, <1>3, TreeFacts, TypeFacts DEF Inv
<1>5. /\ at' = at /\ out' = out /\ op' = op /\ outcome' = outcome /\ evidence' = evidence
      /\ commits' = commits /\ seen' = seen /\ requests' = requests
      /\ refs' = refs /\ markers' = markers /\ origin' = origin /\ remote' = remote
      /\ branch' = branch /\ head' = head
  BY DEF RestoreFile, jobVars, remoteVars
<1>6. WorkTyped
  BY <1>4, TypeFacts DEF RestoreFile, jobVars, remoteVars, WorkTyped, Inv, Typed
<1>7. Sources' /\ Markers' /\ Branched'
  BY <1>5, SourcesSame, MarkersSame, BranchedSame DEF Inv, Data
<1>8. Edited'
  <2>1. Tree(head)' = Tree(Base)
    BY <1>1, <1>5 DEF Tree
  <2> QED
    BY <1>1, <1>3, <1>5, <2>1 DEF Edited
<1>9. Located(at)'
  <2>1. \A f \in Files : work'[f] # Foreign
    BY <1>1, <1>2, <1>3, <1>4, TreeFacts
  <2>2. Base' = Base
    BY <1>5 DEF Base
  <2> QED
    BY <1>1, <1>5, <2>1, <2>2 DEF Located
<1>10. Reached'
  BY <1>1, <1>5, <1>9 DEF Inv, Reached
<1>11. Handed'
  BY <1>1, <1>5 DEF Handed
<1> QED
  BY <1>5, <1>6, <1>7, <1>8, <1>10, <1>11, WorkTypedKeeps, WorkKeeps DEF Inv, Data

\* The candidate branch starts at a clean base.
LEMMA CheckoutCandidateKeeps ==
  ASSUME Inv, CheckoutCandidate
  PROVE  Inv'
<1>1. /\ at = "branch" /\ op = "prepare" /\ requireCleanBaseWorkspace /\ "apply" \in Stages(op)
  BY OpOf, StagesAre DEF CheckoutCandidate, Step, Inv, Reached, Located
<1>2. /\ at' = "apply" /\ out' = out /\ op' = op /\ outcome' = outcome /\ evidence' = evidence
      /\ commits' = commits /\ seen' = seen /\ requests' = requests /\ iter' = iter
      /\ refs' = [refs EXCEPT !["candidate"] = Base] /\ branch' = "candidate" /\ head' = Base
      /\ markers' = markers /\ origin' = origin /\ remote' = remote
      /\ work' = work /\ index' = index
  BY DEF CheckoutCandidate, Step, Goto, remoteVars
<1>3. Base \in Commits /\ Base \in 0..Len(commits)
  BY <1>1, PrepareFacts, TypeFacts DEF Commits, Inv
<1>4. /\ refs' \in [Branches -> 0..Len(commits)] /\ refs'["candidate"] = Base
      /\ refs'["target"] = refs["target"]
  BY <1>2, <1>3, TypeFacts DEF Branches, Inv
<1>5. WorkTyped
  BY <1>2, <1>3, <1>4, TypeFacts
     DEF CheckoutCandidate, Step, Goto, remoteVars, WorkTyped, Inv, Typed, Stage, Branches
<1>6. Sources' /\ Markers'
  BY <1>2, SourcesSame, MarkersSame DEF Inv, Data
<1>7. Branched'
  BY <1>1, <1>2, <1>4 DEF Branched
<1>8. /\ Tree(Base)' = Tree(Base) /\ Base' = Base /\ Tree(head)' = Tree(Base)
  BY <1>2 DEF Tree, Base
<1>9. Edited'
  BY <1>1, <1>2, <1>8, PrepareFacts DEF Edited
<1>10. Applied'
  <2>1. work = Tree(Base) /\ index = Tree(Base)
    BY <1>1 DEF requireCleanBaseWorkspace
  <2>2. Tree(Base)["code"] = 0 /\ Tree(Base)["test"] = 0
    BY <1>1, PrepareFacts
  <2> QED
    BY <1>2, <1>8, <2>1, <2>2 DEF Applied
<1>11. Reached'
  BY <1>1, <1>2, <1>10 DEF Inv, Reached, Located
<1>12. Handed'
  BY <1>2 DEF Handed
<1> QED
  BY <1>2, <1>4, <1>5, <1>6, <1>7, <1>9, <1>11, <1>12, WorkTypedKeeps, WorkKeeps DEF Inv, Data

\* The next file is one of the change sets.
LEMMA NextFileFacts ==
  ASSUME Unstaged # {}
  PROVE  NextFile \in {"code", "test"} /\ index[NextFile] # Accepted(iter)[NextFile]
<1>1. Unstaged \subseteq {1, 2}
  BY DEF Unstaged, Changed
<1>2. \E n \in Unstaged : \A m \in Unstaged : n <= m
  <2>1. CASE 1 \in Unstaged
    BY <1>1, <2>1
  <2>2. CASE Unstaged = {2}
    BY <2>2
  <2> QED
    BY <1>1, <2>1, <2>2
<1> DEFINE n == CHOOSE n \in Unstaged : \A m \in Unstaged : n <= m
<1>3. n \in Unstaged
  BY <1>2
<1>4. NextFile = Changed[n]
  BY DEF NextFile
<1> HIDE DEF n
<1>5. index[Changed[n]] # Accepted(iter)[Changed[n]]
  BY <1>3 DEF Unstaged
<1>6. Changed[n] \in {"code", "test"}
  BY <1>1, <1>3 DEF Changed
<1> QED
  BY <1>4, <1>5, <1>6

\* Between two files of the candidate.
LEMMA ApplyFacts ==
  ASSUME Inv, at = "apply"
  PROVE  /\ op = "prepare" /\ Applied /\ work \in Trees /\ index \in Trees
         /\ \A f \in Files : work[f] # Foreign /\ work[f] # Torn
<1>1. op = "prepare" /\ Applied
  BY OpOf DEF Inv, Reached, Located
<1>2. work \in Trees /\ index \in Trees
  BY TypeFacts DEF Inv
<1>3. /\ work["code"] \in {0, 1} /\ work["test"] \in {0, iter} /\ work["upstream"] \in {0, 1}
      /\ iter \in 1..MaxIterations
  BY <1>1, PrepareFacts DEF Applied, Plain
<1>4. \A f \in Files : work[f] # Foreign /\ work[f] # Torn
  BY <1>3, Bounds DEF Files, Foreign, Torn
<1> QED
  BY <1>1, <1>2, <1>4

\* A step of the preparation that leaves the job where it is.
LEMMA ApplyingKeeps ==
  ASSUME Inv, at = "apply", work' \in Trees, index' \in Trees, Applied',
         UNCHANGED <<plan, jobVars, branch, head, refs, snapshot, origin, markers,
                     builds, commits, remoteVars, events>>
  PROVE  Inv'
<1>1. /\ at' = at /\ out' = out /\ op' = op /\ outcome' = outcome /\ evidence' = evidence
      /\ commits' = commits /\ seen' = seen /\ requests' = requests
      /\ refs' = refs /\ markers' = markers /\ origin' = origin /\ remote' = remote
      /\ branch' = branch /\ head' = head
  BY DEF jobVars, remoteVars
<1>2. WorkTyped
  BY TypeFacts DEF jobVars, remoteVars, WorkTyped, Inv, Typed
<1>3. Sources' /\ Markers' /\ Branched'
  BY <1>1, SourcesSame, MarkersSame, BranchedSame DEF Inv, Data
<1>4. op = "prepare" /\ head = Base
  BY ApplyFacts DEF Applied
<1>5. Edited'
  <2>1. Tree(head)' = Tree(Base)
    BY <1>1, <1>4 DEF Tree
  <2> QED
    BY <1>1, <1>4, <2>1, PrepareFacts DEF Edited
<1>6. Reached'
  BY <1>1 DEF Inv, Reached, Located
<1>7. Handed'
  BY <1>1 DEF Handed
<1> QED
  BY <1>1, <1>2, <1>3, <1>5, <1>6, <1>7, WorkTypedKeeps, WorkKeeps DEF Inv, Data

\* A file is written.
LEMMA WriteFileKeeps ==
  ASSUME Inv, WriteFile
  PROVE  Inv'
<1>1. at = "apply" /\ op = "prepare" /\ Applied /\ work \in Trees /\ index \in Trees
  BY ApplyFacts DEF WriteFile
<1> DEFINE g == NextFile
<1>2. g \in {"code", "test"} /\ index[g] # Accepted(iter)[g]
  BY NextFileFacts DEF WriteFile
<1>3. work[g] = Tree(Base)[g] /\ work' = [work EXCEPT ![g] = Accepted(iter)[g]] /\ index' = index
  BY DEF WriteFile
<1> HIDE DEF g
<1>4. work[g] = 0 /\ Accepted(iter)[g] \in Contents
  BY <1>1, <1>2, <1>3, PrepareFacts DEF Files
<1>5. work' \in Trees /\ index' \in Trees
  BY <1>1, <1>2, <1>3, <1>4, TreeFacts DEF Files
<1>6. /\ branch' = branch /\ head' = head /\ iter' = iter /\ evidence' = evidence
      /\ commits' = commits
  BY DEF WriteFile, jobVars
<1>7. /\ Base' = Base /\ Tree(Base)' = Tree(Base)
      /\ \A f \in {"code", "test"} : Accepted(iter)'[f] = Accepted(iter)[f]
  BY <1>6 DEF Base, Tree, Accepted
<1>8. /\ work'[g] = Accepted(iter)[g]
      /\ \A f \in Files : f # g => work'[f] = work[f]
  BY <1>1, <1>2, <1>3, TreeFacts DEF Files
<1>9. Applied'
  <2>1. \A f \in {"code", "test"} : /\ work'[f] \in {0, Accepted(iter)[f]}
                                    /\ index[f] \in {0, work'[f]}
    BY <1>1, <1>2, <1>4, <1>8 DEF Applied, Files
  <2>2. work'["upstream"] = work["upstream"]
    BY <1>2, <1>8 DEF Files
  <2> QED
    BY <1>1, <1>3, <1>6, <1>7, <2>1, <2>2 DEF Applied
<1> QED
  BY <1>1, <1>5, <1>9, ApplyingKeeps DEF WriteFile

\* A file is staged.
LEMMA StageFileKeeps ==
  ASSUME Inv, StageFile
  PROVE  Inv'
<1>1. at = "apply" /\ op = "prepare" /\ Applied /\ work \in Trees /\ index \in Trees
  BY ApplyFacts DEF StageFile
<1> DEFINE g == NextFile
<1>2. g \in {"code", "test"}
  BY NextFileFacts DEF StageFile
<1>3. index' = [index EXCEPT ![g] = work[g]] /\ work' = work
  BY DEF StageFile
<1> HIDE DEF g
<1>4. work[g] \in Contents
  BY <1>1, <1>2, TreeFacts
<1>5. work' \in Trees /\ index' \in Trees
  BY <1>1, <1>2, <1>3, <1>4, TreeFacts DEF Files
<1>6. /\ branch' = branch /\ head' = head /\ iter' = iter /\ evidence' = evidence
      /\ commits' = commits
  BY DEF StageFile, jobVars
<1>7. /\ Base' = Base /\ Tree(Base)' = Tree(Base)
      /\ \A f \in {"code", "test"} : Accepted(iter)'[f] = Accepted(iter)[f]
  BY <1>6 DEF Base, Tree, Accepted
<1>8. /\ index'[g] = work[g]
      /\ \A f \in Files : f # g => index'[f] = index[f]
  BY <1>1, <1>2, <1>3, TreeFacts DEF Files
<1>9. Applied'
  <2>1. \A f \in {"code", "test"} : index'[f] \in {0, work[f]}
    BY <1>1, <1>8 DEF Applied, Files
  <2>2. index'["upstream"] = index["upstream"]
    BY <1>2, <1>8 DEF Files
  <2> QED
    BY <1>1, <1>3, <1>6, <1>7, <2>1, <2>2 DEF Applied
<1> QED
  BY <1>1, <1>5, <1>9, ApplyingKeeps DEF StageFile

\* With every file staged the index is the candidate and the worktree agrees.
LEMMA AllStaged ==
  ASSUME Inv, at = "apply", Unstaged = {}
  PROVE  index = Candidate(iter) /\ work = index
<1>1. op = "prepare" /\ Applied /\ work \in Trees /\ index \in Trees
  BY ApplyFacts
<1>2. index["code"] = Accepted(iter)["code"] /\ index["test"] = Accepted(iter)["test"]
  BY DEF Unstaged, Changed
<1>3. Accepted(iter)["code"] = 1 /\ Accepted(iter)["test"] = iter /\ iter \in 1..MaxIterations
  BY <1>1, PrepareFacts
<1>4. iter # 0
  BY <1>3, Bounds
<1>5. \A f \in Files : work[f] = index[f]
  BY <1>1, <1>2, <1>3, <1>4 DEF Applied, Files
<1>6. \A f \in Files : index[f] = Candidate(iter)[f]
  BY <1>1, <1>2, <1>3, CandidateIter DEF Applied, Files, Inv, Data
<1>7. Candidate(iter) \in Trees
  BY <1>1, CandidateIter DEF Inv, Data
<1> QED
  BY <1>1, <1>5, <1>6, <1>7, TreeFacts

\* The candidate is recorded.
LEMMA PrepareCandidateKeeps ==
  ASSUME Inv, PrepareCandidate
  PROVE  Inv'
<1>1. at = "apply" /\ op = "prepare" /\ Applied /\ index \in Trees /\ op # "initialize"
  BY ApplyFacts DEF PrepareCandidate
<1>2. index = Candidate(iter) /\ work = index
  BY AllStaged DEF PrepareCandidate
<1>3. /\ markers' = [markers EXCEPT ![iter] = index]
      /\ at' = "done" /\ out' = [evidence EXCEPT !.prepared = index]
      /\ op' = op /\ outcome' = outcome /\ evidence' = evidence /\ commits' = commits
      /\ refs' = refs /\ origin' = origin /\ remote' = remote /\ branch' = branch /\ head' = head
      /\ work' = work /\ index' = index /\ iter' = iter
  BY DEF PrepareCandidate, Finish, Goto, treeVars, remoteVars
<1>4. iter \in 1..MaxIterations /\ markers \in [1..MaxIterations -> Trees]
  BY TypeFacts DEF Inv
<1>5. out' \in Evidence /\ Ranges(out')
  BY <1>1, <1>3, ResultTyped DEF Inv
<1>6. WorkTyped
  <2>1. markers' \in [1..MaxIterations -> Trees]
    BY <1>1, <1>3, <1>4
  <2> QED
    BY <1>3, <1>5, <2>1, TypeFacts
       DEF PrepareCandidate, Finish, Goto, treeVars, remoteVars, WorkTyped, Inv, Stage
<1>7. \A i : Candidate(i)' = Candidate(i)
  BY <1>3, Same
<1>8. Candidate(iter)' = Candidate(iter)
  BY <1>3, Same
<1>9. Markers'
  <2>1. ASSUME NEW i \in 1..MaxIterations, markers'[i] # NoTree
        PROVE  op' # "initialize" /\ markers'[i] = Candidate(i)'
    <3>1. CASE i = iter
      BY <1>1, <1>2, <1>3, <1>4, <1>7, <3>1
    <3>2. CASE i # iter
      <4>1. markers'[i] = markers[i]
        BY <1>3, <1>4, <3>2
      <4> QED
        BY <1>3, <1>7, <2>1, <4>1 DEF Inv, Data, Markers
    <3> QED
      BY <3>1, <3>2
  <2> QED
    BY <2>1 DEF Markers
<1>10. Sources' /\ Branched' /\ Edited'
  BY <1>3, SourcesSame, BranchedSame, EditedSame DEF Inv, Data
<1>11. Reached'
  BY <1>3, StagesTyped, OpOf, Busy, <1>1 DEF Reached, Located
<1>12. Handed'
  BY <1>1, <1>2, <1>3, <1>8 DEF Handed, Results, Applied
<1> QED
  BY <1>3, <1>6, <1>9, <1>10, <1>11, <1>12, WorkTypedKeeps, WorkKeeps DEF Inv, Data

\* The job is killed while it writes.
LEMMA KillWritingKeeps ==
  ASSUME Inv, KillWriting
  PROVE  Inv'
<1>1. at # "idle" /\ op = "prepare" /\ Failed
  BY OpOf DEF KillWriting, Writing
<1>2. events' \in 0..MaxEvents
  BY HappensTyped DEF KillWriting, Inv
<1>3. work \in Trees /\ snapshot \in {"absent", "partial", "clean"}
  BY TypeFacts DEF Inv
<1>4. work' \in Trees
  <2>1. CASE UNCHANGED work
    BY <1>3, <2>1
  <2>2. CASE Unstaged # {} /\ work' = [work EXCEPT ![NextFile] = Torn]
    <3>1. NextFile \in Files
      BY <2>2, NextFileFacts DEF Files
    <3> QED
      BY <1>3, <2>2, <3>1, Bounds, TreeFacts
  <2> QED
    BY <2>1, <2>2 DEF KillWriting
<1>5. snapshot' \in {"absent", "partial", "clean"}
  BY <1>3 DEF KillWriting
<1>6. GivenUp
  BY <1>1 DEF Failed, GivenUp
<1>7. /\ index' = index /\ branch' = branch /\ head' = head /\ refs' = refs
      /\ origin' = origin /\ markers' = markers /\ builds' = builds /\ commits' = commits
      /\ remote' = remote /\ requests' = requests /\ images' = images
  BY DEF KillWriting, remoteVars
<1> QED
  BY <1>1, <1>2, <1>4, <1>5, <1>6, <1>7, GivenUpKeeps

\* Somebody, or the test command, puts other contents into a file.
LEMMA ForeignKeeps ==
  ASSUME Inv, at \in {"idle", "testing"}, NEW g \in Files,
         work' = [work EXCEPT ![g] = Foreign],
         index' = index \/ index' = [index EXCEPT ![g] = Foreign],
         events' \in 0..MaxEvents,
         UNCHANGED <<plan, jobVars, branch, head, refs, snapshot, origin, markers,
                     builds, commits, remoteVars>>
  PROVE  Inv'
<1>1. /\ at' = at /\ out' = out /\ op' = op /\ outcome' = outcome /\ evidence' = evidence
      /\ commits' = commits /\ seen' = seen /\ requests' = requests
      /\ refs' = refs /\ markers' = markers /\ origin' = origin /\ remote' = remote
      /\ branch' = branch /\ head' = head /\ plan' = plan /\ try' = try /\ iter' = iter
      /\ snapshot' = snapshot /\ builds' = builds /\ images' = images
  BY DEF jobVars, remoteVars
<1>2. work \in Trees /\ index \in Trees
  BY TypeFacts DEF Inv
<1>3. work' \in Trees /\ index' \in Trees
  <2>1. [work EXCEPT ![g] = Foreign] \in Trees /\ [index EXCEPT ![g] = Foreign] \in Trees
    BY <1>2, TreeFacts, Bounds
  <2> QED
    BY <1>2, <2>1
<1>4. /\ work'[g] = Foreign /\ \A f \in Files : f # g => work'[f] = work[f]
      /\ \A f \in Files : f # g => index'[f] = index[f]
      /\ index[g] = Foreign => index'[g] = Foreign
  BY <1>2, TreeFacts
<1>5. Typed'
  <2>1. Commits' = Commits /\ RequestRecords' = RequestRecords
    BY <1>1, CommitsSame
  <2>2. Ranges(evidence)' /\ Ranges(out)'
    BY <1>1 DEF Inv, Typed, Ranges
  <2> QED
    BY <1>1, <1>3, <2>1, <2>2, TypeFacts, TypedNext DEF Inv
<1>6. Graph' /\ Through' /\ Ending' /\ Sources' /\ Markers' /\ Branched'
  BY <1>1, GraphSame, ThroughSame, EndingSame, SourcesSame, MarkersSame, BranchedSame DEF Inv, Data
<1>7. OwnOne' /\ MergeOne' /\ RequestOne'
  BY <1>1, OwnSame, MergeSame, RequestsSame DEF Inv, Data
<1>8. Edited'
  <2>1. Tree(head)' = Tree(head)
    BY <1>1 DEF Tree
  <2>2. \A f \in Files : Tree(head)[f] = Foreign => index'[f] = Foreign
    BY <1>4 DEF Inv, Data, Edited
  <2>3. op \in {"test", "commit"} => \A f \in Files : work'[f] \in {index'[f], Foreign}
    BY <1>4 DEF Inv, Data, Edited
  <2> QED
    BY <1>1, <2>1, <2>2, <2>3 DEF Edited
<1>9. Reached'
  BY <1>1 DEF Inv, Reached, Located
<1>10. Handed'
  BY <1>1 DEF Handed
<1> QED
  BY <1>5, <1>6, <1>7, <1>8, <1>9, <1>10 DEF Inv, Data

\* The test command changes a file.
LEMMA DriftKeeps ==
  ASSUME Inv, Drift
  PROVE  Inv'
<1>1. PICK g \in Files : work' = [work EXCEPT ![g] = Foreign]
  BY DEF Drift, Files
<1>2. events' \in 0..MaxEvents
  BY HappensTyped DEF Drift, Inv
<1> QED
  BY <1>1, <1>2, ForeignKeeps DEF Drift

\* A human session edits a file.
LEMMA EditKeeps ==
  ASSUME Inv, Edit
  PROVE  Inv'
<1>1. PICK g \in Files : /\ work' = [work EXCEPT ![g] = Foreign]
                         /\ index' = index \/ index' = [index EXCEPT ![g] = Foreign]
  BY DEF Edit, Files
<1>2. events' \in 0..MaxEvents
  BY HappensTyped DEF Edit, Inv
<1> QED
  BY <1>1, <1>2, ForeignKeeps DEF Edit

-----------------------------------------------------------------------------
(* Acceptance, pushes, images and requests.                                 *)

\* The accepted artifact moves the workflow to the next operation.
LEMMA AcceptMeans ==
  ASSUME Inv, Accept
  PROVE  /\ Quiet /\ at' = "idle" /\ out' = NoEvidence /\ seen' = 0 /\ evidence' = out
         /\ plan' = plan /\ iter' = iter /\ events' = events /\ outcome = "open"
         /\ \/ op \in Ends /\ op = plan /\ op' = op /\ outcome' = "published" /\ try' = try
            \/ /\ op \notin Ends /\ op' = NextOp(op) /\ outcome' = "open" /\ try' = 1
               /\ op' # "initialize"
               /\ op = "initialize" <=> op' = "prepare"
               /\ op = "prepare" <=> op' = "test"
               /\ op = "test" <=> op' = "commit"
               /\ op = "commit" <=> op' = "push"
               /\ op = "push" <=> op' = "build"
               /\ op = "build" <=> op' \in Ends
               /\ op' \in Ends => op' = plan
<1>1. /\ op \in Operations /\ plan \in Ends /\ (op \in Ends => op = plan)
      /\ outcome = "open"
  BY TypeFacts, Busy DEF Inv, Data, Ending, Ends, Accept
<1>2. /\ Quiet /\ at' = "idle" /\ out' = NoEvidence /\ seen' = 0 /\ evidence' = out
      /\ plan' = plan /\ iter' = iter /\ events' = events
  BY DEF Accept, Quiet
<1>3. CASE op = plan
  BY <1>1, <1>2, <1>3 DEF Accept
<1>4. CASE op # plan
  <2>1. op \notin Ends /\ op' = NextOp(op) /\ outcome' = "open" /\ try' = 1
    BY <1>1, <1>4 DEF Accept
  <2> QED
    BY <1>1, <1>2, <2>1 DEF NextOp, Operations, Ends
<1> QED
  BY <1>3, <1>4

\* What acceptance makes of the evidence, field by field.
LEMMA AcceptFields ==
  ASSUME Inv, Accept
  PROVE  /\ evidence'.source = IF op = "initialize" THEN origin ELSE evidence.source
         /\ evidence'.prepared = IF op = "prepare" THEN Candidate(iter) ELSE evidence.prepared
         /\ evidence'.report = IF op = "test" THEN Candidate(iter) ELSE evidence.report
         /\ op # "commit" => evidence'.revision = evidence.revision
         /\ op = "commit" => /\ evidence'.revision \in Commits
                             /\ Tree(evidence'.revision) = Candidate(iter)
                             /\ Own \subseteq {evidence'.revision}
         /\ evidence'.proof = IF op = "push" THEN evidence.revision ELSE evidence.proof
         /\ evidence'.image # 0 <=> (evidence.image # 0 \/ op = "build")
         /\ op \notin Ends => evidence'.final = 0
         /\ op = "merge" => evidence'.final = refs["target"] /\ Merged(refs["target"])
         /\ op = "request" => evidence'.final # 0 /\ requests # <<>>
         /\ op = "initialize" => origin \in Commits
         /\ op = "prepare" => work = index /\ branch = "candidate"
         /\ op = "push" => remote["candidate"] # 0
<1>1. /\ evidence' = out /\ Results(out) /\ evidence \in Evidence /\ op \in Operations
      /\ evidence.final = 0
  BY TypeFacts, Busy DEF Accept, Inv, Handed
<1>2. CASE op = "initialize"
  BY <1>1, <1>2 DEF Results, Evidence, Ends
<1>3. CASE op = "prepare"
  BY <1>1, <1>3 DEF Results, Evidence, Ends
<1>4. CASE op = "test"
  BY <1>1, <1>4 DEF Results, Evidence, Ends
<1>5. CASE op = "commit"
  BY <1>1, <1>5 DEF Results, Evidence, Ends
<1>6. CASE op = "push"
  BY <1>1, <1>6 DEF Results, Evidence, Ends
<1>7. CASE op = "build"
  BY <1>1, <1>7 DEF Results, Evidence, Ends
<1>8. CASE op = "request"
  BY <1>1, <1>8 DEF Results, Evidence, Ends
<1>9. CASE op = "merge"
  BY <1>1, <1>9 DEF Results, Evidence, Ends
<1> QED
  BY <1>1, <1>2, <1>3, <1>4, <1>5, <1>6, <1>7, <1>8, <1>9 DEF Operations

\* Acceptance keeps the invariant: what a stage needs of the evidence the result has.
LEMMA AcceptKeeps ==
  ASSUME Inv, Accept
  PROVE  Inv'
<1>1. /\ at' = "idle" /\ out' = NoEvidence /\ seen' = 0 /\ evidence' = out
      /\ plan' = plan /\ iter' = iter /\ events' = events /\ outcome = "open"
      /\ work' = work /\ index' = index /\ branch' = branch /\ head' = head /\ refs' = refs
      /\ snapshot' = snapshot /\ origin' = origin /\ markers' = markers /\ builds' = builds
      /\ commits' = commits /\ remote' = remote /\ requests' = requests /\ images' = images
  BY AcceptMeans, QuietMeans
<1>2. op \in Operations /\ op' \in Operations /\ try' \in 1..MaxTries
      /\ outcome' \in {"open", "published"}
  BY AcceptMeans, TypeFacts, Bounds DEF Inv, Operations, Ends
<1>3. Typed'
  <2>1. Commits' = Commits /\ RequestRecords' = RequestRecords
    BY <1>1, CommitsSame
  <2>2. Ranges(evidence)'
    BY <1>1 DEF Inv, Typed, Ranges
  <2>3. Ranges(out)'
    BY <1>1, ZeroRanges DEF Inv
  <2>4. at' \in Stage /\ seen' \in 0..Len(requests)
    BY <1>1, TypeFacts DEF Stage, Inv
  <2> QED
    BY <1>1, <1>2, <2>1, <2>2, <2>3, <2>4, Fixed, TypeFacts, TypedNext DEF Inv
<1>4. Graph'
  BY <1>1, GraphSame DEF Inv, Data
<1>5. /\ Commits' = Commits /\ Own' = Own /\ Merges' = Merges /\ History' = History
      /\ \A c : Tree(c)' = Tree(c)
  BY <1>1, CommitsSame
<1>6. /\ evidence.source # 0 => evidence'.source = evidence.source
      /\ evidence.source = 0 <=> op = "initialize"
  BY AcceptFields DEF Inv, Data, Through
<1>7. op # "initialize" => /\ Candidate(iter)' = Candidate(iter)
                           /\ \A i : Candidate(i)' = Candidate(i)
  BY <1>1, <1>6, Same
<1>8. Through'
  <2>1. evidence'.source # 0
    BY <1>6, AcceptFields, CommitFacts DEF Inv
  <2>2. Tree(evidence.revision)' = Tree(evidence'.revision)
    BY <1>1 DEF Tree
  <2>3. evidence'.prepared = IF op' \in {"initialize", "prepare"} THEN NoTree ELSE Candidate(iter)'
    BY <1>2, <1>7, AcceptMeans, AcceptFields DEF Inv, Data, Through, Operations, Ends
  <2>4. evidence'.report = IF op' \in Late THEN Candidate(iter)' ELSE NoTree
    BY <1>2, <1>7, AcceptMeans, AcceptFields DEF Inv, Data, Through, Operations, Ends, Late
  <2>5. /\ (evidence'.revision # 0) <=> (op' \in Late \ {"commit"})
        /\ evidence'.revision # 0 => Tree(evidence'.revision) = Candidate(iter)'
    BY <1>2, <1>7, AcceptMeans, AcceptFields, CommitFacts
       DEF Inv, Data, Through, Operations, Ends, Late
  <2>6. /\ evidence'.proof = IF op' \in {"build"} \cup Ends THEN evidence'.revision ELSE 0
        /\ (evidence'.image # 0) <=> (op' \in Ends)
    BY <1>2, AcceptMeans, AcceptFields DEF Inv, Data, Through, Operations, Ends, Late
  <2>7. op' # "initialize"
    BY AcceptMeans DEF Ends
  <2> QED
    BY <2>1, <2>2, <2>3, <2>4, <2>5, <2>6, <2>7 DEF Through
<1>9. Ending'
  BY <1>1, <1>5, AcceptMeans, AcceptFields DEF Ending, Merged, Ends
<1>10. Sources'
  <2>1. \A c \in 1..evidence'.source : Plain(Tree(c))
    BY AcceptFields, CommitFacts DEF Inv, Data, Sources
  <2>2. op' # "initialize" /\ origin' = evidence'.source
    BY <1>1, AcceptMeans, AcceptFields DEF Inv, Data, Sources, Ends
  <2>3. op' \in {"build"} \cup Ends => remote["candidate"] # 0
    BY AcceptMeans, AcceptFields DEF Inv, Data, Sources, Ends
  <2>4. \A c : Tree(c)' = Tree(c)
    BY <1>5
  <2>5. \A c \in 1..evidence'.source : Plain(commits'[c].tree)
    BY <1>1, <2>1 DEF Tree
  <2> QED
    BY <1>1, <2>2, <2>3, <2>5 DEF Inv, Data, Sources, Tree
<1>11. Markers'
  BY <1>1, <1>7, AcceptMeans DEF Inv, Data, Markers, Ends
<1>12. Branched'
  BY <1>1, AcceptMeans, AcceptFields DEF Inv, Data, Branched, Ends
<1>13. Edited'
  BY <1>1, AcceptMeans, AcceptFields DEF Inv, Data, Edited, Tree, Ends
<1>14. OwnOne'
  <2>1. op' \notin Late => Own = {}
    BY AcceptMeans DEF Inv, Data, OwnOne, Late, Ends
  <2>2. evidence'.revision # 0 => Own \subseteq {evidence'.revision}
    BY AcceptFields DEF Inv, Data, OwnOne
  <2>3. Own # {} => op # "initialize"
    BY DEF Inv, Data, OwnOne, Late
  <2>4. \A c \in Own : commits'[c].key = iter' /\ Tree(c) = Candidate(iter)'
    BY <1>1, <1>7, <2>3 DEF Inv, Data, OwnOne
  <2>5. \A c \in Own' : commits'[c].key = iter' /\ commits'[c].tree = Candidate(iter)'
    BY <1>1, <1>5, <2>4 DEF Tree
  <2> QED
    BY <1>5, <2>1, <2>2, <2>5 DEF Inv, Data, OwnOne, Tree
<1>15. MergeOne'
  <2>1. CASE op = "merge"
    <3>1. op' = "merge" /\ Merged(refs["target"]) /\ evidence'.revision = evidence.revision
      BY <2>1, AcceptMeans, AcceptFields DEF Ends
    <3>2. Merged(refs["target"])'
      BY <1>1, <1>5, <3>1 DEF Merged, Tree
    <3> QED
      BY <3>1, <3>2 DEF MergeOne
  <2>2. CASE op # "merge"
    <3>1. refs["target"] = 0 /\ Merges = {}
      BY <2>2 DEF Inv, Data, MergeOne, Merged
    <3> QED
      BY <1>1, <1>5, <3>1 DEF MergeOne
  <2> QED
    BY <2>1, <2>2
<1>16. RequestOne'
  <2>1. CASE op = "request"
    BY <1>1, <2>1, AcceptMeans, AcceptFields DEF Inv, Data, RequestOne, Requests, Ends
  <2>2. CASE op # "request"
    <3>1. requests = <<>>
      BY <2>2 DEF Inv, Data, RequestOne
    <3> QED
      BY <1>1, <3>1 DEF RequestOne, Requests
  <2> QED
    BY <2>1, <2>2
<1>17. Reached'
  BY <1>1, <1>2, StagesTyped DEF Reached, Located
<1>18. Handed'
  BY <1>1 DEF Handed
<1> QED
  BY <1>3, <1>4, <1>8, <1>9, <1>10, <1>11, <1>12, <1>13, <1>14, <1>15, <1>16, <1>17, <1>18
     DEF Inv, Data

\* A push moves a branch of the repository to where the local one is.
LEMMA PushKeeps ==
  ASSUME Inv, Push
  PROVE  Inv'
<1>1. at = "pushing" /\ op \in {"push", "merge"}
  BY OpOf DEF Push
<1>2. CASE /\ remote' = [remote EXCEPT ![PushedBranch] = refs[PushedBranch]]
           /\ Step("pushing", "confirm")
  <2>1. /\ at' = "confirm" /\ try' = try /\ out' = out /\ seen' = seen /\ events' = events
        /\ op' = op /\ iter' = iter /\ plan' = plan /\ outcome' = outcome /\ evidence' = evidence
        /\ work' = work /\ index' = index /\ branch' = branch /\ head' = head /\ refs' = refs
        /\ snapshot' = snapshot /\ origin' = origin /\ markers' = markers /\ builds' = builds
        /\ commits' = commits /\ requests' = requests /\ images' = images
    BY <1>2 DEF Push, Step, Goto, localVars, treeVars
  <2>2. PushedBranch \in Branches /\ refs[PushedBranch] \in 0..Len(commits)
    BY TypeFacts DEF PushedBranch, Branches, Inv
  <2>3. /\ op = "push" => refs["candidate"] = evidence.revision
        /\ op = "merge" => Merged(refs["target"])
    BY <1>1 DEF Inv, Reached, Located
  <2>4. refs[PushedBranch] # 0
    BY <1>1, <2>3 DEF PushedBranch, Merged, Inv, Data, Through, Late
  <2>5. /\ remote' \in [Branches -> 0..Len(commits)]
        /\ remote["target"] # 0 => remote'["target"] # 0
        /\ remote["candidate"] # 0 => remote'["candidate"] # 0
    BY <1>2, <2>2, <2>4, TypeFacts DEF Inv, Branches
  <2>6. Typed'
    <3>1. Commits' = Commits /\ RequestRecords' = RequestRecords
      BY <2>1, CommitsSame
    <3>2. Ranges(evidence)' /\ Ranges(out)'
      BY <2>1 DEF Inv, Typed, Ranges
    <3>3. at' \in Stage
      BY <2>1 DEF Stage
    <3> QED
      BY <2>1, <2>5, <3>1, <3>2, <3>3, TypeFacts, TypedNext DEF Inv
  <2>7. Graph' /\ Through' /\ Ending' /\ Markers' /\ Branched' /\ Edited' /\ OwnOne' /\ MergeOne'
    BY <2>1, GraphSame, ThroughSame, EndingSame, MarkersSame, BranchedSame, EditedSame, OwnSame,
       MergeSame DEF Inv, Data
  <2>8. Sources'
    BY <1>1, <2>1, <2>5, CommitsSame DEF Inv, Data, Sources, Tree
  <2>9. RequestOne'
    <3>1. requests = <<>>
      BY <1>1 DEF Inv, Data, RequestOne
    <3> QED
      BY <2>1, <3>1 DEF RequestOne, Requests
  <2>10. Located(at)'
    <3>1. Merged(refs["target"])' = Merged(refs["target"])
      <4>1. History' = History /\ Merges' = Merges /\ \A c : Tree(c)' = Tree(c)
        BY <2>1, CommitsSame
      <4> QED
        BY <2>1, <4>1 DEF Merged, Tree
    <3> QED
      BY <2>1, <2>3, <3>1 DEF Located
  <2>11. "confirm" \in Stages(op)
    BY <1>1, StagesAre
  <2>12. Reached'
    BY <1>1, <2>1, <2>10, <2>11 DEF Inv, Reached
  <2>13. Handed'
    BY <2>1 DEF Handed
  <2> QED
    BY <2>6, <2>7, <2>8, <2>9, <2>12, <2>13 DEF Inv, Data
<1>3. CASE Failed /\ UNCHANGED <<remote, events>>
  <2>1. Quiet
    BY <1>3 DEF Push, Quiet, remoteVars
  <2> QED
    BY <1>1, <1>3, <2>1, RefusedKeeps
<1> QED
  BY <1>2, <1>3 DEF Push

\* An image is built.
LEMMA RunBuildCommandKeeps ==
  ASSUME Inv, RunBuildCommand
  PROVE  Inv'
<1>1. at = "building" /\ op = "build" /\ "record" \in Stages(op)
  BY OpOf, StagesAre DEF RunBuildCommand, Step
<1>2. /\ at' = "record" /\ try' = try /\ out' = out /\ seen' = seen /\ events' = events
      /\ op' = op /\ iter' = iter /\ plan' = plan /\ outcome' = outcome /\ evidence' = evidence
      /\ work' = work /\ index' = index /\ branch' = branch /\ head' = head /\ refs' = refs
      /\ snapshot' = snapshot /\ origin' = origin /\ markers' = markers /\ builds' = builds
      /\ commits' = commits /\ requests' = requests /\ remote' = remote
      /\ images' = Append(images, work)
  BY DEF RunBuildCommand, Step, Goto, localVars, treeVars
<1>3. /\ images' \in Seq(Trees) /\ Len(images') = Len(images) + 1 /\ Len(images) \in Nat
      /\ images' # <<>>
  BY <1>2, TypeFacts DEF Inv
<1>4. Typed'
  <2>1. Commits' = Commits /\ RequestRecords' = RequestRecords
    BY <1>2, CommitsSame
  <2>2. Ranges(evidence)' /\ Ranges(out)'
    BY <1>2, <1>3 DEF Inv, Typed, Ranges
  <2>3. at' \in Stage
    BY <1>2 DEF Stage
  <2>4. builds' \in [1..MaxIterations -> 0..Len(images')]
    <3>1. 0..Len(images) \subseteq 0..Len(images')
      BY <1>3
    <3> QED
      BY <1>2, <3>1, TypeFacts DEF Inv
  <2> QED
    BY <1>2, <1>3, <2>1, <2>2, <2>3, <2>4, TypeFacts, TypedNext DEF Inv
<1>5. Data'
  BY <1>2, DataSame DEF Inv, dataVars
<1>6. Reached'
  BY <1>1, <1>2, <1>3 DEF Inv, Reached, Located
<1>7. Handed'
  BY <1>2 DEF Handed
<1> QED
  BY <1>4, <1>5, <1>6, <1>7 DEF Inv

\* A request is opened, when there was none.
LEMMA PostKeeps ==
  ASSUME Inv, NEW reply, Post(reply)
  PROVE  Inv'
<1>1. /\ at = "post" /\ op = "request" /\ requests = <<>> /\ Stages(op) \subseteq Stage
      /\ "confirm" \in Stages(op) /\ "refind" \in Stages(op)
  BY OpOf, StagesAre, StagesTyped DEF Post, Inv, Reached, Located
<1> DEFINE r == [head |-> remote["candidate"], state |-> "open"]
<1>2. /\ try' = try /\ out' = out
      /\ op' = op /\ iter' = iter /\ plan' = plan /\ outcome' = outcome /\ evidence' = evidence
      /\ work' = work /\ index' = index /\ branch' = branch /\ head' = head /\ refs' = refs
      /\ snapshot' = snapshot /\ origin' = origin /\ markers' = markers /\ builds' = builds
      /\ commits' = commits /\ remote' = remote /\ images' = images
      /\ requests' = Append(requests, r)
  BY DEF Post, Found, Goto, localVars, treeVars
<1>3. \/ at' = "confirm" /\ seen' = Len(requests) + 1 /\ events' = events
      \/ at' = "refind" /\ seen' = seen /\ Happens("lostReply")
  BY DEF Post, Found, Goto
<1>4. remote["candidate"] \in Commits
  <2>1. remote["candidate"] \in 0..Len(commits) /\ remote["candidate"] # 0 /\ Len(commits) \in Nat
    BY <1>1, TypeFacts DEF Inv, Data, Sources, Branches, Ends
  <2> QED
    BY <2>1 DEF Commits
<1>5. r \in RequestRecords /\ r.head = remote["candidate"]
  BY <1>4 DEF RequestRecords
<1> HIDE DEF r
<1>6. requests' = <<r>> /\ Len(requests') = 1 /\ requests'[1] = r /\ requests' # <<>>
      /\ Len(requests) = 0 /\ requests' \in Seq(RequestRecords)
  BY <1>1, <1>2, <1>5
<1>7. Requests' = {1}
  BY <1>6 DEF Requests
<1>8. events' \in 0..MaxEvents /\ seen' \in 0..Len(requests') /\ at' \in Stage
      /\ at' \in {"confirm", "refind"}
  BY <1>1, <1>3, <1>6, TypeFacts, HappensTyped DEF Inv
<1>9. Typed'
  <2>1. Commits' = Commits /\ RequestRecords' = RequestRecords
    BY <1>2, CommitsSame
  <2>2. Ranges(evidence)' /\ Ranges(out)'
    BY <1>2 DEF Inv, Typed, Ranges
  <2> QED
    BY <1>2, <1>6, <1>8, <2>1, <2>2, TypeFacts, TypedNext DEF Inv
<1>10. Graph' /\ Through' /\ Sources' /\ Markers' /\ Branched' /\ Edited' /\ OwnOne' /\ MergeOne'
  BY <1>2, GraphSame, ThroughSame, SourcesSame, MarkersSame, BranchedSame, EditedSame, OwnSame,
     MergeSame DEF Inv, Data
<1>11. Ending'
  BY <1>2, <1>6, CommitsSame DEF Inv, Data, Ending
<1>12. RequestOne'
  BY <1>1, <1>2, <1>5, <1>6, <1>7 DEF RequestOne
<1>13. Reached'
  <2>1. at' = "confirm" => seen' \in Requests'
    BY <1>3, <1>6, <1>7
  <2>2. Located(at)'
    BY <1>1, <1>2, <1>8 DEF Located
  <2> QED
    BY <1>1, <1>2, <1>8, <2>1, <2>2, Busy DEF Reached
<1>14. Handed'
  BY <1>8 DEF Handed
<1> QED
  BY <1>9, <1>10, <1>11, <1>12, <1>13, <1>14 DEF Inv, Data

\* Somebody ends a request.
LEMMA EndRequestKeeps ==
  ASSUME Inv, NEW state \in {"closed", "merged"}, EndRequest(state)
  PROVE  Inv'
<1>1. PICK n \in Requests : /\ requests[n].state = "open"
                            /\ requests' = [requests EXCEPT ![n].state = state]
  BY DEF EndRequest
<1>2. /\ at' = at /\ try' = try /\ out' = out /\ seen' = seen
      /\ op' = op /\ iter' = iter /\ plan' = plan /\ outcome' = outcome /\ evidence' = evidence
      /\ work' = work /\ index' = index /\ branch' = branch /\ head' = head /\ refs' = refs
      /\ snapshot' = snapshot /\ origin' = origin /\ markers' = markers /\ builds' = builds
      /\ commits' = commits /\ remote' = remote /\ images' = images
  BY DEF EndRequest, jobVars, localVars, treeVars
<1>3. events' \in 0..MaxEvents
  BY HappensTyped DEF EndRequest, Inv
<1>4. requests \in Seq(RequestRecords) /\ Len(requests) \in Nat /\ Requests = 1..Len(requests)
      /\ \A m \in Requests : requests[m] \in RequestRecords
  <2>1. requests \in Seq(RequestRecords) /\ Requests = 1..Len(requests)
    BY TypeFacts DEF Inv, Requests
  <2> QED
    BY <2>1
<1>5. /\ requests'[n] = [requests[n] EXCEPT !.state = state]
      /\ \A m \in Requests : m # n => requests'[m] = requests[m]
      /\ Len(requests') = Len(requests) /\ DOMAIN requests' = 1..Len(requests)
  BY <1>1, <1>4
<1>6. requests'[n] \in RequestRecords /\ requests'[n].head = requests[n].head
  BY <1>4, <1>5 DEF RequestRecords
<1>7. requests' \in Seq(RequestRecords)
  BY <1>1, <1>4, <1>6
<1>8. Requests' = Requests /\ \A m \in Requests : requests'[m].head = requests[m].head
  BY <1>5, <1>6 DEF Requests
<1>9. requests # <<>> /\ requests' # <<>>
  BY <1>4, <1>5
<1>10. Typed'
  <2>1. Commits' = Commits /\ RequestRecords' = RequestRecords
    BY <1>2, CommitsSame
  <2>2. Ranges(evidence)' /\ Ranges(out)'
    BY <1>2 DEF Inv, Typed, Ranges
  <2> QED
    BY <1>2, <1>3, <1>5, <1>7, <2>1, <2>2, TypeFacts, TypedNext DEF Inv
<1>11. Graph' /\ Through' /\ Sources' /\ Markers' /\ Branched' /\ Edited' /\ OwnOne' /\ MergeOne'
  BY <1>2, GraphSame, ThroughSame, SourcesSame, MarkersSame, BranchedSame, EditedSame, OwnSame,
     MergeSame DEF Inv, Data
<1>12. Ending'
  BY <1>2, <1>9, CommitsSame DEF Inv, Data, Ending
<1>13. RequestOne'
  BY <1>2, <1>5, <1>8, <1>9 DEF Inv, Data, RequestOne
<1>14. op = "request"
  BY <1>9 DEF Inv, Data, RequestOne
<1>15. Reached'
  <2>1. at # "post"
    BY <1>9 DEF Inv, Reached, Located
  <2>2. at # "refcheck"
    BY <1>1 DEF Inv, Reached, Located, Passed
  <2>3. at \notin {"checkout", "restoring", "branch", "apply", "committing", "pushing", "record",
                   "merging"}
    BY <1>14, OpOf
  <2>4. Located(at)'
    BY <1>2, <1>14, <2>1, <2>2, <2>3 DEF Located
  <2> QED
    BY <1>2, <1>8, <2>4 DEF Inv, Reached
<1>16. Handed'
  BY <1>2, <1>9, <1>14 DEF Inv, Handed, Results
<1> QED
  BY <1>10, <1>11, <1>12, <1>13, <1>15, <1>16 DEF Inv, Data

-----------------------------------------------------------------------------
(* Steps that make a commit, and git.merge.                                 *)

\* What a new commit leaves as it was.
LEMMA GrownMeans ==
  ASSUME Inv, NEW tree \in Trees, NEW key \in 0..MaxIterations, NEW parents \in SUBSET Commits,
         NewCommit(tree, key, parents), evidence' = evidence, iter' = iter
  PROVE  /\ Len(commits)' = Len(commits) + 1 /\ Len(commits) \in Nat
         /\ Len(commits) + 1 \notin Commits /\ Len(commits) + 1 \in Commits'
         /\ Commits' = Commits \cup {Len(commits) + 1}
         /\ \A c \in Commits : /\ Tree(c)' = Tree(c) /\ commits'[c] = commits[c]
                               /\ History'[c] = History[c]
         /\ commits'[Len(commits) + 1].tree = tree
         /\ Own' = IF key = 0 THEN Own ELSE Own \cup {Len(commits) + 1}
         /\ Merges' = IF Cardinality(parents) > 1 THEN Merges \cup {Len(commits) + 1} ELSE Merges
         /\ evidence.revision # 0 => Tree(evidence.revision)' = Tree(evidence.revision)
         /\ op # "initialize" => /\ Base' = Base /\ Tree(Base)' = Tree(Base)
                                 /\ \A i : Candidate(i)' = Candidate(i)
                                 /\ Candidate(iter)' = Candidate(iter)
         /\ Tree(head)' = IF head' = head THEN Tree(head) ELSE commits'[head'].tree
         /\ Graph'
<1> DEFINE new == Len(commits) + 1
<1>1. /\ Len(commits) \in Nat /\ Len(commits)' = new
      /\ Commits' = Commits \cup {new}
      /\ \A c \in Commits : commits'[c] = commits[c]
      /\ commits'[new] = [tree |-> tree, key |-> key, parents |-> parents]
  BY Appended DEF Inv
<1>2. new \notin Commits
  BY <1>1 DEF Commits
<1>3. /\ commits'[new].tree = tree /\ commits'[new].key = key
      /\ commits'[new].parents = parents
  BY <1>1
<1> HIDE DEF new
<1>4. \A c \in Commits : Tree(c)' = Tree(c)
  BY <1>1 DEF Tree
<1>5. Own' = IF key = 0 THEN Own ELSE Own \cup {new}
  BY <1>1, <1>2, <1>3 DEF Own
<1>6. Merges' = IF Cardinality(parents) > 1 THEN Merges \cup {new} ELSE Merges
  BY <1>1, <1>2, <1>3 DEF Merges
<1>7. evidence.revision # 0 => Tree(evidence.revision)' = Tree(evidence.revision)
  <2>1. evidence.revision # 0 => evidence.revision \in Commits
    BY CommitFacts DEF Inv, Typed, Ranges
  <2> QED
    BY <1>1, <2>1 DEF Tree
<1>8. op # "initialize" => /\ Base' = Base /\ Tree(Base)' = Tree(Base)
                           /\ \A i : Candidate(i)' = Candidate(i)
                           /\ Candidate(iter)' = Candidate(iter)
  <2>1. op # "initialize" => Base \in Commits
    BY BaseFacts DEF Inv, Data
  <2>2. op # "initialize" => Tree(Base)' = Tree(Base)
    BY <1>1, <2>1 DEF Tree, Base
  <2> QED
    BY <2>2, CandidateSame
<1>9. Graph' /\ \A c \in Commits : History'[c] = History[c]
  BY Grown DEF Inv, Data
<1>10. Tree(head)' = IF head' = head THEN Tree(head) ELSE commits'[head'].tree
  <2>1. head \in Commits
    BY TypeFacts DEF Inv
  <2> QED
    BY <1>1, <2>1 DEF Tree
<1> QED
  BY <1>1, <1>2, <1>4, <1>3, <1>5, <1>6, <1>7, <1>8, <1>9, <1>10 DEF new

\* And what types a new commit leaves.
LEMMA GrownTyped ==
  ASSUME Inv, NEW tree \in Trees, NEW key \in 0..MaxIterations, NEW parents \in SUBSET Commits,
         NewCommit(tree, key, parents), evidence' = evidence, images' = images
  PROVE  /\ commits' \in Seq(CommitRecords) /\ Ranges(evidence)'
         /\ \A e : Ranges(e) => Ranges(e)'
         /\ out' = out => Ranges(out)'
         /\ 0..Len(commits) \subseteq 0..Len(commits')
         /\ Len(commits) + 1 \in 0..Len(commits')
         /\ Seq(RequestRecords) \subseteq Seq(RequestRecords')
<1>1. /\ Len(commits) \in Nat /\ Len(commits)' = Len(commits) + 1
      /\ Commits' = Commits \cup {Len(commits) + 1} /\ commits' \in Seq(CommitRecords)
  BY Appended DEF Inv
<1>2. 0..Len(commits) \subseteq 0..Len(commits') /\ Len(commits) + 1 \in 0..Len(commits')
  BY <1>1
<1>3. /\ \A e : Ranges(e) => Ranges(e)'
      /\ Ranges(evidence)' /\ (out' = out => Ranges(out)')
  BY <1>2 DEF Ranges, Inv, Typed
<1>4. RequestRecords \subseteq RequestRecords'
  BY <1>1 DEF RequestRecords
<1>5. Seq(RequestRecords) \subseteq Seq(RequestRecords')
  BY <1>4
<1> QED
  BY <1>1, <1>2, <1>3, <1>5

\* The parts of the invariant no new commit touches.
LEMMA GrownKeeps ==
  ASSUME Inv, NEW tree \in Trees, NEW key \in 0..MaxIterations, NEW parents \in SUBSET Commits,
         NewCommit(tree, key, parents), evidence' = evidence, iter' = iter, op' = op,
         markers' = markers, origin' = origin,
         op = "initialize" => Plain(tree),
         remote["target"] # 0 => remote'["target"] # 0,
         remote["candidate"] # 0 => remote'["candidate"] # 0,
         remote["candidate"] = 0 => remote'["candidate"] = 0
  PROVE  Graph' /\ Through' /\ Sources' /\ Markers'
<1>1. Graph'
  BY GrownMeans
<1>2. Through'
  BY GrownMeans DEF Inv, Data, Through, Late, Tree
<1>3. Markers'
  BY GrownMeans DEF Inv, Data, Markers
<1>4. Sources'
  <2>1. /\ Commits' = Commits \cup {Len(commits) + 1}
        /\ \A c \in Commits : Tree(c)' = Tree(c)
        /\ commits'[Len(commits) + 1].tree = tree
    BY GrownMeans
  <2>2. op = "initialize" => \A c \in Commits' : Plain(commits'[c].tree)
    BY <2>1 DEF Tree, Inv, Data, Sources
  <2>3. \A c \in 1..evidence.source : Plain(commits'[c].tree)
    <3>1. \A c \in 1..evidence.source : c \in Commits
      BY CommitFacts DEF Inv, Typed, Ranges
    <3> QED
      BY <2>1, <3>1 DEF Tree, Inv, Data, Sources
  <2> QED
    BY <2>2, <2>3 DEF Inv, Data, Sources, Tree
<1> QED
  BY <1>1, <1>2, <1>3, <1>4

\* It leaves the merge where it was.
LEMMA MergedGrown ==
  ASSUME Inv, NEW tree \in Trees, NEW key \in 0..MaxIterations, NEW parents \in SUBSET Commits,
         NewCommit(tree, key, parents), evidence' = evidence, iter' = iter,
         ~(Cardinality(parents) > 1), Merged(refs["target"]),
         refs'["target"] = refs["target"]
  PROVE  Merged(refs["target"])'
<1>1. refs["target"] \in Commits
  BY DEF Merged, Merges
<1>2. /\ Merges' = Merges
      /\ \A c \in Commits : Tree(c)' = Tree(c) /\ History'[c] = History[c]
  BY GrownMeans
<1>3. \A f \in Files : commits'[refs["target"]].tree[f] # Foreign
  BY <1>1, <1>2 DEF Merged, Tree
<1> QED
  BY <1>1, <1>2, <1>3 DEF Merged, Tree

\* A commit with one parent is no merge.
LEMMA OneParent ==
  ASSUME NEW p
  PROVE  ~(Cardinality({p}) > 1)
<1>1. Cardinality({p}) = 1
  BY FS_Singleton
<1> QED
  BY <1>1

\* A commit with one parent, that does not move the target branch.
LEMMA PlainCommitKeeps ==
  ASSUME Inv, NEW tree \in Trees, NEW key \in 0..MaxIterations, NEW p \in Commits,
         NewCommit(tree, key, {p}), evidence' = evidence, iter' = iter, op' = op,
         plan' = plan, outcome' = outcome,
         refs'["target"] = refs["target"]
  PROVE  /\ MergeOne'
         /\ requests' = requests => Ending'
         /\ key = 0 => OwnOne'
<1>1. {p} \in SUBSET Commits /\ ~(Cardinality({p}) > 1)
  BY OneParent
<1>2. /\ Merges' = Merges /\ Commits' = Commits \cup {Len(commits) + 1}
      /\ \A c \in Commits : Tree(c)' = Tree(c) /\ commits'[c] = commits[c]
      /\ key = 0 => Own' = Own
      /\ op # "initialize" => Candidate(iter)' = Candidate(iter)
  BY <1>1, GrownMeans
<1>3. Merged(refs["target"]) => Merged(refs["target"])'
  BY <1>1, MergedGrown
<1>4. MergeOne'
  BY <1>2, <1>3 DEF Inv, Data, MergeOne
<1>5. requests' = requests => Ending'
  BY <1>2 DEF Inv, Data, Ending
<1>6. key = 0 => OwnOne'
  <2>1. HAVE key = 0
  <2>2. Own # {} => op # "initialize"
    BY DEF Inv, Data, OwnOne, Late
  <2>3. Own \subseteq Commits
    BY DEF Own
  <2>4. \A c \in Own : commits'[c].key = iter /\ commits'[c].tree = Candidate(iter)'
    BY <1>2, <2>2, <2>3 DEF Inv, Data, OwnOne, Tree
  <2> QED
    BY <1>2, <2>1, <2>4 DEF Inv, Data, OwnOne, Tree
<1> QED
  BY <1>4, <1>5, <1>6

\* The candidate is committed: the index is the tested tree.
LEMMA CommitIndexKeeps ==
  ASSUME Inv, CommitIndex
  PROVE  Inv'
<1>1. at = "committing" /\ op = "commit" /\ index = Candidate(iter) /\ Own = {}
  BY OpOf DEF CommitIndex, Inv, Reached, Located
<1> DEFINE new == Len(commits) + 1
<1>2. CASE /\ NewCommit(index, iter, {head}) /\ head' = Len(commits) + 1
           /\ refs' = [refs EXCEPT !["candidate"] = head'] /\ Finish(Revision(head'))
  <2>1. /\ at' = "done" /\ out' = [evidence EXCEPT !.revision = new]
        /\ try' = try /\ seen' = seen /\ events' = events
        /\ op' = op /\ iter' = iter /\ plan' = plan /\ outcome' = outcome /\ evidence' = evidence
        /\ work' = work /\ index' = index /\ branch' = branch /\ head' = new
        /\ snapshot' = snapshot /\ origin' = origin /\ markers' = markers /\ builds' = builds
        /\ remote' = remote /\ requests' = requests /\ images' = images
    BY <1>2 DEF CommitIndex, Finish, Goto, Revision, remoteVars
  <2>2. /\ index \in Trees /\ iter \in 0..MaxIterations /\ head \in Commits /\ iter # 0
        /\ {head} \in SUBSET Commits /\ evidence \in Evidence
    BY TypeFacts, Bounds DEF Inv
  <2>3. /\ Len(commits)' = new /\ new \in Commits' /\ new \in Nat /\ new # 0
        /\ \A c \in Commits : Tree(c)' = Tree(c)
        /\ commits'[new].tree = index
        /\ Own' = {new}
        /\ Candidate(iter)' = Candidate(iter)
    BY <1>1, <1>2, <2>1, <2>2, GrownMeans
  <2>4. /\ commits' \in Seq(CommitRecords) /\ Ranges(evidence)'
        /\ 0..Len(commits) \subseteq 0..Len(commits') /\ new \in 0..Len(commits')
        /\ Seq(RequestRecords) \subseteq Seq(RequestRecords')
    BY <1>2, <2>1, <2>2, GrownTyped
  <2>5. /\ refs' \in [Branches -> 0..Len(commits')] /\ refs'["candidate"] = new
        /\ refs'["target"] = refs["target"]
    <3>1. refs \in [Branches -> 0..Len(commits')]
      BY <2>4, TypeFacts DEF Inv
    <3> QED
      BY <1>2, <2>1, <2>4, <3>1 DEF Branches
  <2>6. out' \in Evidence /\ Ranges(out)' /\ out'.revision = new
    <3>1. /\ new \in Nat /\ out'.source = evidence.source /\ out'.proof = evidence.proof
          /\ out'.image = evidence.image /\ out'.revision = new /\ out' \in Evidence
      BY <2>1, <2>2, <2>3 DEF Evidence
    <3> QED
      BY <2>1, <2>4, <3>1 DEF Ranges
  <2>7. Typed'
    <3>1. remote' \in [Branches -> 0..Len(commits')] /\ origin' \in 0..Len(commits')
      BY <2>1, <2>4, TypeFacts DEF Inv
    <3>2. requests' \in Seq(RequestRecords')
      BY <2>1, <2>4, TypeFacts DEF Inv
    <3>3. at' \in Stage
      BY <2>1 DEF Stage
    <3> QED
      BY <2>1, <2>2, <2>3, <2>4, <2>5, <2>6, <3>1, <3>2, <3>3, TypeFacts, TypedNext DEF Inv
  <2>8. Graph' /\ Through' /\ Sources' /\ Markers'
    BY <1>1, <1>2, <2>1, <2>2, GrownKeeps
  <2>9. MergeOne' /\ Ending'
    BY <1>2, <2>1, <2>2, <2>5, PlainCommitKeeps
  <2>10. Branched'
    BY <1>1, <2>1, <2>5 DEF Inv, Data, Branched
  <2>11. Edited'
    <3>1. Tree(head)' = index
      BY <2>1, <2>3 DEF Tree
    <3> QED
      BY <2>1, <3>1 DEF Inv, Data, Edited
  <2>12. OwnOne'
    <3>1. commits'[new].key = iter
      <4>1. commits'[new] = [tree |-> index, key |-> iter, parents |-> {head}]
        BY <1>2, <2>2, Appended DEF Inv
      <4> QED
        BY <4>1
    <3>2. evidence.revision = 0
      BY <1>1 DEF Inv, Data, Through
    <3>3. commits'[new].tree = Candidate(iter)'
      BY <1>1, <2>3 DEF Tree
    <3> QED
      BY <1>1, <2>1, <2>3, <3>1, <3>2, <3>3 DEF OwnOne, Late, Tree
  <2>13. RequestOne'
    BY <2>1, RequestsSame DEF Inv, Data
  <2>14. Reached'
    BY <1>1, <2>1, StagesTyped, OpOf, Busy DEF Reached, Located
  <2>15. Handed'
    <3>1. Tree(out.revision)' = Candidate(iter)'
      BY <1>1, <2>3, <2>6 DEF Tree
    <3> QED
      BY <1>1, <2>1, <2>3, <2>6, <3>1 DEF Handed, Results
  <2> QED
    BY <2>7, <2>8, <2>9, <2>10, <2>11, <2>12, <2>13, <2>14, <2>15 DEF Inv, Data
<1>3. CASE Failed /\ UNCHANGED <<commits, head, refs, events>>
  <2>1. Quiet
    BY <1>3 DEF CommitIndex, Quiet, localVars, treeVars
  <2> QED
    BY <1>1, <1>3, <2>1, RefusedKeeps
<1> QED
  BY <1>2, <1>3 DEF CommitIndex

\* A human session commits what is staged.
LEMMA EditCommittedKeeps ==
  ASSUME Inv, EditCommitted
  PROVE  Inv'
<1> DEFINE new == Len(commits) + 1
<1>1. at = "idle" /\ branch = "candidate" /\ op # "initialize"
  BY DEF EditCommitted, Inv, Data, Branched
<1>2. /\ NewCommit(index, 0, {head}) /\ head' = new
      /\ refs' = [refs EXCEPT !["candidate"] = new]
      /\ at' = at /\ out' = out /\ try' = try /\ seen' = seen
      /\ op' = op /\ iter' = iter /\ plan' = plan /\ outcome' = outcome /\ evidence' = evidence
      /\ work' = work /\ index' = index /\ branch' = branch
      /\ snapshot' = snapshot /\ origin' = origin /\ markers' = markers /\ builds' = builds
      /\ remote' = remote /\ requests' = requests /\ images' = images
  BY DEF EditCommitted, jobVars, remoteVars
<1>3. events' \in 0..MaxEvents
  BY HappensTyped DEF EditCommitted, Inv
<1>4. /\ index \in Trees /\ 0 \in 0..MaxIterations /\ head \in Commits /\ {head} \in SUBSET Commits
  BY TypeFacts, Bounds DEF Inv
<1>5. new \in Commits' /\ commits'[new].tree = index
  BY <1>2, <1>4, GrownMeans
<1>6. /\ commits' \in Seq(CommitRecords) /\ Ranges(evidence)' /\ Ranges(out)'
      /\ 0..Len(commits) \subseteq 0..Len(commits') /\ new \in 0..Len(commits')
      /\ Seq(RequestRecords) \subseteq Seq(RequestRecords')
  BY <1>2, <1>4, GrownTyped
<1>7. /\ refs' \in [Branches -> 0..Len(commits')] /\ refs'["candidate"] = new
      /\ refs'["target"] = refs["target"]
  <2>1. refs \in [Branches -> 0..Len(commits')]
    BY <1>6, TypeFacts DEF Inv
  <2> QED
    BY <1>2, <1>6, <2>1 DEF Branches
<1>8. Typed'
  <2>1. remote' \in [Branches -> 0..Len(commits')] /\ origin' \in 0..Len(commits')
    BY <1>2, <1>6, TypeFacts DEF Inv
  <2>2. requests' \in Seq(RequestRecords')
    BY <1>2, <1>6, TypeFacts DEF Inv
  <2> QED
    BY <1>2, <1>3, <1>4, <1>5, <1>6, <1>7, <2>1, <2>2, TypeFacts, TypedNext DEF Inv
<1>9. Graph' /\ Through' /\ Sources' /\ Markers'
  BY <1>1, <1>2, <1>4, GrownKeeps
<1>10. MergeOne' /\ Ending' /\ OwnOne'
  BY <1>2, <1>4, <1>7, PlainCommitKeeps
<1>11. Branched'
  BY <1>1, <1>2, <1>7 DEF Inv, Data, Branched
<1>12. Edited'
  <2>1. Tree(head)' = index
    BY <1>2, <1>5 DEF Tree
  <2> QED
    BY <1>2, <2>1 DEF Inv, Data, Edited
<1>13. RequestOne'
  BY <1>2, RequestsSame DEF Inv, Data
<1>14. Reached'
  BY <1>1, <1>2 DEF Inv, Reached, Located
<1>15. Handed'
  BY <1>1, <1>2 DEF Handed
<1> QED
  BY <1>8, <1>9, <1>10, <1>11, <1>12, <1>13, <1>14, <1>15 DEF Inv, Data

\* Where a branch of the repository is, when it is moved.
LEMMA BranchMovesMeans ==
  ASSUME Inv, NEW b \in Branches, BranchMoves(b)
  PROVE  /\ remote[b] \in Commits /\ {remote[b]} \in SUBSET Commits
         /\ [Tree(remote[b]) EXCEPT !["upstream"] = 1] \in Trees
         /\ 0 \in 0..MaxIterations
         /\ NewCommit([Tree(remote[b]) EXCEPT !["upstream"] = 1], 0, {remote[b]})
         /\ op = "initialize" => Plain([Tree(remote[b]) EXCEPT !["upstream"] = 1])
         /\ remote' = [remote EXCEPT ![b] = Len(commits) + 1]
<1>1. remote[b] \in 0..Len(commits) /\ remote[b] # 0 /\ Len(commits) \in Nat
  BY TypeFacts DEF Inv, BranchMoves
<1>2. remote[b] \in Commits /\ {remote[b]} \in SUBSET Commits
  BY <1>1 DEF Commits
<1>3. Tree(remote[b]) \in Trees
  BY <1>2, CommitFacts DEF Inv
<1>4. [Tree(remote[b]) EXCEPT !["upstream"] = 1] \in Trees
  BY <1>3, TreeFacts, Bounds DEF Files
<1>5. op = "initialize" => Plain([Tree(remote[b]) EXCEPT !["upstream"] = 1])
  <2>1. op = "initialize" => Plain(Tree(remote[b]))
    BY <1>2 DEF Inv, Data, Sources
  <2> QED
    BY <1>3, <2>1 DEF Plain, Trees, Files
<1> QED
  BY <1>2, <1>4, <1>5, Bounds DEF BranchMoves

\* Somebody pushes.
LEMMA BranchMovesKeeps ==
  ASSUME Inv, NEW b \in Branches, BranchMoves(b)
  PROVE  Inv'
<1> DEFINE new  == Len(commits) + 1
           tree == [Tree(remote[b]) EXCEPT !["upstream"] = 1]
<1>1. /\ remote[b] \in Commits /\ {remote[b]} \in SUBSET Commits /\ tree \in Trees
      /\ 0 \in 0..MaxIterations /\ NewCommit(tree, 0, {remote[b]})
      /\ op = "initialize" => Plain(tree)
      /\ remote' = [remote EXCEPT ![b] = new]
  BY BranchMovesMeans
<1> HIDE DEF tree
<1>2. /\ at' = at /\ out' = out /\ try' = try /\ seen' = seen
      /\ op' = op /\ iter' = iter /\ plan' = plan /\ outcome' = outcome /\ evidence' = evidence
      /\ work' = work /\ index' = index /\ branch' = branch /\ head' = head /\ refs' = refs
      /\ snapshot' = snapshot /\ origin' = origin /\ markers' = markers /\ builds' = builds
      /\ images' = images
  BY DEF BranchMoves, jobVars, localVars, treeVars
<1>3. events' \in 0..MaxEvents
  BY HappensTyped DEF BranchMoves, Inv
<1>4. /\ new \in Commits' /\ new \notin Commits /\ new # 0 /\ Len(commits) \in Nat
      /\ Commits' = Commits \cup {new} /\ Own' = Own /\ Merges' = Merges
      /\ \A c \in Commits : Tree(c)' = Tree(c) /\ commits'[c] = commits[c]
      /\ op # "initialize" => Base' = Base /\ Tree(Base)' = Tree(Base)
                              /\ Candidate(iter)' = Candidate(iter)
      /\ Tree(head)' = Tree(head)
  <2>1. ~(Cardinality({remote[b]}) > 1)
    BY OneParent
  <2>2. new # 0
    BY CommitFacts DEF Inv
  <2> QED
    BY <1>1, <1>2, <2>1, <2>2, GrownMeans
<1>5. /\ commits' \in Seq(CommitRecords) /\ Ranges(evidence)' /\ Ranges(out)'
      /\ 0..Len(commits) \subseteq 0..Len(commits') /\ new \in 0..Len(commits')
      /\ Seq(RequestRecords) \subseteq Seq(RequestRecords')
  BY <1>1, <1>2, GrownTyped
<1> HIDE DEF new
<1>6. /\ remote' \in [Branches -> 0..Len(commits')] /\ remote'[b] = new
      /\ \A d \in Branches : remote[d] # 0 => remote'[d] # 0
      /\ \A d \in Branches : remote'[d] = remote[d] \/ remote'[d] = new
  <2>1. remote \in [Branches -> 0..Len(commits')]
    BY <1>5, TypeFacts DEF Inv
  <2> QED
    BY <1>1, <1>4, <1>5, <2>1
<1>7. op = "initialize" => remote'["candidate"] = 0
  <2>1. remote[b] # 0
    BY DEF BranchMoves
  <2>2. op = "initialize" => remote["candidate"] = 0 /\ b # "candidate"
    BY <2>1 DEF Inv, Data, Sources
  <2>3. remote \in [Branches -> 0..Len(commits)]
    BY TypeFacts DEF Inv
  <2> QED
    BY <1>1, <2>2, <2>3 DEF Branches
<1>8. /\ requests' = [n \in Requests |->
           IF b = "candidate" /\ requests[n].state = "open"
           THEN [requests[n] EXCEPT !.head = new] ELSE requests[n]]
      /\ requests \in Seq(RequestRecords) /\ Len(requests) \in Nat
      /\ Requests = 1..Len(requests) /\ \A n \in Requests : requests[n] \in RequestRecords
  <2>1. requests \in Seq(RequestRecords) /\ Requests = 1..Len(requests)
    BY TypeFacts DEF Inv, Requests
  <2> QED
    BY <2>1 DEF BranchMoves, new
<1>9. \A n \in Requests :
        /\ requests'[n] \in RequestRecords'
        /\ requests'[n].state = requests[n].state
        /\ \/ requests'[n] = requests[n]
           \/ b = "candidate" /\ requests[n].state = "open" /\ requests'[n].head = new
  <2>1. ASSUME NEW n \in Requests
        PROVE  /\ requests'[n] \in RequestRecords'
               /\ requests'[n].state = requests[n].state
               /\ \/ requests'[n] = requests[n]
                  \/ b = "candidate" /\ requests[n].state = "open" /\ requests'[n].head = new
    <3>1. requests[n] \in RequestRecords /\ Commits \subseteq Commits' /\ new \in Commits'
      BY <1>4, <1>8
    <3>2. requests'[n] = IF b = "candidate" /\ requests[n].state = "open"
                         THEN [requests[n] EXCEPT !.head = new] ELSE requests[n]
      BY <1>8
    <3> QED
      BY <3>1, <3>2 DEF RequestRecords
  <2> QED
    BY <2>1
<1>10. Len(requests') = Len(requests) /\ requests' \in Seq(RequestRecords') /\ Requests' = Requests
  <2>1. requests' \in [1..Len(requests) -> RequestRecords']
    <3>1. DOMAIN requests' = 1..Len(requests)
      BY <1>8
    <3>2. requests' = [n \in 1..Len(requests) |-> requests'[n]]
      BY <1>8
    <3> QED
      BY <1>8, <1>9, <3>2
  <2>2. Len(requests') = Len(requests) /\ requests' \in Seq(RequestRecords')
    BY <1>8, <2>1
  <2> QED
    BY <2>2 DEF Requests
<1>11. Typed'
  <2>1. /\ refs' \in [Branches -> 0..Len(commits')] /\ origin' \in 0..Len(commits')
        /\ head' \in Commits'
    BY <1>2, <1>4, <1>5, TypeFacts DEF Inv
  <2> QED
    BY <1>2, <1>3, <1>5, <1>6, <1>10, <2>1, TypeFacts, TypedNext DEF Inv
<1>12. Graph' /\ Through' /\ Markers' /\ Sources'
  <2>1. Graph'
    BY <1>1, <1>2, GrownMeans
  <2>2. Through'
    BY <1>1, <1>2, GrownMeans DEF Inv, Data, Through, Late, Tree
  <2>3. Markers'
    BY <1>1, <1>2, GrownMeans DEF Inv, Data, Markers
  <2>4. op = "initialize" => \A c \in Commits' : Plain(commits'[c].tree)
    <3>1. commits'[new].tree = tree
      BY <1>1, <1>2, GrownMeans DEF new
    <3> QED
      BY <1>1, <1>4, <3>1 DEF Tree, Inv, Data, Sources
  <2>5. \A c \in 1..evidence.source : Plain(commits'[c].tree)
    <3>1. \A c \in 1..evidence.source : c \in Commits
      BY CommitFacts DEF Inv, Typed, Ranges
    <3> QED
      BY <1>4, <3>1 DEF Tree, Inv, Data, Sources
  <2>6. Sources'
    BY <1>2, <1>6, <1>7, <2>4, <2>5 DEF Inv, Data, Sources, Tree, Branches
  <2> QED
    BY <2>1, <2>2, <2>3, <2>6
<1>13. MergeOne' /\ OwnOne'
  BY <1>1, <1>2, PlainCommitKeeps
<1>14. requests # <<>> <=> requests' # <<>>
  BY <1>8, <1>10
<1>15. Ending'
  BY <1>2, <1>4, <1>14 DEF Inv, Data, Ending
<1>16. Branched'
  BY <1>2, BranchedSame DEF Inv, Data
<1>17. Edited'
  BY <1>2, <1>4 DEF Inv, Data, Edited
<1>18. RequestOne'
  <2>1. evidence.revision # new
    <3>1. evidence.revision \in 0..Len(commits)
      BY DEF Inv, Typed, Ranges
    <3> QED
      BY <1>4, <3>1 DEF new
  <2>2. ASSUME NEW n \in Requests, requests'[n].head # evidence.revision
        PROVE  remote'["candidate"] # evidence.revision
    <3>1. CASE b = "candidate"
      BY <1>6, <2>1, <3>1
    <3>2. CASE b # "candidate"
      <4>1. requests'[n] = requests[n] /\ remote'["candidate"] = remote["candidate"]
        BY <1>1, <1>9, <3>2, TypeFacts DEF Inv, Branches
      <4> QED
        BY <2>2, <4>1 DEF Inv, Data, RequestOne
    <3> QED
      BY <3>1, <3>2
  <2> QED
    BY <1>2, <1>10, <1>14, <2>2 DEF Inv, Data, RequestOne
<1>19. Merged(refs["target"]) => Merged(refs["target"])'
  <2>1. ~(Cardinality({remote[b]}) > 1)
    BY OneParent
  <2> QED
    BY <1>1, <1>2, <2>1, MergedGrown
<1>20. Located(at)'
  <2>1. requireCleanBaseWorkspace /\ op # "initialize" => requireCleanBaseWorkspace'
    BY <1>2, <1>4 DEF requireCleanBaseWorkspace
  <2>2. Applied /\ op # "initialize" => Applied'
    BY <1>2, <1>4 DEF Applied, Accepted
  <2>3. at = "refcheck" => \A n \in Requests' : Passed(n)'
    <3>1. ASSUME at = "refcheck", NEW n \in Requests
          PROVE  requests'[n].state # "open" /\ requests'[n].head # evidence.revision
      <4>1. requests[n].state # "open" /\ requests[n].head # evidence.revision
        BY <3>1 DEF Inv, Reached, Located, Passed
      <4> QED
        BY <1>9, <4>1
    <3> QED
      BY <1>2, <1>10, <3>1 DEF Passed
  <2>4. at = "post" => requests' = <<>>
    BY <1>14 DEF Inv, Reached, Located
  <2>5. at \in {"restoring", "branch", "apply", "committing", "merging"} => op # "initialize"
    BY OpOf
  <2>6. at = "checkout" => origin \in Commits'
    BY <1>4 DEF Inv, Reached, Located
  <2> QED
    BY <1>2, <1>4, <1>19, <2>1, <2>2, <2>3, <2>4, <2>5, <2>6 DEF Inv, Reached, Located
<1>21. Reached'
  BY <1>2, <1>10, <1>20 DEF Inv, Reached
<1>22. Handed'
  <2>1. SUFFICES ASSUME at = "done" PROVE Results(out)'
    BY <1>2 DEF Handed
  <2>2. Results(out)
    BY <2>1 DEF Inv, Handed
  <2>3. op = "commit" => /\ out.revision \in Commits'
                         /\ commits'[out.revision].tree = Candidate(iter)'
                         /\ Own' \subseteq {out.revision}
    BY <1>4, <2>2 DEF Results, Tree
  <2>4. op = "prepare" => out = [evidence EXCEPT !.prepared = Candidate(iter)']
    BY <1>4, <2>2 DEF Results
  <2>5. op = "test" => out = [evidence EXCEPT !.report = Candidate(iter)']
    BY <1>4, <2>2 DEF Results
  <2>6. op = "push" => remote'["candidate"] # 0
    BY <1>6, <2>2 DEF Results, Branches
  <2> QED
    BY <1>2, <1>4, <1>14, <1>19, <2>2, <2>3, <2>4, <2>5, <2>6 DEF Results, Tree
<1> QED
  BY <1>11, <1>12, <1>13, <1>15, <1>16, <1>17, <1>18, <1>21, <1>22 DEF Inv, Data

\* What is known of the branches when the candidate is merged.
LEMMA MergeFacts ==
  ASSUME Inv, op = "merge"
  PROVE  /\ Base \in Commits /\ Base = evidence.source /\ origin = Base /\ Plain(Tree(Base))
         /\ evidence.revision \in Commits /\ evidence.revision # 0
         /\ evidence.revision \notin History[Base] /\ evidence.revision # Base
         /\ \A f \in Files : Tree(evidence.revision)[f] # Foreign /\ Tree(Base)[f] # Foreign
         /\ Target \in Commits /\ Target # 0 /\ \A f \in Files : Tree(Target)[f] # Foreign
         /\ \/ Merges = {} /\ Target = Base /\ refs["target"] \in {0, Base}
            \/ Merged(refs["target"]) /\ Target = refs["target"]
<1>1. /\ Base \in Commits /\ Base = evidence.source /\ origin = Base /\ Plain(Tree(Base))
      /\ Tree(Base) \in Trees
  BY BaseFacts DEF Inv, Data, Base, Sources
<1>2. evidence.revision \in Commits /\ evidence.revision # 0
  BY CommitFacts DEF Inv, Data, Through, Late, Typed, Ranges
<1>3. /\ Tree(evidence.revision)["code"] = 1
      /\ \A f \in Files : Tree(evidence.revision)[f] # Foreign
  BY <1>2, CandidateIter DEF Inv, Data, Through
<1>4. evidence.revision \notin 1..evidence.source
  BY <1>3 DEF Inv, Data, Sources, Plain
<1>5. evidence.revision \notin History[Base] /\ evidence.revision # Base
  BY <1>1, <1>3, <1>4 DEF Inv, Data, Graph, Plain
<1>6. \A f \in Files : Tree(Base)[f] # Foreign
  BY <1>1, TreeFacts
<1>7. CASE Merges = {} /\ refs["target"] \in {0, evidence.source}
  <2>1. Target = Base
    BY <1>1, <1>7 DEF Target
  <2> QED
    BY <1>1, <1>2, <1>3, <1>5, <1>6, <1>7, <2>1, CommitFacts DEF Inv
<1>8. CASE Merged(refs["target"])
  <2>1. Target = refs["target"] /\ Target \in Commits /\ Target # 0
    BY <1>8 DEF Target, Merged, Merges
  <2>2. \A f \in Files : Tree(Target)[f] # Foreign
    BY <1>8, <2>1 DEF Merged
  <2> QED
    BY <1>1, <1>2, <1>3, <1>5, <1>6, <1>8, <2>1, <2>2
<1> QED
  BY <1>7, <1>8 DEF Inv, Data, MergeOne

\* The types after the target is checked out.
LEMMA SwitchTyped ==
  ASSUME Inv, NEW c \in Commits, SwitchTo(c)
  PROVE  /\ work' \in Trees /\ index' \in Trees /\ head' = c /\ branch' = "target"
         /\ refs' \in [Branches -> 0..Len(commits)] /\ refs'["target"] = c
         /\ refs'["candidate"] = refs["candidate"]
<1>1. work \in Trees /\ index \in Trees /\ Tree(c) \in Trees /\ c \in 0..Len(commits)
  BY TypeFacts, CommitFacts DEF Inv
<1>2. \A f \in Files : work[f] \in Contents /\ index[f] \in Contents /\ Tree(c)[f] \in Contents
  BY <1>1 DEF Trees
<1>3. work' \in Trees
  BY <1>2 DEF SwitchTo, Trees
<1>4. index' \in Trees
  BY <1>2 DEF SwitchTo, Trees
<1> QED
  BY <1>1, <1>3, <1>4, TypeFacts DEF SwitchTo, Branches, Inv

\* The target branch is checked out, and holds the merge already or is the base.
LEMMA GitMergeKeeps ==
  ASSUME Inv, GitMerge
  PROVE  Inv'
<1>1. /\ at = "merge" /\ op = "merge" /\ "merging" \in Stages(op) /\ "pushing" \in Stages(op)
      /\ "done" \in Stages(op) /\ Stages(op) \subseteq Stage
  BY OpOf, StagesAre, StagesTyped DEF GitMerge
<1>2. CASE /\ refs["candidate"] = evidence.revision /\ SwitchTo(Target)
           /\ IF Ancestor(refs["candidate"], Target)
              THEN \/ Finish([evidence EXCEPT !.final = Target])
                   \/ Goto("pushing") /\ UNCHANGED <<out, seen>>
              ELSE Goto("merging") /\ UNCHANGED <<out, seen>>
  <2>1. /\ try' = try /\ seen' = seen /\ events' = events
        /\ op' = op /\ iter' = iter /\ plan' = plan /\ outcome' = outcome /\ evidence' = evidence
        /\ snapshot' = snapshot /\ origin' = origin /\ markers' = markers /\ builds' = builds
        /\ commits' = commits /\ remote' = remote /\ requests' = requests /\ images' = images
    BY <1>2 DEF GitMerge, Finish, Goto, remoteVars
  <2>2. /\ work' \in Trees /\ index' \in Trees /\ head' = Target /\ branch' = "target"
        /\ refs' \in [Branches -> 0..Len(commits)] /\ refs'["target"] = Target
        /\ Target \in Commits
    BY <1>1, <1>2, MergeFacts, SwitchTyped
  <2>3. \/ /\ at' = "done" /\ out' = [evidence EXCEPT !.final = Target]
           /\ Merged(Target)
        \/ /\ at' = "pushing" /\ out' = out /\ Merged(Target)
        \/ /\ at' = "merging" /\ out' = out /\ Merges = {} /\ Target = Base
    <3>1. CASE Ancestor(refs["candidate"], Target)
      <4>1. Merged(Target)
        BY <1>1, <1>2, <3>1, MergeFacts DEF Ancestor
      <4> QED
        BY <1>2, <3>1, <4>1 DEF Finish, Goto
    <3>2. CASE ~Ancestor(refs["candidate"], Target)
      <4>1. ~Merged(Target)
        BY <1>2, <3>2 DEF Ancestor, Merged
      <4>2. Merges = {} /\ Target = Base
        BY <1>1, <4>1, MergeFacts
      <4> QED
        BY <1>2, <3>2, <4>2 DEF Goto
    <3> QED
      BY <3>1, <3>2
  <2>4. out' \in Evidence /\ Ranges(out') /\ at' \in Stage
    <3>1. Target \in Nat /\ out \in Evidence /\ Ranges(out)
      BY <2>2, CommitFacts, TypeFacts DEF Inv, Typed
    <3> QED
      BY <1>1, <2>3, <3>1, ResultTyped DEF Inv
  <2>5. WorkTyped
    <3>1. branch' \in Branches \cup {"detached"} /\ head' \in Commits
      BY <2>2 DEF Branches
    <3>2. origin' \in 0..Len(commits) /\ markers' \in [1..MaxIterations -> Trees]
      BY <2>1, TypeFacts DEF Inv
    <3> QED
      BY <2>1, <2>2, <2>4, <3>1, <3>2 DEF WorkTyped
  <2>6. Graph' /\ Through' /\ Ending' /\ OwnOne' /\ RequestOne' /\ Sources' /\ Markers'
    BY <2>1, GraphSame, ThroughSame, EndingSame, OwnSame, RequestsSame, SourcesSame, MarkersSame
       DEF Inv, Data
  <2>7. /\ Merges' = Merges /\ History' = History /\ Base' = Base
        /\ \A c : Tree(c)' = Tree(c) /\ Commits' = Commits
    BY <2>1, CommitsSame DEF Base
  <2>8. Merged(Target) => Merged(refs["target"])'
    BY <2>1, <2>2, <2>7 DEF Merged, Tree
  <2>9. MergeOne'
    <3>1. Merged(Target) \/ (Merges = {} /\ Target = evidence.source)
      BY <1>1, MergeFacts
    <3> QED
      BY <1>1, <2>1, <2>2, <2>7, <2>8, <3>1 DEF MergeOne
  <2>10. Branched'
    BY <1>1, <2>1, <2>2 DEF Branched
  <2>11. Edited'
    <3>1. Tree(head)' = Tree(Target)
      BY <2>1, <2>2 DEF Tree
    <3> QED
      BY <1>1, <2>1, <3>1, MergeFacts DEF Edited
  <2>12. Reached'
    <3>1. Located(at)'
      BY <1>1, <2>1, <2>2, <2>3, <2>7, <2>8 DEF Located
    <3>2. out = evidence /\ outcome = "open"
      BY <1>1, Busy
    <3> QED
      BY <1>1, <2>1, <2>3, <3>1, <3>2 DEF Reached
  <2>13. Handed'
    BY <1>1, <2>1, <2>2, <2>3, <2>8 DEF Handed, Results
  <2> QED
    BY <2>5, <2>6, <2>9, <2>10, <2>11, <2>12, <2>13, WorkTypedKeeps DEF Inv, Data
<1>3. CASE Failed /\ UNCHANGED <<work, index, branch, head, refs, events>>
  <2>1. Quiet
    BY <1>3 DEF GitMerge, Quiet, localVars, treeVars
  <2> QED
    BY <1>1, <1>3, <2>1, RefusedKeeps
<1>4. \/ /\ refs["candidate"] = evidence.revision /\ SwitchTo(Target)
         /\ IF Ancestor(refs["candidate"], Target)
            THEN \/ Finish([evidence EXCEPT !.final = Target])
                 \/ Goto("pushing") /\ UNCHANGED <<out, seen>>
            ELSE Goto("merging") /\ UNCHANGED <<out, seen>>
      \/ Failed /\ UNCHANGED <<work, index, branch, head, refs, events>>
  BY DEF GitMerge
<1> QED
  BY <1>2, <1>3, <1>4

\* What is known when the merge is made.
LEMMA MergedTreeFacts ==
  ASSUME Inv, at = "merging"
  PROVE  /\ op = "merge" /\ Merges = {} /\ branch = "target" /\ head = Base /\ head \in Commits
         /\ evidence.revision \in Commits /\ evidence.revision # 0 /\ evidence.revision # head
         /\ MergedTree \in Trees /\ \A f \in Files : MergedTree[f] # Foreign
         /\ \A f \in Files : Tree(head)[f] # Foreign
         /\ {head, evidence.revision} \in SUBSET Commits
         /\ Cardinality({head, evidence.revision}) > 1
<1>1. op = "merge" /\ Merges = {} /\ branch = "target" /\ head = Base
  BY OpOf DEF Inv, Reached, Located
<1>2. /\ Base \in Commits /\ evidence.revision \in Commits /\ evidence.revision # 0
      /\ evidence.revision # Base
      /\ \A f \in Files : Tree(evidence.revision)[f] # Foreign /\ Tree(Base)[f] # Foreign
  BY <1>1, MergeFacts
<1>3. Tree(evidence.revision) \in Trees /\ Tree(head) \in Trees
  BY <1>1, <1>2, CommitFacts DEF Inv
<1>4. \A f \in Files : /\ MergedTree[f] \in {Tree(evidence.revision)[f], Tree(head)[f]}
  BY DEF MergedTree
<1>5. \A f \in Files : MergedTree[f] \in Contents
  BY <1>3, <1>4 DEF Trees
<1>6. MergedTree \in Trees
  <2>1. MergedTree = [f \in Files |-> MergedTree[f]]
    BY DEF MergedTree
  <2> QED
    BY <1>5, <2>1 DEF Trees
<1>7. Cardinality({head, evidence.revision}) = 2
  <2>1. {head, evidence.revision} = {head} \cup {evidence.revision}
    OBVIOUS
  <2>2. IsFiniteSet({head}) /\ Cardinality({head}) = 1 /\ evidence.revision \notin {head}
    BY <1>1, <1>2, FS_Singleton
  <2>3. Cardinality({head} \cup {evidence.revision}) = 1 + 1
    BY <2>2, FS_AddElement
  <2> QED
    BY <2>1, <2>3
<1> QED
  BY <1>1, <1>2, <1>4, <1>6, <1>7

\* The merge is made.
LEMMA MergeCommitKeeps ==
  ASSUME Inv, MergeCommit
  PROVE  Inv'
<1>1. /\ at = "merging" /\ op = "merge" /\ "pushing" \in Stages(op)
      /\ out = evidence /\ outcome = "open" /\ evidence.final = 0
  BY OpOf, StagesAre, Busy DEF MergeCommit, Step
<1> DEFINE new == Len(commits) + 1
<1>2. CASE /\ CanMerge /\ NewCommit(MergedTree, 0, {head, evidence.revision})
           /\ head' = Len(commits) + 1 /\ refs' = [refs EXCEPT !["target"] = head']
           /\ work' = [f \in Files |-> IF MergedTree[f] = Tree(head)[f] THEN work[f]
                                       ELSE MergedTree[f]]
           /\ index' = MergedTree
           /\ Step("merging", "pushing")
  <2>1. /\ at' = "pushing" /\ out' = out /\ head' = new
        /\ try' = try /\ seen' = seen /\ events' = events
        /\ op' = op /\ iter' = iter /\ plan' = plan /\ outcome' = outcome /\ evidence' = evidence
        /\ index' = MergedTree /\ branch' = branch
        /\ snapshot' = snapshot /\ origin' = origin /\ markers' = markers /\ builds' = builds
        /\ remote' = remote /\ requests' = requests /\ images' = images
    BY <1>2 DEF MergeCommit, Step, Goto, remoteVars
  <2>2. /\ MergedTree \in Trees /\ 0 \in 0..MaxIterations /\ work \in Trees
        /\ {head, evidence.revision} \in SUBSET Commits
        /\ Cardinality({head, evidence.revision}) > 1
        /\ evidence.revision \in Commits /\ evidence.revision # 0
        /\ Merges = {} /\ branch = "target" /\ \A f \in Files : MergedTree[f] # Foreign
    BY <1>1, MergedTreeFacts, Bounds, TypeFacts DEF Inv
  <2>3. /\ Len(commits)' = new /\ new \in Commits' /\ new \in Nat /\ new # 0
        /\ \A c \in Commits : Tree(c)' = Tree(c) /\ commits'[c] = commits[c]
        /\ commits'[new].tree = MergedTree
        /\ Own' = Own /\ Merges' = {new}
        /\ Candidate(iter)' = Candidate(iter)
    BY <1>1, <1>2, <2>1, <2>2, GrownMeans
  <2>4. /\ commits' \in Seq(CommitRecords) /\ Ranges(evidence)' /\ Ranges(out)'
        /\ 0..Len(commits) \subseteq 0..Len(commits') /\ new \in 0..Len(commits')
        /\ Seq(RequestRecords) \subseteq Seq(RequestRecords')
    <3>1. \A e : Ranges(e) => Ranges(e)'
      BY <1>2, <2>1, <2>2, GrownTyped
    <3>2. Ranges(out)'
      BY <1>2, <2>1, <2>2, GrownTyped DEF Inv, Typed
    <3> QED
      BY <1>2, <2>1, <2>2, <3>2, GrownTyped
  <2>5. /\ refs' \in [Branches -> 0..Len(commits')] /\ refs'["target"] = new
        /\ refs'["candidate"] = refs["candidate"]
    <3>1. refs \in [Branches -> 0..Len(commits')]
      BY <2>4, TypeFacts DEF Inv
    <3> QED
      BY <1>2, <2>1, <2>4, <3>1 DEF Branches
  <2>6. work' \in Trees
    <3>1. \A f \in Files : work[f] \in Contents /\ MergedTree[f] \in Contents
      BY <2>2 DEF Trees
    <3> QED
      BY <1>2, <3>1 DEF Trees
  <2>7. Typed'
    <3>1. remote' \in [Branches -> 0..Len(commits')] /\ origin' \in 0..Len(commits')
      BY <2>1, <2>4, TypeFacts DEF Inv
    <3>2. requests' \in Seq(RequestRecords')
      BY <2>1, <2>4, TypeFacts DEF Inv
    <3>3. at' \in Stage
      BY <2>1 DEF Stage
    <3>4. head' \in Commits'
      BY <2>1, <2>3
    <3> QED
      BY <2>1, <2>2, <2>4, <2>5, <2>6, <3>1, <3>2, <3>3, <3>4, TypeFacts, TypedNext DEF Inv
  <2>8. Graph' /\ Through' /\ Sources' /\ Markers'
    BY <1>1, <1>2, <2>1, <2>2, GrownKeeps
  <2>9. Merged(refs["target"])'
    <3>1. evidence.revision \in History'[new]
      <4>1. evidence.revision \in History[evidence.revision]
        BY <2>2 DEF Inv, Data, Graph
      <4>2. \A p \in {head, evidence.revision} : History[p] \subseteq History'[new]
        BY <1>2, <2>2, Grown DEF Inv, Data
      <4> QED
        BY <4>1, <4>2
    <3>2. \A f \in Files : commits'[refs'["target"]].tree[f] # Foreign
      BY <2>2, <2>3, <2>5
    <3> QED
      BY <2>1, <2>3, <2>5, <3>1, <3>2 DEF Merged, Tree
  <2>10. MergeOne'
    BY <1>1, <2>1, <2>9 DEF MergeOne
  <2>11. Ending'
    BY <1>1, <2>1 DEF Inv, Data, Ending
  <2>12. Branched'
    BY <1>1, <2>1, <2>2, <2>5 DEF Branched
  <2>13. Edited'
    <3>1. Tree(head)' = MergedTree
      BY <2>1, <2>3 DEF Tree
    <3> QED
      BY <1>1, <2>1, <2>2, <3>1 DEF Edited
  <2>14. OwnOne'
    <3>1. \A c \in Own : commits'[c].key = iter /\ commits'[c].tree = Candidate(iter)'
      BY <2>3 DEF Inv, Data, OwnOne, Own, Tree
    <3> QED
      BY <1>1, <2>1, <2>3, <3>1 DEF Inv, Data, OwnOne, Tree
  <2>15. RequestOne'
    BY <2>1, RequestsSame DEF Inv, Data
  <2>16. Reached'
    <3>1. Located(at)'
      BY <1>1, <2>1, <2>9 DEF Located
    <3> QED
      BY <1>1, <2>1, <3>1 DEF Reached
  <2>17. Handed'
    BY <2>1 DEF Handed
  <2> QED
    BY <2>7, <2>8, <2>10, <2>11, <2>12, <2>13, <2>14, <2>15, <2>16, <2>17 DEF Inv, Data
<1>3. CASE Failed /\ UNCHANGED <<commits, head, refs, work, index, events>>
  <2>1. Quiet
    BY <1>3 DEF MergeCommit, Quiet, localVars, treeVars
  <2> QED
    BY <1>1, <1>3, <2>1, RefusedKeeps
<1>4. \/ /\ CanMerge /\ NewCommit(MergedTree, 0, {head, evidence.revision})
         /\ head' = Len(commits) + 1 /\ refs' = [refs EXCEPT !["target"] = head']
         /\ work' = [f \in Files |-> IF MergedTree[f] = Tree(head)[f] THEN work[f]
                                     ELSE MergedTree[f]]
         /\ index' = MergedTree
         /\ Step("merging", "pushing")
      \/ Failed /\ UNCHANGED <<commits, head, refs, work, index, events>>
  BY DEF MergeCommit
<1> QED
  BY <1>2, <1>3, <1>4

-----------------------------------------------------------------------------
(* The invariant holds.                                                     *)

\* The first commit has one history.
LEMMA FirstHistory ==
  ASSUME NEW cs, Len(cs) = 1, cs[1].parents = {}
  PROVE  IsHistory(cs, [c \in 1..1 |-> {1}])
<1> DEFINE h == [c \in 1..1 |-> {1}]
<1>1. DOMAIN h = 1..1 /\ h = [c \in 1..1 |-> h[c]] /\ h[1] = {1}
  OBVIOUS
<1> HIDE DEF h
<1>2. \A g : Reach(cs, g, 1) = {1}
  BY DEF Reach
<1>3. \A c \in 1..1 : c = 1
  OBVIOUS
<1>4. Histories(cs, h)
  <2> DEFINE n == Len(cs)
  <2>1. n = Len(cs) /\ n = 1
    OBVIOUS
  <2> HIDE DEF n
  <2>2. \A c \in 1..n : h[c] = Reach(cs, h, c)
    BY <1>1, <1>2, <1>3, <2>1
  <2>3. DOMAIN h = 1..n /\ h = [c \in 1..n |-> h[c]]
    BY <1>1, <2>1
  <2> QED
    BY <2>1, <2>2, <2>3, HistoriesBy, Zenon
<1>5. ASSUME NEW g, Histories(cs, g)
      PROVE  g = h
  <2>1. g = [c \in 1..1 |-> g[c]] /\ \A c \in 1..1 : g[c] = Reach(cs, g, c)
    BY <1>5, HistoriesAt
  <2>2. \A c \in 1..1 : g[c] = h[c]
    BY <1>1, <1>2, <1>3, <2>1
  <2> QED
    BY <1>1, <2>1, <2>2
<1> QED
  BY <1>4, <1>5 DEF IsHistory, h

\* The invariant holds in the beginning.
LEMMA InitInv == Init => Inv
<1> SUFFICES ASSUME Init PROVE Inv
  OBVIOUS
<1>1. /\ plan \in {"request", "merge"} /\ op = "initialize" /\ at = "idle" /\ try = 1 /\ iter = 1
      /\ outcome = "open" /\ evidence = NoEvidence /\ out = NoEvidence
      /\ commits = <<[tree |-> Source, key |-> 0, parents |-> {}]>>
      /\ work = Source /\ index = Source /\ branch = "detached" /\ head = 1
      /\ refs = [b \in Branches |-> 0] /\ origin = 0 /\ snapshot = "absent"
      /\ markers = [i \in 1..MaxIterations |-> NoTree]
      /\ builds = [i \in 1..MaxIterations |-> 0] /\ images = <<>>
      /\ remote = [b \in Branches |-> IF b = "target" THEN 1 ELSE 0]
      /\ requests = <<>> /\ seen = 0 /\ events = 0
  BY DEF Init
<1>2. /\ Len(commits) = 1 /\ commits[1].tree = Source /\ commits[1].key = 0
      /\ commits[1].parents = {} /\ Commits = {1}
  BY <1>1 DEF Commits
<1>3. /\ NoEvidence.source = 0 /\ NoEvidence.revision = 0 /\ NoEvidence.proof = 0
      /\ NoEvidence.image = 0 /\ NoEvidence.final = 0
      /\ NoEvidence.prepared = NoTree /\ NoEvidence.report = NoTree
  BY DEF NoEvidence
<1>4. Len(requests) = 0 /\ Len(images) = 0 /\ Requests = {}
  BY <1>1 DEF Requests
<1>5. Typed
  <2>1. Ranges(evidence) /\ Ranges(out)
    BY <1>1, <1>2, <1>3, <1>4 DEF Ranges
  <2>2. commits \in Seq(CommitRecords)
    <3>1. [tree |-> Source, key |-> 0, parents |-> {}] \in CommitRecords
      BY Fixed, Bounds DEF CommitRecords
    <3> QED
      BY <1>1, <3>1
  <2>3. requests \in Seq(RequestRecords) /\ images \in Seq(Trees)
    BY <1>1
  <2>4. /\ refs \in [Branches -> 0..Len(commits)] /\ remote \in [Branches -> 0..Len(commits)]
        /\ markers \in [1..MaxIterations -> Trees]
        /\ builds \in [1..MaxIterations -> 0..Len(images)]
    BY <1>1, <1>2, <1>4, Fixed
  <2>5. op \in Operations /\ branch \in Branches \cup {"detached"} /\ head \in Commits
    BY <1>1, <1>2 DEF Operations
  <2> QED
    BY <1>1, <1>2, <1>4, <2>1, <2>2, <2>3, <2>4, <2>5, Fixed, Bounds
       DEF Typed, TypeOK, CommitRecords, RequestRecords
<1>6. Graph
  <2>1. Determined(commits)
    BY <1>2, FirstHistory DEF Determined
  <2>2. IsHistory(commits, History)
    BY <2>1, HistoryEquation
  <2>3. History[1] = {1}
    <3>1. History[1] = Reach(commits, History, 1)
      BY <1>2, <2>2, HistoriesAt DEF IsHistory
    <3> QED
      BY <1>2, <3>1 DEF Reach
  <2> QED
    BY <1>2, <2>1, <2>3 DEF Graph
<1>7. Merges = {} /\ Own = {}
  <2>1. Cardinality({}) = 0
    BY FS_EmptySet
  <2> QED
    BY <1>2, <2>1 DEF Merges, Own
<1>8. Through
  BY <1>1, <1>3 DEF Through, Late, Ends
<1>9. Ending
  BY <1>1, <1>3 DEF Ending, Ends
<1>10. Sources
  BY <1>1, <1>2, <1>3, Fixed DEF Sources, Ends, Branches, Tree
<1>11. Markers
  BY <1>1 DEF Markers
<1>12. Branched
  BY <1>1 DEF Branched
<1>13. Edited
  BY <1>1, <1>2 DEF Edited, Tree, Foreign, Source
<1>14. OwnOne
  BY <1>1, <1>3, <1>7 DEF OwnOne
<1>15. MergeOne
  BY <1>1, <1>7 DEF MergeOne, Branches
<1>16. RequestOne
  BY <1>1, <1>4 DEF RequestOne
<1>17. Reached
  BY <1>1 DEF Reached, Located, Stages
<1>18. Handed
  BY <1>1 DEF Handed
<1> QED
  BY <1>5, <1>6, <1>8, <1>9, <1>10, <1>11, <1>12, <1>13, <1>14, <1>15, <1>16, <1>17, <1>18
     DEF Inv, Data

\* It holds while nothing happens.
LEMMA StutterKeeps ==
  ASSUME Inv, UNCHANGED vars
  PROVE  Inv'
<1>1. /\ Quiet /\ UNCHANGED dataVars /\ at' = at /\ op' = op /\ try' = try /\ out' = out
      /\ seen' = seen /\ events' = events /\ evidence' = evidence /\ iter' = iter
      /\ outcome' = outcome
  BY DEF vars, jobVars, dataVars, Quiet, localVars, treeVars, remoteVars
<1>2. /\ Commits' = Commits /\ Own' = Own /\ Merges' = Merges /\ History' = History
      /\ Tree(Base)' = Tree(Base) /\ Base' = Base
      /\ Candidate(iter)' = Candidate(iter) /\ \A c : Tree(c)' = Tree(c)
      /\ Tree(out.revision)' = Tree(out.revision)
  BY <1>1, QuietMeans, CommitsSame, Same DEF Tree
<1>3. Merged(refs["target"])' = Merged(refs["target"])
  BY <1>1, <1>2, QuietMeans DEF Merged, Tree
<1>4. Typed'
  <2>1. Ranges(out)'
    BY <1>1, QuietMeans DEF Inv, Typed, Ranges
  <2> QED
    BY <1>1, <2>1, QuietMeans, TypeFacts, QuietTyped DEF Inv
<1>5. Data'
  BY <1>1, DataSame DEF Inv
<1>6. Reached'
  <2>1. requireCleanBaseWorkspace' = requireCleanBaseWorkspace
    BY <1>1, <1>2, QuietMeans DEF requireCleanBaseWorkspace
  <2>2. Applied' = Applied
    BY <1>1, <1>2, QuietMeans DEF Applied, Accepted
  <2>3. Requests' = Requests /\ \A n : Passed(n)' = Passed(n)
    BY <1>1, QuietMeans DEF Requests, Passed
  <2>4. Located(at)'
    BY <1>1, <1>2, <1>3, <2>1, <2>2, <2>3, QuietMeans DEF Inv, Reached, Located
  <2> QED
    BY <1>1, <2>3, <2>4 DEF Inv, Reached
<1>7. Handed'
  BY <1>1, <1>2, <1>3, QuietMeans DEF Inv, Handed, Results
<1> QED
  BY <1>4, <1>5, <1>6, <1>7 DEF Inv

\* The steps of candidate.prepare keep it,
LEMMA PrepareKeeps ==
  ASSUME Inv, Prepare
  PROVE  Inv'
<1>1. CASE ReadMarker
  BY <1>1, ReadMarkerKeeps
<1>2. CASE ensureSourceSnapshot
  BY <1>2, SnapshotKeeps
<1>3. CASE AddWorktree
  BY <1>3, AddWorktreeKeeps
<1>4. CASE restoreCandidateBase
  BY <1>4, RestoreKeeps
<1>5. CASE RestoreFile
  BY <1>5, RestoreFileKeeps
<1>6. CASE Restored
  BY <1>6, RestoredKeeps
<1>7. CASE CheckoutCandidate
  BY <1>7, CheckoutCandidateKeeps
<1>8. CASE WriteFile
  BY <1>8, WriteFileKeeps
<1>9. CASE StageFile
  BY <1>9, StageFileKeeps
<1>10. CASE PrepareCandidate
  BY <1>10, PrepareCandidateKeeps
<1> QED
  BY <1>1, <1>2, <1>3, <1>4, <1>5, <1>6, <1>7, <1>8, <1>9, <1>10 DEF Prepare

\* so do those of the other jobs,
LEMMA JobKeeps ==
  ASSUME Inv, Job
  PROVE  Inv'
<1>1. CASE Start
  BY <1>1, StartKeeps
<1>2. CASE Accept
  BY <1>2, AcceptKeeps
<1>3. CASE Fetch
  BY <1>3, FetchKeeps
<1>4. CASE InitializeRepository
  BY <1>4, InitializeRepositoryKeeps
<1>5. CASE Prepare
  BY <1>5, PrepareKeeps
<1>6. CASE StartTest
  BY <1>6, StartTestKeeps
<1>7. CASE TestPasses
  BY <1>7, TestPassesKeeps
<1>8. CASE GitCommit
  BY <1>8, GitCommitKeeps
<1>9. CASE CommitIndex
  BY <1>9, CommitIndexKeeps
<1>10. CASE GitPush
  BY <1>10, GitPushKeeps
<1>11. CASE Push
  BY <1>11, PushKeeps
<1>12. CASE ConfirmPush
  BY <1>12, ConfirmPushKeeps
<1>13. CASE BuildImage
  BY <1>13, BuildImageKeeps
<1>14. CASE RunBuildCommand
  BY <1>14, RunBuildCommandKeeps
<1>15. CASE RecordBuild
  BY <1>15, RecordBuildKeeps
<1>16. CASE FindRequest
  BY <1>16, FindRequestKeeps
<1>17. CASE CheckSource
  BY <1>17, CheckSourceKeeps
<1>18. CASE Post(TRUE)
  BY <1>18, PostKeeps
<1>19. CASE FindAgain
  BY <1>19, FindAgainKeeps
<1>20. CASE ConfirmRequest
  BY <1>20, ConfirmRequestKeeps
<1>21. CASE GitMerge
  BY <1>21, GitMergeKeeps
<1>22. CASE MergeCommit
  BY <1>22, MergeCommitKeeps
<1> QED
  BY <1>1, <1>2, <1>3, <1>4, <1>5, <1>6, <1>7, <1>8, <1>9, <1>10, <1>11, <1>12, <1>13, <1>14,
     <1>15, <1>16, <1>17, <1>18, <1>19, <1>20, <1>21, <1>22 DEF Job

\* what happens around them,
LEMMA EnvironmentKeeps ==
  ASSUME Inv, Environment
  PROVE  Inv'
<1>1. CASE TestFails
  BY <1>1, KillKeeps
<1>2. CASE LoseJob \/ NotCollected
  BY <1>2, LoseJobKeeps
<1>3. CASE Post(FALSE)
  BY <1>3, PostKeeps
<1>4. CASE Kill
  BY <1>4, KillKeeps
<1>5. CASE KillWriting
  BY <1>5, KillWritingKeeps
<1>6. CASE Drift
  BY <1>6, DriftKeeps
<1>7. CASE Edit
  BY <1>7, EditKeeps
<1>8. CASE EditCommitted
  BY <1>8, EditCommittedKeeps
<1>9. CASE \E b \in Branches : BranchMoves(b)
  BY <1>9, BranchMovesKeeps
<1>10. CASE \E s \in {"closed", "merged"} : EndRequest(s)
  BY <1>10, EndRequestKeeps
<1>11. CASE PostFails
  BY <1>11, PostFailsKeeps
<1> QED
  BY <1>1, <1>2, <1>3, <1>4, <1>5, <1>6, <1>7, <1>8, <1>9, <1>10, <1>11 DEF Environment

\* and every step.
LEMMA NextKeeps == Inv /\ [Next]_vars => Inv'
  BY JobKeeps, EnvironmentKeeps, StutterKeeps DEF Next

\* The inductive invariant always holds: the evidence, the markers, the branches and the requests
\* fit the operation that is active and the stage its job has reached, whatever job was killed.
THEOREM Invariance == Spec => []Inv
<1>1. Init => Inv
  BY InitInv
<1>2. Inv /\ [Next]_vars => Inv'
  BY NextKeeps
<1> QED
  BY <1>1, <1>2, PTL DEF Spec

\* Every variable of the operations is what the commands can leave.
THEOREM TypeCorrect == Spec => []TypeOK
<1>1. Inv => TypeOK
  BY DEF Inv, Typed
<1> QED
  BY <1>1, Invariance, PTL

\* What is committed is the candidate that the accepted report is about, and the accepted
\* artifacts form one chain (candidate.go, testRun.go, git.go).
THEOREM CommittedOnlyTested == Spec => []CommittedAsTested
<1>1. ASSUME Inv
      PROVE  CommittedAsTested
  <2>1. op \in Operations /\ plan \in {"request", "merge"} /\ iter \in 1..MaxIterations
    BY <1>1, TypeFacts DEF Inv
  <2>2. OnlyTestedIsCommitted
    <3>1. SUFFICES ASSUME NEW c \in Own
                   PROVE  Tree(c) = Candidate(commits[c].key) /\ evidence.report = Tree(c)
      BY DEF OnlyTestedIsCommitted
    <3>2. op \in Late /\ commits[c].key = iter /\ Tree(c) = Candidate(iter)
      BY <1>1 DEF Inv, Data, OwnOne
    <3>3. evidence.report = Candidate(iter)
      BY <1>1, <3>2 DEF Inv, Data, Through
    <3> QED
      BY <3>2, <3>3
  <2>3. EvidenceChains
    <3>1. Candidate(iter) # NoTree \/ op = "initialize"
      BY <1>1, CandidateIter DEF Inv, Data
    <3>2. evidence.report # NoTree => evidence.report = evidence.prepared
      BY <1>1 DEF Inv, Data, Through, Late
    <3>3. evidence.revision # 0 => /\ Tree(evidence.revision) = evidence.report
                                   /\ evidence.report # NoTree
      BY <1>1, <3>1 DEF Inv, Data, Through, Late
    <3>4. evidence.proof # 0 => evidence.proof = evidence.revision
      BY <1>1 DEF Inv, Data, Through
    <3>5. evidence.image # 0 => evidence.proof # 0
      BY <1>1 DEF Inv, Data, Through, Late, Ends
    <3>6. evidence.final # 0 => evidence.image # 0
      BY <1>1, <2>1 DEF Inv, Data, Through, Ending, Ends
    <3>7. evidence.final # 0 /\ plan = "merge" => Ancestor(evidence.revision, evidence.final)
      <4>1. HAVE evidence.final # 0 /\ plan = "merge"
      <4>2. Merges = {evidence.final}
        BY <1>1, <4>1 DEF Inv, Data, Ending
      <4>3. Merged(refs["target"])
        BY <1>1, <4>2 DEF Inv, Data, MergeOne
      <4> QED
        BY <4>2, <4>3 DEF Merged, Ancestor
    <3> QED
      BY <3>2, <3>3, <3>4, <3>5, <3>6, <3>7 DEF EvidenceChains
  <2> QED
    BY <1>1, <2>2, <2>3 DEF CommittedAsTested, Inv, Typed
<1> QED
  BY <1>1, Invariance, PTL

-----------------------------------------------------------------------------
(* Nothing of others is lost.                                               *)

\* The steps that write files of the workspace.
LEMMA WorkMoves ==
  ASSUME Next
  PROVE  \/ work' = work
         \/ InitializeRepository \/ RestoreFile \/ WriteFile \/ GitMerge \/ MergeCommit
         \/ KillWriting \/ Drift \/ Edit
<1>1. CASE Prepare
  BY <1>1 DEF Prepare, ReadMarker, ensureSourceSnapshot, AddWorktree, restoreCandidateBase,
              Restored, CheckoutCandidate, StageFile, PrepareCandidate, localVars, treeVars
<1>2. CASE \/ Start \/ Accept \/ Fetch \/ StartTest \/ TestPasses \/ GitCommit \/ CommitIndex
           \/ GitPush \/ Push \/ ConfirmPush
  BY <1>2 DEF Start, Accept, Fetch, StartTest, TestPasses, GitCommit, CommitIndex, GitPush, Push,
              ConfirmPush, localVars, treeVars
<1>3. CASE \/ BuildImage \/ RunBuildCommand \/ RecordBuild \/ FindRequest \/ CheckSource
           \/ Post(TRUE) \/ Post(FALSE) \/ FindAgain \/ ConfirmRequest
  BY <1>3 DEF BuildImage, RunBuildCommand, RecordBuild, FindRequest, CheckSource, Post, FindAgain,
              ConfirmRequest, localVars, treeVars
<1>4. CASE \/ TestFails \/ LoseJob \/ NotCollected \/ PostFails \/ Kill \/ EditCommitted
           \/ (\E b \in Branches : BranchMoves(b))
           \/ (\E s \in {"closed", "merged"} : EndRequest(s))
  BY <1>4 DEF TestFails, LoseJob, NotCollected, PostFails, Kill, EditCommitted, BranchMoves,
              EndRequest, localVars,
              treeVars
<1> QED
  BY <1>1, <1>2, <1>3, <1>4 DEF Next, Job, Environment

\* None of them writes over an edit of somebody else: restore and apply find none, and git refuses
\* a checkout or a merge that would.
LEMMA EditsKept ==
  ASSUME Inv, [Next]_vars, op # "initialize", NEW f \in Files, work[f] = Foreign
  PROVE  work'[f] = Foreign
<1>1. CASE work' = work
  BY <1>1
<1>2. CASE InitializeRepository
  BY <1>2, OpOf DEF InitializeRepository
<1>3. CASE RestoreFile
  BY <1>3 DEF RestoreFile, Inv, Reached, Located
<1>4. CASE WriteFile \/ (KillWriting /\ at = "apply")
  BY <1>4, ApplyFacts DEF WriteFile
<1>5. CASE KillWriting /\ at # "apply"
  BY <1>5 DEF KillWriting
<1>6. CASE Drift \/ Edit
  <2>1. PICK g \in Files : work' = [work EXCEPT ![g] = Foreign]
    BY <1>6 DEF Drift, Edit, Files
  <2>2. work \in Trees
    BY TypeFacts DEF Inv
  <2> QED
    BY <2>1, <2>2 DEF Trees
<1>7. CASE GitMerge
  <2>1. op = "merge" /\ op \in Ends
    BY <1>7, OpOf DEF GitMerge, Ends
  <2>2. CASE work' = work
    BY <2>2
  <2>3. CASE /\ refs["candidate"] = evidence.revision /\ CanCheckout(Target)
             /\ SwitchTo(Target)
    <3>1. Tree(head)[f] # Foreign
      <4>1. CASE branch = "candidate"
        <5>1. head = evidence.revision
          BY <2>3, <4>1 DEF Inv, Data, Branched
        <5> QED
          BY <2>1, <5>1, MergeFacts
      <4>2. CASE branch = "target"
        <5>1. head = refs["target"] /\ head \in Commits
          BY <4>2, TypeFacts DEF Inv, Data, Branched
        <5>2. head = Target
          BY <5>1, CommitFacts DEF Target, Inv
        <5> QED
          BY <2>1, <5>2, MergeFacts
      <4> QED
        BY <2>1, <4>1, <4>2 DEF Inv, Data, Branched
    <3> QED
      BY <2>3, <3>1 DEF CanCheckout, SwitchTo
  <2> QED
    BY <1>7, <2>2, <2>3 DEF GitMerge
<1>8. CASE MergeCommit
  <2>1. CASE work' = work
    BY <2>1
  <2>2. CASE /\ CanMerge
             /\ work' = [g \in Files |-> IF MergedTree[g] = Tree(head)[g] THEN work[g]
                                         ELSE MergedTree[g]]
    <3>1. Tree(head)[f] # Foreign
      BY <1>8, MergedTreeFacts DEF MergeCommit
    <3> QED
      BY <2>2, <3>1 DEF CanMerge
  <2> QED
    BY <1>8, <2>1, <2>2 DEF MergeCommit
<1>9. work' = work \/ Next
  BY DEF vars, localVars, treeVars
<1> QED
  BY <1>1, <1>2, <1>3, <1>4, <1>5, <1>6, <1>7, <1>8, <1>9, WorkMoves

\* The steps that move a branch of the repository.
LEMMA RemoteMoves ==
  ASSUME Next
  PROVE  remote' = remote \/ Push \/ \E b \in Branches : BranchMoves(b)
<1>1. CASE Prepare
  BY <1>1 DEF Prepare, ReadMarker, ensureSourceSnapshot, AddWorktree, restoreCandidateBase,
              RestoreFile, Restored, CheckoutCandidate, WriteFile, StageFile, PrepareCandidate,
              remoteVars
<1>2. CASE \/ Start \/ Accept \/ Fetch \/ InitializeRepository \/ StartTest \/ TestPasses
           \/ GitCommit \/ CommitIndex \/ GitPush \/ ConfirmPush
  BY <1>2 DEF Start, Accept, Fetch, InitializeRepository, StartTest, TestPasses, GitCommit,
              CommitIndex, GitPush, ConfirmPush, remoteVars
<1>3. CASE \/ BuildImage \/ RunBuildCommand \/ RecordBuild \/ FindRequest \/ CheckSource
           \/ Post(TRUE) \/ Post(FALSE) \/ FindAgain \/ ConfirmRequest \/ GitMerge \/ MergeCommit
  BY <1>3 DEF BuildImage, RunBuildCommand, RecordBuild, FindRequest, CheckSource, Post, FindAgain,
              ConfirmRequest, GitMerge, MergeCommit, remoteVars
<1>4. CASE \/ TestFails \/ LoseJob \/ NotCollected \/ PostFails \/ Kill \/ KillWriting \/ Drift
           \/ Edit \/ EditCommitted
           \/ (\E s \in {"closed", "merged"} : EndRequest(s))
  BY <1>4 DEF TestFails, LoseJob, NotCollected, PostFails, Kill, KillWriting, Drift, Edit,
              EditCommitted, EndRequest,
              remoteVars
<1> QED
  BY <1>1, <1>2, <1>3, <1>4 DEF Next, Job, Environment

\* Each of them moves it forward.
LEMMA RemoteKept ==
  ASSUME Inv, [Next]_vars, NEW b \in Branches, remote[b] # 0
  PROVE  remote[b] \in History'[remote'[b]]
<1>1. /\ remote[b] \in Commits /\ remote \in [Branches -> 0..Len(commits)]
      /\ remote[b] \in History[remote[b]]
  BY TypeFacts, CommitFacts DEF Inv, Data, Graph
<1>2. CASE remote' = remote
  <2>1. Inv'
    BY NextKeeps
  <2>2. remote'[b] \in 0..Len(commits')
    BY <2>1, TypeFacts DEF Inv, Typed, TypeOK
  <2>3. remote'[b] \in Commits'
    <3>1. Len(commits') \in Nat
      BY <2>1 DEF Inv, Typed, TypeOK
    <3> QED
      BY <1>2, <2>2, <3>1 DEF Commits
  <2> QED
    BY <1>2, <2>1, <2>3 DEF Inv, Data, Graph
<1>3. CASE Push
  <2>1. History' = History
    BY <1>3, CommitsSame DEF Push
  <2>2. CASE remote' = remote
    BY <1>1, <2>1, <2>2
  <2>3. CASE /\ FastForward(PushedBranch)
             /\ remote' = [remote EXCEPT ![PushedBranch] = refs[PushedBranch]]
    <3>1. PushedBranch \in Branches
      BY DEF PushedBranch, Branches
    <3>2. CASE b = PushedBranch
      BY <1>1, <2>1, <2>3, <3>1, <3>2 DEF FastForward, Ancestor
    <3>3. CASE b # PushedBranch
      BY <1>1, <2>1, <2>3, <3>1, <3>3
    <3> QED
      BY <3>2, <3>3
  <2> QED
    BY <1>3, <2>2, <2>3 DEF Push
<1>4. ASSUME NEW c \in Branches, BranchMoves(c)
      PROVE  remote[b] \in History'[remote'[b]]
  <2> DEFINE tree == [Tree(remote[c]) EXCEPT !["upstream"] = 1]
  <2>1. /\ {remote[c]} \in SUBSET Commits /\ tree \in Trees /\ 0 \in 0..MaxIterations
        /\ NewCommit(tree, 0, {remote[c]})
        /\ remote' = [remote EXCEPT ![c] = Len(commits) + 1]
    BY <1>4, BranchMovesMeans
  <2> HIDE DEF tree
  <2>2. /\ \A d \in Commits : History'[d] = History[d]
        /\ \A p \in {remote[c]} : History[p] \subseteq History'[Len(commits) + 1]
    BY <2>1, Grown DEF Inv, Data
  <2>3. CASE b = c
    BY <1>1, <2>1, <2>2, <2>3
  <2>4. CASE b # c
    BY <1>1, <2>1, <2>2, <2>4
  <2> QED
    BY <2>3, <2>4
<1>5. remote' = remote \/ Next
  BY DEF vars, remoteVars
<1> QED
  BY <1>2, <1>3, <1>4, <1>5, RemoteMoves

\* No job writes over an edit of somebody else in the workspace, or takes a commit from a branch of
\* the repository (candidate_recovery.go, pushBranch in git.go).
THEOREM NothingLost == Spec => NothingForeignLost
<1> DEFINE Kept == op # "initialize" => \A f \in Files : work[f] = Foreign => work'[f] = Foreign
           Grows == \A b \in Branches : remote[b] # 0 => remote[b] \in History'[remote'[b]]
<1>1. Inv /\ [Next]_vars => [Kept]_vars
  BY EditsKept
<1>2. Inv /\ [Next]_vars => [Grows]_vars
  BY RemoteKept
<1>3. Spec => [][Kept]_vars
  BY <1>1, Invariance, PTL DEF Spec
<1>4. Spec => [][Grows]_vars
  BY <1>2, Invariance, PTL DEF Spec
<1> QED
  BY <1>3, <1>4 DEF NothingForeignLost, ForeignEditsKept, RemoteHistoryKept

-----------------------------------------------------------------------------
(* The publication is implemented.                                          *)

\* What the abstract publication counts.
Candidates == Own \cup ({evidence.revision} \ {0})
Committed  == Cardinality(Candidates)
Proposed   == Len(requests) + Cardinality(Merges)
Abstract   == <<Committed, Proposed, outcome>>

\* There is at most one candidate.
LEMMA CommittedIs ==
  ASSUME Inv
  PROVE  /\ Candidates = {} => Committed = 0
         /\ Candidates # {} => Committed = 1
         /\ evidence.revision # 0 => Candidates = {evidence.revision}
         /\ evidence.revision = 0 => Candidates = Own
<1>1. \A c, d \in Candidates : c = d
  BY DEF Inv, Data, OwnOne, Candidates
<1>2. Candidates = {} => Committed = 0
  BY FS_EmptySet DEF Committed
<1>3. Candidates # {} => Committed = 1
  <2>1. HAVE Candidates # {}
  <2>2. PICK c : c \in Candidates
    BY <2>1
  <2>3. Candidates = {c}
    BY <1>1, <2>2
  <2> QED
    BY <2>3, FS_Singleton DEF Committed
<1> QED
  BY <1>2, <1>3 DEF Inv, Data, OwnOne, Candidates

\* There is at most one request or merge, and before the last operation none.
LEMMA ProposedIs ==
  ASSUME Inv
  PROVE  /\ op \notin Ends => requests = <<>> /\ Merges = {} /\ Proposed = 0
         /\ op = "request" => Merges = {} /\ Proposed = Len(requests)
         /\ op = "merge" => /\ requests = <<>>
                            /\ Merges = {} => Proposed = 0
                            /\ Merged(refs["target"]) => Proposed = 1
<1>1. /\ op # "request" => requests = <<>> /\ Len(requests) = 0
      /\ op # "merge" => Merges = {}
  BY DEF Inv, Data, RequestOne, MergeOne, Merged
<1>2. Cardinality({}) = 0 /\ Len(requests) \in Nat
  BY FS_EmptySet, TypeFacts DEF Inv
<1>3. \A m : Merges = {m} => Cardinality(Merges) = 1
  BY FS_Singleton
<1>4. Merges = {} => Proposed = Len(requests)
  BY <1>2 DEF Proposed
<1>5. Merged(refs["target"]) => Cardinality(Merges) = 1
  BY <1>3 DEF Merged
<1>6. op = "merge" /\ Merged(refs["target"]) => Proposed = 1
  BY <1>1, <1>5 DEF Proposed
<1> QED
  BY <1>1, <1>4, <1>6 DEF Ends

\* A step that only retries, hands on or ends the workflow.
Still ==
  /\ Candidates' = Candidates /\ Merges' = Merges /\ Len(requests)' = Len(requests)
  /\ outcome' = outcome \/ (outcome = "open" /\ outcome' = "failed")

\* To the abstract publication that is nothing, or a failure.
LEMMA StillImplements ==
  ASSUME Still
  PROVE  [Effects!Next]_(Effects!vars)
<1>1. Committed' = Committed /\ Proposed' = Proposed
  BY DEF Still, Committed, Proposed
<1> QED
  BY <1>1 DEF Still, Effects!Next, Effects!Fail, Effects!vars, Committed, Proposed, Candidates,
              Merges

\* A step without a new commit or request is one, when it is no acceptance.
LEMMA StillBy ==
  ASSUME Inv, commits' = commits, Len(requests)' = Len(requests),
         (evidence' = evidence /\ outcome' = outcome) \/ (at # "idle" /\ GivenUp)
  PROVE  Still
<1>1. Own' = Own /\ Merges' = Merges
  BY CommitsSame
<1>2. CASE evidence' = evidence /\ outcome' = outcome
  BY <1>1, <1>2 DEF Still, Candidates
<1>3. CASE at # "idle" /\ GivenUp
  <2>1. evidence'.revision = evidence.revision
    <3>1. evidence \in Evidence
      BY TypeFacts DEF Inv
    <3>2. [evidence EXCEPT !.prepared = NoTree].revision = evidence.revision
      BY <3>1 DEF Evidence
    <3> QED
      BY <1>3, <3>2, GivenUpCases
  <2>2. outcome = "open" /\ outcome' \in {"open", "failed"}
    BY <1>3, GivenUpCases, Busy
  <2> QED
    BY <1>1, <2>1, <2>2 DEF Still, Candidates
<1> QED
  BY <1>2, <1>3

\* A failed job is given up.
LEMMA GivenUpBy ==
  ASSUME Failed
  PROVE  GivenUp
  BY DEF Failed, GivenUp

\* All the steps but these are such steps.
LEMMA Otherwise ==
  ASSUME Inv, Next
  PROVE  \/ /\ commits' = commits /\ requests' = requests
            /\ \/ evidence' = evidence /\ outcome' = outcome
               \/ at # "idle" /\ GivenUp
         \/ Accept \/ CommitIndex \/ MergeCommit \/ EditCommitted
         \/ (\E reply \in BOOLEAN : Post(reply))
         \/ (\E b \in Branches : BranchMoves(b))
         \/ (\E s \in {"closed", "merged"} : EndRequest(s))
<1>1. CASE Prepare
  BY <1>1, GivenUpBy
     DEF Prepare, ReadMarker, ensureSourceSnapshot, AddWorktree, restoreCandidateBase, RestoreFile,
         Restored, CheckoutCandidate, WriteFile, StageFile, PrepareCandidate, Step, Goto, Finish,
         remoteVars, jobVars
<1>2. CASE Start \/ Fetch \/ InitializeRepository \/ StartTest \/ TestPasses \/ GitCommit
  BY <1>2, GivenUpBy
     DEF Start, Fetch, InitializeRepository, StartTest, TestPasses, GitCommit, Step, Goto, Finish,
         remoteVars
<1>3. CASE GitPush \/ Push \/ ConfirmPush \/ BuildImage \/ RunBuildCommand \/ RecordBuild
  BY <1>3, GivenUpBy
     DEF GitPush, Push, ConfirmPush, Observe, BuildImage, RunBuildCommand, RecordBuild, Step, Goto,
         Finish, remoteVars
<1>4. CASE FindRequest \/ CheckSource \/ FindAgain \/ ConfirmRequest \/ GitMerge
  BY <1>4, GivenUpBy
     DEF FindRequest, CheckSource, FindAgain, ConfirmRequest, GitMerge, Found, Step, Goto, Finish,
         remoteVars
<1>5. CASE TestFails \/ LoseJob \/ NotCollected \/ PostFails \/ Kill \/ KillWriting
  BY <1>5, GivenUpBy DEF TestFails, LoseJob, NotCollected, PostFails, Kill, KillWriting, Writing,
                         GivenUp, remoteVars
<1>6. CASE Drift \/ Edit
  BY <1>6 DEF Drift, Edit, remoteVars, jobVars
<1>7. Post(TRUE) \/ Post(FALSE) => \E reply \in BOOLEAN : Post(reply)
  OBVIOUS
<1> QED
  BY <1>1, <1>2, <1>3, <1>4, <1>5, <1>6, <1>7 DEF Next, Job, Environment

\* Accepting the revision commits, unless the commit was made; accepting the last artifact
\* publishes.
LEMMA AcceptImplements ==
  ASSUME Inv, Accept
  PROVE  [Effects!Next]_(Effects!vars)
<1>1. /\ commits' = commits /\ requests' = requests /\ outcome = "open"
      /\ Own' = Own /\ Merges' = Merges /\ Proposed' = Proposed
  BY AcceptMeans, QuietMeans, CommitsSame DEF Proposed
<1>2. CASE op = "commit"
  <2>1. outcome' = "open" /\ evidence.revision = 0 /\ Proposed = 0
    BY <1>2, AcceptMeans, ProposedIs DEF Inv, Data, Through, Ends
  <2>2. /\ evidence'.revision \in Commits /\ Own \subseteq {evidence'.revision}
        /\ evidence'.revision # 0
    BY <1>2, AcceptFields, CommitFacts DEF Inv
  <2>3. Candidates' = {evidence'.revision} /\ Candidates = Own
    BY <1>1, <2>1, <2>2 DEF Candidates
  <2>4. Committed' = 1
    BY <2>3, FS_Singleton DEF Committed
  <2>5. Committed \in {0, 1}
    BY CommittedIs
  <2> QED
    BY <1>1, <2>1, <2>4, <2>5
       DEF Effects!Next, Effects!Commit, Effects!vars, Committed, Proposed, Candidates, Merges
<1>3. CASE op \in Ends
  <2>1. outcome' = "published" /\ evidence'.revision = evidence.revision /\ evidence.revision # 0
    BY <1>3, AcceptMeans, AcceptFields DEF Inv, Data, Through, Ends, Late
  <2>2. Committed' = 1 /\ Committed = 1
    <3>1. Candidates' = Candidates /\ Candidates # {}
      BY <1>1, <2>1, CommittedIs DEF Candidates
    <3>2. Committed = 1
      BY <3>1, CommittedIs
    <3> QED
      BY <3>1, <3>2 DEF Committed
  <2>3. Proposed = 1
    <3>1. CASE op = "request"
      <4>1. requests # <<>> /\ Len(requests) <= 1 /\ requests \in Seq(RequestRecords)
        BY <3>1, AcceptFields, TypeFacts DEF Inv, Data, RequestOne
      <4>2. Len(requests) \in Nat /\ Len(requests) # 0
        BY <4>1, EmptySeq
      <4> QED
        BY <3>1, <4>1, <4>2, ProposedIs
    <3>2. CASE op = "merge"
      BY <3>2, AcceptFields, ProposedIs
    <3> QED
      BY <1>3, <3>1, <3>2 DEF Ends
  <2> QED
    BY <1>1, <2>1, <2>2, <2>3
       DEF Effects!Next, Effects!Publish, Effects!vars, Committed, Proposed, Candidates, Merges
<1>4. CASE op \notin Ends \cup {"commit"}
  <2>1. outcome' = outcome /\ evidence'.revision = evidence.revision
    BY <1>1, <1>4, AcceptMeans, AcceptFields
  <2>2. Still
    BY <1>1, <2>1 DEF Still, Candidates
  <2> QED
    BY <2>2, StillImplements
<1> QED
  BY <1>2, <1>3, <1>4

\* Committing the index commits.
LEMMA CommitIndexImplements ==
  ASSUME Inv, CommitIndex
  PROVE  [Effects!Next]_(Effects!vars)
<1>1. /\ at = "committing" /\ op = "commit" /\ Own = {} /\ outcome = "open"
      /\ evidence.revision = 0 /\ Candidates = {} /\ requests' = requests
  BY OpOf, Busy, CommittedIs
     DEF CommitIndex, Inv, Data, Through, Reached, Located, remoteVars, Candidates
<1>2. CASE NewCommit(index, iter, {head}) /\ Finish(Revision(head'))
  <2>1. /\ index \in Trees /\ iter \in 0..MaxIterations /\ iter # 0
        /\ {head} \in SUBSET Commits /\ ~(Cardinality({head}) > 1)
        /\ evidence' = evidence /\ iter' = iter /\ outcome' = outcome
    <3>1. index \in Trees /\ iter \in 0..MaxIterations /\ iter # 0 /\ head \in Commits
      BY TypeFacts, Bounds DEF Inv
    <3>2. evidence' = evidence /\ iter' = iter /\ outcome' = outcome
      BY <1>2 DEF Finish, Goto
    <3> QED
      BY <3>1, <3>2, OneParent
  <2>2. Own' = {Len(commits) + 1} /\ Merges' = Merges
    BY <1>1, <1>2, <2>1, GrownMeans
  <2>3. Candidates' = {Len(commits) + 1}
    BY <1>1, <2>1, <2>2 DEF Candidates
  <2>4. Committed' = 1 /\ Committed = 0
    BY <1>1, <2>3, FS_Singleton, FS_EmptySet DEF Committed
  <2>5. Proposed' = Proposed
    BY <1>1, <2>2 DEF Proposed
  <2> QED
    BY <1>1, <2>1, <2>4, <2>5
       DEF Effects!Next, Effects!Commit, Committed, Proposed, Candidates, Merges
<1>3. CASE Failed /\ commits' = commits
  BY <1>1, <1>3, GivenUpBy, StillBy, StillImplements
<1> QED
  BY <1>2, <1>3 DEF CommitIndex

\* Opening a request proposes.
LEMMA PostImplements ==
  ASSUME Inv, NEW reply \in BOOLEAN, Post(reply)
  PROVE  [Effects!Next]_(Effects!vars)
<1>1. /\ at = "post" /\ op = "request" /\ requests = <<>> /\ outcome = "open"
      /\ evidence.revision # 0
  BY OpOf, Busy DEF Post, Inv, Data, Through, Reached, Located, Late
<1>2. /\ commits' = commits /\ evidence' = evidence /\ outcome' = outcome
      /\ requests' = Append(requests, [head |-> remote["candidate"], state |-> "open"])
  BY DEF Post, Found, Goto
<1>3. Own' = Own /\ Merges' = Merges
  BY <1>2, CommitsSame
<1>4. Committed = 1 /\ Committed' = Committed
  BY <1>1, <1>2, <1>3, CommittedIs DEF Committed, Candidates
<1>5. Len(requests) = 0 /\ Len(requests)' = 1
  BY <1>1, <1>2
<1>6. Proposed = 0 /\ Proposed' = 1
  <2>1. Cardinality(Merges) = 0
    BY <1>1, ProposedIs, FS_EmptySet
  <2> QED
    BY <1>3, <1>5, <2>1 DEF Proposed
<1> QED
  BY <1>1, <1>2, <1>4, <1>6
     DEF Effects!Next, Effects!Propose, Committed, Proposed, Candidates, Merges

\* So does merging.
LEMMA MergeCommitImplements ==
  ASSUME Inv, MergeCommit
  PROVE  [Effects!Next]_(Effects!vars)
<1>1. /\ at = "merging" /\ op = "merge" /\ outcome = "open" /\ requests' = requests
      /\ evidence.revision # 0 /\ Merges = {} /\ requests = <<>> /\ Proposed = 0
      /\ MergedTree \in Trees /\ {head, evidence.revision} \in SUBSET Commits
      /\ Cardinality({head, evidence.revision}) > 1 /\ 0 \in 0..MaxIterations
  BY OpOf, Busy, MergedTreeFacts, ProposedIs, Bounds DEF MergeCommit, remoteVars
<1>2. CASE NewCommit(MergedTree, 0, {head, evidence.revision}) /\ Step("merging", "pushing")
  <2>1. evidence' = evidence /\ iter' = iter /\ outcome' = outcome
    BY <1>2 DEF Step, Goto
  <2>2. Own' = Own /\ Merges' = {Len(commits) + 1}
    BY <1>1, <1>2, <2>1, GrownMeans
  <2>3. Committed = 1 /\ Committed' = Committed
    BY <1>1, <2>1, <2>2, CommittedIs DEF Committed, Candidates
  <2>4. Proposed' = 1
    <3>1. Cardinality(Merges') = 1
      BY <2>2, FS_Singleton
    <3>2. Len(requests') = 0
      BY <1>1
    <3> QED
      BY <3>1, <3>2 DEF Proposed
  <2> QED
    BY <1>1, <2>1, <2>3, <2>4
       DEF Effects!Next, Effects!Propose, Committed, Proposed, Candidates, Merges
<1>3. CASE Failed /\ commits' = commits
  BY <1>1, <1>3, GivenUpBy, StillBy, StillImplements
<1> QED
  BY <1>2, <1>3 DEF MergeCommit

\* The commits of others do not count.
LEMMA OthersImplement ==
  ASSUME Inv, EditCommitted \/ \E b \in Branches : BranchMoves(b)
  PROVE  [Effects!Next]_(Effects!vars)
<1>1. \E tree \in Trees, p \in Commits : NewCommit(tree, 0, {p})
  <2>1. CASE EditCommitted
    BY <2>1, TypeFacts DEF EditCommitted, Inv
  <2>2. ASSUME NEW b \in Branches, BranchMoves(b)
        PROVE  \E tree \in Trees, p \in Commits : NewCommit(tree, 0, {p})
    BY <2>2, BranchMovesMeans
  <2> QED
    BY <2>1, <2>2
<1>2. PICK tree \in Trees, p \in Commits : NewCommit(tree, 0, {p})
  BY <1>1
<1>3. /\ evidence' = evidence /\ iter' = iter /\ outcome' = outcome
      /\ requests' = requests \/ \E f : requests' = [n \in Requests |-> f[n]]
  BY DEF EditCommitted, BranchMoves, jobVars, remoteVars
<1>4. Len(requests)' = Len(requests)
  <2>1. Len(requests) \in Nat
    BY TypeFacts DEF Inv
  <2>2. CASE \E f : requests' = [n \in Requests |-> f[n]]
    <3>1. PICK f : requests' = [n \in Requests |-> f[n]]
      BY <2>2
    <3> QED
      BY <2>1, <3>1 DEF Requests
  <2> QED
    BY <1>3, <2>2
<1>5. {p} \in SUBSET Commits /\ ~(Cardinality({p}) > 1) /\ 0 \in 0..MaxIterations
  BY OneParent, Bounds
<1>6. Own' = Own /\ Merges' = Merges
  BY <1>2, <1>3, <1>5, GrownMeans
<1>7. Still
  BY <1>3, <1>4, <1>6 DEF Still, Candidates
<1> QED
  BY <1>7, StillImplements

\* Every step is one of the publication or leaves it alone.
LEMMA StepImplements ==
  ASSUME Inv, [Next]_vars
  PROVE  [Effects!Next]_(Effects!vars)
<1>1. CASE Accept
  BY <1>1, AcceptImplements
<1>2. CASE CommitIndex
  BY <1>2, CommitIndexImplements
<1>3. CASE MergeCommit
  BY <1>3, MergeCommitImplements
<1>4. CASE \E reply \in BOOLEAN : Post(reply)
  BY <1>4, PostImplements
<1>5. CASE EditCommitted \/ \E b \in Branches : BranchMoves(b)
  BY <1>5, OthersImplement
<1>6. CASE \E s \in {"closed", "merged"} : EndRequest(s)
  <2>1. commits' = commits /\ evidence' = evidence /\ outcome' = outcome
    BY <1>6 DEF EndRequest, jobVars
  <2>2. PICK n, s : requests' = [requests EXCEPT ![n].state = s]
    BY <1>6 DEF EndRequest
  <2>3. Len(requests') = Len(requests)
    <3>1. requests \in Seq(RequestRecords)
      BY TypeFacts DEF Inv
    <3> QED
      BY <2>2, <3>1
  <2> QED
    BY <2>1, <2>3, StillBy, StillImplements
<1>7. CASE /\ commits' = commits /\ requests' = requests
           /\ \/ evidence' = evidence /\ outcome' = outcome
              \/ at # "idle" /\ GivenUp
  BY <1>7, StillBy, StillImplements
<1>8. CASE UNCHANGED vars
  BY <1>8, StillBy, StillImplements DEF vars, jobVars, remoteVars
<1> QED
  BY <1>1, <1>2, <1>3, <1>4, <1>5, <1>6, <1>7, <1>8, Otherwise

\* And it starts as one.
LEMMA InitImplements == Init => Effects!Init
<1> SUFFICES ASSUME Init PROVE Effects!Init
  OBVIOUS
<1>1. Inv
  BY InitInv
<1>2. /\ op = "initialize" /\ evidence = NoEvidence /\ outcome = "open"
  BY DEF Init
<1>3. evidence.revision = 0
  BY <1>2 DEF NoEvidence
<1>4. Candidates = {}
  BY <1>1, <1>2, <1>3 DEF Inv, Data, OwnOne, Late, Candidates
<1>5. Committed = 0 /\ Proposed = 0
  BY <1>1, <1>2, <1>4, CommittedIs, ProposedIs DEF Ends
<1> QED
  BY <1>2, <1>5 DEF Effects!Init, Committed, Proposed, Candidates, Merges

\* However often jobs are killed and repeated, there is one candidate commit and one request or
\* merge, and both before the workflow counts as published (Publication).
THEOREM PublicationImplemented == Spec => ImplementsPublication
<1>1. Init => Effects!Init
  BY InitImplements
<1>2. Inv /\ [Next]_vars => [Effects!Next]_(Effects!vars)
  BY StepImplements
<1> QED
  BY <1>1, <1>2, Invariance, PTL DEF Spec, ImplementsPublication, Effects!Spec
====
