--------------------------- MODULE UtilityEffects ---------------------------
(***************************************************************************)
(* The utility operations of a workflow (internal/utility) on the shared   *)
(* workspace, the application repository and its merge requests:           *)
(* repository.initialize, candidate.prepare, test.run, git.commit,         *)
(* git.push, build.image and git.mergeRequest or git.merge.                *)
(*                                                                         *)
(* An operation runs in a job that may be killed between any two of its    *)
(* commands.  The step is then repeated under the same idempotency key     *)
(* (utilityoperation_controller.go), finds what the earlier job left in    *)
(* the workspace and in the repository, and must converge.  A failed test  *)
(* rewinds the workflow: a new iteration has a new key.                    *)
(***************************************************************************)
EXTENDS Integers, Sequences, FiniteSets

CONSTANTS
  MaxTries,       \* maxAttempts of every step
  MaxIterations,  \* maxWorkflowAttempt and the first iteration
  MaxEvents,      \* bound on the environment events of a behaviour
  Env             \* the environment events that may happen

EnvEvents == {"kill",         \* the job's pod is killed, except as in
              "killWriting",  \* killed while the candidate is written
              "loseJob",      \* the job is gone, in the middle or finished
              "notCollected", \* the collector of an ended job fails
              "testFails",    \* the test command fails
              "drift",        \* the test command changes a tracked file
              "edit",         \* a human session edits the workspace
              "commitEdit",   \* and commits what is staged
              "targetMoves",  \* somebody pushes to the target branch
              "branchMoves",  \* somebody pushes to the candidate branch
              "failPost",     \* the provider does not open a merge request
              "lostReply",    \* it does, and its answer is lost
              "closeRequest", \* somebody closes the merge request
              "mergeRequest"} \* somebody merges it

ASSUME BoundsAssumption ==
  /\ MaxTries \in Nat \ {0} /\ MaxIterations \in Nat \ {0}
  /\ MaxEvents \in Nat /\ Env \subseteq EnvEvents

VARIABLES
  plan,      \* the operation that publishes: "request" or "merge"
  op,        \* the operation of the active step
  at,        \* progress of its job; "idle" before there is one
  try,
  iter,
  outcome,   \* of the workflow: "open", "published", "failed"
  evidence,  \* the accepted artifacts
  out,       \* the artifact the job has staged
  work, index, branch, head,  \* checkout: files, staged files, branch, HEAD
  refs,      \* local branches
  origin,    \* origin/<target> as fetched
  commits,   \* all commits; a commit is its number
  snapshot,  \* the worktree that preserves the accepted source
  markers,   \* prepared candidates by idempotency key
  builds,    \* images by idempotency key
  images,    \* the files every image was built from
  remote,    \* branches of the application repository
  requests,  \* merge requests of the provider
  seen,      \* the merge request this job has found or opened
  events

jobVars    == <<op, at, try, iter, outcome, evidence, out, seen>>
treeVars   == <<work, index, branch, head, refs, snapshot>>
localVars  == <<treeVars, origin, markers, builds>>
remoteVars == <<remote, requests, images>>
vars == <<plan, jobVars, localVars, commits, remoteVars, events>>

-----------------------------------------------------------------------------
(* Files hold the accepted content of an iteration (1, 2, ...), the source *)
(* (0), an upstream change, or something else.                             *)
Foreign == -1
Torn    == -2
None    == -3

Files    == {"code", "test", "upstream"}
Branches == {"candidate", "target"}
Contents == None..MaxIterations
Trees    == [Files -> Contents]
NoTree   == [f \in Files |-> None]
Source   == [f \in Files |-> 0]

\* A rewind goes back to the author of the tests: the accepted change set
\* stays, the accepted test change set is a new one.
Changed   == <<"code", "test">>
Accepted(i) == [f \in Files |-> CASE f = "code" -> 1
                                  [] f = "test" -> i
                                  [] OTHER -> 0]

Operations == {"initialize", "prepare", "test", "commit", "push", "build",
               "request", "merge"}
NextOp(o) == CASE o = "initialize" -> "prepare"
               [] o = "prepare" -> "test"
               [] o = "test" -> "commit"
               [] o = "commit" -> "push"
               [] o = "push" -> "build"
               [] OTHER -> plan

Evidence == [source : Nat,       \* repository-revision
             prepared : Trees,   \* prepared-candidate
             report : Trees,     \* test-report, passed
             revision : Nat,     \* candidate-revision
             proof : Nat,        \* candidate-remote-proof
             image : Nat,        \* image-digest
             final : Nat]        \* merge-request or merge-revision
NoEvidence == [source |-> 0, prepared |-> NoTree, report |-> NoTree,
               revision |-> 0, proof |-> 0, image |-> 0, final |-> 0]

Commits == 1..Len(commits)
Tree(c) == commits[c].tree

\* Commits are numbered in the order they are made: parents come first.
History ==
  LET h[c \in Commits] == {c} \cup UNION {h[p] : p \in commits[c].parents}
  IN  h
Ancestor(a, c) == a \in History[c]

TypeOK ==
  /\ plan \in {"request", "merge"}
  /\ op \in Operations
  /\ at \in {"idle", "fetch", "checkout", "marker", "snapshot", "adding", "restore",
             "restoring", "branch", "apply", "verify", "testing", "commit",
             "committing", "push", "pushing", "confirm", "build", "building",
             "record", "find", "refcheck", "post", "refind", "merge", "merging", "done"}
  /\ try \in 1..MaxTries
  /\ iter \in 1..MaxIterations
  /\ outcome \in {"open", "published", "failed"}
  /\ evidence \in Evidence /\ out \in Evidence
  /\ work \in Trees /\ index \in Trees
  /\ branch \in Branches \cup {"detached"}
  /\ head \in Commits
  /\ refs \in [Branches -> 0..Len(commits)]
  /\ origin \in 0..Len(commits)
  /\ commits \in Seq([tree : Trees, key : 0..MaxIterations, parents : SUBSET Nat])
  /\ snapshot \in {"absent", "partial", "clean"}
  /\ markers \in [1..MaxIterations -> Trees]
  /\ builds \in [1..MaxIterations -> 0..Len(images)]
  /\ images \in Seq(Trees)
  /\ remote \in [Branches -> 0..Len(commits)]
  /\ requests \in Seq([head : Commits, state : {"open", "closed", "merged"}])
  /\ seen \in 0..Len(requests)
  /\ events \in 0..MaxEvents

Init ==
  /\ plan \in {"request", "merge"}
  /\ op = "initialize" /\ at = "idle" /\ try = 1 /\ iter = 1
  /\ outcome = "open"
  /\ evidence = NoEvidence /\ out = NoEvidence
  /\ commits = <<[tree |-> Source, key |-> 0, parents |-> {}]>>
  /\ work = Source /\ index = Source /\ branch = "detached" /\ head = 1
  /\ refs = [b \in Branches |-> 0] /\ origin = 0
  /\ snapshot = "absent"
  /\ markers = [i \in 1..MaxIterations |-> NoTree]
  /\ builds = [i \in 1..MaxIterations |-> 0]
  /\ images = <<>>
  /\ remote = [b \in Branches |-> IF b = "target" THEN 1 ELSE 0]
  /\ requests = <<>> /\ seen = 0
  /\ events = 0

-----------------------------------------------------------------------------
(* A job and what the workflow makes of its end.                           *)

Start ==
  /\ outcome = "open" /\ at = "idle"
  /\ at' = CASE op = "initialize" -> "fetch"
             [] op = "prepare" -> "marker"
             [] op = "test" -> "verify"
             [] op = "request" -> "find"
             [] OTHER -> op
  /\ out' = evidence
  /\ seen' = 0
  /\ UNCHANGED <<plan, op, try, iter, outcome, evidence, localVars, commits,
                 remoteVars, events>>

Goto(stage) ==
  /\ at' = stage
  /\ UNCHANGED <<plan, op, try, iter, outcome, evidence, events>>

Finish(e) == Goto("done") /\ out' = e /\ UNCHANGED seen

Step(from, to) == at = from /\ Goto(to) /\ UNCHANGED <<out, seen>>

RetryStep ==
  /\ IF try < MaxTries
     THEN try' = try + 1 /\ UNCHANGED outcome
     ELSE outcome' = "failed" /\ UNCHANGED try
  /\ UNCHANGED <<op, iter, evidence>>

\* A failed test sends the workflow back to the author of the tests, whose
\* changes the next candidate is prepared from.
Rewind ==
  IF iter < MaxIterations
  THEN /\ iter' = iter + 1 /\ op' = "prepare" /\ try' = 1
       /\ evidence' = [evidence EXCEPT !.prepared = NoTree]
       /\ UNCHANGED outcome
  ELSE outcome' = "failed" /\ UNCHANGED <<op, try, iter, evidence>>

\* A job that fails, whatever the reason, is a failed and retryable operation.
Failed ==
  /\ at' = "idle" /\ out' = NoEvidence /\ seen' = 0
  /\ IF op = "test" THEN Rewind ELSE RetryStep
  /\ UNCHANGED plan

Happens(e) == e \in Env /\ events < MaxEvents /\ events' = events + 1

\* The collector registers the staged artifact, the artifact is accepted, and
\* the workflow goes on.
Accept ==
  /\ at = "done"
  /\ at' = "idle" /\ out' = NoEvidence /\ seen' = 0
  /\ evidence' = out
  /\ IF op = plan THEN outcome' = "published" /\ UNCHANGED <<op, try>>
                  ELSE op' = NextOp(op) /\ try' = 1 /\ UNCHANGED outcome
  /\ UNCHANGED <<plan, iter, localVars, commits, remoteVars, events>>

\* A job or its result that is gone interrupts the operation, which is retried
\* even when it is a test.  KillWriting stands for a job that is gone while it
\* prepares the candidate.
Writing == at \in {"adding", "restoring", "apply"}

LoseJob ==
  /\ at # "idle" /\ ~Writing /\ Happens("loseJob")
  /\ at' = "idle" /\ out' = NoEvidence /\ seen' = 0
  /\ RetryStep
  /\ UNCHANGED <<plan, localVars, commits, remoteVars>>

\* A collector that fails, after a job that succeeded or failed, is not retryable:
\* the workflow fails, unless it rewinds.
NotCollected ==
  /\ at # "idle" /\ ~Writing /\ Happens("notCollected")
  /\ at' = "idle" /\ out' = NoEvidence /\ seen' = 0
  /\ IF op = "test" THEN Rewind
     ELSE outcome' = "failed" /\ UNCHANGED <<op, try, iter, evidence>>
  /\ UNCHANGED <<plan, localVars, commits, remoteVars>>

-----------------------------------------------------------------------------
(* repository.initialize: fetch, then check out the revision, detached and *)
(* by force.                                                               *)

Fetch ==
  /\ Step("fetch", "checkout")
  /\ origin' = remote["target"]
  /\ UNCHANGED <<treeVars, markers, builds, commits, remoteVars>>

InitializeRepository ==
  /\ at = "checkout"
  /\ head' = origin /\ branch' = "detached"
  /\ work' = Tree(origin) /\ index' = Tree(origin)
  /\ Finish([evidence EXCEPT !.source = origin])
  /\ UNCHANGED <<refs, snapshot, origin, markers, builds, commits, remoteVars>>

-----------------------------------------------------------------------------
(* candidate.prepare                                                       *)

Base == evidence.source
Candidate(i) == [f \in Files |-> IF f = "upstream" THEN Tree(Base)[f] ELSE Accepted(i)[f]]

verifyPreparedWorkspace(tree) == branch = "candidate" /\ index = tree /\ work = index
requireCleanBaseWorkspace     == head = Base /\ index = Tree(Base) /\ work = index

\* The job of this key has been here before.
ReadMarker ==
  /\ at = "marker"
  /\ \/ /\ markers[iter] = NoTree
        /\ Step("marker", "snapshot")
     \/ /\ markers[iter] # NoTree /\ verifyPreparedWorkspace(markers[iter])
        /\ Finish([evidence EXCEPT !.prepared = markers[iter]])
     \/ /\ markers[iter] # NoTree /\ ~verifyPreparedWorkspace(markers[iter])
        /\ Failed /\ UNCHANGED events
  /\ UNCHANGED <<localVars, commits, remoteVars>>

\* git worktree add is not atomic, and what exists is only inspected.
ensureSourceSnapshot ==
  /\ at = "snapshot"
  /\ \/ snapshot = "absent" /\ Step("snapshot", "adding")
     \/ snapshot = "clean" /\ Step("snapshot", "restore")
     \/ snapshot = "partial" /\ Failed /\ UNCHANGED events
  /\ UNCHANGED <<localVars, commits, remoteVars>>

AddWorktree ==
  /\ Step("adding", "snapshot")
  /\ snapshot' = "clean"
  /\ UNCHANGED <<work, index, branch, head, refs, origin, markers, builds, commits,
                 remoteVars>>

\* A marker whose candidate is still what the workspace holds.
Recorded == \E i \in 1..MaxIterations :
              markers[i] # NoTree /\ verifyPreparedWorkspace(markers[i])

restoreCandidateBase ==
  /\ at = "restore"
  /\ \/ requireCleanBaseWorkspace /\ Step("restore", "branch")
     \/ /\ ~requireCleanBaseWorkspace /\ head = Base /\ Recorded
        /\ Step("restore", "restoring")
     \/ /\ ~requireCleanBaseWorkspace /\ ~(head = Base /\ Recorded)
        /\ Failed /\ UNCHANGED events
  /\ UNCHANGED <<localVars, commits, remoteVars>>

\* git restore --staged --worktree takes the changed paths one by one.
RestoreFile ==
  /\ at = "restoring"
  /\ \E f \in Files :
       /\ f \in {"code", "test"} /\ (work[f] # Tree(Base)[f] \/ index[f] # Tree(Base)[f])
       /\ work' = [work EXCEPT ![f] = Tree(Base)[f]]
       /\ index' = [index EXCEPT ![f] = Tree(Base)[f]]
  /\ UNCHANGED <<plan, jobVars, branch, head, refs, snapshot, origin, markers, builds,
                 commits, remoteVars, events>>

Restored ==
  /\ requireCleanBaseWorkspace
  /\ Step("restoring", "branch")
  /\ UNCHANGED <<localVars, commits, remoteVars>>

CheckoutCandidate ==
  /\ Step("branch", "apply")
  /\ branch' = "candidate" /\ head' = Base
  /\ refs' = [refs EXCEPT !["candidate"] = Base]
  /\ UNCHANGED <<work, index, snapshot, origin, markers, builds, commits, remoteVars>>

\* The accepted files are written and staged one after the other.
Unstaged == {n \in DOMAIN Changed : index[Changed[n]] # Accepted(iter)[Changed[n]]}
NextFile == Changed[CHOOSE n \in Unstaged : \A m \in Unstaged : n <= m]

WriteFile ==
  /\ at = "apply" /\ Unstaged # {}
  /\ work[NextFile] = Tree(Base)[NextFile]
  /\ work' = [work EXCEPT ![NextFile] = Accepted(iter)[NextFile]]
  /\ UNCHANGED <<plan, jobVars, index, branch, head, refs, snapshot, origin, markers,
                 builds, commits, remoteVars, events>>

StageFile ==
  /\ at = "apply" /\ Unstaged # {}
  /\ work[NextFile] = Accepted(iter)[NextFile]
  /\ index' = [index EXCEPT ![NextFile] = work[NextFile]]
  /\ UNCHANGED <<plan, jobVars, work, branch, head, refs, snapshot, origin, markers,
                 builds, commits, remoteVars, events>>

\* The marker is published by a rename and holds the tree of the index.
PrepareCandidate ==
  /\ at = "apply" /\ Unstaged = {}
  /\ markers' = [markers EXCEPT ![iter] = index]
  /\ Finish([evidence EXCEPT !.prepared = index])
  /\ UNCHANGED <<treeVars, origin, builds, commits, remoteVars>>

-----------------------------------------------------------------------------
(* test.run                                                                *)

StartTest ==
  /\ at = "verify"
  /\ \/ verifyPreparedWorkspace(evidence.prepared) /\ Step("verify", "testing")
     \/ ~verifyPreparedWorkspace(evidence.prepared) /\ Failed /\ UNCHANGED events
  /\ UNCHANGED <<localVars, commits, remoteVars>>

\* A report passes only when nothing has drifted.
TestPasses ==
  /\ at = "testing"
  /\ \/ /\ index = evidence.prepared /\ work = index
        /\ Finish([evidence EXCEPT !.report = index])
     \/ ~(index = evidence.prepared /\ work = index) /\ Failed /\ UNCHANGED events
  /\ UNCHANGED <<localVars, commits, remoteVars>>

TestFails ==
  /\ at = "testing" /\ Happens("testFails")
  /\ Failed
  /\ UNCHANGED <<localVars, commits, remoteVars>>

-----------------------------------------------------------------------------
(* git.commit                                                              *)

NewCommit(tree, key, parents) ==
  commits' = Append(commits, [tree |-> tree, key |-> key, parents |-> parents])

\* hasGitCommit: a commit whose message holds the idempotency key.
Keyed == {c \in Commits : commits[c].key = iter}

validateCandidateRevisionState ==
  branch = "candidate" /\ index = evidence.prepared /\ index = evidence.report

Revision(c) == [evidence EXCEPT !.revision = c]

\* Deviation: the staged tree is not compared.
GitCommitAnyTree ==
  /\ at = "commit"
  /\ \/ \E c \in Keyed : Finish(Revision(c))
     \/ Keyed = {} /\ Step("commit", "committing")
  /\ UNCHANGED <<localVars, commits, remoteVars>>

\* Without a commit of the key the index is committed, unless HEAD holds it
\* already.  A commit of the key with another tree, which the code refuses, does
\* not occur: the prepared tree of an iteration never changes.
GitCommit ==
  /\ at = "commit"
  /\ \/ ~validateCandidateRevisionState /\ Failed /\ UNCHANGED events
     \/ \E c \in Keyed :
          /\ validateCandidateRevisionState
          /\ Tree(c) = index
          /\ Finish(Revision(c))
     \/ /\ validateCandidateRevisionState /\ Keyed = {}
        /\ work = Tree(head)
        /\ Finish(Revision(head))
     \/ /\ validateCandidateRevisionState /\ Keyed = {}
        /\ work # Tree(head)
        /\ Step("commit", "committing")
  /\ UNCHANGED <<localVars, commits, remoteVars>>

CommitIndex ==
  /\ at = "committing"
  /\ \/ /\ index # Tree(head)
        /\ NewCommit(index, iter, {head})
        /\ head' = Len(commits) + 1
        /\ refs' = [refs EXCEPT !["candidate"] = head']
        /\ Finish(Revision(head'))
     \/ index = Tree(head) /\ Failed /\ UNCHANGED <<commits, head, refs, events>>
  /\ UNCHANGED <<work, index, branch, snapshot, origin, markers, builds, remoteVars>>

-----------------------------------------------------------------------------
(* pushBranch: observe, push without force, observe again.                 *)

Pushed(b) == IF b = "candidate" THEN [evidence EXCEPT !.proof = refs[b]]
                                ELSE [evidence EXCEPT !.final = refs[b]]
FastForward(b) == remote[b] = 0 \/ Ancestor(remote[b], refs[b])

Observe(b) ==
  \/ remote[b] = refs[b] /\ Finish(Pushed(b))
  \/ remote[b] # refs[b] /\ Goto("pushing") /\ UNCHANGED <<out, seen>>

PushedBranch == IF op = "push" THEN "candidate" ELSE "target"

\* Deviation: git push --force.
PushByForce ==
  /\ Step("pushing", "confirm")
  /\ remote' = [remote EXCEPT ![PushedBranch] = refs[PushedBranch]]
  /\ UNCHANGED <<localVars, commits, requests, images>>

GitPush ==
  /\ at = "push"
  /\ \/ refs["candidate"] = evidence.revision /\ Observe("candidate")
     \/ refs["candidate"] # evidence.revision /\ Failed /\ UNCHANGED events
  /\ UNCHANGED <<localVars, commits, remoteVars>>

Push ==
  /\ at = "pushing"
  /\ \/ /\ FastForward(PushedBranch)
        /\ remote' = [remote EXCEPT ![PushedBranch] = refs[PushedBranch]]
        /\ Step("pushing", "confirm")
     \/ ~FastForward(PushedBranch) /\ Failed /\ UNCHANGED <<remote, events>>
  /\ UNCHANGED <<localVars, commits, requests, images>>

ConfirmPush ==
  /\ at = "confirm" /\ op \in {"push", "merge"}
  /\ \/ remote[PushedBranch] = refs[PushedBranch] /\ Finish(Pushed(PushedBranch))
     \/ remote[PushedBranch] # refs[PushedBranch] /\ Failed /\ UNCHANGED events
  /\ UNCHANGED <<localVars, commits, remoteVars>>

-----------------------------------------------------------------------------
(* build.image: the command reads the workspace, the evidence names HEAD.  *)

BuildImage ==
  /\ at = "build"
  /\ \/ /\ ~(head = evidence.revision /\ evidence.proof = head)
        /\ Failed /\ UNCHANGED events
     \/ /\ head = evidence.revision /\ evidence.proof = head
        /\ builds[iter] # 0
        /\ Finish([evidence EXCEPT !.image = builds[iter]])
     \/ /\ head = evidence.revision /\ evidence.proof = head
        /\ builds[iter] = 0
        /\ Step("build", "building")
  /\ UNCHANGED <<localVars, commits, remoteVars>>

RunBuildCommand ==
  /\ Step("building", "record")
  /\ images' = Append(images, work)
  /\ UNCHANGED <<localVars, commits, remote, requests>>

RecordBuild ==
  /\ at = "record"
  /\ builds' = [builds EXCEPT ![iter] = Len(images)]
  /\ Finish([evidence EXCEPT !.image = Len(images)])
  /\ UNCHANGED <<treeVars, origin, markers, commits, remoteVars>>

-----------------------------------------------------------------------------
(* git.mergeRequest                                                        *)

Requests == 1..Len(requests)
Wanted(n) == requests[n].head = evidence.revision /\ requests[n].state # "closed"

\* Requests that have ended for another candidate are passed over.
Passed(n) == requests[n].state # "open" /\ requests[n].head # evidence.revision
Relevant  == {n \in Requests : ~Passed(n)}
Newest(S) == CHOOSE n \in S : \A m \in S : m <= n

Found(n) == Goto("confirm") /\ seen' = n /\ UNCHANGED out

\* Deviation: only open requests of this candidate are looked for.
FindOpenRequest ==
  /\ at = "find"
  /\ \/ \E n \in Requests : requests[n].state = "open" /\ Wanted(n) /\ Found(n)
     \/ /\ \A n \in Requests : ~(requests[n].state = "open" /\ Wanted(n))
        /\ Step("find", "refcheck")
  /\ UNCHANGED <<localVars, commits, remoteVars>>

FindRequest ==
  /\ at = "find"
  /\ \/ Relevant = {} /\ Step("find", "refcheck")
     \/ Relevant # {} /\ Wanted(Newest(Relevant)) /\ Found(Newest(Relevant))
     \/ Relevant # {} /\ ~Wanted(Newest(Relevant)) /\ Failed /\ UNCHANGED events
  /\ UNCHANGED <<localVars, commits, remoteVars>>

CheckSource ==
  /\ at = "refcheck"
  /\ \/ remote["candidate"] = evidence.revision /\ Step("refcheck", "post")
     \/ remote["candidate"] # evidence.revision /\ Failed /\ UNCHANGED events
  /\ UNCHANGED <<localVars, commits, remoteVars>>

\* The provider opens the request for what the branch holds now.
Post(reply) ==
  /\ at = "post"
  /\ requests' = Append(requests, [head |-> remote["candidate"], state |-> "open"])
  /\ IF reply THEN Found(Len(requests) + 1) /\ UNCHANGED events
              ELSE /\ Happens("lostReply") /\ at' = "refind"
                   /\ UNCHANGED <<plan, op, try, iter, outcome, evidence, out, seen>>
  /\ UNCHANGED <<localVars, commits, remote, images>>

\* Or it opens none, and the job is told so or not.
PostFails ==
  /\ at = "post" /\ Happens("failPost")
  /\ at' = "refind"
  /\ UNCHANGED <<plan, op, try, iter, outcome, evidence, out, seen, localVars, commits,
                 remoteVars>>

\* After an error the job looks again and never posts again.
FindAgain ==
  /\ at = "refind"
  /\ \/ Relevant # {} /\ Wanted(Newest(Relevant)) /\ Found(Newest(Relevant))
     \/ /\ ~(Relevant # {} /\ Wanted(Newest(Relevant)))
        /\ Failed /\ UNCHANGED events
  /\ UNCHANGED <<localVars, commits, remoteVars>>

ConfirmRequest ==
  /\ at = "confirm" /\ op = "request"
  /\ \/ Wanted(seen) /\ Finish([evidence EXCEPT !.final = seen])
     \/ ~Wanted(seen) /\ Failed /\ UNCHANGED events
  /\ UNCHANGED <<localVars, commits, remoteVars>>

-----------------------------------------------------------------------------
(* git.merge: check out the target, merge without fast-forward, push.      *)

Target == IF refs["target"] = 0 THEN origin ELSE refs["target"]

\* git checkout refuses when it would overwrite a local change.
CanCheckout(c) == \A f \in Files :
  Tree(head)[f] # Tree(c)[f] => work[f] = Tree(head)[f] /\ index[f] = Tree(head)[f]
SwitchTo(c) ==
  /\ branch' = "target" /\ head' = c
  /\ work' = [f \in Files |-> IF Tree(head)[f] = Tree(c)[f] THEN work[f] ELSE Tree(c)[f]]
  /\ index' = [f \in Files |-> IF Tree(head)[f] = Tree(c)[f] THEN index[f] ELSE Tree(c)[f]]
  /\ refs' = [refs EXCEPT !["target"] = c]

GitMerge ==
  /\ at = "merge"
  /\ \/ /\ refs["candidate"] = evidence.revision
        /\ CanCheckout(Target)
        /\ SwitchTo(Target)
        /\ IF Ancestor(refs["candidate"], Target)
           THEN \/ /\ remote["target"] = Target
                   /\ Finish([evidence EXCEPT !.final = Target])
                \/ remote["target"] # Target /\ Goto("pushing") /\ UNCHANGED <<out, seen>>
           ELSE Goto("merging") /\ UNCHANGED <<out, seen>>
     \/ /\ ~(refs["candidate"] = evidence.revision /\ CanCheckout(Target))
        /\ Failed /\ UNCHANGED <<work, index, branch, head, refs, events>>
  /\ UNCHANGED <<snapshot, origin, markers, builds, commits, remoteVars>>

\* Both sides changed different files of the source.
MergedTree == [f \in Files |-> IF Tree(evidence.revision)[f] # Tree(Base)[f]
                               THEN Tree(evidence.revision)[f] ELSE Tree(head)[f]]

\* git merge refuses an index with changes, and a local change it would overwrite.
CanMerge == /\ index = Tree(head)
            /\ \A f \in Files : MergedTree[f] # Tree(head)[f] => work[f] = Tree(head)[f]

MergeCommit ==
  /\ at = "merging"
  /\ \/ /\ CanMerge
        /\ NewCommit(MergedTree, 0, {head, evidence.revision})
        /\ head' = Len(commits) + 1
        /\ refs' = [refs EXCEPT !["target"] = head']
        /\ work' = [f \in Files |-> IF MergedTree[f] = Tree(head)[f] THEN work[f] ELSE MergedTree[f]]
        /\ index' = MergedTree
        /\ Step("merging", "pushing")
     \/ ~CanMerge /\ Failed /\ UNCHANGED <<commits, head, refs, work, index, events>>
  /\ UNCHANGED <<branch, snapshot, origin, markers, builds, remoteVars>>

-----------------------------------------------------------------------------
(* What happens around the job.                                            *)

\* The job is killed between two commands; what they did stays.
Kill ==
  /\ at \notin {"idle", "done"} /\ ~Writing
  /\ Happens("kill")
  /\ Failed
  /\ UNCHANGED <<localVars, commits, remoteVars>>

\* Or while it prepares the workspace: a worktree half added, a file half
\* written, some paths restored, nothing of it recorded.
KillWriting ==
  /\ Writing /\ Happens("killWriting")
  /\ Failed
  /\ snapshot' = IF at = "adding" THEN "partial" ELSE snapshot
  /\ \/ UNCHANGED work
     \/ /\ at = "apply" /\ Unstaged # {}
        /\ work' = [work EXCEPT ![NextFile] = Torn]
  /\ UNCHANGED <<index, branch, head, refs, origin, markers, builds, commits, remoteVars>>

\* The test command writes into the tree it tests.
Drift ==
  /\ at = "testing" /\ Happens("drift")
  /\ \E f \in {"code", "test"} : work' = [work EXCEPT ![f] = Foreign]
  /\ UNCHANGED <<plan, jobVars, index, branch, head, refs, snapshot, origin, markers,
                 builds, commits, remoteVars>>

\* A human session holds the workspace between two jobs.
Edit ==
  /\ at = "idle" /\ outcome = "open" /\ op # "initialize"
  /\ Happens("edit")
  /\ \E f \in {"code", "test"} :
       /\ work' = [work EXCEPT ![f] = Foreign]
       /\ \/ UNCHANGED index
          \/ index' = [index EXCEPT ![f] = Foreign]
  /\ UNCHANGED <<plan, jobVars, branch, head, refs, snapshot, origin, markers, builds,
                 commits, remoteVars>>

EditCommitted ==
  /\ at = "idle" /\ outcome = "open" /\ branch = "candidate" /\ index # Tree(head)
  /\ Happens("commitEdit")
  /\ NewCommit(index, 0, {head})
  /\ head' = Len(commits) + 1
  /\ refs' = [refs EXCEPT !["candidate"] = head']
  /\ UNCHANGED <<plan, jobVars, work, index, branch, snapshot, origin, markers, builds,
                 remoteVars>>

\* Somebody pushes a commit of their own; an open request follows its branch.
BranchMoves(b) ==
  /\ remote[b] # 0
  /\ Happens(IF b = "target" THEN "targetMoves" ELSE "branchMoves")
  /\ NewCommit([Tree(remote[b]) EXCEPT !["upstream"] = 1], 0, {remote[b]})
  /\ remote' = [remote EXCEPT ![b] = Len(commits) + 1]
  /\ requests' = [n \in Requests |->
       IF b = "candidate" /\ requests[n].state = "open"
       THEN [requests[n] EXCEPT !.head = Len(commits) + 1] ELSE requests[n]]
  /\ UNCHANGED <<plan, jobVars, localVars, images>>

EndRequest(state) ==
  /\ Happens(IF state = "closed" THEN "closeRequest" ELSE "mergeRequest")
  /\ \E n \in Requests :
       /\ requests[n].state = "open"
       /\ requests' = [requests EXCEPT ![n].state = state]
  /\ UNCHANGED <<plan, jobVars, localVars, commits, remote, images>>

-----------------------------------------------------------------------------
Prepare == ReadMarker \/ ensureSourceSnapshot \/ AddWorktree \/ restoreCandidateBase
           \/ RestoreFile \/ Restored \/ CheckoutCandidate \/ WriteFile \/ StageFile
           \/ PrepareCandidate
Job == Start \/ Accept \/ Fetch \/ InitializeRepository \/ Prepare
       \/ StartTest \/ TestPasses \/ GitCommit \/ CommitIndex
       \/ GitPush \/ Push \/ ConfirmPush
       \/ BuildImage \/ RunBuildCommand \/ RecordBuild
       \/ FindRequest \/ CheckSource \/ Post(TRUE) \/ FindAgain \/ ConfirmRequest
       \/ GitMerge \/ MergeCommit

Environment == TestFails \/ LoseJob \/ NotCollected \/ Post(FALSE) \/ PostFails
               \/ Kill \/ KillWriting \/ Drift
               \/ Edit \/ EditCommitted \/ (\E b \in Branches : BranchMoves(b))
               \/ (\E s \in {"closed", "merged"} : EndRequest(s))

Next == Job \/ Environment

Spec == Init /\ [][Next]_vars

\* Jobs are started, run to their end and are read.
FairSpec == Spec /\ WF_vars(Job)

-----------------------------------------------------------------------------
(* Properties                                                              *)

Own == {c \in Commits : commits[c].key # 0}

\* What the workflow commits, and therefore all it pushes, is the source with
\* the accepted changes of its iteration and nothing else, and is the tree the
\* accepted report is about: candidate.go, testRun.go, git.go:416.
OnlyTestedIsCommitted ==
  \A c \in Own : /\ Tree(c) = Candidate(commits[c].key)
                 /\ evidence.report = Tree(c)

\* The accepted artifacts are one chain: the revision is the tested tree, the
\* remote proof and the merge name it, and no later artifact exists without the
\* earlier ones (docs/mvp.md:219).
EvidenceChains ==
  /\ evidence.report # NoTree => evidence.report = evidence.prepared
  /\ evidence.revision # 0 => /\ Tree(evidence.revision) = evidence.report
                              /\ evidence.report # NoTree
  /\ evidence.proof # 0 => evidence.proof = evidence.revision
  /\ evidence.image # 0 => evidence.proof # 0
  /\ evidence.final # 0 =>
       /\ evidence.image # 0
       /\ plan = "merge" => Ancestor(evidence.revision, evidence.final)

\* Edits of others in the workspace are never overwritten, except by the forced
\* checkout of repository.initialize: candidate_recovery.go:40 "Additional
\* staged, unstaged, or untracked edits remain errors and are never discarded".
ForeignEditsKept ==
  [][op # "initialize" =>
       \A f \in Files : work[f] = Foreign => work'[f] = Foreign]_vars

\* A push never removes a commit from a branch of the repository (git.go:226).
RemoteHistoryKept ==
  [][\A b \in Branches : remote[b] # 0 => remote[b] \in History'[remote'[b]]]_vars

\* The image is built from the files of the candidate commit: docs/mvp.md:134
\* "build.image builds only from that commit".
BuildsOnlyFromCommit ==
  \A n \in 1..Len(images) : images[n] = Tree(evidence.revision)

\* Retries converge: with jobs lost often, but not too often, and nobody
\* interfering, the workflow is published.
Publishes == <>(outcome = "published")

Effects == INSTANCE Publication WITH
  committed <- Cardinality(Own \cup ({evidence.revision} \ {0})),
  proposed  <- Len(requests) + Cardinality({c \in Commits : Cardinality(commits[c].parents) > 1}),
  outcome   <- outcome

\* One candidate commit, one merge request or merge, and both before the
\* workflow counts as published.
ImplementsPublication == Effects!Spec

\* The state is well formed, and what the workflow commits and hands on is
\* what its candidate tests passed on, at every point a job may be killed.
CommittedAsTested == TypeOK /\ OnlyTestedIsCommitted /\ EvidenceChains

\* No job, however often it is repeated, destroys the work of others: neither
\* edits in the workspace nor commits of the remote branches.
NothingForeignLost == ForeignEditsKept /\ RemoteHistoryKept
=============================================================================
