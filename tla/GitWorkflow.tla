---------------------------- MODULE GitWorkflow ----------------------------
(* What a run does with git: the checkout before the agent starts, and after *)
(* it ends the commit, push, merge or merge request that the project asks    *)
(* for.  A run's job may be delivered more than once.  Each run has a clone  *)
(* of its own, in a directory named after the run, which the agent's sandbox *)
(* mounts and a later attempt at the run finds again, even while an earlier  *)
(* one that lost its lock, or the agent of one whose server died, still      *)
(* works there.  The remote is shared with the other runs and with people.   *)
EXTENDS Forge

CONSTANTS
  Runs,          \* the runs
  Attempts,      \* the deliveries of their jobs
  RunOf,         \* attempt -> the run it is made for
  TaskBranch,    \* run -> the branch of its task
  Elsewhere,     \* other branches of the clone an agent may use
  Actions,       \* what a project may ask for on completion
  MaxCommits,    \* bound: commits made by anyone
  MaxFaults      \* bound: errors, lost answers and crashes

(* The primary branch has one of the two names the server looks for, and a   *)
(* task's branch, <code>-<number>-<slug>, has neither.                       *)
ASSUME BranchAssumption ==
  /\ {"main", "master"} \subseteq Branches
  /\ Primary \in {"main", "master"}
  /\ TaskBranch \in [Runs -> Branches \ {"main", "master"}]
  /\ Elsewhere \subseteq Branches
ASSUME AttemptAssumption == RunOf \in [Attempts -> Runs]
ASSUME ActionAssumption ==
  Actions \subseteq {"push-branch", "merge-immediately", "push-branch-and-create-mr"}
ASSUME BoundAssumption == MaxRequests \in Nat /\ MaxCommits \in Nat /\ MaxFaults \in Nat

VARIABLES
  action,        \* the project's onTaskCompleted
  repo,          \* the clones, one for each run
  pc,            \* where the server is with an attempt
  work,          \* history of the commit the server made in an attempt
  pushed,        \* the branch that commit is on
  outcome,       \* "none", "success" or "failed"
  lost,          \* attempts that go on although their lock has expired
  dirtyConfig,   \* clones left with the token by a crash or a failed set-url
  commits,       \* commits so far
  faults         \* faults so far

vars == <<forgeVars, action, repo, pc, work, pushed, outcome, lost, dirtyConfig,
          commits, faults>>

NoRepo == [exists |-> FALSE, head |-> Primary, local |-> [b \in Branches |-> {}],
           tracking |-> {}, url |-> "plain", edited |-> FALSE]

Init ==
  /\ ForgeInit
  /\ action \in Actions
  /\ repo = [r \in Runs |-> NoRepo]
  /\ pc = [a \in Attempts |-> "queued"]
  /\ work = [a \in Attempts |-> {}]
  /\ pushed = [a \in Attempts |-> Primary]
  /\ outcome = [a \in Attempts |-> "none"]
  /\ lost = {}
  /\ dirtyConfig = {}
  /\ commits = 0
  /\ faults = 0

Pushing == {"push", "landed", "merge", "pushMerge", "landedMerge", "request"}
Active == {"fetched", "agent", "completed"} \cup Pushing

Clone(a) == repo[RunOf[a]]
Task(a) == TaskBranch[RunOf[a]]

\* The other attempts at the run of an attempt.
Beside(a) == {b \in Attempts \ {a} : RunOf[b] = RunOf[a]}

(* A job goes to a worker when nobody holds its lock.                        *)
Deliverable(a) ==
  \A b \in Beside(a) : pc[b] \in {"queued", "gone", "orphan"} \/ b \in lost

(* More than one may work in the clone of a run: an attempt has lost its     *)
(* lock, or an agent has outlived the server.                                *)
Shared(r) == \E a \in Attempts : RunOf[a] = r /\ (a \in lost \/ pc[a] = "orphan")

Goto(a, l) == pc' = [pc EXCEPT ![a] = l]

(* Nobody of the server reads the clone of a run that has ended; only its    *)
(* URL is kept.                                                              *)
Needed(a) == \E b \in Beside(a) : pc[b] \in Active \/ (pc[b] = "queued" /\ a \in lost)

Ends(a, url) ==
  /\ Goto(a, "ended")
  /\ repo' = [repo EXCEPT ![RunOf[a]] = [(IF Needed(a) THEN @ ELSE NoRepo) EXCEPT !.url = url]]

Succeeds(a, url) ==
  /\ Ends(a, url)
  /\ outcome' = [outcome EXCEPT ![a] = "success"]
  /\ UNCHANGED <<work, pushed>>

Fails(a, url) ==
  /\ Ends(a, url)
  /\ outcome' = [outcome EXCEPT ![a] = "failed"]
  /\ work' = [work EXCEPT ![a] = {}]
  /\ pushed' = [pushed EXCEPT ![a] = Primary]

Fault == faults < MaxFaults /\ faults' = faults + 1
(* An operation of git fails, of itself or because somebody else works in    *)
(* the clone: a lock file is in the way, the URL is not the one just set.    *)
Trips(a) == Fault \/ (Shared(RunOf[a]) /\ UNCHANGED faults)
NewCommit == commits < MaxCommits /\ commits' = commits + 1

(* Main before master, remote before local.                                  *)
detectPrimaryBranch(g) ==
  CASE "main" \in g.tracking -> "main"
    [] "main" \notin g.tracking /\ "master" \in g.tracking -> "master"
    [] OTHER -> IF g.local["main"] = {} /\ g.local["master"] # {} THEN "master" ELSE "main"

\* The branches that a fetch makes known to a clone.
Fetched == {b \in Branches : remote[b] # {}}

\* Mutant of RestoresUrl: the URL that was found is put back, where the clone
\* was left with the token that one.
RestoresUrlAsFound(g) == IF dirtyConfig = {} THEN [g EXCEPT !.url = "plain"] ELSE g

(* The finally of withAuthenticatedRemote: the plain URL again, unless that  *)
(* fails, which fails the operation.                                         *)
RestoresUrl(g) == [g EXCEPT !.url = "plain"]

-----------------------------------------------------------------------------
(* checkoutRepository.  The first attempt clones with the authenticated URL; *)
(* a later one finds the clone, sets the URL and fetches.                    *)
Fetches(a) ==
  LET g == Clone(a) IN
  /\ pc[a] = "queued" /\ Deliverable(a)
  /\ repo' = [repo EXCEPT ![RunOf[a]] =
       IF ~g.exists
       THEN [NoRepo EXCEPT !.exists = TRUE, !.tracking = Fetched, !.url = "authenticated",
                           !.local[Primary] = remote[Primary]]
       ELSE [g EXCEPT !.tracking = @ \cup Fetched, !.url = "authenticated"]]
  /\ Goto(a, "fetched")
  /\ UNCHANGED <<forgeVars, action, work, pushed, outcome, lost, dirtyConfig, commits, faults>>

FetchFails(a) ==
  /\ pc[a] = "queued" /\ Deliverable(a)
  /\ Trips(a)
  /\ Fails(a, "plain")
  /\ UNCHANGED <<forgeVars, action, lost, dirtyConfig, commits>>

(* The primary branch is checked out and pulled, and the task's branch made  *)
(* anew from it.  A local primary that has diverged cannot be pulled, and    *)
(* edits left in the tree may be in the way.                                 *)
BranchesOff(a) ==
  /\ pc[a] = "fetched"
  /\ LET g == Clone(a)
         p == detectPrimaryBranch(g)
         Pulled == IF g.local[p] \subseteq remote[p] THEN remote[p] ELSE g.local[p]
         Pullable == g.local[p] \subseteq remote[p] \/ remote[p] \subseteq g.local[p]
     IN  \/ /\ Pullable
            /\ repo' = [repo EXCEPT ![RunOf[a]] = RestoresUrl(
                 [g EXCEPT !.local[p] = Pulled, !.local[Task(a)] = Pulled,
                           !.tracking = @ \cup Fetched, !.head = Task(a)])]
            /\ Goto(a, "agent")
            /\ UNCHANGED <<outcome, work, pushed>>
         \/ /\ ~Pullable \/ g.edited \/ Shared(RunOf[a])
            /\ Fails(a, RestoresUrl(g).url)
  /\ UNCHANGED <<forgeVars, action, lost, dirtyConfig, commits, faults>>

SetUrlFails(a) ==
  /\ pc[a] \in {"fetched", "landed", "landedMerge"}
  /\ Trips(a)
  /\ dirtyConfig' = dirtyConfig \cup {RunOf[a]}
  /\ Fails(a, Clone(a).url)
  /\ UNCHANGED <<forgeVars, action, lost, commits>>

-----------------------------------------------------------------------------
(* The agent edits its checkout.  It may commit on another branch than the   *)
(* one it was given, and leave that one checked out.  One that has outlived  *)
(* the server works on, and nobody hears when it ends.                       *)
Edits(g, b, head, edited, own) ==
  [g EXCEPT !.head = head, !.edited = @ \/ edited,
            !.local[b] = IF own THEN @ \cup {commits + 1} ELSE @]

AgentWorks(a) ==
  /\ pc[a] \in {"agent", "orphan"} /\ Clone(a).exists
  /\ \E b \in Elsewhere, head \in Elsewhere \cup {Task(a)}, edited, own \in BOOLEAN :
       /\ repo' = [repo EXCEPT ![RunOf[a]] = Edits(Clone(a), b, head, edited, own)]
       /\ IF own THEN NewCommit ELSE UNCHANGED commits
  /\ UNCHANGED <<forgeVars, action, pc, work, pushed, outcome, lost, dirtyConfig, faults>>

AgentEnds(a) ==
  /\ pc[a] = "agent"
  /\ \/ Goto(a, "completed") /\ UNCHANGED <<repo, outcome, work, pushed>>
     \/ Fails(a, Clone(a).url)
  /\ UNCHANGED <<forgeVars, action, lost, dirtyConfig, commits, faults>>

-----------------------------------------------------------------------------
(* commitRepository: everything in the tree, on whatever branch is checked   *)
(* out; nothing to commit is no error.                                       *)
Commits(a) ==
  LET g == Clone(a)
      new == IF g.edited THEN g.local[g.head] \cup {commits + 1} ELSE g.local[g.head]
  IN
  /\ pc[a] = "completed"
  /\ IF g.edited THEN NewCommit ELSE UNCHANGED commits
  /\ repo' = [repo EXCEPT ![RunOf[a]].local[g.head] = new, ![RunOf[a]].edited = FALSE]
  /\ work' = [work EXCEPT ![a] = new]
  /\ pushed' = [pushed EXCEPT ![a] = g.head]
  /\ Goto(a, "push")
  /\ UNCHANGED <<forgeVars, action, outcome, lost, dirtyConfig, faults>>

CommitFails(a) ==
  /\ pc[a] = "completed"
  /\ Trips(a)
  /\ Fails(a, Clone(a).url)
  /\ UNCHANGED <<forgeVars, action, lost, dirtyConfig, commits>>

(* pushRepository sets the authenticated URL and pushes the branch that is   *)
(* checked out.  It is called for the work, and again for the merged primary *)
(* branch.                                                                   *)
PushLands(a) ==
  /\ pc[a] \in {"push", "pushMerge"}
  /\ Receives(Clone(a).head, Clone(a).local[Clone(a).head])
  /\ repo' = [repo EXCEPT ![RunOf[a]].url = "authenticated"]
  /\ Goto(a, IF pc[a] = "push" THEN "landed" ELSE "landedMerge")
  /\ UNCHANGED <<action, work, pushed, outcome, lost, dirtyConfig, commits, faults>>

AfterPush == [asked \in Actions |-> CASE asked = "push-branch" -> "success"
                                  [] asked = "merge-immediately" -> "merge"
                                  [] asked = "push-branch-and-create-mr" -> "request"]

PushReturns(a) ==
  LET g == [RestoresUrl(Clone(a)) EXCEPT !.tracking = @ \cup {Clone(a).head}]
  IN
  /\ pc[a] \in {"landed", "landedMerge"}
  /\ IF pc[a] = "landedMerge" \/ AfterPush[action] = "success"
     THEN Succeeds(a, g.url)
     ELSE /\ repo' = [repo EXCEPT ![RunOf[a]] = g]
          /\ Goto(a, AfterPush[action])
          /\ UNCHANGED <<outcome, work, pushed>>
  /\ UNCHANGED <<forgeVars, action, lost, dirtyConfig, commits, faults>>

\* Mutant of PushFails: the result of the push is not looked at.
PushFailureIgnored(a) ==
  /\ pc[a] \in {"push", "pushMerge"}
  /\ ~FastForward(Clone(a).head, Clone(a).local[Clone(a).head])
  /\ Goto(a, IF pc[a] = "push" THEN "landed" ELSE "landedMerge")
  /\ UNCHANGED <<forgeVars, action, repo, outcome, work, pushed, lost, dirtyConfig,
                 commits, faults>>

(* A push that is rejected, does not reach the forge or has its answer lost  *)
(* fails the run.                                                            *)
PushFails(a) ==
  /\ pc[a] \in {"push", "pushMerge", "landed", "landedMerge"}
  /\ \/ /\ pc[a] \in {"push", "pushMerge"}
        /\ ~FastForward(Clone(a).head, Clone(a).local[Clone(a).head])
        /\ UNCHANGED faults
     \/ Trips(a)
  /\ Fails(a, RestoresUrl(Clone(a)).url)
  /\ UNCHANGED <<forgeVars, action, lost, dirtyConfig, commits>>

-----------------------------------------------------------------------------
(* merge-immediately: the run's own copy of the primary branch is checked    *)
(* out, as old as the checkout of the run, the task's branch merged into it  *)
(* and the result pushed.                                                    *)
Merged(ours, theirs) == IF ours \subseteq theirs THEN theirs
                        ELSE IF theirs \subseteq ours THEN ours
                        ELSE ours \cup theirs \cup {commits + 1}

Merges(a) ==
  LET g == Clone(a)
      p == detectPrimaryBranch(g)
      result == Merged(g.local[p], g.local[Task(a)])
  IN
  /\ pc[a] = "merge"
  /\ \/ /\ IF result = g.local[p] \cup g.local[Task(a)] THEN UNCHANGED commits ELSE NewCommit
        /\ repo' = [repo EXCEPT ![RunOf[a]].head = p, ![RunOf[a]].local[p] = result]
        /\ Goto(a, "pushMerge")
        /\ UNCHANGED <<outcome, work, pushed>>
     \/ /\ commits + 1 \in result \/ Shared(RunOf[a])     \* a conflict
        /\ Fails(a, g.url)
        /\ UNCHANGED commits
  /\ UNCHANGED <<forgeVars, action, lost, dirtyConfig, faults>>

(* push-branch-and-create-mr: a request for the task's branch, whatever      *)
(* branch was pushed.                                                        *)
RequestsMerge(a) ==
  /\ pc[a] = "request"
  /\ \/ /\ CreatesRequest(Task(a))
        /\ \/ Succeeds(a, Clone(a).url) /\ UNCHANGED faults
           \/ Fails(a, Clone(a).url) /\ Fault                   \* the answer is lost
     \/ /\ \/ Refuses(Task(a)) /\ UNCHANGED faults
           \/ Accepts(Task(a)) /\ Fault                  \* the request is lost
        /\ Fails(a, Clone(a).url)
        /\ UNCHANGED forgeVars
  /\ UNCHANGED <<action, lost, dirtyConfig, commits>>

-----------------------------------------------------------------------------
(* A worker that does not renew its lock in time loses it: the job is        *)
(* delivered again while this attempt goes on.                               *)
LosesLock(a) ==
  /\ pc[a] \in Active /\ a \notin lost
  /\ \E b \in Beside(a) : pc[b] = "queued"
  /\ Fault
  /\ lost' = lost \cup {a}
  /\ UNCHANGED <<forgeVars, action, repo, pc, work, pushed, outcome, dirtyConfig, commits>>

(* The server dies, and with it every attempt; the jobs are delivered again  *)
(* and find the clones as they were.  An agent's sandbox may survive.        *)
Crash ==
  LET Dead == {a \in Attempts : pc[a] \in Active} IN
  /\ Dead # {}
  /\ Fault
  /\ \E survivors \in SUBSET {a \in Dead : pc[a] = "agent"} :
       pc' = [a \in Attempts |-> IF a \in survivors THEN "orphan"
                                ELSE IF a \in Dead THEN "gone" ELSE pc[a]]
  /\ \E pushing \in SUBSET {a \in Dead : pc[a] \in {"push", "pushMerge"}} :
       repo' = [r \in Runs |-> IF \E a \in pushing : RunOf[a] = r
                               THEN [repo[r] EXCEPT !.url = "authenticated"] ELSE repo[r]]
  /\ dirtyConfig' = dirtyConfig \cup {r \in Runs : repo'[r].url = "authenticated"}
  /\ work' = [a \in Attempts |-> IF a \in Dead THEN {} ELSE work[a]]
  /\ pushed' = [a \in Attempts |-> IF a \in Dead THEN Primary ELSE pushed[a]]
  /\ UNCHANGED <<forgeVars, action, outcome, lost, commits>>

(* People push to the primary branch and settle merge requests; people, and  *)
(* agents through the MCP tool, open them.                                   *)
PeopleStep ==
  /\ \/ /\ NewCommit
        /\ Receives(Primary, remote[Primary] \cup {commits + 1})
     \/ /\ NewCommit
        /\ \E i \in DOMAIN requests : Settles(i, commits + 1)
     \/ /\ \E r \in Runs : CreatesRequest(TaskBranch[r])
        /\ UNCHANGED commits
  /\ UNCHANGED <<action, repo, pc, work, pushed, outcome, lost, dirtyConfig, faults>>

AttemptStep(a) ==
  \/ Fetches(a) \/ FetchFails(a) \/ BranchesOff(a) \/ SetUrlFails(a)
  \/ AgentWorks(a) \/ AgentEnds(a)
  \/ Commits(a) \/ CommitFails(a) \/ PushLands(a) \/ PushReturns(a)
  \/ PushFails(a) \/ Merges(a) \/ RequestsMerge(a) \/ LosesLock(a)

Next == PeopleStep \/ Crash \/ \E a \in Attempts : AttemptStep(a)

Spec == Init /\ [][Next]_vars
-----------------------------------------------------------------------------
Histories == SUBSET Nat
Requests == [source : Branches, state : {"opened", "closed", "merged"}]
Clones == [exists : BOOLEAN, head : Branches, local : [Branches -> Histories],
           tracking : SUBSET Branches, url : {"plain", "authenticated"}, edited : BOOLEAN]

Places == {"queued", "gone", "orphan", "ended"} \cup Active

(* Every variable keeps the shape of the remote, the clone or the record it  *)
(* stands for.                                                               *)
TypeOK ==
  /\ remote \in [Branches -> Histories]
  /\ requests \in Seq(Requests)
  /\ action \in Actions
  /\ repo \in [Runs -> Clones]
  /\ pc \in [Attempts -> Places]
  /\ work \in [Attempts -> Histories]
  /\ pushed \in [Attempts -> Branches]
  /\ outcome \in [Attempts -> {"none", "success", "failed"}]
  /\ lost \in SUBSET Attempts
  /\ dirtyConfig \in SUBSET Runs
  /\ commits \in Nat /\ faults \in Nat

(* A run that succeeded has its commit on the remote, and nothing that other *)
(* runs, people or redeliveries do afterwards takes it away: on the branch   *)
(* it pushed and, when the agent stayed on its task's branch, in the primary *)
(* branch or behind a merge request if that is what the project asks for.    *)
(* It is not so where two have worked in its clone at once.                  *)
Delivered ==
  \A a \in Attempts : outcome[a] = "success" /\ ~Shared(RunOf[a]) =>
    /\ work[a] \subseteq remote[pushed[a]]
    /\ pushed[a] = Task(a) /\ action = "merge-immediately" => work[a] \subseteq remote[Primary]
    /\ pushed[a] = Task(a) /\ action = "push-branch-and-create-mr" =>
         \E i \in DOMAIN requests : requests[i].source = Task(a)

(* What Delivered rests on.  Of two attempts at one run that are under way,  *)
(* one has lost its lock.                                                    *)
AloneInv ==
  \A a, b \in Attempts : a \in Beside(b) /\ pc[a] \in Active /\ pc[b] \in Active =>
    a \in lost \/ b \in lost

(* The server finds the primary branch: it is there, every clone that was    *)
(* fetched knows it, and nobody makes a "main" where the primary branch is   *)
(* "master".                                                                 *)
PrimaryInv ==
  /\ remote[Primary] # {}
  /\ \A r \in Runs : repo[r].head \in Elsewhere \cup {TaskBranch[r], Primary}
  /\ \A a \in Attempts : pc[a] \in Active => Primary \in Clone(a).tracking
  /\ Primary = "master" =>
       remote["main"] = {} /\ \A r \in Runs : "main" \notin repo[r].tracking

(* What the server has committed is on the way it takes from the commit to   *)
(* the end: in the branch that is checked out, then on the remote, and       *)
(* before a merge in the task's branch, after it in the primary one.         *)
OnItsWay(a) ==
  /\ pc[a] = "push" => work[a] = Clone(a).local[Clone(a).head] /\ pushed[a] = Clone(a).head
  /\ pc[a] \in Pushing \ {"push"} => work[a] \subseteq remote[pushed[a]]
  /\ pc[a] \in {"push", "landed", "merge"} /\ pushed[a] = Task(a) =>
       work[a] \subseteq Clone(a).local[Task(a)]
  /\ pc[a] = "pushMerge" =>
       Clone(a).head = Primary
         /\ (pushed[a] = Task(a) => work[a] \subseteq Clone(a).local[Primary])
  /\ pc[a] = "landedMerge" /\ pushed[a] = Task(a) => work[a] \subseteq remote[Primary]
  /\ pc[a] \in {"merge", "pushMerge", "landedMerge"} => action = "merge-immediately"
  /\ pc[a] = "request" => action = "push-branch-and-create-mr"
  /\ outcome[a] = "success" => pc[a] = "ended"

DeliveryInv == Delivered /\ \A a \in Attempts : ~Shared(RunOf[a]) => OnItsWay(a)

(* The token is in a clone's configuration only while a git operation of the *)
(* server at that run needs it, unless the server died in one or the         *)
(* configuration could not be written; and an agent finds it there only      *)
(* where two have worked in the same clone at once.                          *)
TokenInUseOnly ==
  /\ \A r \in Runs : repo[r].url = "authenticated" =>
       \/ \E a \in Attempts : RunOf[a] = r /\ pc[a] \in {"fetched", "landed", "landedMerge"}
       \/ r \in dirtyConfig
  /\ \A a \in Attempts :
       pc[a] \in {"agent", "completed", "push", "merge", "pushMerge", "request"} =>
         Clone(a).url = "plain" \/ Shared(RunOf[a])

(* "MAL restores a credential-free HTTPS `origin` after every operation so   *)
(* tokens are not persisted in `.git/config`" (docs/decisions/               *)
(* forge-authentication.md:15): where no operation is under way, no clone    *)
(* has the token.                                                            *)
TokenNotPersisted ==
  \A r \in Runs : repo[r].url = "authenticated" =>
    \E a \in Attempts : RunOf[a] = r /\ pc[a] \in {"fetched", "landed", "landedMerge"}
=============================================================================
