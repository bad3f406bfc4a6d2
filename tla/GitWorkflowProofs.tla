-------------------------- MODULE GitWorkflowProofs --------------------------
(* Theorems about what the server does with git, for any number of runs and  *)
(* branches, every completion action and every bound on commits, requests    *)
(* and faults.                                                               *)
EXTENDS GitWorkflow, FiniteSetTheorems, TLAPS

USE DEF Clone, Task

(* Histories are sets of commits; joining two of them or adding a commit     *)
(* gives another.                                                            *)
LEMMA HistoryOps ==
  /\ {} \in Histories /\ {0} \in Histories
  /\ \A h, k \in Histories : h \cup k \in Histories
  /\ \A h \in Histories, n \in Nat : h \cup {n} \in Histories
  BY DEF Histories

LEMMA NextCommit == ASSUME TypeOK PROVE commits + 1 \in Nat
  BY DEF TypeOK

LEMMA NoRepoType == NoRepo \in Clones
  BY BranchAssumption, HistoryOps DEF NoRepo, Clones

\* A clone with another URL, branch checked out, or history of a branch.
LEMMA CloneOps ==
  ASSUME NEW g \in Clones
  PROVE  /\ \A u \in {"plain", "authenticated"} : [g EXCEPT !.url = u] \in Clones
         /\ \A b \in Branches : [g EXCEPT !.head = b] \in Clones
         /\ \A e \in BOOLEAN : [g EXCEPT !.edited = e] \in Clones
         /\ \A t \in SUBSET Branches : [g EXCEPT !.tracking = t] \in Clones
         /\ \A b \in Branches, h \in Histories : [g EXCEPT !.local[b] = h] \in Clones
  BY DEF Clones

LEMMA PrimaryFound == ASSUME NEW g PROVE detectPrimaryBranch(g) \in {"main", "master"}
  BY DEF detectPrimaryBranch

LEMMA AfterPushIs ==
  ASSUME TypeOK
  PROVE  /\ action = "push-branch" => AfterPush[action] = "success"
         /\ action = "merge-immediately" => AfterPush[action] = "merge"
         /\ action = "push-branch-and-create-mr" => AfterPush[action] = "request"
         /\ action \in {"push-branch", "merge-immediately", "push-branch-and-create-mr"}
  BY ActionAssumption DEF TypeOK, AfterPush

-----------------------------------------------------------------------------
(* The forge's operations keep the shape of the remote and the requests, and *)
(* only ever add to both.                                                    *)
RemoteGrows ==
  /\ \A b \in Branches : remote[b] \subseteq remote'[b]
  /\ \A i \in DOMAIN requests : i \in DOMAIN requests' /\ requests'[i].source = requests[i].source

LEMMA ReceivesGrows ==
  ASSUME TypeOK, NEW b \in Branches, NEW h \in Histories, Receives(b, h)
  PROVE  /\ remote' \in [Branches -> Histories] /\ requests' = requests
         /\ RemoteGrows
         /\ remote'[b] = h
         /\ \A c \in Branches \ {b} : remote'[c] = remote[c]
  BY DEF TypeOK, Receives, FastForward, RemoteGrows

LEMMA CreatesRequestGrows ==
  ASSUME TypeOK, NEW b \in Branches, CreatesRequest(b)
  PROVE  /\ requests' \in Seq(Requests) /\ remote' = remote
         /\ RemoteGrows
         /\ \E i \in DOMAIN requests' : requests'[i].source = b
<1> DEFINE new == [source |-> b, state |-> "opened"]
<1>1. new \in Requests
  BY DEF Requests
<1>2. requests' = Append(requests, new) /\ remote' = remote
  BY DEF CreatesRequest
<1>3. requests' \in Seq(Requests) /\ DOMAIN requests' = 1..(Len(requests) + 1)
      /\ DOMAIN requests = 1..Len(requests) /\ Len(requests) \in Nat
  BY <1>1, <1>2 DEF TypeOK
<1>4. requests'[Len(requests) + 1] = new /\ \A i \in DOMAIN requests : requests'[i] = requests[i]
  BY <1>1, <1>2, <1>3 DEF TypeOK
<1>5. new.source = b
  OBVIOUS
<1> HIDE DEF new
<1>6. QED
  BY <1>2, <1>3, <1>4, <1>5 DEF RemoteGrows

LEMMA SettlesGrows ==
  ASSUME TypeOK, NEW i \in DOMAIN requests, NEW c \in Nat, Settles(i, c)
  PROVE  /\ remote' \in [Branches -> Histories] /\ requests' \in Seq(Requests)
         /\ RemoteGrows
         /\ \A b \in Branches \ {Primary} : remote'[b] = remote[b]
<1>1. requests[i] \in Requests /\ requests[i].source \in Branches /\ Primary \in Branches
  <2>1. requests[i] \in Requests
    BY DEF TypeOK
  <2>2. requests[i].source \in Branches
    BY <2>1 DEF Requests
  <2>3. QED
    BY <2>1, <2>2, BranchAssumption
<1>2. PICK st \in {"closed", "merged"} : requests' = [requests EXCEPT ![i].state = st]
  BY DEF Settles
<1>3. [requests[i] EXCEPT !.state = st] \in Requests
      /\ [requests[i] EXCEPT !.state = st].source = requests[i].source
  BY <1>1 DEF Requests
<1>4. requests' = [requests EXCEPT ![i] = [requests[i] EXCEPT !.state = st]]
  BY <1>2
<1>5. requests' \in Seq(Requests) /\ DOMAIN requests' = DOMAIN requests
      /\ \A j \in DOMAIN requests : requests'[j].source = requests[j].source
  BY <1>3, <1>4 DEF TypeOK
<1>6. CASE remote' = remote
  BY <1>5, <1>6 DEF TypeOK, RemoteGrows
<1>7. CASE remote' = [remote EXCEPT ![Primary] = @ \cup remote[requests[i].source] \cup {c}]
  <2>1. remote[Primary] \cup remote[requests[i].source] \cup {c} \in Histories
    BY <1>1, HistoryOps DEF TypeOK
  <2>2. QED
    BY <1>1, <1>5, <1>7, <2>1 DEF TypeOK, RemoteGrows
<1>8. QED
  BY <1>6, <1>7 DEF Settles

\* A push to the primary branch by people adds a commit to it.
LEMMA PeoplePush ==
  ASSUME TypeOK PROVE Primary \in Branches /\ remote[Primary] \cup {commits + 1} \in Histories
  BY BranchAssumption, HistoryOps, NextCommit DEF TypeOK

-----------------------------------------------------------------------------
LEMMA EndsType ==
  ASSUME TypeOK, NEW a \in Attempts, NEW url \in {"plain", "authenticated"},
         Succeeds(a, url) \/ Fails(a, url)
  PROVE  /\ repo' \in [Runs -> Clones] /\ pc' \in [Attempts -> Places] /\ work' \in [Attempts -> Histories]
         /\ pushed' \in [Attempts -> Branches] /\ outcome' \in [Attempts -> {"none", "success", "failed"}]
<1> DEFINE c == [(IF Needed(a) THEN Clone(a) ELSE NoRepo) EXCEPT !.url = url]
<1>1. c \in Clones
  <2>1. (IF Needed(a) THEN Clone(a) ELSE NoRepo) \in Clones
    BY NoRepoType, AttemptAssumption DEF TypeOK
  <2>2. QED
    BY <2>1, CloneOps
<1>2. Primary \in Branches /\ {} \in Histories
  BY BranchAssumption, HistoryOps
<1>3. repo' = [repo EXCEPT ![RunOf[a]] = c] /\ Goto(a, "ended")
  BY DEF Succeeds, Fails, Ends
<1> HIDE DEF c
<1>4. repo' \in [Runs -> Clones] /\ pc' \in [Attempts -> Places]
  BY <1>1, <1>3 DEF TypeOK, Goto, Places
<1>5. QED
  BY ZenonT(60), <1>2, <1>4 DEF TypeOK, Succeeds, Fails

LEMMA UrlType ==
  ASSUME TypeOK, NEW a \in Attempts
  PROVE  /\ RunOf[a] \in Runs /\ Task(a) \in Branches
         /\ Clone(a) \in Clones /\ Clone(a).url \in {"plain", "authenticated"}
         /\ RestoresUrl(Clone(a)).url = "plain"
<1>1. RunOf[a] \in Runs /\ Task(a) \in Branches
  BY AttemptAssumption, BranchAssumption
<1>2. Clone(a) \in Clones
  BY <1>1 DEF TypeOK
<1>3. QED
  BY <1>1, <1>2 DEF Clones, RestoresUrl

(* What an agent leaves is still a clone.                                    *)
LEMMA EditsType ==
  ASSUME TypeOK, NEW g \in Clones, NEW b \in Branches, NEW head \in Branches,
         NEW edited \in BOOLEAN, NEW own \in BOOLEAN
  PROVE  Edits(g, b, head, edited, own) \in Clones
<1> DEFINE h == IF own THEN g.local[b] \cup {commits + 1} ELSE g.local[b]
<1>1. g.local[b] \in Histories
  BY DEF Clones
<1>2. h \in Histories
  BY <1>1, HistoryOps, NextCommit
<1> DEFINE e == g.edited \/ edited
           l == [g.local EXCEPT ![b] = h]
<1>3. Edits(g, b, head, edited, own) = [g EXCEPT !.head = head, !.edited = e, !.local = l]
  BY <1>1 DEF Edits, Clones
<1>4. e \in BOOLEAN
  OBVIOUS
<1>5. l \in [Branches -> Histories]
  BY <1>2 DEF Clones
<1> HIDE DEF h, e, l
<1>6. QED
  BY <1>3, <1>4, <1>5 DEF Clones

(* What a crash leaves: the attempts under way are gone or their agents      *)
(* orphans, and no clone is anything but what it was, with one URL or the    *)
(* other.                                                                    *)
LEMMA CrashType ==
  ASSUME TypeOK, Crash
  PROVE  /\ TypeOK'
         /\ \A r \in Runs : \E u \in {"plain", "authenticated"} : repo'[r] = [repo[r] EXCEPT !.url = u]
         /\ \A r \in Runs : repo'[r].url = "plain" \/ r \in dirtyConfig'
         /\ \A a \in Attempts :
              IF pc[a] \in Active THEN pc'[a] \in {"gone", "orphan"}
              ELSE pc'[a] = pc[a] /\ work'[a] = work[a] /\ pushed'[a] = pushed[a]
<1> DEFINE Dead == {a \in Attempts : pc[a] \in Active}
<1>1. PICK survivors \in SUBSET {a \in Dead : pc[a] = "agent"} :
        pc' = [a \in Attempts |-> IF a \in survivors THEN "orphan"
                                 ELSE IF a \in Dead THEN "gone" ELSE pc[a]]
  BY DEF Crash
<1>2. PICK pushing \in SUBSET {a \in Dead : pc[a] \in {"push", "pushMerge"}} :
        repo' = [r \in Runs |-> IF \E a \in pushing : RunOf[a] = r
                                THEN [repo[r] EXCEPT !.url = "authenticated"] ELSE repo[r]]
  BY DEF Crash
<1>3. /\ dirtyConfig' = dirtyConfig \cup {r \in Runs : repo'[r].url = "authenticated"}
      /\ work' = [a \in Attempts |-> IF a \in Dead THEN {} ELSE work[a]]
      /\ pushed' = [a \in Attempts |-> IF a \in Dead THEN Primary ELSE pushed[a]]
      /\ UNCHANGED <<remote, requests, action, outcome, lost, commits>> /\ faults' \in Nat
  BY DEF Crash, Fault, TypeOK, forgeVars
<1>4. \A r \in Runs : \E u \in {"plain", "authenticated"} : repo'[r] = [repo[r] EXCEPT !.url = u]
  <2> SUFFICES ASSUME NEW r \in Runs
               PROVE  \E u \in {"plain", "authenticated"} : repo'[r] = [repo[r] EXCEPT !.url = u]
    OBVIOUS
  <2>1. repo[r] \in Clones
    BY DEF TypeOK
  <2>2. repo[r].url \in {"plain", "authenticated"} /\ repo[r] = [repo[r] EXCEPT !.url = repo[r].url]
    BY <2>1 DEF Clones
  <2>3. QED
    BY <1>2, <2>2
<1>5. ASSUME NEW r \in Runs PROVE repo'[r] \in Clones
  <2>1. PICK u \in {"plain", "authenticated"} : repo'[r] = [repo[r] EXCEPT !.url = u]
    BY <1>4
  <2>2. repo[r] \in Clones
    BY DEF TypeOK
  <2>3. [repo[r] EXCEPT !.url = u] \in Clones
    BY <2>2, CloneOps
  <2>4. QED
    BY <2>1, <2>3
<1>6. repo' \in [Runs -> Clones]
  BY <1>2, <1>5
<1>7. \A r \in Runs : repo'[r].url = "plain" \/ r \in dirtyConfig'
  <2>1. \A r \in Runs : repo'[r].url \in {"plain", "authenticated"}
    BY <1>5 DEF Clones
  <2>2. QED
    BY <1>3, <2>1
<1>8. pc' \in [Attempts -> Places] /\ work' \in [Attempts -> Histories] /\ pushed' \in [Attempts -> Branches]
  <2>1. pc' \in [Attempts -> Places]
    BY <1>1 DEF TypeOK, Places
  <2>2. {} \in Histories /\ Primary \in Branches
    BY HistoryOps, BranchAssumption
  <2>3. QED
    BY <1>3, <2>1, <2>2 DEF TypeOK
<1>9. TypeOK'
  BY <1>3, <1>6, <1>8 DEF TypeOK
<1>10. \A a \in Attempts :
         IF pc[a] \in Active THEN pc'[a] \in {"gone", "orphan"}
         ELSE pc'[a] = pc[a] /\ work'[a] = work[a] /\ pushed'[a] = pushed[a]
  BY <1>1, <1>3
<1>11. QED
  BY <1>4, <1>7, <1>9, <1>10

(* Type correctness: the remote, the requests, the clones and the runs keep  *)
(* their shape.                                                              *)
LEMMA StepType == ASSUME TypeOK, [Next]_vars PROVE TypeOK'
<1> USE DEF forgeVars
<1>1. CASE PeopleStep
  <2>1. UNCHANGED <<action, repo, pc, work, pushed, outcome, lost, dirtyConfig, faults>>
        /\ commits' \in Nat
    BY <1>1, NextCommit DEF PeopleStep, NewCommit, TypeOK
  <2>2. remote' \in [Branches -> Histories] /\ requests' \in Seq(Requests)
    <3>1. CASE Receives(Primary, remote[Primary] \cup {commits + 1})
      BY <3>1, PeoplePush, ReceivesGrows DEF TypeOK
    <3>2. ASSUME NEW i \in DOMAIN requests, Settles(i, commits + 1)
          PROVE  remote' \in [Branches -> Histories] /\ requests' \in Seq(Requests)
      BY <3>2, SettlesGrows, NextCommit
    <3>3. ASSUME NEW r \in Runs, CreatesRequest(TaskBranch[r])
          PROVE  remote' \in [Branches -> Histories] /\ requests' \in Seq(Requests)
      BY <3>3, CreatesRequestGrows, BranchAssumption DEF TypeOK
    <3>4. QED
      BY <1>1, <3>1, <3>2, <3>3 DEF PeopleStep
  <2>3. QED
    BY <2>1, <2>2 DEF TypeOK
<1>2. ASSUME NEW a \in Attempts, AttemptStep(a) PROVE TypeOK'
  <2> DEFINE g == Clone(a)
  <2>1. /\ RunOf[a] \in Runs /\ g \in Clones /\ g.url \in {"plain", "authenticated"} /\ g.head \in Branches
        /\ g.local \in [Branches -> Histories] /\ g.tracking \in SUBSET Branches
        /\ RestoresUrl(g).url = "plain"
        /\ Primary \in Branches /\ Task(a) \in Branches /\ Fetched \in SUBSET Branches
        /\ detectPrimaryBranch(g) \in Branches
    BY UrlType, PrimaryFound, BranchAssumption DEF TypeOK, Clones, Fetched
  <2>2. ASSUME NEW url \in {"plain", "authenticated"}, Succeeds(a, url) \/ Fails(a, url),
               remote' \in [Branches -> Histories], requests' \in Seq(Requests), action' = action,
               dirtyConfig' \in SUBSET Runs, commits' \in Nat, faults' \in Nat, lost' = lost
        PROVE  TypeOK'
    BY <2>2, EndsType DEF TypeOK
  <2>3. ASSUME NEW c \in Clones, repo' = [repo EXCEPT ![RunOf[a]] = c],
               pc' \in [Attempts -> Places], work' \in [Attempts -> Histories], pushed' \in [Attempts -> Branches],
               remote' \in [Branches -> Histories], requests' = requests,
               dirtyConfig' \in SUBSET Runs, commits' \in Nat, faults' \in Nat,
               UNCHANGED <<action, outcome, lost>>
        PROVE  TypeOK'
    BY <2>3 DEF TypeOK
  <2>4. ASSUME NEW l \in Places, Goto(a, l) PROVE pc' \in [Attempts -> Places]
    BY <2>4 DEF TypeOK, Goto
  <2>5. Fault \/ Trips(a) => faults' \in Nat
    BY DEF Fault, Trips, TypeOK
  <2>6. NewCommit => commits' \in Nat
    BY DEF NewCommit, TypeOK
  <2>7. CASE Fetches(a)
    <3> DEFINE new == [NoRepo EXCEPT !.exists = TRUE, !.tracking = Fetched, !.url = "authenticated",
                                     !.local[Primary] = remote[Primary]]
               again == [g EXCEPT !.tracking = @ \cup Fetched, !.url = "authenticated"]
    <3>1. new \in Clones
      BY <2>1, NoRepoType DEF TypeOK, Clones
    <3>2. again \in Clones
      BY <2>1 DEF Clones
    <3>3. repo' = [repo EXCEPT ![RunOf[a]] = IF ~g.exists THEN new ELSE again]
      BY <2>7 DEF Fetches
    <3>4. pc' \in [Attempts -> Places]
      BY <2>4, <2>7 DEF Fetches, Places, Active
    <3> HIDE DEF new, again
    <3>5. QED
      BY <2>3, <2>7, <3>1, <3>2, <3>3, <3>4 DEF Fetches, TypeOK
  <2>8. CASE FetchFails(a) \/ CommitFails(a) \/ PushFails(a) \/ SetUrlFails(a)
    <3>1. PICK url \in {"plain", "authenticated"} : Fails(a, url)
      BY <2>1, <2>8 DEF FetchFails, CommitFails, PushFails, SetUrlFails
    <3>2. /\ UNCHANGED <<remote, requests, action, lost, commits>>
          /\ dirtyConfig' \in SUBSET Runs /\ faults' \in Nat
      BY <2>1, <2>5, <2>8 DEF FetchFails, CommitFails, PushFails, SetUrlFails, TypeOK
    <3>3. QED
      BY <2>2, <3>1, <3>2 DEF TypeOK
  <2>9. CASE BranchesOff(a)
    <3> DEFINE p == detectPrimaryBranch(g)
               Pulled == IF g.local[p] \subseteq remote[p] THEN remote[p] ELSE g.local[p]
               new == RestoresUrl([g EXCEPT !.local[p] = Pulled, !.local[Task(a)] = Pulled,
                                    !.tracking = @ \cup Fetched, !.head = Task(a)])
    <3>1. Pulled \in Histories
      BY <2>1 DEF TypeOK
    <3>2. new \in Clones
      <4> HIDE DEF p, Pulled
      <4>1. p \in Branches
        BY <2>1 DEF p
      <4>2. [g.local EXCEPT ![p] = Pulled] \in [Branches -> Histories]
        BY <2>1, <3>1, <4>1
      <4>3. [[g.local EXCEPT ![p] = Pulled] EXCEPT ![Task(a)] = Pulled] \in [Branches -> Histories]
        BY <2>1, <3>1, <4>2
      <4>4. g.tracking \cup Fetched \in SUBSET Branches
        BY <2>1
      <4>5. QED
        BY <2>1, <4>3, <4>4 DEF RestoresUrl, Clones
    <3>3. UNCHANGED <<remote, requests, action, lost, dirtyConfig, commits, faults>>
      BY <2>9 DEF BranchesOff
    <3>4. CASE repo' = [repo EXCEPT ![RunOf[a]] = new] /\ Goto(a, "agent") /\ UNCHANGED <<outcome, work, pushed>>
      <4> HIDE DEF new
      <4>1. pc' \in [Attempts -> Places]
        BY <2>4, <3>4 DEF Places, Active
      <4>2. QED
        BY <2>3, <3>2, <3>3, <3>4, <4>1 DEF TypeOK
    <3>5. CASE Fails(a, RestoresUrl(g).url)
      BY <2>1, <2>2, <3>3, <3>5 DEF TypeOK
    <3>6. QED
      BY <2>9, <3>4, <3>5 DEF BranchesOff
  <2>10. CASE AgentWorks(a)
    <3>1. PICK b \in Elsewhere, head \in Elsewhere \cup {Task(a)}, edited \in BOOLEAN, own \in BOOLEAN :
            repo' = [repo EXCEPT ![RunOf[a]] = Edits(g, b, head, edited, own)]
      BY <2>10 DEF AgentWorks
    <3>2. Edits(g, b, head, edited, own) \in Clones
      BY <2>1, EditsType, BranchAssumption
    <3>3. UNCHANGED <<remote, requests, action, pc, work, pushed, outcome, lost, dirtyConfig, faults>>
          /\ commits' \in Nat
      BY <2>6, <2>10 DEF AgentWorks, TypeOK
    <3>4. QED
      BY <2>1, <3>1, <3>2, <3>3 DEF TypeOK
  <2>11. CASE AgentEnds(a)
    <3>1. UNCHANGED <<remote, requests, action, lost, dirtyConfig, commits, faults>>
      BY <2>11 DEF AgentEnds
    <3>2. CASE Goto(a, "completed") /\ UNCHANGED <<repo, outcome, work, pushed>>
      <4>1. pc' \in [Attempts -> Places]
        BY <2>4, <3>2 DEF Places, Active
      <4>2. QED
        BY <3>1, <3>2, <4>1 DEF TypeOK
    <3>3. CASE Fails(a, g.url)
      BY <2>1, <2>2, <3>1, <3>3 DEF TypeOK
    <3>4. QED
      BY <2>11, <3>2, <3>3 DEF AgentEnds
  <2>12. CASE LosesLock(a)
    BY <2>5, <2>12 DEF LosesLock, TypeOK
  <2>13. CASE Commits(a)
    <3> DEFINE new == IF g.edited THEN g.local[g.head] \cup {commits + 1} ELSE g.local[g.head]
               c == [g EXCEPT !.local[g.head] = new, !.edited = FALSE]
    <3>1. new \in Histories
      BY <2>1, HistoryOps, NextCommit
    <3>2. repo' = [repo EXCEPT ![RunOf[a]] = c]
      BY <2>13 DEF Commits
    <3>3. work' = [work EXCEPT ![a] = new] /\ pushed' = [pushed EXCEPT ![a] = g.head]
          /\ UNCHANGED <<remote, requests, action, outcome, lost, dirtyConfig, faults>>
          /\ commits' \in Nat /\ Goto(a, "push")
      BY <2>6, <2>13 DEF Commits, TypeOK
    <3> HIDE DEF new
    <3>4. c \in Clones
      BY <2>1, <3>1 DEF Clones
    <3>5. work' \in [Attempts -> Histories] /\ pushed' \in [Attempts -> Branches]
      BY <2>1, <3>1, <3>3 DEF TypeOK
    <3>6. pc' \in [Attempts -> Places]
      BY <2>4, <3>3 DEF Places, Active, Pushing
    <3> HIDE DEF c
    <3>7. QED
      BY <2>3, <3>2, <3>3, <3>4, <3>5, <3>6 DEF TypeOK
  <2>14. CASE PushLands(a)
    <3>1. remote' \in [Branches -> Histories] /\ requests' = requests
      BY <2>1, <2>14, ReceivesGrows DEF PushLands
    <3>2. repo' = [repo EXCEPT ![RunOf[a]] = [g EXCEPT !.url = "authenticated"]]
          /\ [g EXCEPT !.url = "authenticated"] \in Clones
      BY <2>1, <2>14, CloneOps DEF PushLands
    <3>3. pc' \in [Attempts -> Places]
      BY <2>4, <2>14 DEF PushLands, Places, Active, Pushing
    <3>4. QED
      BY <2>3, <2>14, <3>1, <3>2, <3>3 DEF PushLands, TypeOK
  <2>15. CASE PushReturns(a)
    <3> DEFINE c == [RestoresUrl(g) EXCEPT !.tracking = @ \cup {g.head}]
    <3>1. c \in Clones /\ c.url = "plain"
      <4>1. RestoresUrl(g) \in Clones /\ RestoresUrl(g).tracking = g.tracking
        BY ZenonT(60), <2>1, CloneOps DEF RestoresUrl, Clones
      <4>2. g.tracking \cup {g.head} \in SUBSET Branches
        BY <2>1
      <4>3. QED
        BY <2>1, <4>1, <4>2 DEF Clones
    <3>2. UNCHANGED <<remote, requests, action, lost, dirtyConfig, commits, faults>>
      BY <2>15 DEF PushReturns
    <3>3. CASE Succeeds(a, c.url)
      BY <2>2, <3>1, <3>2, <3>3 DEF TypeOK
    <3>4. CASE /\ repo' = [repo EXCEPT ![RunOf[a]] = c] /\ Goto(a, AfterPush[action])
               /\ AfterPush[action] # "success" /\ UNCHANGED <<outcome, work, pushed>>
      <4>1. AfterPush[action] \in Places
        BY <3>4, AfterPushIs DEF Places, Active, Pushing
      <4>2. pc' \in [Attempts -> Places]
        BY <2>4, <3>4, <4>1
      <4> HIDE DEF c
      <4>3. QED
        BY <2>3, <3>1, <3>2, <3>4, <4>2 DEF TypeOK
    <3>5. QED
      BY <2>15, <3>3, <3>4 DEF PushReturns
  <2>16. CASE Merges(a)
    <3> DEFINE p == detectPrimaryBranch(g)
               result == Merged(g.local[p], g.local[Task(a)])
               c == [g EXCEPT !.head = p, !.local[p] = result]
    <3>1. UNCHANGED <<remote, requests, action, lost, dirtyConfig, faults>> /\ commits' \in Nat
      BY <2>6, <2>16 DEF Merges, TypeOK
    <3>2. result \in Histories
      BY <2>1, HistoryOps, NextCommit DEF Merged
    <3>3. CASE /\ repo' = [repo EXCEPT ![RunOf[a]].head = p, ![RunOf[a]].local[p] = result]
               /\ Goto(a, "pushMerge") /\ UNCHANGED <<outcome, work, pushed>>
      <4>1. repo' = [repo EXCEPT ![RunOf[a]] = c]
        BY <3>3
      <4>2. pc' \in [Attempts -> Places]
        BY <2>4, <3>3 DEF Places, Active, Pushing
      <4>3. c \in Clones
        <5> HIDE DEF p, result
        <5>1. p \in Branches
          BY <2>1 DEF p
        <5>2. QED
          BY <2>1, <3>2, <5>1 DEF Clones
      <4> HIDE DEF c
      <4>4. QED
        BY <2>3, <3>1, <3>3, <4>1, <4>2, <4>3 DEF TypeOK
    <3>4. CASE Fails(a, g.url)
      BY <2>1, <2>2, <3>1, <3>4 DEF TypeOK
    <3>5. QED
      BY <2>16, <3>3, <3>4 DEF Merges
  <2>17. CASE RequestsMerge(a)
    <3>1. Succeeds(a, g.url) \/ Fails(a, g.url)
      BY <2>17 DEF RequestsMerge
    <3>2. faults' \in Nat /\ UNCHANGED <<action, lost, dirtyConfig, commits>>
      BY <2>5, <2>17 DEF RequestsMerge, TypeOK
    <3>3. remote' \in [Branches -> Histories] /\ requests' \in Seq(Requests)
      BY <2>1, <2>17, CreatesRequestGrows DEF RequestsMerge, TypeOK
    <3>4. QED
      BY <2>1, <2>2, <3>1, <3>2, <3>3 DEF TypeOK
  <2>18. QED
    BY <1>2, <2>7, <2>8, <2>9, <2>10, <2>13, <2>14, <2>15, <2>16, <2>17, <2>11, <2>12 DEF AttemptStep
<1>3. CASE Crash
  BY <1>3, CrashType
<1>4. CASE UNCHANGED vars
  BY <1>4 DEF vars, TypeOK
<1>5. QED
  BY <1>1, <1>2, <1>4, <1>3 DEF Next

THEOREM TypeCorrect == Spec => []TypeOK
<1>1. Init => TypeOK
  <2> SUFFICES ASSUME Init PROVE TypeOK
    OBVIOUS
  <2>1. remote \in [Branches -> Histories] /\ requests \in Seq(Requests)
    BY HistoryOps DEF Init, ForgeInit
  <2>2. repo \in [Runs -> Clones]
    BY NoRepoType DEF Init
  <2>3. work \in [Attempts -> Histories] /\ pushed \in [Attempts -> Branches]
    BY HistoryOps, BranchAssumption DEF Init
  <2>4. QED
    BY <2>1, <2>2, <2>3 DEF Init, TypeOK, Places
<1>2. QED
  BY <1>1, StepType, PTL DEF Spec

-----------------------------------------------------------------------------
(* What a step of one attempt leaves alone: the other attempts, the clones   *)
(* of the other runs, the project's setting, the locks already lost and the  *)
(* clones already known to have kept the token.                              *)
Same(x) == /\ pc'[x] = pc[x] /\ outcome'[x] = outcome[x]
           /\ work'[x] = work[x] /\ pushed'[x] = pushed[x]

OthersSame(a) == /\ \A x \in Attempts \ {a} : Same(x)
                 /\ \A r \in Runs \ {RunOf[a]} : repo'[r] = repo[r]

LEMMA EndsFrame ==
  ASSUME TypeOK, NEW a \in Attempts, NEW url, Succeeds(a, url) \/ Fails(a, url)
  PROVE  /\ OthersSame(a)
         /\ pc'[a] = "ended" /\ repo'[RunOf[a]].url = url
         /\ repo'[RunOf[a]].head \in {Primary, Clone(a).head}
         /\ repo'[RunOf[a]].tracking = IF Needed(a) THEN Clone(a).tracking ELSE {}
<1> DEFINE c == [(IF Needed(a) THEN Clone(a) ELSE NoRepo) EXCEPT !.url = url]
<1>1. pc' = [pc EXCEPT ![a] = "ended"] /\ repo' = [repo EXCEPT ![RunOf[a]] = c]
  BY DEF Succeeds, Fails, Ends, Goto
<1>2. /\ c.url = url /\ c.head = IF Needed(a) THEN Clone(a).head ELSE Primary
      /\ c.tracking = IF Needed(a) THEN Clone(a).tracking ELSE {}
  <2>1. CASE Needed(a)
    BY <2>1, UrlType DEF Clones
  <2>2. CASE ~ Needed(a)
    BY <2>2 DEF NoRepo
  <2>3. QED
    BY <2>1, <2>2
<1> HIDE DEF c
<1>3. /\ \A x \in Attempts \ {a} : pc'[x] = pc[x]
      /\ \A r \in Runs \ {RunOf[a]} : repo'[r] = repo[r]
  BY <1>1 DEF TypeOK
<1>4. \A x \in Attempts \ {a} : outcome'[x] = outcome[x] /\ work'[x] = work[x] /\ pushed'[x] = pushed[x]
  BY DEF TypeOK, Succeeds, Fails
<1>5. pc'[a] = "ended" /\ repo'[RunOf[a]] = c
  BY <1>1, AttemptAssumption DEF TypeOK
<1>6. QED
  BY <1>2, <1>3, <1>4, <1>5 DEF Same, OthersSame

\* The steps that end the attempt, well or not.
Finishes(a) == \E url \in {"plain", "authenticated"} : Succeeds(a, url) \/ Fails(a, url)

LEMMA AttemptFrame ==
  ASSUME TypeOK, NEW a \in Attempts, AttemptStep(a)
  PROVE  /\ OthersSame(a)
         /\ dirtyConfig \subseteq dirtyConfig' /\ action' = action
         /\ lost \subseteq lost' /\ (pc[a] = "orphan" => pc'[a] = "orphan")
<1>0. RunOf[a] \in Runs
  BY AttemptAssumption
<1>1. Clone(a).url \in {"plain", "authenticated"} /\ RestoresUrl(Clone(a)).url = "plain"
  BY UrlType
<1>2. Finishes(a) => OthersSame(a)
  BY EndsFrame DEF Finishes
<1>3. ASSUME NEW c, NEW l, repo' = [repo EXCEPT ![RunOf[a]] = c], Goto(a, l), outcome' = outcome,
             \A x \in Attempts \ {a} : work'[x] = work[x] /\ pushed'[x] = pushed[x]
      PROVE  OthersSame(a)
  <2>1. \A r \in Runs \ {RunOf[a]} : repo'[r] = repo[r]
    BY <1>3 DEF TypeOK
  <2>2. \A x \in Attempts \ {a} : pc'[x] = pc[x]
    BY <1>3 DEF TypeOK, Goto
  <2>3. QED
    BY <1>3, <2>1, <2>2 DEF OthersSame, Same
<1>4. CASE Fetches(a)
  <2>1. PICK c : repo' = [repo EXCEPT ![RunOf[a]] = c]
    BY <1>4 DEF Fetches
  <2>2. QED
    BY <1>3, <1>4, <2>1 DEF Fetches
<1>5. CASE FetchFails(a) \/ CommitFails(a) \/ PushFails(a) \/ SetUrlFails(a)
  <2>1. Finishes(a)
    BY <1>1, <1>5 DEF FetchFails, CommitFails, PushFails, SetUrlFails, Finishes
  <2>2. QED
    BY <1>2, <1>5, <2>1 DEF FetchFails, CommitFails, PushFails, SetUrlFails
<1>6. CASE BranchesOff(a)
  <2>1. CASE ~ Fails(a, RestoresUrl(Clone(a)).url)
    <3>1. PICK c : repo' = [repo EXCEPT ![RunOf[a]] = c]
      BY <1>6, <2>1 DEF BranchesOff
    <3>2. QED
      BY <1>3, <1>6, <2>1, <3>1 DEF BranchesOff
  <2>2. QED
    BY <1>1, <1>2, <1>6, <2>1 DEF BranchesOff, Finishes
<1>7. CASE AgentWorks(a)
  <2>1. PICK c : repo' = [repo EXCEPT ![RunOf[a]] = c]
    BY <1>7 DEF AgentWorks
  <2>2. \A r \in Runs \ {RunOf[a]} : repo'[r] = repo[r]
    BY <2>1 DEF TypeOK
  <2>3. QED
    BY <1>7, <2>2 DEF AgentWorks, OthersSame, Same
<1>8. CASE AgentEnds(a)
  <2>1. CASE Goto(a, "completed") /\ UNCHANGED <<repo, outcome, work, pushed>>
    BY <1>8, <2>1 DEF AgentEnds, Goto, OthersSame, Same, TypeOK
  <2>2. CASE Fails(a, Clone(a).url)
    BY <1>1, <1>2, <1>8, <2>2 DEF AgentEnds, Finishes
  <2>3. QED
    BY <1>8, <2>1, <2>2 DEF AgentEnds
<1>9. CASE Commits(a)
  <2>1. \A x \in Attempts \ {a} : work'[x] = work[x] /\ pushed'[x] = pushed[x] /\ pc'[x] = pc[x]
    BY <1>9 DEF Commits, TypeOK, Goto
  <2>2. \A r \in Runs \ {RunOf[a]} : repo'[r] = repo[r]
    BY <1>9 DEF Commits, TypeOK
  <2>3. QED
    BY <1>9, <2>1, <2>2 DEF Commits, Same, OthersSame
<1>10. CASE PushLands(a)
  BY <1>10 DEF PushLands, TypeOK, Goto, Same, OthersSame
<1>11. CASE PushReturns(a)
  <2> DEFINE g == [RestoresUrl(Clone(a)) EXCEPT !.tracking = @ \cup {Clone(a).head}]
  <2>1. CASE Succeeds(a, g.url)
    <3>1. OthersSame(a)
      BY <2>1, EndsFrame
    <3>2. QED
      BY <1>11, <3>1 DEF PushReturns
  <2>2. CASE ~ Succeeds(a, g.url)
    <3>1. repo' = [repo EXCEPT ![RunOf[a]] = g] /\ Goto(a, AfterPush[action])
          /\ UNCHANGED <<outcome, work, pushed, dirtyConfig, action, lost>> /\ pc[a] # "orphan"
      BY <1>11, <2>2 DEF PushReturns
    <3> HIDE DEF g
    <3>2. QED
      BY <1>3, <3>1
  <2>3. QED
    BY <2>1, <2>2
<1>12. CASE Merges(a)
  <2>1. CASE ~ Fails(a, Clone(a).url)
    BY <1>12, <2>1 DEF Merges, TypeOK, Goto, Same, OthersSame
  <2>2. QED
    BY <1>1, <1>2, <1>12, <2>1 DEF Merges, Finishes
<1>13. CASE RequestsMerge(a)
  <2>1. Finishes(a)
    BY <1>1, <1>13 DEF RequestsMerge, Finishes
  <2>2. QED
    BY <1>2, <1>13, <2>1 DEF RequestsMerge
<1>14. CASE LosesLock(a)
  BY <1>14 DEF LosesLock, OthersSame, Same
<1>15. QED
  BY <1>4, <1>5, <1>6, <1>7, <1>9, <1>10, <1>11, <1>12, <1>13, <1>14, <1>8 DEF AttemptStep

(* A clone that two have worked in stays one.                                *)
LEMMA SharedStays ==
  ASSUME TypeOK, [Next]_vars, NEW r \in Runs, Shared(r) PROVE Shared(r)'
<1>1. PICK b \in Attempts : RunOf[b] = r /\ (b \in lost \/ pc[b] = "orphan")
  BY DEF Shared
<1>2. b \in lost' \/ pc'[b] = "orphan"
  <2>1. CASE PeopleStep \/ UNCHANGED vars
    BY <1>1, <2>1 DEF PeopleStep, vars
  <2>2. CASE Crash
    <3>1. lost' = lost /\ (pc[b] \notin Active => pc'[b] = pc[b])
      BY <2>2, CrashType DEF Crash
    <3>2. QED
      BY <1>1, <3>1 DEF Active, Pushing
  <2>3. ASSUME NEW a \in Attempts, AttemptStep(a) PROVE b \in lost' \/ pc'[b] = "orphan"
    BY <1>1, <2>3, AttemptFrame DEF OthersSame, Same
  <2>4. QED
    BY <2>1, <2>2, <2>3 DEF Next
<1>3. QED
  BY <1>1, <1>2 DEF Shared

(* Of two attempts at one run that are under way, one has lost its lock: a   *)
(* job goes to a worker only when nobody holds it.                           *)
LEMMA StepAlone == ASSUME TypeOK, AloneInv, [Next]_vars PROVE AloneInv'
<1> SUFFICES ASSUME NEW x \in Attempts, NEW y \in Attempts, x \in Beside(y),
                    pc'[x] \in Active, pc'[y] \in Active
             PROVE  x \in lost' \/ y \in lost'
  BY DEF AloneInv, Beside
<1>0. y \in Beside(x) /\ x # y
  BY DEF Beside
<1>1. CASE PeopleStep \/ UNCHANGED vars
  BY <1>1 DEF PeopleStep, vars, AloneInv
<1>2. CASE Crash
  <2>1. pc'[x] \notin Active
    BY <1>2, CrashType DEF Active, Pushing
  <2>2. QED
    BY <2>1
<1>3. ASSUME NEW a \in Attempts, AttemptStep(a) PROVE x \in lost' \/ y \in lost'
  <2>1. lost \subseteq lost' /\ \A z \in Attempts \ {a} : pc'[z] = pc[z]
    BY <1>3, AttemptFrame DEF OthersSame, Same
  <2>2. pc[a] \in Active \/ pc'[a] \notin Active \/ (Fetches(a) /\ Deliverable(a))
    <3>1. CASE FetchFails(a)
      BY <3>1, EndsFrame DEF FetchFails, Active, Pushing
    <3>2. CASE AgentWorks(a)
      BY <3>2 DEF AgentWorks, Active, Pushing
    <3>3. CASE Fetches(a)
      BY <3>3 DEF Fetches
    <3>4. QED
      BY <1>3, <3>1, <3>2, <3>3
         DEF AttemptStep, BranchesOff, SetUrlFails, AgentEnds, Commits, CommitFails, PushLands,
             PushReturns, PushFails, Merges, RequestsMerge, LosesLock, Active, Pushing
  <2>3. CASE pc[x] \in Active /\ pc[y] \in Active
    BY <2>1, <2>3 DEF AloneInv
  <2>4. CASE a = x /\ pc[y] \in Active /\ Deliverable(a)
    BY <1>0, <2>1, <2>4 DEF Deliverable, Active, Pushing
  <2>5. CASE a = y /\ pc[x] \in Active /\ Deliverable(a)
    BY <2>1, <2>5 DEF Deliverable, Active, Pushing
  <2>6. QED
    BY <1>0, <2>1, <2>2, <2>3, <2>4, <2>5
<1>4. QED
  BY <1>1, <1>2, <1>3 DEF Next

(* While an attempt is under way nothing moves in its clone that is not its  *)
(* own doing, unless two work there.                                         *)
LEMMA OthersRest ==
  ASSUME AloneInv, NEW x \in Attempts, pc[x] \in Active,
         NEW a \in Attempts \ {x}, RunOf[a] = RunOf[x], AttemptStep(a)
  PROVE  Shared(RunOf[x])
<1>1. x \in Beside(a) /\ a \in Beside(x)
  BY DEF Beside
<1>2. CASE pc[a] \in Active
  BY <1>1, <1>2 DEF AloneInv, Shared
<1>3. CASE pc[a] = "orphan"
  BY <1>3 DEF Shared
<1>4. CASE Deliverable(a)
  BY <1>1, <1>4 DEF Deliverable, Shared, Active, Pushing
<1>5. pc[a] \in Active \/ pc[a] = "orphan" \/ Deliverable(a)
  BY DEF AttemptStep, Fetches, FetchFails, BranchesOff, SetUrlFails, AgentWorks, AgentEnds, Commits,
         CommitFails, PushLands, PushReturns, PushFails, Merges, RequestsMerge, LosesLock, Active, Pushing
<1>6. QED
  BY <1>2, <1>3, <1>4, <1>5

-----------------------------------------------------------------------------
(* The clone a step that does not end the attempt leaves.                    *)
Leaves(a, l) == pc'[a] = l /\ outcome'[a] = outcome[a]

LEMMA AfterFetch ==
  ASSUME TypeOK, NEW a \in Attempts, Fetches(a)
  PROVE  /\ Leaves(a, "fetched")
         /\ repo'[RunOf[a]].head \in {Primary, Clone(a).head}
         /\ Fetched \subseteq repo'[RunOf[a]].tracking
         /\ repo'[RunOf[a]].tracking \subseteq Clone(a).tracking \cup Fetched
<1> DEFINE g == Clone(a)
           new == [NoRepo EXCEPT !.exists = TRUE, !.tracking = Fetched, !.url = "authenticated",
                                 !.local[Primary] = remote[Primary]]
           again == [g EXCEPT !.tracking = @ \cup Fetched, !.url = "authenticated"]
<1>1. new.head = Primary /\ new.tracking = Fetched
  BY DEF NoRepo
<1>2. again.head = g.head /\ again.tracking = g.tracking \cup Fetched
  BY UrlType DEF Clones
<1>3. repo' = [repo EXCEPT ![RunOf[a]] = IF ~g.exists THEN new ELSE again]
  BY DEF Fetches
<1> HIDE DEF new, again
<1>4. repo'[RunOf[a]] \in {new, again}
  BY <1>3, AttemptAssumption DEF TypeOK
<1>5. Leaves(a, "fetched")
  BY DEF Fetches, Goto, TypeOK, Leaves
<1>6. QED
  BY <1>1, <1>2, <1>4, <1>5

LEMMA AfterBranchingOff ==
  ASSUME TypeOK, NEW a \in Attempts, BranchesOff(a), ~ Fails(a, RestoresUrl(Clone(a)).url)
  PROVE  /\ Leaves(a, "agent") /\ repo'[RunOf[a]].url = "plain" /\ repo'[RunOf[a]].head = Task(a)
         /\ repo'[RunOf[a]].tracking = Clone(a).tracking \cup Fetched
<1> DEFINE g == Clone(a)
           p == detectPrimaryBranch(g)
           Pulled == IF g.local[p] \subseteq remote[p] THEN remote[p] ELSE g.local[p]
           h == [g EXCEPT !.local[p] = Pulled, !.local[Task(a)] = Pulled,
                           !.tracking = @ \cup Fetched, !.head = Task(a)]
<1>1. repo' = [repo EXCEPT ![RunOf[a]] = RestoresUrl(h)]
  BY DEF BranchesOff
<1>2. repo'[RunOf[a]] = RestoresUrl(h)
  <2> HIDE DEF h
  <2>1. QED
    BY <1>1, AttemptAssumption DEF TypeOK
<1>3. RestoresUrl(h).url = "plain" /\ RestoresUrl(h).head = Task(a)
      /\ RestoresUrl(h).tracking = g.tracking \cup Fetched
  <2> HIDE DEF p, Pulled
  <2>1. QED
    BY UrlType DEF RestoresUrl, Clones
<1> HIDE DEF h
<1>4. Leaves(a, "agent")
  BY DEF BranchesOff, Goto, TypeOK, Leaves
<1>5. QED
  BY <1>2, <1>3, <1>4

LEMMA AfterEdits ==
  ASSUME TypeOK, NEW a \in Attempts, AgentWorks(a)
  PROVE  /\ Leaves(a, pc[a]) /\ pc[a] \in {"agent", "orphan"} /\ pc' = pc
         /\ repo'[RunOf[a]].url = Clone(a).url
         /\ repo'[RunOf[a]].head \in Elsewhere \cup {Task(a)}
         /\ repo'[RunOf[a]].tracking = Clone(a).tracking
<1> DEFINE g == Clone(a)
<1>1. PICK b \in Elsewhere, head \in Elsewhere \cup {Task(a)},
           edited \in BOOLEAN, own \in BOOLEAN :
        repo' = [repo EXCEPT ![RunOf[a]] = Edits(g, b, head, edited, own)]
  BY DEF AgentWorks
<1>2. repo'[RunOf[a]] = Edits(g, b, head, edited, own)
  BY <1>1, AttemptAssumption DEF TypeOK
<1>3. /\ Edits(g, b, head, edited, own).url = g.url
      /\ Edits(g, b, head, edited, own).head = head
      /\ Edits(g, b, head, edited, own).tracking = g.tracking
  BY UrlType DEF Edits, Clones
<1>4. Leaves(a, pc[a]) /\ pc[a] \in {"agent", "orphan"} /\ pc' = pc
  BY DEF AgentWorks, TypeOK, Leaves
<1>5. QED
  BY <1>2, <1>3, <1>4

LEMMA AfterAgent ==
  ASSUME TypeOK, NEW a \in Attempts, AgentEnds(a), ~ Fails(a, Clone(a).url)
  PROVE  Leaves(a, "completed") /\ repo' = repo
  BY DEF AgentEnds, Goto, TypeOK, Leaves

LEMMA AfterCommitting ==
  ASSUME TypeOK, NEW a \in Attempts, Commits(a)
  PROVE  /\ Leaves(a, "push") /\ repo'[RunOf[a]].url = Clone(a).url /\ repo'[RunOf[a]].head = Clone(a).head
         /\ repo'[RunOf[a]].tracking = Clone(a).tracking
         /\ work'[a] = repo'[RunOf[a]].local[Clone(a).head] /\ pushed'[a] = Clone(a).head
<1> DEFINE g == Clone(a)
           new == IF g.edited THEN g.local[g.head] \cup {commits + 1} ELSE g.local[g.head]
           c == [g EXCEPT !.local[g.head] = new, !.edited = FALSE]
<1>1. repo' = [repo EXCEPT ![RunOf[a]] = c] /\ work' = [work EXCEPT ![a] = new]
      /\ pushed' = [pushed EXCEPT ![a] = g.head]
  BY DEF Commits
<1> HIDE DEF new
<1>2. c.url = g.url /\ c.head = g.head /\ c.tracking = g.tracking /\ c.local[g.head] = new
  BY UrlType DEF Clones
<1> HIDE DEF c
<1>3. repo'[RunOf[a]] = c /\ work'[a] = new /\ pushed'[a] = g.head
  BY <1>1, AttemptAssumption DEF TypeOK
<1>4. Leaves(a, "push")
  BY DEF Commits, Goto, TypeOK, Leaves
<1>5. QED
  BY <1>2, <1>3, <1>4

LEMMA AfterPushing ==
  ASSUME TypeOK, NEW a \in Attempts, PushLands(a)
  PROVE  /\ Leaves(a, IF pc[a] = "push" THEN "landed" ELSE "landedMerge")
         /\ repo'[RunOf[a]].head = Clone(a).head /\ repo'[RunOf[a]].tracking = Clone(a).tracking
         /\ repo'[RunOf[a]].local = Clone(a).local
         /\ remote'[Clone(a).head] = Clone(a).local[Clone(a).head]
         /\ work'[a] = work[a] /\ pushed'[a] = pushed[a]
         /\ \A c \in Branches \ {Clone(a).head} : remote'[c] = remote[c]
         /\ RemoteGrows
<1> DEFINE g == Clone(a)
<1>1. g \in Clones /\ g.head \in Branches /\ g.local[g.head] \in Histories
  BY UrlType DEF Clones
<1>2. remote'[g.head] = g.local[g.head] /\ RemoteGrows
      /\ \A c \in Branches \ {g.head} : remote'[c] = remote[c]
  BY <1>1, ReceivesGrows DEF PushLands
<1>3. repo'[RunOf[a]] = [g EXCEPT !.url = "authenticated"]
  BY AttemptAssumption DEF PushLands, TypeOK
<1>4. repo'[RunOf[a]].head = g.head /\ repo'[RunOf[a]].tracking = g.tracking /\ repo'[RunOf[a]].local = g.local
  BY <1>1, <1>3 DEF Clones
<1>5. Leaves(a, IF pc[a] = "push" THEN "landed" ELSE "landedMerge")
      /\ work'[a] = work[a] /\ pushed'[a] = pushed[a]
  BY DEF PushLands, Goto, TypeOK, Leaves
<1>6. QED
  BY <1>2, <1>4, <1>5

LEMMA AfterReturning ==
  ASSUME TypeOK, NEW a \in Attempts, PushReturns(a)
  PROVE  \/ /\ pc[a] = "landedMerge" \/ AfterPush[action] = "success"
            /\ Succeeds(a, "plain")
         \/ /\ pc[a] = "landed" /\ AfterPush[action] # "success"
            /\ Leaves(a, AfterPush[action])
            /\ repo'[RunOf[a]].url = "plain" /\ repo'[RunOf[a]].head = Clone(a).head
            /\ repo'[RunOf[a]].tracking = Clone(a).tracking \cup {Clone(a).head}
            /\ repo'[RunOf[a]].local = Clone(a).local
            /\ work'[a] = work[a] /\ pushed'[a] = pushed[a]
<1> DEFINE g == Clone(a)
           c == [RestoresUrl(g) EXCEPT !.tracking = @ \cup {g.head}]
<1>1. c.url = "plain" /\ c.head = g.head /\ c.tracking = g.tracking \cup {g.head} /\ c.local = g.local
  BY UrlType DEF RestoresUrl, Clones
<1>2. CASE pc[a] = "landedMerge" \/ AfterPush[action] = "success"
  <2>1. Succeeds(a, c.url)
    BY <1>2 DEF PushReturns
  <2>2. QED
    BY <1>1, <1>2, <2>1
<1>3. CASE ~ (pc[a] = "landedMerge" \/ AfterPush[action] = "success")
  <2>1. repo' = [repo EXCEPT ![RunOf[a]] = c] /\ Goto(a, AfterPush[action])
        /\ UNCHANGED <<outcome, work, pushed>> /\ pc[a] = "landed"
    BY <1>3 DEF PushReturns
  <2> HIDE DEF c
  <2>2. repo'[RunOf[a]] = c /\ Leaves(a, AfterPush[action])
    BY <2>1, AttemptAssumption DEF Goto, TypeOK, Leaves
  <2>3. QED
    BY <1>1, <1>3, <2>1, <2>2
<1>4. QED
  BY <1>2, <1>3

LEMMA AfterMerging ==
  ASSUME TypeOK, NEW a \in Attempts, Merges(a), ~ Fails(a, Clone(a).url)
  PROVE  /\ Leaves(a, "pushMerge") /\ repo'[RunOf[a]].url = Clone(a).url
         /\ repo'[RunOf[a]].tracking = Clone(a).tracking
         /\ repo'[RunOf[a]].head = detectPrimaryBranch(Clone(a))
         /\ Clone(a).local[Task(a)] \subseteq repo'[RunOf[a]].local[detectPrimaryBranch(Clone(a))]
         /\ work'[a] = work[a] /\ pushed'[a] = pushed[a]
<1> DEFINE g == Clone(a)
           p == detectPrimaryBranch(g)
           result == Merged(g.local[p], g.local[Task(a)])
           c == [g EXCEPT !.head = p, !.local[p] = result]
<1>1. g.local[Task(a)] \subseteq result
  BY DEF Merged
<1>2. repo' = [repo EXCEPT ![RunOf[a]] = c]
  BY DEF Merges
<1>3. p \in Branches
  BY PrimaryFound, BranchAssumption
<1> HIDE DEF p, result
<1>4. c.url = g.url /\ c.tracking = g.tracking /\ c.head = p /\ c.local[p] = result
  BY <1>3, UrlType DEF Clones
<1> HIDE DEF c
<1>5. repo'[RunOf[a]] = c
  BY <1>2, AttemptAssumption DEF TypeOK
<1>6. Leaves(a, "pushMerge") /\ work'[a] = work[a] /\ pushed'[a] = pushed[a]
  BY DEF Merges, Goto, TypeOK, Leaves
<1>7. QED
  BY <1>1, <1>4, <1>5, <1>6 DEF p

-----------------------------------------------------------------------------
(* The token: it is written where an operation of the server starts, and     *)
(* gone when the operation ends.                                             *)
Operating == {"fetched", "landed", "landedMerge"}
Resting == {"agent", "completed", "push", "merge", "pushMerge", "request"}

UrlOf(r) == repo[r].url = "authenticated" =>
  (\E b \in Attempts : RunOf[b] = r /\ pc[b] \in Operating) \/ r \in dirtyConfig
TokenOf(x) == pc[x] \in Resting => Clone(x).url = "plain" \/ Shared(RunOf[x])

LEMMA TokenEach ==
  TokenInUseOnly <=> (\A r \in Runs : UrlOf(r)) /\ (\A x \in Attempts : TokenOf(x))
  BY DEF TokenInUseOnly, TokenOf, UrlOf, Operating, Resting

\* An operation of another attempt goes on.
LEMMA UrlKept ==
  ASSUME TypeOK, NEW a \in Attempts, AttemptStep(a), UrlOf(RunOf[a]), pc[a] \notin Operating,
         repo'[RunOf[a]].url = Clone(a).url
  PROVE  UrlOf(RunOf[a])'
<1>1. dirtyConfig \subseteq dirtyConfig' /\ \A b \in Attempts \ {a} : pc'[b] = pc[b]
  BY AttemptFrame DEF OthersSame, Same
<1>2. QED
  BY <1>1 DEF UrlOf

LEMMA AttemptToken ==
  ASSUME TypeOK, NEW a \in Attempts, UrlOf(RunOf[a]), TokenOf(a), AttemptStep(a)
  PROVE  /\ UrlOf(RunOf[a])'
         /\ ~ Shared(RunOf[a]) => TokenOf(a)'
<1> USE DEF Operating, Resting
<1> DEFINE g == Clone(a)
<1>1. RunOf[a] \in Runs /\ g.url \in {"plain", "authenticated"} /\ RestoresUrl(g).url = "plain"
  BY UrlType
<1>2. ASSUME NEW url, Succeeds(a, url) \/ Fails(a, url),
             url = "plain" \/ RunOf[a] \in dirtyConfig' \/ (url = g.url /\ pc[a] \notin Operating)
      PROVE  UrlOf(RunOf[a])' /\ TokenOf(a)'
  <2>1. pc'[a] = "ended" /\ repo'[RunOf[a]].url = url
    BY <1>2, EndsFrame
  <2>2. UrlOf(RunOf[a])'
    BY <1>2, <2>1, UrlKept DEF UrlOf
  <2>3. QED
    BY <2>1, <2>2 DEF TokenOf
<1>3. CASE Fetches(a)
  BY <1>3, AfterFetch DEF UrlOf, TokenOf, Leaves
<1>4. CASE FetchFails(a) \/ PushFails(a)
  BY <1>1, <1>2, <1>4 DEF FetchFails, PushFails
<1>5. CASE CommitFails(a)
  BY <1>2, <1>5 DEF CommitFails
<1>6. CASE SetUrlFails(a)
  BY <1>2, <1>6 DEF SetUrlFails
<1>7. CASE BranchesOff(a)
  <2>1. CASE Fails(a, RestoresUrl(g).url)
    BY <1>1, <1>2, <2>1
  <2>2. CASE ~ Fails(a, RestoresUrl(g).url)
    BY <1>7, <2>2, AfterBranchingOff DEF UrlOf, TokenOf
  <2>3. QED
    BY <2>1, <2>2
<1>8. CASE AgentWorks(a)
  BY <1>8, AfterEdits, UrlKept DEF TokenOf
<1>9. CASE AgentEnds(a)
  <2>1. pc[a] = "agent"
    BY <1>9 DEF AgentEnds
  <2>2. CASE Fails(a, g.url)
    BY <1>2, <2>1, <2>2
  <2>3. CASE ~ Fails(a, g.url)
    BY <1>9, <2>1, <2>3, AfterAgent, UrlKept DEF TokenOf
  <2>4. QED
    BY <2>2, <2>3
<1>10. CASE Commits(a)
  <2>1. pc[a] = "completed"
    BY <1>10 DEF Commits
  <2>2. QED
    BY <1>10, <2>1, AfterCommitting, UrlKept DEF TokenOf
<1>11. CASE PushLands(a)
  <2>1. pc'[a] \in {"landed", "landedMerge"}
    BY <1>11, AfterPushing DEF Leaves
  <2>2. QED
    BY <2>1 DEF UrlOf, TokenOf
<1>12. CASE PushReturns(a)
  <2>1. CASE Succeeds(a, "plain")
    BY <1>2, <2>1
  <2>2. CASE ~ Succeeds(a, "plain")
    BY <1>12, <2>2, AfterReturning DEF UrlOf, TokenOf
  <2>3. QED
    BY <2>1, <2>2
<1>13. CASE Merges(a)
  <2>1. pc[a] = "merge"
    BY <1>13 DEF Merges
  <2>2. CASE Fails(a, g.url)
    BY <1>2, <2>1, <2>2
  <2>3. CASE ~ Fails(a, g.url)
    BY <1>13, <2>1, <2>3, AfterMerging, UrlKept DEF TokenOf
  <2>4. QED
    BY <2>2, <2>3
<1>14. CASE RequestsMerge(a)
  BY <1>2, <1>14 DEF RequestsMerge
<1>15. CASE LosesLock(a)
  <2>1. UNCHANGED <<repo, pc, dirtyConfig>>
    BY <1>15 DEF LosesLock
  <2>2. QED
    BY <2>1 DEF UrlOf, TokenOf
<1>16. QED
  BY <1>3, <1>4, <1>5, <1>6, <1>7, <1>8, <1>10, <1>11, <1>12, <1>13, <1>14, <1>15, <1>9 DEF AttemptStep

LEMMA StepToken ==
  ASSUME TypeOK, AloneInv, TokenInUseOnly, [Next]_vars PROVE TokenInUseOnly'
<1>0. (\A r \in Runs : UrlOf(r)) /\ (\A x \in Attempts : TokenOf(x))
  BY TokenEach
<1>1. CASE PeopleStep \/ UNCHANGED vars
  <2>1. UNCHANGED <<repo, pc, lost, dirtyConfig>>
    BY <1>1 DEF PeopleStep, vars
  <2>2. QED
    BY <2>1 DEF TokenInUseOnly, Shared
<1>2. CASE Crash
  <2>1. \A r \in Runs : UrlOf(r)'
    BY <1>2, CrashType DEF UrlOf
  <2>2. \A x \in Attempts : pc'[x] \notin Resting
    BY <1>2, CrashType DEF Active, Pushing, Resting
  <2>3. QED
    BY <2>1, <2>2 DEF TokenInUseOnly, UrlOf, Operating, Resting
<1>3. ASSUME NEW a \in Attempts, AttemptStep(a) PROVE TokenInUseOnly'
  <2>0. RunOf[a] \in Runs /\ OthersSame(a) /\ dirtyConfig \subseteq dirtyConfig'
    BY <1>3, AttemptFrame, AttemptAssumption
  <2>1. UrlOf(RunOf[a])' /\ (~ Shared(RunOf[a]) => TokenOf(a)')
    BY <1>0, <1>3, <2>0, AttemptToken
  <2>2. ASSUME NEW r \in Runs \ {RunOf[a]} PROVE UrlOf(r)'
    <3>1. repo'[r] = repo[r] /\ UrlOf(r)
      BY <1>0, <2>0 DEF OthersSame
    <3>2. \A b \in Attempts : RunOf[b] = r => pc'[b] = pc[b]
      BY <2>0 DEF OthersSame, Same
    <3>3. QED
      BY <2>0, <3>1, <3>2 DEF UrlOf
  <2>3. ASSUME NEW x \in Attempts PROVE TokenOf(x)'
    <3>1. RunOf[x] \in Runs /\ (Shared(RunOf[x]) => Shared(RunOf[x])')
      BY <1>3, SharedStays, AttemptAssumption DEF Next
    <3>2. CASE x = a
      BY <2>1, <3>1, <3>2 DEF TokenOf
    <3>3. CASE x # a
      <4>1. pc'[x] = pc[x]
        BY <2>0, <3>3 DEF OthersSame, Same
      <4>2. CASE RunOf[x] = RunOf[a]
        <5>1. pc[x] \in Resting => Shared(RunOf[x])
          BY <1>3, <3>3, <4>2, OthersRest DEF Resting, Active, Pushing
        <5>2. QED
          BY <3>1, <4>1, <5>1 DEF TokenOf
      <4>3. CASE RunOf[x] # RunOf[a]
        <5>1. repo'[RunOf[x]] = repo[RunOf[x]]
          BY <2>0, <3>1, <4>3 DEF OthersSame
        <5>2. QED
          BY <1>0, <3>1, <4>1, <5>1 DEF TokenOf
      <4>4. QED
        BY <4>2, <4>3
    <3>4. QED
      BY <3>2, <3>3
  <2>4. QED
    BY <2>1, <2>2, <2>3 DEF TokenInUseOnly, UrlOf, TokenOf, Operating, Resting
<1>4. QED
  BY <1>1, <1>2, <1>3 DEF Next

LEMMA AloneStays == Spec => []AloneInv
<1>1. Init => AloneInv
  BY DEF Init, AloneInv, Active, Pushing, Beside
<1>2. QED
  BY <1>1, StepAlone, TypeCorrect, PTL DEF Spec

(* The token is in a clone's configuration only while a git operation of the *)
(* server at that run needs it, whatever fails, loses its lock or is         *)
(* redelivered, unless the server died in one or the configuration could not *)
(* be written; and an agent finds it there only where two have worked in     *)
(* that clone at once.                                                       *)
THEOREM TokenInUse == Spec => []TokenInUseOnly
<1>1. Init => TokenInUseOnly
  BY DEF Init, TokenInUseOnly, NoRepo
<1>2. QED
  BY <1>1, StepToken, TypeCorrect, AloneStays, PTL DEF Spec

-----------------------------------------------------------------------------
(* Nobody, agent or person, makes a branch "main" where the primary branch   *)
(* is "master": the server would take it for the primary branch.             *)
OnePrimary == Primary = "master" => "main" \notin Elsewhere

\* What a clone knows of the primary branch, and what an agent can leave
\* checked out; what an attempt under way can rely on.
HeadOf(r) == /\ repo[r].head \in Elsewhere \cup {TaskBranch[r], Primary}
             /\ Primary = "master" => "main" \notin repo[r].tracking
KnowsOf(x) == pc[x] \in Active => Primary \in Clone(x).tracking

LEMMA PrimaryEach ==
  PrimaryInv <=> /\ remote[Primary] # {}
                 /\ Primary = "master" => remote["main"] = {}
                 /\ \A r \in Runs : HeadOf(r)
                 /\ \A x \in Attempts : KnowsOf(x)
  BY DEF PrimaryInv, HeadOf, KnowsOf

LEMMA PrimaryDetected ==
  ASSUME TypeOK, PrimaryInv, NEW a \in Attempts, pc[a] \in Active
  PROVE  detectPrimaryBranch(Clone(a)) = Primary
<1>1. HeadOf(RunOf[a]) /\ KnowsOf(a)
  BY PrimaryEach, AttemptAssumption
<1>2. QED
  BY <1>1, BranchAssumption DEF HeadOf, KnowsOf, detectPrimaryBranch

(* Every step only adds to the remote and to the requests.                   *)
LEMMA NextGrows ==
  ASSUME TypeOK, [Next]_vars PROVE RemoteGrows /\ action' = action
<1>1. (UNCHANGED <<remote, requests>>) => RemoteGrows
  BY DEF RemoteGrows
<1>2. CASE PeopleStep
  <2>1. action' = action
    BY <1>2 DEF PeopleStep
  <2>2. CASE Receives(Primary, remote[Primary] \cup {commits + 1})
    BY <2>1, <2>2, PeoplePush, ReceivesGrows
  <2>3. ASSUME NEW i \in DOMAIN requests, Settles(i, commits + 1) PROVE RemoteGrows
    BY <2>3, SettlesGrows, NextCommit
  <2>4. ASSUME NEW r \in Runs, CreatesRequest(TaskBranch[r]) PROVE RemoteGrows
    BY <2>4, CreatesRequestGrows, BranchAssumption
  <2>5. QED
    BY <1>2, <2>1, <2>2, <2>3, <2>4 DEF PeopleStep
<1>3. ASSUME NEW a \in Attempts, AttemptStep(a) PROVE RemoteGrows /\ action' = action
  <2>1. action' = action
    BY <1>3, AttemptFrame
  <2>2. CASE PushLands(a)
    BY <2>1, <2>2, AfterPushing
  <2>3. CASE RequestsMerge(a)
    <3>1. CASE CreatesRequest(Task(a))
      <4>1. Task(a) \in Branches
        BY UrlType
      <4>2. QED
        BY <2>1, <3>1, <4>1, CreatesRequestGrows
    <3>2. CASE UNCHANGED forgeVars
      BY <1>1, <2>1, <3>2 DEF forgeVars
    <3>3. QED
      BY <2>3, <3>1, <3>2 DEF RequestsMerge
  <2>4. CASE ~ PushLands(a) /\ ~ RequestsMerge(a)
    <3>1. UNCHANGED forgeVars
      BY <1>3, <2>4 DEF AttemptStep, Fetches, FetchFails, BranchesOff, SetUrlFails, AgentWorks, AgentEnds,
                         Commits, CommitFails, PushReturns, PushFails, Merges, LosesLock
    <3>2. QED
      BY <1>1, <2>1, <3>1 DEF forgeVars
  <2>5. QED
    BY <2>2, <2>3, <2>4
<1>4. CASE Crash \/ UNCHANGED vars
  BY <1>1, <1>4 DEF vars, Crash, forgeVars
<1>5. QED
  BY <1>2, <1>3, <1>4 DEF Next

(* No step makes a branch "main" beside a "master" that is the primary one.  *)
LEMMA NoSecondPrimary ==
  ASSUME TypeOK, OnePrimary, PrimaryInv, Primary = "master", [Next]_vars
  PROVE  remote'["main"] = {}
<1>1. remote["main"] = {} /\ "main" \in Branches /\ "main" # Primary
  BY PrimaryEach, BranchAssumption
<1>2. CASE PeopleStep
  <2>1. CASE Receives(Primary, remote[Primary] \cup {commits + 1})
    BY <1>1, <2>1, PeoplePush, ReceivesGrows
  <2>2. ASSUME NEW i \in DOMAIN requests, Settles(i, commits + 1) PROVE remote'["main"] = {}
    BY <1>1, <2>2, SettlesGrows, NextCommit
  <2>3. ASSUME NEW r \in Runs, CreatesRequest(TaskBranch[r]) PROVE remote'["main"] = {}
    BY <1>1, <2>3 DEF CreatesRequest
  <2>4. QED
    BY <1>2, <2>1, <2>2, <2>3 DEF PeopleStep
<1>3. ASSUME NEW a \in Attempts, AttemptStep(a) PROVE remote'["main"] = {}
  <2>1. CASE PushLands(a)
    <3>1. Clone(a).head \in Elsewhere \cup {Task(a), Primary} /\ Task(a) # "main"
      BY PrimaryEach, AttemptAssumption, BranchAssumption DEF HeadOf
    <3>2. Clone(a).head # "main" /\ Clone(a).head \in Branches
      BY <1>1, <3>1, UrlType DEF OnePrimary, Clones
    <3>3. QED
      BY <1>1, <2>1, <3>2, AfterPushing
  <2>2. CASE RequestsMerge(a)
    BY <1>1, <2>2 DEF RequestsMerge, CreatesRequest, forgeVars
  <2>3. CASE ~ PushLands(a) /\ ~ RequestsMerge(a)
    <3>1. UNCHANGED forgeVars
      BY <1>3, <2>3 DEF AttemptStep, Fetches, FetchFails, BranchesOff, SetUrlFails, AgentWorks, AgentEnds,
                         Commits, CommitFails, PushReturns, PushFails, Merges, LosesLock
    <3>2. QED
      BY <1>1, <3>1 DEF forgeVars
  <2>4. QED
    BY <2>1, <2>2, <2>3
<1>4. CASE Crash \/ UNCHANGED vars
  BY <1>1, <1>4 DEF vars, Crash, forgeVars
<1>5. QED
  BY <1>2, <1>3, <1>4 DEF Next

(* A clone's knowledge only grows while an attempt needs it.                 *)
LEMMA AttemptPrimary ==
  ASSUME TypeOK, OnePrimary, PrimaryInv, NEW a \in Attempts, AttemptStep(a)
  PROVE  /\ HeadOf(RunOf[a])' /\ KnowsOf(a)'
         /\ Needed(a) /\ Primary \in Clone(a).tracking => Primary \in repo'[RunOf[a]].tracking
<1> DEFINE g == Clone(a)
<1>1. /\ RunOf[a] \in Runs /\ HeadOf(RunOf[a]) /\ KnowsOf(a)
      /\ Primary \in Fetched /\ (Primary = "master" => "main" \notin Fetched)
      /\ g.head \in Elsewhere \cup {Task(a), Primary}
      /\ Primary = "master" => g.head # "main"
  <2>1. RunOf[a] \in Runs /\ HeadOf(RunOf[a]) /\ KnowsOf(a)
        /\ remote[Primary] # {} /\ (Primary = "master" => remote["main"] = {})
    BY PrimaryEach, AttemptAssumption
  <2>2. Task(a) # "main" /\ Primary \in Branches
    BY <2>1, BranchAssumption
  <2>3. QED
    BY <2>1, <2>2 DEF Fetched, HeadOf, OnePrimary
<1>2. Finishes(a) => /\ HeadOf(RunOf[a])' /\ KnowsOf(a)'
                     /\ Needed(a) => repo'[RunOf[a]].tracking = g.tracking
  BY <1>1, EndsFrame DEF Finishes, HeadOf, KnowsOf, Active, Pushing
<1>3. g.url \in {"plain", "authenticated"} /\ RestoresUrl(g).url = "plain"
  BY UrlType
<1>4. CASE Fetches(a)
  BY <1>1, <1>4, AfterFetch DEF HeadOf, KnowsOf
<1>5. CASE FetchFails(a) \/ PushFails(a) \/ CommitFails(a) \/ SetUrlFails(a)
  BY <1>2, <1>3, <1>5 DEF FetchFails, PushFails, CommitFails, SetUrlFails, Finishes
<1>6. CASE BranchesOff(a)
  <2>1. CASE Fails(a, RestoresUrl(g).url)
    BY <1>2, <1>3, <2>1 DEF Finishes
  <2>2. QED
    BY <1>1, <1>6, <2>1, AfterBranchingOff DEF HeadOf, KnowsOf
<1>7. CASE AgentWorks(a)
  BY <1>1, <1>7, AfterEdits DEF HeadOf, KnowsOf
<1>8. CASE AgentEnds(a)
  <2>1. CASE Fails(a, g.url)
    BY <1>2, <1>3, <2>1 DEF Finishes
  <2>2. pc[a] \in Active
    BY <1>8 DEF AgentEnds, Active
  <2>3. QED
    BY <1>1, <1>8, <2>1, <2>2, AfterAgent DEF HeadOf, KnowsOf
<1>9. CASE Commits(a)
  <2>1. pc[a] \in Active
    BY <1>9 DEF Commits, Active
  <2>2. QED
    BY <1>1, <1>9, <2>1, AfterCommitting DEF HeadOf, KnowsOf
<1>10. CASE PushLands(a)
  <2>1. pc[a] \in Active
    BY <1>10 DEF PushLands, Active, Pushing
  <2>2. QED
    BY <1>1, <1>10, <2>1, AfterPushing DEF HeadOf, KnowsOf
<1>11. CASE PushReturns(a)
  <2>1. pc[a] \in Active
    BY <1>11 DEF PushReturns, Active, Pushing
  <2>2. CASE Succeeds(a, "plain")
    BY <1>2, <2>2 DEF Finishes
  <2>3. QED
    BY <1>1, <1>11, <2>1, <2>2, AfterReturning DEF HeadOf, KnowsOf
<1>12. CASE Merges(a)
  <2>1. CASE Fails(a, g.url)
    BY <1>2, <1>3, <2>1 DEF Finishes
  <2>2. pc[a] \in Active
    BY <1>12 DEF Merges, Active, Pushing
  <2>3. QED
    BY <1>1, <1>12, <2>1, <2>2, AfterMerging, PrimaryDetected DEF HeadOf, KnowsOf
<1>13. CASE RequestsMerge(a)
  BY <1>2, <1>3, <1>13 DEF RequestsMerge, Finishes
<1>14. CASE LosesLock(a)
  <2>1. UNCHANGED <<repo, pc>>
    BY <1>14 DEF LosesLock
  <2>2. QED
    BY <1>1, <2>1 DEF HeadOf, KnowsOf
<1>15. QED
  BY <1>4, <1>5, <1>6, <1>7, <1>8, <1>9, <1>10, <1>11, <1>12, <1>13, <1>14 DEF AttemptStep

LEMMA StepPrimary ==
  ASSUME TypeOK, OnePrimary, PrimaryInv, [Next]_vars
  PROVE  PrimaryInv'
<1>0. (\A r \in Runs : HeadOf(r)) /\ (\A x \in Attempts : KnowsOf(x))
  BY PrimaryEach
<1>1. remote'[Primary] # {}
  BY NextGrows, PrimaryEach, BranchAssumption DEF RemoteGrows
<1>2. Primary = "master" => remote'["main"] = {}
  BY NoSecondPrimary
<1>3. (\A r \in Runs : HeadOf(r)') /\ (\A x \in Attempts : KnowsOf(x)')
  <2>1. CASE PeopleStep \/ UNCHANGED vars
    <3>1. UNCHANGED <<repo, pc>>
      BY <2>1 DEF PeopleStep, vars
    <3>2. QED
      BY <1>0, <3>1 DEF HeadOf, KnowsOf
  <2>2. CASE Crash
    <3>1. ASSUME NEW r \in Runs PROVE HeadOf(r)'
      <4>1. PICK u \in {"plain", "authenticated"} : repo'[r] = [repo[r] EXCEPT !.url = u]
        BY <2>2, CrashType
      <4>2. repo[r] \in Clones
        BY DEF TypeOK
      <4>3. repo'[r].head = repo[r].head /\ repo'[r].tracking = repo[r].tracking
        BY <4>1, <4>2 DEF Clones
      <4>4. QED
        BY <1>0, <4>3 DEF HeadOf
    <3>2. \A x \in Attempts : pc'[x] \notin Active
      BY <2>2, CrashType DEF Active, Pushing
    <3>3. QED
      BY <3>1, <3>2 DEF KnowsOf
  <2>3. ASSUME NEW a \in Attempts, AttemptStep(a)
        PROVE  (\A r \in Runs : HeadOf(r)') /\ (\A x \in Attempts : KnowsOf(x)')
    <3>0. OthersSame(a) /\ RunOf[a] \in Runs
      BY <2>3, AttemptFrame, AttemptAssumption
    <3>1. ASSUME NEW r \in Runs PROVE HeadOf(r)'
      <4>1. CASE r = RunOf[a]
        BY <2>3, <4>1, AttemptPrimary
      <4>2. CASE r # RunOf[a]
        BY <1>0, <3>0, <4>2 DEF HeadOf, OthersSame
      <4>3. QED
        BY <4>1, <4>2
    <3>2. ASSUME NEW x \in Attempts PROVE KnowsOf(x)'
      <4>1. CASE x = a
        BY <2>3, <4>1, AttemptPrimary
      <4>2. CASE x # a /\ RunOf[x] # RunOf[a]
        BY <1>0, <3>0, <4>2, AttemptAssumption DEF KnowsOf, OthersSame, Same
      <4>3. CASE x # a /\ RunOf[x] = RunOf[a]
        <5>1. pc'[x] = pc[x]
          BY <3>0, <4>3 DEF OthersSame, Same
        <5>2. pc[x] \in Active => Needed(a)
          BY <4>3 DEF Needed, Beside
        <5>3. QED
          BY <1>0, <2>3, <4>3, <5>1, <5>2, AttemptPrimary DEF KnowsOf
      <4>4. QED
        BY <4>1, <4>2, <4>3
    <3>3. QED
      BY <3>1, <3>2
  <2>4. QED
    BY <2>1, <2>2, <2>3 DEF Next
<1>4. QED
  BY <1>1, <1>2, <1>3 DEF PrimaryInv, HeadOf, KnowsOf

-----------------------------------------------------------------------------
(* Delivered, of one attempt.                                                *)
DeliveredOf(x) ==
  outcome[x] = "success" =>
    /\ work[x] \subseteq remote[pushed[x]]
    /\ pushed[x] = Task(x) /\ action = "merge-immediately" => work[x] \subseteq remote[Primary]
    /\ pushed[x] = Task(x) /\ action = "push-branch-and-create-mr" =>
         \E i \in DOMAIN requests : requests[i].source = Task(x)

LEMMA DeliveredEach == Delivered <=> \A x \in Attempts : ~ Shared(RunOf[x]) => DeliveredOf(x)
  BY DEF Delivered, DeliveredOf

LEMMA OutcomeOpen ==
  ASSUME NEW x, OnItsWay(x), pc[x] # "ended" PROVE outcome[x] # "success"
  BY DEF OnItsWay

\* Nothing others do takes back what a run delivered, or what it is about to.
LEMMA DeliveredKept ==
  ASSUME TypeOK, NEW x \in Attempts, Same(x), RemoteGrows, action' = action,
         pc[x] \in Active => repo'[RunOf[x]] = repo[RunOf[x]],
         DeliveredOf(x), OnItsWay(x)
  PROVE  DeliveredOf(x)' /\ OnItsWay(x)'
<1>1. pushed[x] \in Branches /\ Primary \in Branches
  BY BranchAssumption DEF TypeOK
<1>2. remote[pushed[x]] \subseteq remote'[pushed[x]] /\ remote[Primary] \subseteq remote'[Primary]
  BY <1>1 DEF RemoteGrows
<1>3. (\E i \in DOMAIN requests : requests[i].source = Task(x))
        => \E i \in DOMAIN requests' : requests'[i].source = Task(x)
  BY DEF RemoteGrows
<1>4. DeliveredOf(x)'
  BY <1>2, <1>3 DEF DeliveredOf, Same
<1>5. OnItsWay(x)'
  <2>1. CASE pc[x] \in Active
    BY <1>2, <2>1 DEF OnItsWay, Same
  <2>2. CASE pc[x] \notin Active
    BY <2>2 DEF OnItsWay, Same, Active, Pushing
  <2>3. QED
    BY <2>1, <2>2
<1>6. QED
  BY <1>4, <1>5

\* A run that fails, or starts again, has delivered nothing.
LEMMA FailedDelivery ==
  ASSUME TypeOK, NEW a \in Attempts, NEW url, Fails(a, url)
  PROVE  DeliveredOf(a)' /\ OnItsWay(a)'
<1>1. outcome'[a] = "failed"
  BY DEF Fails, TypeOK
<1>2. pc'[a] = "ended"
  BY EndsFrame
<1>3. QED
  BY <1>1, <1>2 DEF DeliveredOf, OnItsWay, Pushing

LEMMA EarlyDelivery ==
  ASSUME NEW a \in Attempts, outcome'[a] # "success", pc'[a] \notin Pushing
  PROVE  DeliveredOf(a)' /\ OnItsWay(a)'
  BY DEF DeliveredOf, OnItsWay, Pushing

LEMMA AttemptDelivers ==
  ASSUME TypeOK, PrimaryInv, NEW a \in Attempts, AttemptStep(a), RemoteGrows, action' = action,
         OnItsWay(a), DeliveredOf(a), ~ Shared(RunOf[a])'
  PROVE  DeliveredOf(a)' /\ OnItsWay(a)'
<1> DEFINE g == Clone(a)
<1>1. pushed[a] \in Branches /\ Primary \in Branches /\ Task(a) \in Branches
  BY UrlType, BranchAssumption DEF TypeOK
<1>2. /\ remote[pushed[a]] \subseteq remote'[pushed[a]]
      /\ remote[Primary] \subseteq remote'[Primary]
  BY <1>1 DEF RemoteGrows
<1>3. pc[a] # "ended" => outcome[a] # "success"
  BY OutcomeOpen
<1>4. CASE Fetches(a)
  <2>1. Leaves(a, "fetched") /\ pc[a] # "ended"
    BY <1>4, AfterFetch DEF Fetches
  <2>2. QED
    BY <1>3, <2>1, EarlyDelivery DEF Leaves, Pushing
<1>5. CASE FetchFails(a) \/ PushFails(a) \/ CommitFails(a) \/ SetUrlFails(a)
  BY <1>5, FailedDelivery DEF FetchFails, PushFails, CommitFails, SetUrlFails
<1>6. CASE BranchesOff(a)
  <2>1. CASE Fails(a, RestoresUrl(g).url)
    BY <2>1, FailedDelivery
  <2>2. CASE ~ Fails(a, RestoresUrl(g).url)
    <3>1. Leaves(a, "agent") /\ pc[a] # "ended"
      BY <1>6, <2>2, AfterBranchingOff DEF BranchesOff
    <3>2. QED
      BY <1>3, <3>1, EarlyDelivery DEF Leaves, Pushing
  <2>3. QED
    BY <2>1, <2>2
<1>7. CASE AgentWorks(a)
  <2>1. Leaves(a, pc[a]) /\ pc[a] \in {"agent", "orphan"} /\ pc' = pc
    BY <1>7, AfterEdits
  <2>2. QED
    BY <1>3, <2>1, EarlyDelivery DEF Leaves, Pushing
<1>8. CASE AgentEnds(a)
  <2>1. CASE Fails(a, Clone(a).url)
    BY <2>1, FailedDelivery
  <2>2. CASE ~ Fails(a, Clone(a).url)
    <3>1. Leaves(a, "completed") /\ pc[a] # "ended"
      BY <1>8, <2>2, AfterAgent DEF AgentEnds
    <3>2. QED
      BY <1>3, <3>1, EarlyDelivery DEF Leaves, Pushing
  <2>3. QED
    BY <2>1, <2>2
<1>9. CASE Commits(a)
  <2>1. pc[a] = "completed"
    BY <1>9 DEF Commits
  <2>2. QED
    BY <1>3, <1>9, <2>1, AfterCommitting DEF DeliveredOf, OnItsWay, Leaves, Pushing
<1>10. CASE PushLands(a)
  <2>1. CASE pc[a] = "push"
    <3>1. work'[a] = remote'[pushed'[a]] /\ pushed'[a] = pushed[a] /\ work'[a] = work[a]
          /\ repo'[RunOf[a]].local = g.local
      BY <1>10, <2>1, AfterPushing DEF OnItsWay
    <3>2. pc'[a] = "landed" /\ outcome'[a] # "success"
      BY <1>3, <1>10, <2>1, AfterPushing DEF Leaves
    <3>3. pushed'[a] = Task(a) => work'[a] \subseteq repo'[RunOf[a]].local[Task(a)]
      BY <2>1, <3>1 DEF OnItsWay
    <3>4. QED
      BY <3>1, <3>2, <3>3 DEF DeliveredOf, OnItsWay, Pushing
  <2>2. CASE pc[a] = "pushMerge"
    <3>1. /\ g.head = Primary /\ remote'[Primary] = g.local[Primary]
          /\ pushed'[a] = pushed[a] /\ work'[a] = work[a]
      BY <1>10, <2>2, AfterPushing DEF OnItsWay
    <3>2. pc'[a] = "landedMerge" /\ outcome'[a] # "success"
      BY <1>3, <1>10, <2>2, AfterPushing DEF Leaves
    <3>3. work'[a] \subseteq remote'[pushed'[a]] /\ action = "merge-immediately"
      BY <1>2, <2>2, <3>1 DEF OnItsWay, Pushing
    <3>4. pushed'[a] = Task(a) => work'[a] \subseteq remote'[Primary]
      BY <2>2, <3>1 DEF OnItsWay
    <3>5. QED
      BY <3>2, <3>3, <3>4 DEF DeliveredOf, OnItsWay, Pushing
  <2>3. QED
    BY <1>10, <2>1, <2>2 DEF PushLands
<1>11. CASE PushReturns(a)
  <2>1. pc[a] \in {"landed", "landedMerge"}
    BY <1>11 DEF PushReturns
  <2>2. CASE /\ pc[a] = "landedMerge" \/ AfterPush[action] = "success"
             /\ Succeeds(a, "plain")
    <3>1. pc'[a] = "ended" /\ work'[a] = work[a] /\ pushed'[a] = pushed[a]
      BY <2>2, EndsFrame DEF Succeeds
    <3>2. work'[a] \subseteq remote'[pushed'[a]]
      BY <1>2, <2>1, <3>1 DEF OnItsWay, Pushing
    <3>3. CASE pc[a] = "landedMerge"
      <4>1. action = "merge-immediately"
            /\ (pushed[a] = Task(a) => work[a] \subseteq remote[Primary])
        BY <3>3 DEF OnItsWay
      <4>2. QED
        BY <1>2, <3>1, <3>2, <4>1 DEF DeliveredOf, OnItsWay, Pushing
    <3>4. CASE AfterPush[action] = "success"
      <4>1. action = "push-branch"
        BY <3>4, AfterPushIs
      <4>2. QED
        BY <3>1, <3>2, <4>1 DEF DeliveredOf, OnItsWay, Pushing
    <3>5. QED
      BY <2>2, <3>3, <3>4
  <2>3. CASE /\ pc[a] = "landed" /\ AfterPush[action] # "success"
             /\ Leaves(a, AfterPush[action])
             /\ repo'[RunOf[a]].local = Clone(a).local
             /\ work'[a] = work[a] /\ pushed'[a] = pushed[a]
    <3>1. outcome'[a] # "success" /\ pc'[a] = AfterPush[action]
      BY <1>3, <2>3 DEF Leaves
    <3>2. \/ pc'[a] = "merge" /\ action = "merge-immediately"
          \/ pc'[a] = "request" /\ action = "push-branch-and-create-mr"
      BY <2>3, <3>1, AfterPushIs
    <3>3. work'[a] \subseteq remote'[pushed'[a]]
      BY <1>2, <2>3 DEF OnItsWay, Pushing
    <3>4. pushed'[a] = Task(a) => work'[a] \subseteq repo'[RunOf[a]].local[Task(a)]
      BY <2>3 DEF OnItsWay
    <3>5. QED
      BY <3>1, <3>2, <3>3, <3>4 DEF DeliveredOf, OnItsWay, Pushing
  <2>4. QED
    BY <1>11, <2>2, <2>3, AfterReturning
<1>12. CASE Merges(a)
  <2>1. CASE Fails(a, g.url)
    BY <2>1, FailedDelivery
  <2>2. CASE ~ Fails(a, g.url)
    <3>1. pc[a] = "merge"
      BY <1>12 DEF Merges
    <3>2. detectPrimaryBranch(g) = Primary
      BY <3>1, PrimaryDetected DEF Active, Pushing
    <3>3. /\ pc'[a] = "pushMerge" /\ outcome'[a] # "success"
          /\ repo'[RunOf[a]].head = Primary
          /\ g.local[Task(a)] \subseteq repo'[RunOf[a]].local[Primary]
          /\ work'[a] = work[a] /\ pushed'[a] = pushed[a]
      BY <1>3, <1>12, <2>2, <3>1, <3>2, AfterMerging DEF Leaves
    <3>4. work'[a] \subseteq remote'[pushed'[a]]
      BY <1>2, <3>1, <3>3 DEF OnItsWay, Pushing
    <3>5. pushed'[a] = Task(a) => work'[a] \subseteq repo'[RunOf[a]].local[Primary]
      BY <3>1, <3>3 DEF OnItsWay
    <3>6. action = "merge-immediately"
      BY <3>1 DEF OnItsWay
    <3>7. QED
      BY <3>3, <3>4, <3>5, <3>6 DEF DeliveredOf, OnItsWay, Pushing
  <2>3. QED
    BY <2>1, <2>2
<1>13. CASE RequestsMerge(a)
  <2>1. CASE Fails(a, g.url)
    BY <2>1, FailedDelivery
  <2>2. CASE ~ Fails(a, g.url)
    <3>1. Succeeds(a, g.url) /\ CreatesRequest(Task(a)) /\ pc[a] = "request"
      BY <1>13, <2>2 DEF RequestsMerge
    <3>2. \E i \in DOMAIN requests' : requests'[i].source = Task(a)
      BY <1>1, <3>1, CreatesRequestGrows
    <3>3. pc'[a] = "ended" /\ work'[a] = work[a] /\ pushed'[a] = pushed[a]
      BY <3>1, EndsFrame DEF Succeeds
    <3>4. work'[a] \subseteq remote'[pushed'[a]] /\ action = "push-branch-and-create-mr"
      BY <1>2, <3>1, <3>3 DEF OnItsWay, Pushing
    <3>5. QED
      BY <3>2, <3>3, <3>4 DEF DeliveredOf, OnItsWay, Pushing
  <2>3. QED
    BY <2>1, <2>2
<1>14. CASE LosesLock(a)
  <2>1. Shared(RunOf[a])'
    BY <1>14 DEF LosesLock, Shared
  <2>2. QED
    BY <2>1
<1>15. QED
  BY <1>4, <1>5, <1>6, <1>7, <1>9, <1>10, <1>11, <1>12, <1>13, <1>14, <1>8 DEF AttemptStep

LEMMA CrashDelivers ==
  ASSUME TypeOK, Crash, NEW x \in Attempts, DeliveredOf(x), OnItsWay(x)
  PROVE  DeliveredOf(x)' /\ OnItsWay(x)'
<1>1. outcome'[x] = outcome[x] /\ UNCHANGED <<remote, requests, action>>
  BY DEF Crash, forgeVars
<1>2. CASE pc[x] \in Active
  <2>1. outcome[x] # "success" /\ pc'[x] \notin Pushing
    BY <1>2, OutcomeOpen, CrashType DEF Active, Pushing
  <2>2. QED
    BY <1>1, <2>1, EarlyDelivery
<1>3. CASE pc[x] \notin Active
  <2>1. pc'[x] = pc[x] /\ work'[x] = work[x] /\ pushed'[x] = pushed[x]
    BY <1>3, CrashType
  <2>2. QED
    BY <1>1, <1>3, <2>1 DEF DeliveredOf, OnItsWay, Active, Pushing
<1>4. QED
  BY <1>2, <1>3

LEMMA StepDelivery ==
  ASSUME TypeOK, AloneInv, PrimaryInv, DeliveryInv, [Next]_vars
  PROVE  DeliveryInv'
<1>1. RemoteGrows /\ action' = action
  BY NextGrows
<1>2. \A x \in Attempts : ~ Shared(RunOf[x]) => DeliveredOf(x) /\ OnItsWay(x)
  BY DeliveredEach DEF DeliveryInv
<1>3. ASSUME NEW x \in Attempts, ~ Shared(RunOf[x])' PROVE DeliveredOf(x)' /\ OnItsWay(x)'
  <2>0. RunOf[x] \in Runs /\ ~ Shared(RunOf[x]) /\ DeliveredOf(x) /\ OnItsWay(x)
    BY <1>2, <1>3, SharedStays, AttemptAssumption
  <2>1. CASE PeopleStep \/ UNCHANGED vars
    <3>1. Same(x) /\ repo' = repo
      BY <2>1 DEF PeopleStep, vars, Same
    <3>2. QED
      BY <1>1, <2>0, <3>1, DeliveredKept
  <2>2. CASE Crash
    BY <2>0, <2>2, CrashDelivers
  <2>3. ASSUME NEW a \in Attempts, AttemptStep(a) PROVE DeliveredOf(x)' /\ OnItsWay(x)'
    <3>1. CASE x = a
      BY <1>1, <1>3, <2>0, <2>3, <3>1, AttemptDelivers
    <3>2. CASE x # a
      <4>1. Same(x) /\ (RunOf[x] # RunOf[a] => repo'[RunOf[x]] = repo[RunOf[x]])
        BY <2>0, <2>3, <3>2, AttemptFrame DEF OthersSame
      <4>2. pc[x] \in Active => RunOf[x] # RunOf[a]
        BY <2>0, <2>3, <3>2, OthersRest
      <4>3. QED
        BY <1>1, <2>0, <4>1, <4>2, DeliveredKept
    <3>3. QED
      BY <3>1, <3>2
  <2>4. QED
    BY <2>1, <2>2, <2>3 DEF Next
<1>4. Delivered'
  BY <1>3 DEF Delivered, DeliveredOf
<1>5. QED
  BY <1>3, <1>4 DEF DeliveryInv

(* A run that succeeded has its commit on the remote: on the branch it       *)
(* pushed and, when the agent stayed on its task's branch, in the primary    *)
(* branch or behind a merge request where the project asks for it; and       *)
(* neither other runs, nor people, nor a job delivered again after a crash   *)
(* ever take it away.  Runs in whose clone two have worked at once are left  *)
(* out.                                                                      *)
THEOREM DeliveredStays == ASSUME OnePrimary PROVE Spec => []Delivered
<1>1. Init => PrimaryInv /\ DeliveryInv
  <2> SUFFICES ASSUME Init PROVE PrimaryInv /\ DeliveryInv
    OBVIOUS
  <2>1. PrimaryInv
    BY BranchAssumption DEF Init, ForgeInit, PrimaryInv, NoRepo, Active, Pushing
  <2>2. \A a \in Attempts : OnItsWay(a)
    BY DEF Init, OnItsWay, Pushing
  <2>3. QED
    BY <2>1, <2>2 DEF Init, DeliveryInv, Delivered
<1>2. TypeOK /\ AloneInv /\ PrimaryInv /\ DeliveryInv /\ [Next]_vars => PrimaryInv' /\ DeliveryInv'
  BY OnePrimary, StepPrimary, StepDelivery
<1>3. DeliveryInv => Delivered
  BY DEF DeliveryInv
<1>4. QED
  BY <1>1, <1>2, <1>3, TypeCorrect, AloneStays, PTL DEF Spec

-----------------------------------------------------------------------------
(* What the two clients, the adapters and the tools make of the forge's      *)
(* answers.                                                                  *)
States == {"opened", "closed", "merged"}

Told(f) ==
  /\ \A s \in {"opened", "merged", "all"} : ListsTrue(f, s)
  /\ \A i \in DOMAIN requests : Tool(f, "getMergeRequest", i, f, TRUE) = {Shown(f, i)[2]}
  /\ \A c \in {"queued", "running", "success", "failed"},
        p \in {"gitlab", "github"}, ok \in BOOLEAN :
       Tool(f, "getPipeline", c, p, ok) = IF ok /\ p = f THEN {c} ELSE {}

(* A page has the newest, and everything when everything fits.               *)
LEMMA PageNewest ==
  ASSUME NEW n \in Nat, NEW S \in SUBSET (1..n)
  PROVE  /\ FirstPage(S) \subseteq S
         /\ \A i, k \in S : k < i /\ k \in FirstPage(S) => i \in FirstPage(S)
         /\ Cardinality(S) <= PageSize => FirstPage(S) = S
<1> DEFINE newer(i) == {j \in S : j > i}
<1>1. IsFiniteSet(S) /\ Cardinality(S) \in Nat
  <2>1. 1 \in Int /\ n \in Int
    OBVIOUS
  <2>2. IsFiniteSet(1..n)
    BY <2>1, FS_Interval
  <2>3. QED
    BY <2>2, FS_Subset, FS_CardinalityType
<1>2. \A i \in S : IsFiniteSet(newer(i)) /\ Cardinality(newer(i)) \in Nat
  BY <1>1, FS_Subset, FS_CardinalityType
<1>3. \A i \in S : i \in FirstPage(S) <=> Cardinality(newer(i)) < PageSize
  BY DEF FirstPage
<1>4. ASSUME NEW i \in S, NEW k \in S, k < i
      PROVE  Cardinality(newer(i)) <= Cardinality(newer(k))
  <2>1. newer(i) \subseteq newer(k)
    <3>1. \A j \in S : j > i => j > k
      BY <1>4
    <3>2. QED
      BY <3>1
  <2> HIDE DEF newer
  <2>2. QED
    BY <1>2, <2>1, FS_Subset
<1>5. ASSUME NEW i \in S PROVE Cardinality(newer(i)) < Cardinality(S)
  <2>1. newer(i) \in SUBSET S /\ i \notin newer(i)
    <3>1. ~(i > i)
      BY <1>5
    <3>2. QED
      BY <3>1
  <2> HIDE DEF newer
  <2>2. Cardinality(newer(i)) <= Cardinality(S) /\ Cardinality(newer(i)) # Cardinality(S)
    BY <1>1, <1>5, <2>1, FS_Subset
  <2>3. QED
    BY <1>1, <1>2, <1>5, <2>2
<1>6. PageSize \in Nat
  BY PageAssumption
<1>7. \A i, k \in S : k < i /\ k \in FirstPage(S) => i \in FirstPage(S)
  <2> HIDE DEF newer
  <2>1. QED
    BY <1>2, <1>3, <1>4, <1>6
<1>8. ASSUME Cardinality(S) <= PageSize PROVE \A i \in S : i \in FirstPage(S)
  <2> HIDE DEF newer
  <2>1. QED
    BY <1>1, <1>2, <1>3, <1>5, <1>6, <1>8
<1>9. QED
  BY <1>7, <1>8 DEF FirstPage

(* An answer that has the first page of those asked for, less those that are *)
(* not wanted, is true.                                                      *)
LEMMA PageTrue ==
  ASSUME requests \in Seq(Requests), NEW f, NEW s, Wanted(s) \subseteq Asked(f, s),
         Listed(f, s) = {Shown(f, i) : i \in Wanted(s) \cap FirstPage(Asked(f, s))}
  PROVE  ListsTrue(f, s)
<1> DEFINE told == Wanted(s) \cap FirstPage(Asked(f, s))
<1>1. PICK n \in Nat : Asked(f, s) \in SUBSET (1..n)
  <2>1. Len(requests) \in Nat /\ DOMAIN requests = 1..Len(requests)
    OBVIOUS
  <2>2. QED
    BY <2>1 DEF Asked, Wanted
<1>2. \A i \in Wanted(s) : Shown(f, i) \in Listed(f, s) <=> i \in told
  <2>1. \A i, k : Shown(f, i) = Shown(f, k) => i = k
    BY DEF Shown
  <2> HIDE DEF told
  <2>2. Listed(f, s) = {Shown(f, i) : i \in told}
    BY DEF told
  <2>3. QED
    BY <2>1, <2>2
<1>3. Listed(f, s) \subseteq {Shown(f, i) : i \in Wanted(s)}
  OBVIOUS
<1> DEFINE S == Asked(f, s)
<1>4. /\ \A i, k \in S : k < i /\ k \in FirstPage(S) => i \in FirstPage(S)
      /\ Cardinality(S) <= PageSize => FirstPage(S) = S
  <2> HIDE DEF S
  <2>1. S \in SUBSET (1..n)
    BY <1>1 DEF S
  <2>2. QED
    BY <2>1, PageNewest
<1>5. /\ \A i, k \in Wanted(s) : k < i /\ k \in told => i \in told
      /\ Cardinality(Asked(f, s)) <= PageSize => \A i \in Wanted(s) : i \in told
  <2> HIDE DEF S
  <2>1. told = Wanted(s) \cap FirstPage(S) /\ Wanted(s) \subseteq S /\ S = Asked(f, s)
    BY DEF S
  <2> HIDE DEF told
  <2>2. QED
    BY <1>4, <2>1
<1> HIDE DEF told, S
<1>6. QED
  BY <1>2, <1>3, <1>5 DEF ListsTrue

\* GitHub's answer about a request, read back: the request, "open" for opened.
LEMMA PullRead ==
  ASSUME NEW request \in Requests, NEW single \in BOOLEAN
  PROVE  LET pr == rawToPullRequest(GitHubPull(request, single))
         IN  /\ pr.source = request.source /\ pr.merged = (request.state = "merged")
             /\ pr.state = IF request.state = "opened" THEN "open" ELSE request.state
<1> DEFINE raw == GitHubPull(request, single)
<1>1. request.state \in States
  BY DEF Requests, States
<1>2. /\ raw.source = request.source
      /\ raw.state = IF request.state = "opened" THEN "open" ELSE "closed"
      /\ raw.merged = IF single THEN {request.state = "merged"} ELSE {}
      /\ raw.mergedAt = (request.state = "merged")
  BY DEF GitHubPull
<1>3. (TRUE \in raw.merged \/ (raw.merged = {} /\ raw.mergedAt)) = (request.state = "merged")
  BY <1>2
<1>4. /\ rawToPullRequest(raw).source = raw.source
      /\ rawToPullRequest(raw).merged = (request.state = "merged")
      /\ rawToPullRequest(raw).state = IF request.state = "merged" THEN "merged" ELSE raw.state
  BY <1>3 DEF rawToPullRequest
<1>5. QED
  BY <1>1, <1>2, <1>4 DEF States

LEMMA RunRead ==
  ASSUME NEW c \in {"queued", "running", "success", "failed"}
  PROVE  workflowRunStatus(GitHubRun(c)) = c
<1>1. CASE c \in {"success", "failed"}
  <2>1. GitHubRun(c) = [status |-> "completed", conclusion |-> {c}]
    BY <1>1 DEF GitHubRun
  <2>2. (CHOOSE x \in {c} : TRUE) = c
    OBVIOUS
  <2>3. QED
    BY <2>1, <2>2 DEF workflowRunStatus
<1>2. CASE c \in {"queued", "running"}
  <2>1. GitHubRun(c) = [status |-> c, conclusion |-> {}]
    BY <1>2 DEF GitHubRun
  <2>2. QED
    BY <1>2, <2>1 DEF workflowRunStatus
<1>3. QED
  BY <1>1, <1>2

LEMMA GitLabTools ==
  ASSUME requests \in Seq(Requests)
  PROVE  Told("gitlab")
<1>0. \A i : Shown("gitlab", i) = <<i, requests[i].state>>
  BY DEF Shown
<1>1. ASSUME NEW s \in {"opened", "merged", "all"} PROVE ListsTrue("gitlab", s)
  <2> DEFINE page == FirstPage(Wanted(s))
             answer == {[source |-> i, state |-> requests[i].state] : i \in page}
  <2>1. {j \in DOMAIN requests : s \in {"all", "default", requests[j].state}} = Wanted(s)
    BY DEF Wanted
  <2>2. GitLabServiceImpl("listMergeRequests", s, TRUE) = answer
    BY <2>1 DEF GitLabServiceImpl, fetchJson
  <2>3. Listed("gitlab", s) = {<<mr.source, mr.state>> : mr \in answer}
    BY <2>2 DEF Listed, Tool, GitLabForgeService
  <2>4. {<<mr.source, mr.state>> : mr \in answer} = {Shown("gitlab", i) : i \in page}
    <3>1. ASSUME NEW mr \in answer PROVE \E i \in page : <<mr.source, mr.state>> = Shown("gitlab", i)
      <4>1. PICK i \in page : mr = [source |-> i, state |-> requests[i].state]
        OBVIOUS
      <4>2. QED
        BY <1>0, <4>1
    <3>2. ASSUME NEW i \in page PROVE \E mr \in answer : <<mr.source, mr.state>> = Shown("gitlab", i)
      <4>1. [source |-> i, state |-> requests[i].state] \in answer
        OBVIOUS
      <4>2. QED
        BY <1>0, <4>1
    <3> HIDE DEF answer, page
    <3>3. QED
      BY <3>1, <3>2
  <2>5. Asked("gitlab", s) = Wanted(s) /\ page \subseteq Wanted(s)
    BY DEF Asked, FirstPage
  <2>6. Listed("gitlab", s)
          = {Shown("gitlab", i) : i \in Wanted(s) \cap FirstPage(Asked("gitlab", s))}
    BY <2>3, <2>4, <2>5
  <2>7. QED
    BY <2>5, <2>6, PageTrue
<1>2. ASSUME NEW i \in DOMAIN requests
      PROVE  Tool("gitlab", "getMergeRequest", i, "gitlab", TRUE) = {Shown("gitlab", i)[2]}
  <2>1. GitLabServiceImpl("getMergeRequest", i, TRUE) = {requests[k] : k \in {i}}
    BY DEF GitLabServiceImpl, fetchJson
  <2>2. Tool("gitlab", "getMergeRequest", i, "gitlab", TRUE)
          = {mr.state : mr \in {requests[k] : k \in {i}}}
    BY <2>1 DEF Tool, GitLabForgeService
  <2>3. Shown("gitlab", i)[2] = requests[i].state
    BY DEF Shown
  <2>4. QED
    BY <2>2, <2>3
<1>3. ASSUME NEW c \in {"queued", "running", "success", "failed"},
             NEW p \in {"gitlab", "github"}, NEW ok \in BOOLEAN
      PROVE  Tool("gitlab", "getPipeline", c, p, ok) = IF ok /\ p = "gitlab" THEN {c} ELSE {}
  BY DEF Tool, GitLabForgeService, GitLabServiceImpl, fetchJson
<1>4. QED
  BY <1>1, <1>2, <1>3 DEF Told

LEMMA GitHubTools ==
  ASSUME requests \in Seq(Requests)
  PROVE  Told("github")
<1> DEFINE pull(i, single) == rawToPullRequest(GitHubPull(requests[i], single))
<1>0. \A i \in DOMAIN requests, single \in BOOLEAN :
        /\ requests[i].state \in States
        /\ pull(i, single).merged = (requests[i].state = "merged")
        /\ Shown("github", i) = <<i, pull(i, single).state>>
  <2> SUFFICES ASSUME NEW i \in DOMAIN requests, NEW single \in BOOLEAN
               PROVE  /\ requests[i].state \in States
                      /\ pull(i, single).merged = (requests[i].state = "merged")
                      /\ Shown("github", i) = <<i, pull(i, single).state>>
    OBVIOUS
  <2>1. requests[i] \in Requests
    OBVIOUS
  <2>2. requests[i].state \in States
    BY <2>1 DEF Requests, States
  <2>3. QED
    BY <2>1, <2>2, PullRead DEF Shown
<1>1. ASSUME NEW s \in {"opened", "merged", "all"} PROVE ListsTrue("github", s)
  <2> DEFINE asked == {j \in DOMAIN requests : GitHubPull(requests[j], FALSE).state
                                                 \in toGitHubPrState(s)}
             listed(i) == [pull(i, FALSE) EXCEPT !.source = i]
             answer == {listed(i) : i \in FirstPage(asked)}
             told == Wanted(s) \cap FirstPage(Asked("github", s))
  <2>1. GitHubServiceImpl("listMergeRequests", s, TRUE) = answer
    BY DEF GitHubServiceImpl, fetchJson
  <2>2. Listed("github", s) =
          {<<pr.source, pr.state>> : pr \in {p \in answer : s = "merged" => p.merged}}
    BY <2>1 DEF Listed, Tool, GitHubForgeService
  <2>3. \A i \in DOMAIN requests :
          /\ <<listed(i).source, listed(i).state>> = Shown("github", i)
          /\ listed(i).merged = (requests[i].state = "merged")
    BY <1>0 DEF rawToPullRequest
  <2>4. asked = Asked("github", s)
    <3>1. \A i \in DOMAIN requests :
            GitHubPull(requests[i], FALSE).state = IF requests[i].state = "opened" THEN "open" ELSE "closed"
      BY DEF GitHubPull
    <3>2. toGitHubPrState(s) = IF s = "opened" THEN {"open"}
                               ELSE IF s = "merged" THEN {"closed"} ELSE {"open", "closed"}
      BY DEF toGitHubPrState
    <3>3. \A i \in DOMAIN requests : i \in asked <=> i \in Asked("github", s)
      BY <1>0, <3>1, <3>2 DEF Asked, Wanted, States
    <3>4. asked \subseteq DOMAIN requests /\ Asked("github", s) \subseteq DOMAIN requests
      BY DEF Asked, Wanted
    <3>5. QED
      BY <3>3, <3>4
  <2>5. /\ Wanted(s) \subseteq Asked("github", s)
        /\ \A i \in Asked("github", s) :
             i \in DOMAIN requests /\ (i \in Wanted(s) <=> (s = "merged" => requests[i].state = "merged"))
    BY <1>0 DEF Asked, Wanted, States
  <2>6. FirstPage(asked) \subseteq Asked("github", s) /\ FirstPage(asked) = FirstPage(Asked("github", s))
    BY <2>4 DEF FirstPage
  <2> HIDE DEF listed, asked
  <2>7. {<<pr.source, pr.state>> : pr \in {p \in answer : s = "merged" => p.merged}}
          = {Shown("github", i) : i \in told}
    <3> DEFINE kept == {p \in answer : s = "merged" => p.merged}
    <3>1. ASSUME NEW pr \in kept
          PROVE  \E i \in told : <<pr.source, pr.state>> = Shown("github", i)
      <4>1. PICK i \in FirstPage(asked) : pr = listed(i)
        OBVIOUS
      <4>2. i \in DOMAIN requests /\ (s = "merged" => pr.merged)
        BY <2>5, <2>6
      <4>3. i \in told
        BY <2>3, <2>5, <2>6, <4>1, <4>2
      <4>4. QED
        BY <2>3, <4>1, <4>2, <4>3
    <3>2. ASSUME NEW i \in told
          PROVE  \E pr \in kept : <<pr.source, pr.state>> = Shown("github", i)
      <4>1. i \in FirstPage(asked) /\ i \in DOMAIN requests
            /\ (s = "merged" => requests[i].state = "merged")
        BY <2>5, <2>6
      <4>2. listed(i) \in kept
        BY <2>3, <4>1
      <4> HIDE DEF kept
      <4>3. QED
        BY <2>3, <4>1, <4>2
    <3> HIDE DEF kept, told
    <3>3. {<<pr.source, pr.state>> : pr \in kept} = {Shown("github", i) : i \in told}
      BY <3>1, <3>2
    <3>4. QED
      BY <3>3 DEF kept
  <2>8. QED
    BY <2>2, <2>5, <2>7, PageTrue
<1>2. ASSUME NEW i \in DOMAIN requests
      PROVE  Tool("github", "getMergeRequest", i, "github", TRUE) = {Shown("github", i)[2]}
  <2>1. GitHubServiceImpl("getMergeRequest", i, TRUE) = {pull(k, TRUE) : k \in {i}}
    BY DEF GitHubServiceImpl, fetchJson
  <2>2. Tool("github", "getMergeRequest", i, "github", TRUE)
          = {pr.state : pr \in {pull(k, TRUE) : k \in {i}}}
    BY <2>1 DEF Tool, GitHubForgeService
  <2>3. Shown("github", i)[2] = pull(i, TRUE).state
    <3>1. Shown("github", i) = <<i, pull(i, TRUE).state>>
      BY <1>0
    <3> HIDE DEF pull
    <3>2. \A x : <<i, x>>[2] = x
      OBVIOUS
    <3>3. QED
      BY <3>1, <3>2
  <2> HIDE DEF pull
  <2>4. QED
    BY <2>2, <2>3
<1>3. ASSUME NEW c \in {"queued", "running", "success", "failed"},
             NEW p \in {"gitlab", "github"}, NEW ok \in BOOLEAN
      PROVE  Tool("github", "getPipeline", c, p, ok) = IF ok /\ p = "github" THEN {c} ELSE {}
  <2>1. GitHubServiceImpl("getPipeline", c, ok) = IF ok THEN {c} ELSE {}
    BY RunRead DEF GitHubServiceImpl, fetchJson
  <2>2. QED
    BY <2>1 DEF Tool, GitHubForgeService
<1>4. QED
  BY <1>1, <1>2, <1>3 DEF Told

(* Whatever requests there are, in whatever states and however many, and     *)
(* whatever the size of a page: a list an agent gets has only requests in    *)
(* the state asked for, in the state they are in, the newest first, and all  *)
(* of them where those the forge was asked for fit on a page; and what it is *)
(* told of one request or of a pipeline is so, on either forge.              *)
THEOREM AnswersAreTrue == Spec => AnswersTrue
<1>1. TypeOK => Answers
  <2> SUFFICES ASSUME TypeOK PROVE Answers
    OBVIOUS
  <2>1. requests \in Seq(Requests)
    BY DEF TypeOK
  <2>2. \A f \in {"gitlab", "github"} : Told(f)
    BY <2>1, GitLabTools, GitHubTools
  <2>3. QED
    BY <2>2 DEF Answers, Told
<1>2. TypeOK /\ [Next]_vars => TypeOK'
  BY StepType
<1>3. TypeOK' => Answers'
  BY <1>1, PTL
<1>4. QED
  BY <1>2, <1>3, TypeCorrect, PTL DEF Spec, AnswersTrue
=============================================================================
