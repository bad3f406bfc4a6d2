------------------------------- MODULE Forge -------------------------------
(* The forge (GitLab or GitHub) that hosts a project's repository, and the   *)
(* server's way to it: the two REST clients, the adapters that give both one *)
(* interface, and the MCP tools that offer it to an agent.  A branch's       *)
(* history is the set of its commits.                                        *)
EXTENDS Naturals, Sequences, FiniteSets

CONSTANTS
  Branches,      \* the branches a repository may have
  Primary,       \* the primary branch of the repository
  PageSize,      \* how many requests the forge puts in one answer
  MaxRequests    \* bound: merge requests opened

ASSUME PageAssumption == PageSize \in Nat \ {0}

VARIABLES
  remote,        \* branch -> its history, {} when there is no such branch
  requests       \* the merge requests: the branch each would merge, its state

forgeVars == <<remote, requests>>

ForgeInit ==
  /\ remote = [b \in Branches |-> IF b = Primary THEN {0} ELSE {}]
  /\ requests = <<>>

Open(b) == \E i \in DOMAIN requests : requests[i] = [source |-> b, state |-> "opened"]

-----------------------------------------------------------------------------
(* What the forges answer.  GitHub has no state "merged": such a request is  *)
(* closed and has a date of merging, and only the answer about one request   *)
(* says "merged" outright.                                                   *)
GitHubPull(request, single) ==
  [source |-> request.source,
   state |-> IF request.state = "opened" THEN "open" ELSE "closed",
   merged |-> IF single THEN {request.state = "merged"} ELSE {},
   mergedAt |-> request.state = "merged"]

\* A pipeline is known by its status, the argument that names it.
GitHubRun(pipeline) ==
  [status |-> IF pipeline \in {"success", "failed"} THEN "completed" ELSE pipeline,
   conclusion |-> IF pipeline \in {"success", "failed"} THEN {pipeline} ELSE {}]

\* Mutant of rawToPullRequest: only the flag is read.
rawToPullRequestByFlag(raw) ==
  [source |-> raw.source, merged |-> TRUE \in raw.merged,
   state |-> IF TRUE \in raw.merged THEN "merged" ELSE raw.state]

(* The GitHub client: the flag where the answer has it, else the date.       *)
rawToPullRequest(raw) ==
  LET merged == TRUE \in raw.merged \/ (raw.merged = {} /\ raw.mergedAt)
  IN  [source |-> raw.source, merged |-> merged,
       state |-> IF merged THEN "merged" ELSE raw.state]

workflowRunStatus(raw) ==
  IF raw.status = "completed" /\ raw.conclusion # {}
  THEN CHOOSE c \in raw.conclusion : TRUE ELSE raw.status

toGitHubPrState(state) ==
  CASE state = "opened" -> {"open"} [] state \in {"closed", "merged"} -> {"closed"}
    [] state = "all" -> {"open", "closed"}
    [] OTHER -> {"open"}     \* not sent: the forge's default

-----------------------------------------------------------------------------
(* A list comes in pages, the newest first; the clients ask for no page and  *)
(* follow no link to the next.                                               *)
FirstPage(S) == {i \in S : Cardinality({j \in S : j > i}) < PageSize}

(* The clients.  An answer is a set of values, {} for an error: the status   *)
(* was not 2xx, or fetch threw.                                              *)
fetchJson(answer, ok) == IF ok THEN answer ELSE {}

GitHubServiceImpl(op, arg, ok) ==
  CASE op = "getMergeRequest" ->
         fetchJson({rawToPullRequest(GitHubPull(requests[i], TRUE)) : i \in {arg}}, ok)
    [] op = "listMergeRequests" ->
         fetchJson({[rawToPullRequest(GitHubPull(requests[i], FALSE)) EXCEPT !.source = i] :
                      i \in FirstPage({j \in DOMAIN requests :
                                GitHubPull(requests[j], FALSE).state \in toGitHubPrState(arg)})}, ok)
    [] op = "getPipeline" -> fetchJson({workflowRunStatus(GitHubRun(arg))}, ok)

GitLabServiceImpl(op, arg, ok) ==
  CASE op = "getMergeRequest" -> fetchJson({requests[i] : i \in {arg}}, ok)
    [] op = "listMergeRequests" ->
         fetchJson({[source |-> i, state |-> requests[i].state] :
                      i \in FirstPage({j \in DOMAIN requests :
                                arg \in {"all", "default", requests[j].state}})}, ok)
    [] op = "getPipeline" -> fetchJson({arg}, ok)

(* The adapters refuse the id of another forge before they ask; GitHub's     *)
(* also picks the merged requests out of the closed ones it was given.       *)
GitHubForgeService(op, arg, platform, ok) ==
  LET answer == GitHubServiceImpl(op, arg, ok) IN
  CASE op # "listMergeRequests" /\ platform # "github" -> {}
    [] op = "getMergeRequest" /\ platform = "github" -> {pr.state : pr \in answer}
    [] op = "listMergeRequests" ->
         {<<pr.source, pr.state>> : pr \in {p \in answer : arg = "merged" => p.merged}}
    [] op = "getPipeline" /\ platform = "github" -> answer

GitLabForgeService(op, arg, platform, ok) ==
  LET answer == GitLabServiceImpl(op, arg, ok) IN
  CASE op # "listMergeRequests" /\ platform # "gitlab" -> {}
    [] op = "getMergeRequest" /\ platform = "gitlab" -> {mr.state : mr \in answer}
    [] op = "listMergeRequests" -> {<<mr.source, mr.state>> : mr \in answer}
    [] op = "getPipeline" /\ platform = "gitlab" -> answer

(* The MCP tools find the project's forge and name the forge of an id as     *)
(* the agent gives it.                                                       *)
Tool(forgeType, op, arg, platform, ok) ==
  IF forgeType = "gitlab" THEN GitLabForgeService(op, arg, platform, ok)
                          ELSE GitHubForgeService(op, arg, platform, ok)

-----------------------------------------------------------------------------
(* A merge request needs its branch, and no other open one of it.  With      *)
(* nothing to merge GitHub refuses, GitLab does not.                         *)
Accepts(b) == remote[b] # {} /\ ~Open(b)

Refuses(b) == ~Accepts(b) \/ remote[b] \subseteq remote[Primary]

(* POST to the forge.                                                        *)
CreatesRequest(b) ==
  /\ Accepts(b)
  /\ Len(requests) < MaxRequests
  /\ requests' = Append(requests, [source |-> b, state |-> "opened"])
  /\ UNCHANGED remote

(* A push that arrives: only a history that contains the branch's is taken.  *)
FastForward(b, history) == remote[b] \subseteq history

Receives(b, history) ==
  /\ FastForward(b, history)
  /\ remote' = [remote EXCEPT ![b] = history]
  /\ UNCHANGED requests

(* People merge and close requests.                                          *)
Settles(i, commit) ==
  /\ requests[i].state = "opened"
  /\ \/ /\ requests' = [requests EXCEPT ![i].state = "closed"]
        /\ UNCHANGED remote
     \/ /\ requests' = [requests EXCEPT ![i].state = "merged"]
        /\ remote' = [remote EXCEPT ![Primary] = @ \cup remote[requests[i].source] \cup {commit}]

-----------------------------------------------------------------------------
\* A request in the words of a forge, the requests in a state, and those the
\* forge is asked for: for merged ones GitHub is asked for the closed ones.
Shown(f, i) == <<i, IF f = "github" /\ requests[i].state = "opened" THEN "open" ELSE requests[i].state>>
Wanted(s) == {i \in DOMAIN requests : s \in {"all", requests[i].state}}
Asked(f, s) == IF f = "github" /\ s = "merged" THEN {i \in DOMAIN requests : requests[i].state # "opened"}
                                              ELSE Wanted(s)
Listed(f, s) == Tool(f, "listMergeRequests", s, f, TRUE)

\* What the tools answer, for each forge: requests by their state, one by its
\* id, a pipeline.
ListsTrue(f, s) ==
  /\ Listed(f, s) \subseteq {Shown(f, i) : i \in Wanted(s)}
  /\ \A i, k \in Wanted(s) : k < i /\ Shown(f, k) \in Listed(f, s) => Shown(f, i) \in Listed(f, s)
  /\ Cardinality(Asked(f, s)) <= PageSize => \A i \in Wanted(s) : Shown(f, i) \in Listed(f, s)

Answers ==
  \A f \in {"gitlab", "github"} :
    /\ \A s \in {"opened", "merged", "all"} : ListsTrue(f, s)
    /\ \A i \in DOMAIN requests : Tool(f, "getMergeRequest", i, f, TRUE) = {Shown(f, i)[2]}
    /\ \A c \in {"queued", "running", "success", "failed"},
          p \in {"gitlab", "github"}, ok \in BOOLEAN :
         Tool(f, "getPipeline", c, p, ok) = IF ok /\ p = f THEN {c} ELSE {}

(* What an agent is told is so, on either forge.  A list has only requests   *)
(* in the state asked for, each shown in the state it is in, though GitHub's *)
(* lists never say "merged"; it leaves out no request newer than one it has; *)
(* and it leaves out none when those the forge was asked for fit on a page.  *)
(* A pipeline is reported failed or passed exactly when it is; and an id of  *)
(* one forge is never looked up on the other.                                *)
AnswersTrue == [][requests' # requests => Answers']_requests

(* "Filter by state" (forge-mcp-handlers.ts:73): an agent that asks for the  *)
(* requests in a state is not told that there are none when there are.       *)
FoundByState ==
  \A f \in {"gitlab", "github"}, s \in {"opened", "merged", "all"} :
    Wanted(s) # {} => Listed(f, s) # {}
=============================================================================
