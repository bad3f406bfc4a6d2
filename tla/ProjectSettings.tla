-------------------------- MODULE ProjectSettings --------------------------
(* The settings of a workspace, a project and a task, the requests that      *)
(* write them and a run that reads them.  Every request is a transaction at  *)
(* READ COMMITTED: each of its statements sees what is committed when the    *)
(* statement starts, and waits for another transaction that has written the  *)
(* row it wants to write.                                                    *)
EXTENDS Naturals, Sequences, FiniteSets

CONSTANTS
  Requests,      \* PATCH and PUT requests
  Harnesses,     \* the agent harnesses; "opencode" is one of them
  EnvKeys,       \* harnesses with a key in the server's environment
  Hosts,         \* forges
  OldHosts,      \* forges not under HTTPS, in rows older than the validation
  BasePath,      \* forge -> the sub-path it is mounted under, <<>> for none
  Paths,         \* paths of repository URLs that requests give
  VmEndpoints,   \* can a VM reach the server?
  Nothing        \* no row, no model, no value

(* The settings, named by who they are for.                                  *)
HarnessSlots == {"task", "project", "workspace"}
SandboxSlots == {"project sandbox", "workspace sandbox"}
WorkspaceSlots == {"workspace", "workspace sandbox"}
Slots == HarnessSlots \cup SandboxSlots

ASSUME SettingsAssumption ==
  /\ "opencode" \in Harnesses
  /\ Harnesses \subseteq {"opencode", "claude-code", "cursor-cli", "codex-cli"}
  /\ EnvKeys \subseteq Harnesses
  /\ VmEndpoints \in BOOLEAN
  /\ Nothing \notin Requests \cup Slots \cup [host : Hosts, path : Seq(STRING)]

(* A path is the sequence of its segments; one that ends in a slash has an   *)
(* empty last one.                                                           *)
ASSUME ForgeAssumption ==
  /\ OldHosts \subseteq Hosts
  /\ BasePath \in [Hosts -> Seq(STRING)]
  /\ Paths \subseteq Seq(STRING)

(* A model is named by the harness that offers it.                           *)
Configs == [harness : Harnesses, model : Harnesses \cup {Nothing}]
SandboxTypes == {"docker", "vm"}

VARIABLES
  project,       \* the row of the project, Nothing without one
  rows,          \* setting -> the committed value
  oauth,         \* has the workspace's owner connected Codex?
  lock,          \* setting or "row" -> the request that has written it
  req,           \* the requests
  run            \* a run that prepares its sandbox

settingsVars == <<project, rows, oauth, lock, req, run>>
world == <<oauth, run>>

(* What a PATCH of a project writes besides its harness.                     *)
NoPatch == [host |-> Nothing, repository |-> Nothing, token |-> FALSE, saw |-> Nothing]
Idle == [at |-> "new", slot |-> Nothing, value |-> Nothing, holds |-> FALSE,
         patch |-> NoPatch]
NoRun == [at |-> "new", got |-> [s \in HarnessSlots |-> Nothing], sandbox |-> Nothing,
          harness |-> Nothing, model |-> Nothing, credential |-> "none"]

(* The forge's sub-path is no part of the project's path.                    *)
getForgeProjectPath(host, path) ==
  LET n == Len(BasePath[host]) IN
  IF n > 0 /\ n < Len(path) /\ SubSeq(path, 1, n) = BasePath[host]
  THEN SubSeq(path, n + 1, Len(path)) ELSE path

(* The URL under the forge; none, an exception, for a forge that is not      *)
(* under HTTPS or when no path is left.                                      *)
buildHttpsRepositoryUrl(host, path) ==
  LET rest == getForgeProjectPath(host, path) IN
  IF host \in OldHosts \/ rest \in {<<>>, <<"">>} THEN {}
  ELSE {[host |-> host, path |-> BasePath[host] \o rest]}

Stored(host, path) ==
  IF host \in OldHosts THEN {[host |-> host, path |-> path]} ELSE buildHttpsRepositoryUrl(host, path)

SettingsInit ==
  /\ \E host \in Hosts, path \in Paths, secret, tasks \in BOOLEAN : \E url \in Stored(host, path) :
       project = [host |-> host, repository |-> url, secret |-> secret, tasks |-> tasks]
  /\ rows = [s \in Slots |-> Nothing]
  /\ oauth \in BOOLEAN
  /\ lock = [s \in Slots \cup {"row"} |-> Nothing]
  /\ req = [q \in Requests |-> Idle]
  /\ run = NoRun

Ended(how) == [Idle EXCEPT !.at = how]
Proceeds(q, l) == req' = [req EXCEPT ![q].at = l]
Frees(q) == lock' = [l \in DOMAIN lock |-> IF lock[l] = q THEN Nothing ELSE lock[l]]

getAvailability(h) == h = "opencode" \/ h \in EnvKeys \/ (h = "codex-cli" /\ oauth)

validateAgentConfig(c) ==
  c # Nothing => getAvailability(c.harness) /\ c.model \in {Nothing, c.harness}

-----------------------------------------------------------------------------
createProject(host, url) ==
  [host |-> host, repository |-> url, secret |-> TRUE, tasks |-> FALSE]

(* POST: the project, its harness and its token in one transaction, which    *)
(* nobody sees before it is committed.                                       *)
Creates ==
  /\ project = Nothing
  /\ \E host \in Hosts, path \in Paths, c \in Configs \cup {Nothing} :
       /\ validateAgentConfig(c)
       /\ \E url \in buildHttpsRepositoryUrl(host, path) : project' = createProject(host, url)
       /\ rows' = [rows EXCEPT !["project"] = c]
  /\ UNCHANGED <<lock, req, world>>

(* DELETE: nothing that refers to the project is deleted with it, so a row   *)
(* that does makes the statement fail.                                       *)
Deletes ==
  /\ project # Nothing
  /\ ~project.secret /\ ~project.tasks
  /\ \A s \in Slots \ WorkspaceSlots : rows[s] = Nothing /\ lock[s] = Nothing
  /\ lock["row"] = Nothing
  /\ project' = Nothing
  /\ UNCHANGED <<rows, lock, req, world>>

(* A request that sets the setting s to the value v, null to inherit it.     *)
Sets(q, s, v) ==
  /\ req[q].at = "new"
  /\ req' = [req EXCEPT ![q] = [Idle EXCEPT !.at = "find", !.slot = s, !.value = v]]
  /\ UNCHANGED <<project, rows, lock, world>>

updateWorkspace(q) ==
  \E c \in Configs \cup {Nothing} : validateAgentConfig(c) /\ Sets(q, "workspace", c)

updateTask(q) ==
  /\ project # Nothing /\ project.tasks
  /\ \E c \in Configs \cup {Nothing} : validateAgentConfig(c) /\ Sets(q, "task", c)

putProjectSandboxType(q) ==
  /\ project # Nothing
  /\ \E type \in SandboxTypes \cup {Nothing} : Sets(q, "project sandbox", type)

putWorkspaceSandboxType(q) ==
  \E type \in SandboxTypes \cup {Nothing} : Sets(q, "workspace sandbox", type)

\* Mutant: a new forge alone leaves the repository's URL as it was.
PatchesAsGiven(row, body) ==
  IF body.repository = Nothing THEN {[body EXCEPT !.saw = row.host]}
  ELSE {[body EXCEPT !.saw = row.host, !.repository = url] :
          url \in buildHttpsRepositoryUrl(IF body.host = Nothing THEN row.host ELSE body.host,
                                          body.repository)}

(* A PATCH of the project's other columns, with or without its harness: a    *)
(* new forge or a new path gives the repository a new URL, from the columns  *)
(* as they are now where the request gives none.  No patch: an exception.    *)
Patches(row, body) ==
  LET host == IF body.host = Nothing THEN row.host ELSE body.host
      path == IF body.repository = Nothing THEN row.repository.path ELSE body.repository
  IN  IF body.host = Nothing /\ body.repository = Nothing THEN {[body EXCEPT !.saw = row.host]}
      ELSE {[body EXCEPT !.saw = row.host, !.repository = url] :
              url \in buildHttpsRepositoryUrl(host, path)}

Bodies == [host : (Hosts \ OldHosts) \cup {Nothing}, repository : Paths \cup {Nothing},
           token : BOOLEAN, saw : {Nothing}] \ {NoPatch}

ValidatesPatch(q) ==
  /\ req[q].at = "new"
  /\ project # Nothing
  /\ \E body \in Bodies, s \in {Nothing, "project"}, v \in Configs \cup {Nothing} :
       /\ validateAgentConfig(v)
       /\ s = Nothing => v = Nothing
       /\ \/ \E patch \in Patches(project, body) :
               req' = [req EXCEPT ![q] = [Idle EXCEPT !.at = "update", !.slot = s, !.value = v,
                                                      !.patch = patch]]
          \/ /\ Patches(project, body) = {}
             /\ req' = [req EXCEPT ![q] = Ended("failed")]
  /\ UNCHANGED <<project, rows, lock, world>>

(* UPDATE projects, which waits for another that has written the row.        *)
Updates(q) ==
  /\ req[q].at = "update"
  /\ IF req[q].patch.repository = Nothing THEN UNCHANGED lock
     ELSE lock["row"] = Nothing /\ lock' = [lock EXCEPT !["row"] = q]
  /\ Proceeds(q, IF req[q].slot = Nothing THEN "commit" ELSE "find")
  /\ UNCHANGED <<project, rows, world>>

(* set...Config, first its DELETE, for the row it finds there, ...           *)
Finds(q) ==
  /\ req[q].at = "find"
  /\ Proceeds(q, IF rows[req[q].slot] = Nothing THEN "insert" ELSE "delete")
  /\ UNCHANGED <<project, rows, lock, world>>

(* ... which waits for a transaction that has written that row.              *)
DeletesRow(q) ==
  LET s == req[q].slot IN
  /\ req[q].at = "delete"
  /\ lock[s] = Nothing
  /\ lock' = [lock EXCEPT ![s] = q]
  /\ req' = [req EXCEPT ![q].at = "insert", ![q].holds = TRUE]
  /\ UNCHANGED <<project, rows, world>>

(* Then its INSERT, unless the value is null.  The index admits one row: the *)
(* statement waits for whoever is writing it, and with a row already there   *)
(* that this transaction did not delete, it fails and all is rolled back.    *)
Clashes(q) ==
  LET s == req[q].slot IN
  (rows[s] # Nothing /\ ~req[q].holds) \/ (project = Nothing /\ s \notin WorkspaceSlots)

\* Mutant: the row that is there is left alone (ON CONFLICT DO NOTHING).
FailsSilently(q) == Proceeds(q, "commit") /\ UNCHANGED lock

Fails(q) == req' = [req EXCEPT ![q] = Ended("failed")] /\ Frees(q)

Inserts(q) ==
  LET s == req[q].slot IN
  /\ req[q].at = "insert"
  /\ req[q].value # Nothing => lock[s] \in {Nothing, q}
  /\ \/ /\ req[q].value = Nothing
        /\ Proceeds(q, "commit")
        /\ UNCHANGED lock
     \/ /\ req[q].value # Nothing /\ ~Clashes(q)
        /\ lock' = [lock EXCEPT ![s] = q]
        /\ req' = [req EXCEPT ![q].at = "commit", ![q].holds = TRUE]
     \/ /\ req[q].value # Nothing /\ Clashes(q)
        /\ Fails(q)
  /\ UNCHANGED <<project, rows, world>>

Patched(row, patch) ==
  [row EXCEPT !.host = IF patch.host = Nothing THEN @ ELSE patch.host,
              !.repository = IF patch.repository = Nothing THEN @ ELSE patch.repository,
              !.secret = @ \/ patch.token]

(* Whoever still waited to delete the row finds it gone: the one that came   *)
(* in its place was not there when the statement started.                    *)
FindGone(s) ==
  [p \in Requests |-> IF req[p].at = "delete" /\ req[p].slot = s
                      THEN [req[p] EXCEPT !.at = "insert"] ELSE req[p]]

(* The answer is sent after the commit.                                      *)
Commits(q) ==
  LET s == req[q].slot IN
  /\ req[q].at = "commit"
  /\ rows' = IF req[q].holds THEN [rows EXCEPT ![s] = req[q].value] ELSE rows
  /\ req' = [IF req[q].holds THEN FindGone(s) ELSE req EXCEPT ![q] = Ended("answered")]
  /\ project' = IF req[q].patch = NoPatch \/ project = Nothing THEN project
                ELSE Patched(project, req[q].patch)
  /\ Frees(q)
  /\ UNCHANGED world

(* The owner connects and disconnects Codex.                                 *)
Connects ==
  /\ oauth' = ~oauth
  /\ UNCHANGED <<project, rows, lock, req, run>>

-----------------------------------------------------------------------------
(* The harness adapters: what the agent's container is given.                *)
Given(model, credential) == [model |-> model, credential |-> credential]

OpenCodeHarness(auth, model) ==
  Given(IF model = Nothing THEN "opencode" ELSE model, IF auth = "api-key" THEN auth ELSE "none")
ClaudeCodeHarness(auth, model) == Given(model, IF auth = "api-key" THEN auth ELSE "none")
CursorCliHarness(auth, model) == Given(model, IF auth = "api-key" THEN auth ELSE "none")
CodexCliHarness(auth, model) ==
  Given(model, IF auth \in {"api-key", "files-and-env"} THEN auth ELSE "none")

prepareHarness(h, auth, model) ==
  CASE h = "opencode" -> OpenCodeHarness(auth, model)
    [] h = "claude-code" -> ClaudeCodeHarness(auth, model)
    [] h = "cursor-cli" -> CursorCliHarness(auth, model)
    [] h = "codex-cli" -> CodexCliHarness(auth, model)

(* The owner's credential comes before the environment's key.                *)
getAuthArtifacts(h) ==
  IF h = "codex-cli" /\ oauth THEN "files-and-env"
  ELSE IF h \in EnvKeys THEN "api-key" ELSE "none"

\* Mutant: harness and model are looked up apart.
ResolvesApart(got) ==
  LET First(f) == IF got["task"] # Nothing /\ got["task"][f] # Nothing THEN got["task"][f]
                  ELSE IF got["project"] # Nothing /\ got["project"][f] # Nothing
                  THEN got["project"][f]
                  ELSE IF got["workspace"] # Nothing THEN got["workspace"][f] ELSE Nothing
  IN  [harness |-> IF First("harness") = Nothing THEN "opencode" ELSE First("harness"),
       model |-> First("model")]

resolveHarnessConfig(got) ==
  IF got["task"] # Nothing THEN got["task"]
  ELSE IF got["project"] # Nothing THEN got["project"]
  ELSE IF got["workspace"] # Nothing THEN got["workspace"]
  ELSE [harness |-> "opencode", model |-> Nothing]

RunFailed == [NoRun EXCEPT !.at = "failed"]

(* A run has been given a task of the project and needs its token and a URL  *)
(* to clone.                                                                 *)
RunChecksOut ==
  /\ run.at = "new"
  /\ project # Nothing /\ project.tasks
  /\ run' = IF project.secret /\ buildHttpsRepositoryUrl(project.host, project.repository.path) # {}
            THEN [run EXCEPT !.at = "reads"] ELSE RunFailed
  /\ UNCHANGED <<project, rows, oauth, lock, req>>

(* The settings are read one statement after another.                        *)
RunReadsSandboxes ==
  /\ run.at \in {"reads", "resolve sandbox"}
  /\ run' = IF run.at = "reads" /\ rows["project sandbox"] = Nothing
            THEN [run EXCEPT !.at = "resolve sandbox"]
            ELSE LET s == IF run.at = "reads" THEN "project sandbox" ELSE "workspace sandbox"
                 IN  [run EXCEPT !.at = "match", !.sandbox = rows[s]]
  /\ UNCHANGED <<project, rows, oauth, lock, req>>

(* A VM cannot be used before the server's address is configured.            *)
RunMatches ==
  LET type == IF run.sandbox = Nothing THEN "docker" ELSE run.sandbox IN
  /\ run.at = "match"
  /\ run' = IF type = "vm" /\ ~VmEndpoints THEN RunFailed
            ELSE [run EXCEPT !.sandbox = type, !.at = "task"]
  /\ UNCHANGED <<project, rows, oauth, lock, req>>

FollowingRead == [task |-> "project", project |-> "workspace", workspace |-> "resolve"]

RunReads ==
  /\ run.at \in HarnessSlots
  /\ run' = [run EXCEPT !.got[run.at] = rows[run.at], !.at = FollowingRead[run.at]]
  /\ UNCHANGED <<project, rows, oauth, lock, req>>

(* Without credentials only OpenCode starts.                                 *)
RunPrepares ==
  LET config == resolveHarnessConfig(run.got)
      auth == getAuthArtifacts(config.harness)
      given == prepareHarness(config.harness, auth, config.model)
  IN
  /\ run.at = "resolve"
  /\ run' = IF config.harness # "opencode" /\ auth = "none"
            THEN RunFailed
            ELSE [NoRun EXCEPT !.at = "prepared", !.sandbox = run.sandbox, !.harness = config.harness,
                             !.model = given.model, !.credential = given.credential]
  /\ UNCHANGED <<project, rows, oauth, lock, req>>

RequestStep(q) ==
  \/ updateWorkspace(q) \/ updateTask(q) \/ putProjectSandboxType(q)
  \/ putWorkspaceSandboxType(q) \/ ValidatesPatch(q) \/ Updates(q) \/ Finds(q) \/ DeletesRow(q)
  \/ Inserts(q) \/ Commits(q)

SettingsNext ==
  \/ Creates \/ Deletes \/ Connects \/ RunChecksOut \/ RunReadsSandboxes \/ RunMatches
  \/ RunReads \/ RunPrepares
  \/ \E q \in Requests : RequestStep(q)

SettingsSpec == SettingsInit /\ [][SettingsNext]_settingsVars
-----------------------------------------------------------------------------
HarnessSettings == Configs \cup {Nothing}
SandboxSettings == SandboxTypes \cup {Nothing}
Urls == [host : Hosts, path : Seq(STRING)]
Patching == [host : Hosts \cup {Nothing}, repository : Urls \cup {Nothing},
             token : BOOLEAN, saw : Hosts \cup {Nothing}]
Steps == {"new", "update", "find", "delete", "insert", "commit", "answered", "failed"}
Setting(slots, values) ==
  [at : Steps, slot : slots, value : values, holds : BOOLEAN, patch : Patching]

Projects == [host : Hosts, repository : Urls, secret : BOOLEAN, tasks : BOOLEAN]
Preparations ==
  [at : HarnessSlots \cup {"new", "reads", "resolve sandbox", "match", "resolve", "prepared",
                           "failed"},
   got : [HarnessSlots -> HarnessSettings], sandbox : SandboxSettings,
   harness : Harnesses \cup {Nothing}, model : Harnesses \cup {Nothing},
   credential : {"none", "api-key", "files-and-env"}]

(* The rows, the requests and the run keep their shape.                      *)
SettingsTypeOK ==
  /\ project \in Projects \cup {Nothing}
  /\ rows = [s \in Slots |-> rows[s]]
  /\ \A s \in HarnessSlots : rows[s] \in HarnessSettings
  /\ \A s \in SandboxSlots : rows[s] \in SandboxSettings
  /\ oauth \in BOOLEAN
  /\ lock \in [Slots \cup {"row"} -> Requests \cup {Nothing}]
  /\ req \in [Requests -> Setting(HarnessSlots, HarnessSettings)
                           \cup Setting(SandboxSlots \cup {Nothing}, SandboxSettings)]
  /\ run \in Preparations

(* A harness or sandbox type that a request sets and that is answered is in  *)
(* force at its commit, whoever else was setting it: the request that lost   *)
(* the race for the row is told so.                                          *)
AnsweredIsStored ==
  [][\A q \in Requests :
       req'[q].at = "answered" /\ req[q].at = "commit" /\ req[q].value # Nothing
         => rows'[req[q].slot] = req[q].value]_settingsVars

(* A PATCH that moves a project to another forge, or to another path, leaves *)
(* its repository under its forge, unless another one has moved it to yet    *)
(* another forge since this one read it.                                     *)
StaysUnderForge ==
  [][\A q \in Requests :
       (/\ req'[q].at = "answered" /\ req[q].at = "commit"
        /\ project # Nothing /\ req[q].patch.saw = project.host)
         => \/ project' = project
            \/ req[q].patch.host = Nothing /\ req[q].patch.repository = Nothing
            \/ project'.repository.host = project'.host]_settingsVars

(* A run that starts its sandbox has a model that its harness offers and a   *)
(* credential its harness is given, although the three settings are read one *)
(* by one while requests replace them, and Codex may be disconnected between *)
(* the check of a setting and its use.                                       *)
RunIsEquipped ==
  run.at = "prepared" =>
    /\ run.model \in {Nothing, run.harness}
    /\ run.harness # "opencode" => run.credential # "none"

(* What the three rest on.  Every harness stored, under way or read has a    *)
(* model of its own; a value that is about to be committed has been written, *)
(* under the row's lock; and a patch of the repository's URL is under the    *)
(* forge it sets, or else the forge it saw.                                  *)
Offered(c) == c # Nothing => c.model \in {Nothing, c.harness}

PatchFits(patch) ==
  /\ patch.host # Nothing => patch.repository # Nothing
  /\ patch.repository # Nothing =>
       patch.repository.host = IF patch.host # Nothing THEN patch.host ELSE patch.saw

RequestFits(q) ==
  /\ req[q].at \in {"find", "delete", "insert"} \/ req[q].holds => req[q].slot \in Slots
  /\ req[q].holds => req[q].at \in {"insert", "commit"} /\ lock[req[q].slot] = q
  /\ req[q].slot \in HarnessSlots => Offered(req[q].value)
  /\ req[q].at = "update" /\ req[q].slot = Nothing => req[q].value = Nothing
  /\ req[q].at = "commit" /\ req[q].value # Nothing => req[q].holds
  /\ PatchFits(req[q].patch)

SettingsInv ==
  /\ \A s \in HarnessSlots : Offered(rows[s]) /\ Offered(run.got[s])
  /\ \A q \in Requests : RequestFits(q)
  /\ RunIsEquipped
=============================================================================
