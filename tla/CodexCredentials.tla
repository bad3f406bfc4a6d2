--------------------------- MODULE CodexCredentials ---------------------------
(***************************************************************************)
(* The OpenAI Codex credential of one workspace owner: its row on the      *)
(* server, the provider that replaces refresh tokens or keeps them, the    *)
(* runs that read and refresh it (CompositeHarnessAuthService) inside the  *)
(* transaction of the whole run, their sandboxed agents, which have the    *)
(* refresh token too, and the requests that store and delete the row       *)
(* (me-handlers).  MalCli composes this with the client that sends them.   *)
(***************************************************************************)
EXTENDS Naturals, FiniteSets

CONSTANTS
    Runs,        \* attempts at codex-cli runs of the owner's workspaces
    Commands,    \* invocations of `mal`, which send at most one request each
    MaxTokens,   \* bound on the refresh tokens the provider issues
    MaxAges,     \* bound on how often seven days pass
    EnvKey,      \* whether OPENAI_API_KEY is configured
    Faults,      \* subset of {"throw", "crash", "response", "kill", "agent"}
    NoToken, NoOne

ASSUME CredentialAssumption ==
    /\ MaxTokens \in Nat /\ MaxAges \in Nat /\ EnvKey \in BOOLEAN
    /\ NoToken \notin Nat
    /\ NoOne \notin Runs

VARIABLES
    issued,      \* refresh tokens the provider has issued: 1..issued
    accepted,    \* those it accepts
    row, old,    \* the stored credential, and whether it is older than seven days
    ages,        \* how often it has grown old
    lock,        \* the run that has written the row and not committed
    at,          \* where a run is
    held,        \* the credential a run works with
    from,        \* the token it exchanged for that
    request,     \* the request of a command
    bundle,      \* the credential a command obtained
    forsaken     \* history: tokens that are dead because their successor was lost or revoked

provider == <<issued, accepted, forsaken>>
stored   == <<row, old, ages, lock>>
runs     == <<at, held, from>>
requests == <<request, bundle>>

Open   == {"read", "refresh", "upsert", "sandbox"}

CredentialInit ==
    /\ issued = 1 /\ accepted = {1} /\ forsaken = {}
    /\ row \in {1, NoToken} /\ old = FALSE /\ ages = 0 /\ lock = NoOne
    /\ at = [r \in Runs |-> "read"]
    /\ held = [r \in Runs |-> NoToken] /\ from = [r \in Runs |-> NoToken]
    /\ request = [c \in Commands |-> "none"]
    /\ bundle = [c \in Commands |-> NoToken]

-----------------------------------------------------------------------------
\* Seven days pass without a refresh (OAUTH_REFRESH_AGE_MS).
Ages ==
    /\ row # NoToken /\ ~old /\ ages < MaxAges
    /\ old' = TRUE /\ ages' = ages + 1
    /\ UNCHANGED <<provider, row, lock, runs, requests>>

\* No artifacts from the owner's credential: the environment's key, or the run is refused.
FallsBack(r) ==
    /\ at' = [at EXCEPT ![r] = IF EnvKey THEN "sandbox" ELSE "over"]
    /\ held' = [held EXCEPT ![r] = NoToken]

\* getCodexOAuthArtifacts: a young credential is used as it is, an old one refreshed.
ReadsCredential(r) ==
    /\ at[r] = "read"
    /\ \/ /\ row = NoToken
          /\ FallsBack(r)
       \/ /\ row # NoToken
          /\ held' = [held EXCEPT ![r] = row]
          /\ at' = [at EXCEPT ![r] = IF old THEN "refresh" ELSE "sandbox"]
    /\ UNCHANGED <<provider, stored, from, requests>>

\* The provider replaces a refresh token that it accepts.
Replaces(t) ==
    /\ t \in accepted /\ issued < MaxTokens
    /\ issued' = issued + 1
    /\ accepted' = (accepted \ {t}) \cup {issued + 1}

\* A token that was used already is refused; the provider may also revoke what descends from it.
Rejects(t) ==
    /\ t \notin accepted
    /\ UNCHANGED issued
    /\ \/ UNCHANGED <<accepted, forsaken>>
       \/ /\ accepted' = {}
          /\ forsaken' = forsaken \cup accepted

\* Mutant: the stored refresh token is kept although the response brought another.
RefreshesKeepingOld(r) ==
    /\ at[r] = "refresh"
    /\ Replaces(held[r])
    /\ from' = [from EXCEPT ![r] = held[r]]
    /\ at' = [at EXCEPT ![r] = "upsert"]
    /\ UNCHANGED <<forsaken, held, stored, requests>>

\* refreshTokens: the response brings the successor, or no refresh token; then the one that was
\* exchanged is kept.
Refreshes(r) ==
    /\ at[r] = "refresh"
    /\ \/ /\ Replaces(held[r])
          /\ held' = [held EXCEPT ![r] = issued + 1]
       \/ /\ held[r] \in accepted
          /\ UNCHANGED <<issued, accepted, held>>
    /\ from' = [from EXCEPT ![r] = held[r]]
    /\ at' = [at EXCEPT ![r] = "upsert"]
    /\ UNCHANGED <<forsaken, stored, requests>>

\* The endpoint is unreachable, rejects the token, or sends a response that fails the schema or whose
\* access token cannot be verified: then the provider has replaced the token all the same.
RefreshFails(r) ==
    /\ at[r] = "refresh"
    /\ \/ UNCHANGED provider
       \/ Rejects(held[r])
       \/ /\ "response" \in Faults
          /\ Replaces(held[r])
          /\ forsaken' = forsaken \cup {held[r]}
    /\ FallsBack(r)
    /\ UNCHANGED <<stored, from, requests>>

\* Mutant: the refreshed credential is handed out and not stored.
SkipsUpsert(r) ==
    /\ at[r] = "upsert"
    /\ at' = [at EXCEPT ![r] = "sandbox"]
    /\ UNCHANGED <<provider, stored, held, from, requests>>

\* upsertCredential waits for whoever has written the row; it is committed with the run.
Upserts(r) ==
    /\ at[r] = "upsert" /\ lock = NoOne
    /\ lock' = r
    /\ at' = [at EXCEPT ![r] = "sandbox"]
    /\ UNCHANGED <<provider, row, old, ages, held, from, requests>>

\* Codex in the sandbox of a run exchanges the token it was given; the successor stays in the sandbox.
AgentExchanges(r) ==
    /\ "agent" \in Faults /\ at[r] \in {"sandbox", "orphan"} /\ held[r] # NoToken
    /\ \/ /\ Replaces(held[r])
          /\ forsaken' = forsaken \cup {held[r]}
       \/ Rejects(held[r])
    /\ UNCHANGED <<stored, runs, requests>>

\* The run is over, completed or failed: both return a result, and the transaction commits.
RunCommits(r) ==
    /\ at[r] = "sandbox"
    /\ at' = [at EXCEPT ![r] = "over"]
    /\ \/ /\ lock = r
          /\ row' = held[r] /\ old' = FALSE /\ lock' = NoOne
       \/ /\ lock # r
          /\ UNCHANGED <<row, old, lock>>
    /\ UNCHANGED <<provider, ages, held, from, requests>>

\* The runs whose response brought no refresh token.
Kept == {r \in Runs : from[r] # NoToken /\ held[r] = from[r]}

\* What was exchanged in transactions that are rolled back is lost.
Exchanged(R) == {from[r] : r \in {q \in R \ Kept : at[q] \in {"upsert", "sandbox"}}} \ {NoToken}

\* Where a run is that is rolled back: its sandbox may survive.
Left(r) == IF at[r] = "sandbox" THEN {"over", "orphan"} ELSE {"over"}

\* An exception (stopSandbox, creation of a container, a lost connection) rolls the run back.
RunThrows(r) ==
    /\ "throw" \in Faults /\ at[r] \in Open
    /\ \E place \in Left(r) : at' = [at EXCEPT ![r] = place]
    /\ lock' = IF lock = r THEN NoOne ELSE lock
    /\ forsaken' = forsaken \cup Exchanged({r})
    /\ UNCHANGED <<issued, accepted, row, old, ages, held, from, requests>>

\* The server dies: PostgreSQL rolls all of them back; requests under way are not answered.
ServerCrashes ==
    /\ "crash" \in Faults
    /\ \E r \in Runs : at[r] \in Open
    /\ at' \in [Runs -> {"over", "orphan"}]
    /\ \A r \in Runs : at'[r] \in IF at[r] \in Open THEN Left(r) ELSE {at[r]}
    /\ lock' = NoOne
    /\ forsaken' = forsaken \cup Exchanged(Runs)
    /\ request' = [c \in Commands |-> IF request[c] \in {"put", "delete", "list"}
                                      THEN "answered" ELSE request[c]]
    /\ UNCHANGED <<issued, accepted, row, old, ages, held, from, bundle>>

-----------------------------------------------------------------------------
Answer(c, a) == request' = [request EXCEPT ![c] = a]

\* The bearer is not accepted, or the access token of the bundle cannot be verified.
RefusesRequest(c) ==
    /\ request[c] \in {"put", "delete", "list"}
    /\ Answer(c, "answered")
    /\ UNCHANGED <<provider, stored, runs, bundle>>

ListsCredentials(c) ==
    /\ request[c] = "list"
    /\ Answer(c, "answered")
    /\ UNCHANGED <<provider, stored, runs, bundle>>

\* PUT: an upsert with the time of the request.
PutsCredential(c) ==
    /\ request[c] = "put" /\ lock = NoOne
    /\ row' = bundle[c] /\ old' = FALSE
    /\ Answer(c, "answered")
    /\ UNCHANGED <<provider, ages, lock, runs, bundle>>

\* DELETE waits for the writer of a row that it sees; it does not see an uncommitted insert.
DeletesCredential(c) ==
    /\ request[c] = "delete" /\ (lock = NoOne \/ row = NoToken)
    /\ row' = NoToken /\ old' = FALSE
    /\ Answer(c, "answered")
    /\ UNCHANGED <<provider, ages, lock, runs, bundle>>

-----------------------------------------------------------------------------
RunStep(r) ==
    \/ ReadsCredential(r) \/ Refreshes(r) \/ RefreshFails(r) \/ Upserts(r) \/ RunCommits(r)

ServerStep(c) ==
    \/ RefusesRequest(c) \/ ListsCredentials(c) \/ PutsCredential(c) \/ DeletesCredential(c)

CredentialNext ==
    \/ Ages \/ ServerCrashes
    \/ \E r \in Runs : RunStep(r) \/ RunThrows(r) \/ AgentExchanges(r)
    \/ \E c \in Commands : ServerStep(c)

-----------------------------------------------------------------------------
\* The types; and only a run in its sandbox has an uncommitted row.
CredentialTypeOK ==
    /\ issued \in Nat /\ accepted \in SUBSET Nat /\ forsaken \in SUBSET Nat
    /\ row \in Nat \cup {NoToken} /\ old \in BOOLEAN /\ ages \in Nat
    /\ lock \in {NoOne} \cup {r \in Runs : at[r] = "sandbox"}
    /\ at \in [Runs -> Open \cup {"over", "orphan"}]
    /\ held \in [Runs -> Nat \cup {NoToken}] /\ from \in [Runs -> Nat \cup {NoToken}]
    /\ request \in [Commands -> {"none", "put", "delete", "list", "answered"}]
    /\ bundle \in [Commands -> Nat \cup {NoToken}]

\* A run has the successor of a token and has not committed it (HarnessAuthService.ts:274), or has
\* stored it.
Succeeded(t, places) == \E r \in Runs \ Kept : from[r] = t /\ at[r] \in places

\* The stored refresh token is one the provider accepts, unless its successor is in a run that has
\* not committed; or was lost: with a response that could not be used, with a rolled back run, with
\* the sandbox of an agent that exchanged it, or to a revocation after one token was presented
\* twice; or a run that was given no new token has stored the one it had read over the successor
\* that another run had obtained.
CredentialUsable ==
    row # NoToken =>
        \/ row \in accepted \cup forsaken
        \/ Succeeded(row, {"upsert", "sandbox"})
        \/ Succeeded(row, {"over"}) /\ \E r \in Kept : held[r] = row /\ at[r] = "over"

\* "`refresh_token ?? stored.refresh_token` is safe" (.cursor/plans/
\* claude-code-oauth-via-mal-cli_a7f31c52.plan.md:195): CredentialUsable without its last case.
FallbackSafe ==
    row # NoToken =>
        row \in accepted \cup forsaken \/ Succeeded(row, {"upsert", "sandbox"})

\* What CredentialUsable rests on: a new token that a run has obtained and not committed, or a
\* command and not sent, is in nobody else's hands; and a run that kept a token and has not committed
\* has one that is accepted or whose fate is known.
Uncommitted == {r \in Runs : at[r] = "upsert" \/ lock = r}
Unstored    == Uncommitted \ Kept
Unsent      == {c \in Commands : request[c] \in {"none", "put"} /\ bundle[c] # NoToken}

Private(t) ==
    /\ t \in accepted \cup forsaken
    /\ t # row
    /\ \A r \in Runs : at[r] = "refresh" \/ r \in Uncommitted \cap Kept => held[r] # t

IssuedInv ==
    /\ accepted \cup forsaken \subseteq 1..issued
    /\ row \in 1..issued \cup {NoToken}
    /\ held \in [Runs -> 1..issued \cup {NoToken}] /\ from \in [Runs -> 1..issued \cup {NoToken}]
    /\ bundle \in [Commands -> 1..issued \cup {NoToken}]

CredentialInv ==
    /\ \A r \in Unstored : Private(held[r])
    /\ \A c \in Unsent : Private(bundle[c])
    /\ \A r, q \in Unstored : held[r] = held[q] => r = q
    /\ \A c, d \in Unsent : bundle[c] = bundle[d] => c = d
    /\ \A r \in Unstored : \A c \in Unsent : held[r] # bundle[c]
    /\ \A r \in Uncommitted \cap Kept :
          held[r] \in accepted \cup forsaken \/ Succeeded(held[r], {"upsert", "sandbox", "over"})
    /\ \A r \in Runs : from[r] # NoToken => at[r] \in {"upsert", "over", "orphan"} \/ lock = r
=============================================================================
