-------------------------------- MODULE MalCli --------------------------------
(***************************************************************************)
(* The command line client `mal`, several invocations at once, and what it *)
(* works on: its file of MAL tokens, the authorization server of MAL, the  *)
(* browser tabs and local ports of its OAuth flows, and, composed with     *)
(* CodexCredentials, the server that it sends the credential to.           *)
(***************************************************************************)
EXTENDS CodexCredentials

CONSTANTS
    Kinds,       \* for each invocation what it may be, see AnyKind
    MaxLogins,   \* bound on the tokens MAL issues
    Torn         \* the content of a file that is being written

\* mal login | logout | providers login codex | providers logout codex | status
AnyKind == {"login", "logout", "connect", "disconnect", "status"}

ASSUME CliAssumption ==
    /\ MaxLogins \in Nat /\ Torn \notin Nat /\ Torn # NoToken
    /\ Kinds \in [Commands -> SUBSET AnyKind]

VARIABLES
    file,        \* auth.json: a MAL token, NoToken without a file, Torn
    malIssued, malAccepted,      \* MAL's refresh tokens, as for the provider
    expired,     \* MAL tokens whose access token has expired
    kind, pc,    \* the command and where it is
    mal,         \* the MAL token in its hands
    malFrom,     \* the one it exchanged for that
    tabs,        \* commands whose browser tab still waits for the user
    malForsaken, \* history: dead tokens, as for the provider
    spoilt       \* history: a write of the file was cut off or met another

malServer == <<malIssued, malAccepted, expired, malForsaken>>
command   == <<kind, pc, mal, malFrom, tabs>>
cli       == <<file, spoilt, malServer, command>>
server    == <<provider, stored, runs>>
vars      == <<server, requests, cli>>

Port(c) == IF kind[c] = "login" THEN 53682 ELSE 1455

Init ==
    /\ CredentialInit
    /\ file \in {NoToken, 1} /\ malIssued = 1 /\ malAccepted = {1}
    /\ expired = {} /\ malForsaken = {}
    /\ kind = [c \in Commands |-> "none"] /\ pc = [c \in Commands |-> "idle"]
    /\ mal = [c \in Commands |-> NoToken] /\ malFrom = [c \in Commands |-> NoToken]
    /\ tabs = {} /\ spoilt = FALSE

Goto(c, p) == pc' = [pc EXCEPT ![c] = p]

\* The commands in C end and forget what they held.
End(C) ==
    /\ pc' = [c \in Commands |-> IF c \in C THEN "over" ELSE pc[c]]
    /\ mal' = [c \in Commands |-> IF c \in C THEN NoToken ELSE mal[c]]
    /\ malFrom' = [c \in Commands |-> IF c \in C THEN NoToken ELSE malFrom[c]]
    /\ kind' = [c \in Commands |-> IF c \in C \ tabs THEN "none" ELSE kind[c]]

Hold == UNCHANGED <<kind, mal, malFrom>>

\* Where a command goes on that has an access token: to the flow, or to its request.
Authorised(c) == IF kind[c] = "connect" /\ bundle[c] = NoToken THEN "listen" ELSE "send"

-----------------------------------------------------------------------------
\* A user invokes a command.
Invokes(c, k) ==
    /\ pc[c] = "idle"
    /\ kind' = [kind EXCEPT ![c] = k]
    /\ Goto(c, CASE k = "login" -> "listen" [] k = "logout" -> "clear" [] OTHER -> "token")
    /\ UNCHANGED <<server, requests, file, spoilt, malServer, mal, malFrom, tabs>>

\* getMalAccessToken, and readAuthFile in it: no login or a torn file ends the command.
ReadsToken(c) ==
    /\ pc[c] = "token"
    /\ \/ /\ file \in {NoToken, Torn}
          /\ End({c})
       \/ /\ file \notin {NoToken, Torn}
          /\ mal' = [mal EXCEPT ![c] = file]
          /\ Goto(c, IF file \in expired THEN "refresh" ELSE Authorised(c))
          /\ UNCHANGED <<kind, malFrom>>
    /\ UNCHANGED <<server, requests, file, spoilt, malServer, tabs>>

\* MAL replaces a refresh token that it accepts.
ReplacesLogin(t) ==
    /\ t \in malAccepted /\ malIssued < MaxLogins
    /\ malIssued' = malIssued + 1
    /\ malAccepted' = (malAccepted \ {t}) \cup {malIssued + 1}

\* Mutant: the response's refresh token is ignored.
RefreshesLoginKeepingOld(c) ==
    /\ pc[c] = "refresh"
    /\ ReplacesLogin(mal[c])
    /\ Goto(c, "open")
    /\ Hold
    /\ UNCHANGED <<server, requests, file, spoilt, expired, malForsaken, tabs>>

\* refreshMalToken
RefreshesLogin(c) ==
    /\ pc[c] = "refresh"
    /\ ReplacesLogin(mal[c])
    /\ mal' = [mal EXCEPT ![c] = malIssued + 1]
    /\ malFrom' = [malFrom EXCEPT ![c] = mal[c]]
    /\ Goto(c, "open")
    /\ UNCHANGED kind
    /\ UNCHANGED <<server, requests, file, spoilt, expired, malForsaken, tabs>>

\* It throws: unreachable, rejected (and perhaps every token revoked), or a response that is lost.
LoginExpired(c) ==
    /\ pc[c] = "refresh"
    /\ \/ UNCHANGED <<malIssued, malAccepted, malForsaken>>
       \/ /\ mal[c] \notin malAccepted
          /\ malAccepted' = {} /\ malForsaken' = malForsaken \cup malAccepted
          /\ UNCHANGED malIssued
       \/ /\ "response" \in Faults
          /\ ReplacesLogin(mal[c])
          /\ malForsaken' = malForsaken \cup {mal[c]}
    /\ End({c})
    /\ UNCHANGED <<server, requests, file, spoilt, expired, tabs>>

-----------------------------------------------------------------------------
\* writeAuthFile truncates the file, then writes it; a reader or a kill can come between.
OpensFile(c) ==
    /\ pc[c] = "open"
    /\ file' = Torn
    /\ Goto(c, "write")
    /\ Hold
    /\ UNCHANGED <<server, requests, spoilt, malServer, tabs>>

\* What another invocation has written since may stick out behind what this one writes.
WritesFile(c) ==
    /\ pc[c] = "write"
    /\ \/ /\ file' = mal[c] /\ spoilt' = FALSE
       \/ /\ file # Torn
          /\ file' = Torn /\ spoilt' = TRUE
    /\ \/ /\ kind[c] = "login"
          /\ End({c})
       \/ /\ kind[c] # "login"
          /\ Goto(c, Authorised(c))
          /\ malFrom' = [malFrom EXCEPT ![c] = NoToken]
          /\ UNCHANGED <<kind, mal>>
    /\ UNCHANGED <<server, requests, malServer, tabs>>

\* `mal logout`: the file is unlinked also under a writer, whose chmod then fails.
ClearsFile(c) ==
    /\ pc[c] = "clear"
    /\ file' = NoToken /\ spoilt' = FALSE
    /\ End({c} \cup {d \in Commands : pc[d] = "write"})
    /\ UNCHANGED <<server, requests, malServer, tabs>>

-----------------------------------------------------------------------------
\* runOAuthFlow: the port is taken, or the listener waits and a browser tab opens.
Taken(c) == \E d \in Commands \ {c} : pc[d] = "callback" /\ Port(d) = Port(c)

Listens(c) ==
    /\ pc[c] = "listen"
    /\ \/ /\ Taken(c)
          /\ End({c})
          /\ UNCHANGED tabs
       \/ /\ ~Taken(c)
          /\ Goto(c, "callback") /\ Hold
          /\ tabs' = tabs \cup {c}
    /\ UNCHANGED <<server, requests, file, spoilt, malServer>>

\* The redirect of a tab reaches whoever listens on its port; a foreign state ends the flow.
CallsBack(c, d) ==
    /\ pc[c] = "callback" /\ d \in tabs /\ Port(d) = Port(c)
    /\ tabs' = tabs \ {d}
    /\ \/ d = c /\ Goto(c, "exchange") /\ Hold
       \/ d # c /\ End({c})
    /\ UNCHANGED <<server, requests, file, spoilt, malServer>>

\* Mutant: the listener does not give up.
FlowWaits(c) ==
    /\ pc[c] = "exchange"
    /\ End({c})
    /\ UNCHANGED <<server, requests, file, spoilt, malServer, tabs>>

\* The listener gives up after five minutes, or the user denies; the tab may stay open.  Or the code
\* is not exchanged.
FlowFails(c) ==
    /\ pc[c] \in {"callback", "exchange"}
    /\ End({c})
    /\ UNCHANGED <<server, requests, file, spoilt, malServer, tabs>>

\* exchangeToken for `mal login`; then readAuthFile, which a torn file makes fail.
LogsIn(c) ==
    /\ pc[c] = "exchange" /\ kind[c] = "login" /\ malIssued < MaxLogins
    /\ malIssued' = malIssued + 1
    /\ malAccepted' = malAccepted \cup {malIssued + 1}
    /\ \/ /\ file = Torn
          /\ End({c})
       \/ /\ file # Torn
          /\ mal' = [mal EXCEPT ![c] = malIssued + 1]
          /\ Goto(c, "open")
          /\ UNCHANGED <<kind, malFrom>>
    /\ UNCHANGED <<server, requests, file, spoilt, expired, malForsaken, tabs>>

\* exchangeToken for `mal providers login codex`; uploadCodexTokens asks for the access token again.
ObtainsBundle(c) ==
    /\ pc[c] = "exchange" /\ kind[c] = "connect" /\ issued < MaxTokens
    /\ issued' = issued + 1
    /\ accepted' = accepted \cup {issued + 1}
    /\ bundle' = [bundle EXCEPT ![c] = issued + 1]
    /\ Goto(c, "token") /\ Hold
    /\ UNCHANGED <<forsaken, stored, runs, request, file, spoilt, malServer, tabs>>

-----------------------------------------------------------------------------
Sends(c) ==
    /\ pc[c] = "send"
    /\ Answer(c, CASE kind[c] = "connect" -> "put" [] kind[c] = "disconnect" -> "delete"
                   [] OTHER -> "list")
    /\ Goto(c, "answer") /\ Hold
    /\ UNCHANGED <<server, bundle, file, spoilt, malServer, tabs>>

Receives(c) ==
    /\ pc[c] = "answer" /\ request[c] = "answered"
    /\ Answer(c, "none") /\ bundle' = [bundle EXCEPT ![c] = NoToken]
    /\ End({c})
    /\ UNCHANGED <<server, file, spoilt, malServer, tabs>>

\* The user interrupts a command between two effects; a request that was sent is still served.
Killed(c) ==
    /\ "kill" \in Faults /\ pc[c] \in {"open", "write", "answer"}
    /\ malForsaken' = malForsaken \cup ({malFrom[c]} \ {NoToken})
    /\ spoilt' = (spoilt \/ pc[c] = "write")
    /\ End({c})
    /\ UNCHANGED <<server, requests, file, malIssued, malAccepted, expired, tabs>>

\* The access token of the login expires (isExpired).
LoginExpires ==
    /\ file \notin {NoToken, Torn} \cup expired
    /\ expired' = expired \cup {file}
    /\ UNCHANGED <<server, requests, file, spoilt, malIssued, malAccepted, malForsaken, command>>

-----------------------------------------------------------------------------
CommandStep(c) ==
    \/ ReadsToken(c) \/ RefreshesLogin(c) \/ LoginExpired(c) \/ OpensFile(c) \/ WritesFile(c)
    \/ ClearsFile(c) \/ Listens(c) \/ FlowFails(c) \/ LogsIn(c) \/ ObtainsBundle(c)
    \/ Sends(c) \/ Receives(c)

Next ==
    \/ CredentialNext /\ UNCHANGED cli
    \/ LoginExpires
    \/ \E c \in Commands :
          \/ CommandStep(c) \/ Killed(c)
          \/ \E k \in Kinds[c] : Invokes(c, k)
          \/ \E d \in Commands : CallsBack(c, d)

Spec == Init /\ [][Next]_vars

\* As long as a command, a request or a run can go on, one of them does: a listener gives up after five
\* minutes, requests return, a run ends after an hour.  Users, browsers and faults owe nothing.
Progress ==
    \/ \E c \in Commands : CommandStep(c) \/ (ServerStep(c) /\ UNCHANGED cli)
    \/ \E r \in Runs : RunStep(r) /\ UNCHANGED cli

FairSpec == Spec /\ WF_vars(Progress)

-----------------------------------------------------------------------------
\* The types of the two modules, CredentialTypeOK with its owner of the lock.
TypeOK ==
    /\ CredentialTypeOK
    /\ file \in Nat \cup {NoToken, Torn} /\ spoilt \in BOOLEAN
    /\ malIssued \in Nat /\ malAccepted \in SUBSET Nat /\ expired \in SUBSET Nat
    /\ malForsaken \in SUBSET Nat
    /\ kind \in [Commands -> AnyKind \cup {"none"}]
    /\ pc \in [Commands -> {"idle", "token", "refresh", "open", "write", "clear", "listen",
                            "callback", "exchange", "send", "answer", "over"}]
    /\ mal \in [Commands -> Nat \cup {NoToken}] /\ malFrom \in [Commands -> Nat \cup {NoToken}]
    /\ tabs \in SUBSET Commands

\* The file holds a login that MAL accepts, unless a command has its successor and has not stored
\* it or the successor was lost; and it is whole unless a command
\* is writing it, or one was cut off or met another while writing.  `mal login` reads the file
\* before it writes, so that a torn one stays until `mal logout`.
LoginUsable ==
    /\ file = Torn => spoilt \/ \E c \in Commands : pc[c] = "write"
    /\ file \notin {NoToken, Torn} =>
          \/ file \in malAccepted \cup malForsaken
          \/ \E c \in Commands : malFrom[c] = file /\ pc[c] \in {"open", "write"}

\* What LoginUsable rests on: a token that a command has not written yet is in nobody else's hands.
Unwritten == {c \in Commands : pc[c] \in {"open", "write"}}

LoginIssuedInv ==
    /\ malAccepted \cup malForsaken \subseteq 1..malIssued
    /\ file \in 1..malIssued \cup {NoToken, Torn}
    /\ mal \in [Commands -> 1..malIssued \cup {NoToken}]
    /\ malFrom \in [Commands -> 1..malIssued \cup {NoToken}]

LoginInv ==
    /\ \A c \in Unwritten :
          /\ mal[c] \in malAccepted \cup malForsaken
          /\ mal[c] # file
          /\ \A d \in Commands : pc[d] = "refresh" => mal[d] # mal[c]
    /\ \A c, d \in Unwritten : mal[c] = mal[d] => c = d

\* A command sends one request.
RequestInv ==
    \A c \in Commands : pc[c] \notin {"answer", "over"} => request[c] = "none"

\* Every command under way comes to an end, also one whose request waits for a run that holds the
\* row: again and again there is none (a command that is over stays so).
CommandsEnd == []<>(\A c \in Commands : pc[c] \in {"idle", "over"})
=============================================================================
