--------------------------- MODULE ConnectionTest ---------------------------
(* The repository tab of the dialog that edits a project, in one browser    *)
(* tab, with its button that tests the connection: the entries, the test    *)
(* under way on the server, its verdict, and the project as it is stored,   *)
(* which other clients change.  The test calls the API of the forge and     *)
(* then Git.  Hosting URLs are taken to be valid; the dialog that creates a *)
(* project has no stored token to test with and is left out.                *)
EXTENDS Naturals

CONSTANTS Own,        \* a hosting URL other than the public services'
          Tokens,     \* access tokens
          Paths,      \* repositories of a forge: owner and name
          NoToken,    \* an empty token field; no token stored
          NoPath,     \* no owner and name in what was entered
          MaxEdits,   \* entries made
          MaxTests,   \* tests asked for
          MaxForeign  \* changes of the project by other clients

VARIABLES stored,   \* the project's forge and repository
          secret,   \* its token
          fields,   \* what the dialog's fields hold
          open,     \* the dialog is open
          test,     \* the test under way
          verdict,  \* testResult
          late,     \* history: the verdict came after the fields had changed
          counted   \* what is used up of the bounds

vars == <<stored, secret, fields, open, test, verdict, late, counted>>

Types == {"gitlab", "github"}

(* The hosting URL of the public service, and what a field may hold of one. *)
DefaultHost(type) == <<"public", type>>
Hosts == {DefaultHost(t) : t \in Types} \union {Own}

(* What a URL field may hold of a repository: nothing, an SSH or an HTTPS   *)
(* URL, with an owner and a name in it or not.                              *)
Empty == [scheme |-> "none", path |-> NoPath]
Urls == [scheme : {"ssh", "https"}, path : Paths \union {NoPath}]

(* getProjectPathFromRepositoryUrl: the same for every scheme.              *)
PathOf(url) == url.path

(* A project of earlier days may have an SSH URL; it is shown as the HTTPS  *)
(* URL of the same repository.                                              *)
ForDisplay(url) == IF PathOf(url) = NoPath THEN url
                   ELSE [scheme |-> "https", path |-> PathOf(url)]

RepositoryError(url) == url.scheme # "https" \/ url.path = NoPath

NoTest == [at |-> "none", kind |-> "typed", of |-> [type |-> "gitlab", host |-> Own,
             path |-> NoPath, token |-> NoToken], api |-> FALSE, edited |-> FALSE]
NoVerdict == [given |-> FALSE, ok |-> FALSE, of |-> NoTest.of, api |-> FALSE]

(* The reset effect: the fields as the project has them, no token.          *)
Filled(project) == [type |-> project.type, host |-> project.host,
                    custom |-> project.host # DefaultHost(project.type),
                    url |-> ForDisplay(project.url), token |-> NoToken]

(* What a test sends of the fields.                                         *)
Entered == [type |-> fields.type, host |-> fields.host, path |-> PathOf(fields.url),
            token |-> fields.token]

Init ==
  /\ \E type \in Types, scheme \in {"ssh", "https"}, p \in Paths :
       stored = [type |-> type, host |-> DefaultHost(type),
                 url |-> [scheme |-> scheme, path |-> p]]
  /\ secret \in Tokens \union {NoToken}
  /\ fields = Filled(stored)
  /\ open = FALSE
  /\ test = NoTest
  /\ verdict = NoVerdict
  /\ late = FALSE
  /\ counted = [edits |-> 0, tests |-> 0, foreign |-> 0]

Counts(what, bound) == /\ counted[what] < bound
                       /\ counted' = [counted EXCEPT ![what] = @ + 1]

----------------------------------------------------------------------------
(* The dialog.  It stays mounted while it is closed, and so does a test.    *)

Refills ==
  /\ fields' = Filled(stored')
  /\ verdict' = NoVerdict
  /\ late' = FALSE
  /\ test' = [test EXCEPT !.edited = TRUE]

Opens ==
  /\ ~open
  /\ open' = TRUE
  /\ UNCHANGED <<stored, secret, counted>>
  /\ Refills

Dismisses ==
  /\ open
  /\ open' = FALSE
  /\ UNCHANGED <<stored, secret, fields, test, verdict, late, counted>>

(* The page is left: nobody listens to the test's answer any more.          *)
Leaves ==
  /\ open' = FALSE
  /\ test' = NoTest
  /\ verdict' = NoVerdict
  /\ late' = FALSE
  /\ UNCHANGED <<stored, secret, fields, counted>>

(* A mutant: an entry leaves the verdict on the screen.                     *)
EditsUnder(new) ==
  /\ open
  /\ new # fields
  /\ Counts("edits", MaxEdits)
  /\ fields' = new
  /\ test' = [test EXCEPT !.edited = TRUE]
  /\ UNCHANGED <<stored, secret, open, verdict, late>>

(* Every entry takes the verdict away; the test goes on.                    *)
Edits(new) ==
  /\ open
  /\ new # fields
  /\ Counts("edits", MaxEdits)
  /\ fields' = new
  /\ verdict' = NoVerdict
  /\ late' = FALSE
  /\ test' = [test EXCEPT !.edited = TRUE]
  /\ UNCHANGED <<stored, secret, open>>

SelectsType(type) ==
  Edits([fields EXCEPT !.type = type, !.host = DefaultHost(type), !.custom = FALSE])

TypesRepository(url) == Edits([fields EXCEPT !.url = url])

SwitchesHosting ==
  Edits([fields EXCEPT !.custom = ~@,
                       !.host = IF fields.custom THEN DefaultHost(fields.type) ELSE @])

TypesHost(host) == fields.custom /\ Edits([fields EXCEPT !.host = host])

TypesToken(token) == Edits([fields EXCEPT !.token = token])

(* The button, with a token typed or, for want of one, with the one stored. *)
CanTest ==
  /\ open
  /\ test.at = "none"
  /\ ~RepositoryError(fields.url)
  /\ fields.token = NoToken => secret # NoToken

Asks(kind) ==
  /\ CanTest
  /\ Counts("tests", MaxTests)
  /\ test' = [at |-> "sent", kind |-> kind, of |-> Entered, api |-> FALSE, edited |-> FALSE]
  /\ verdict' = NoVerdict
  /\ late' = FALSE
  /\ UNCHANGED <<stored, secret, fields, open>>

AsksTyped == fields.token # NoToken /\ Asks("typed")
AsksStored == fields.token = NoToken /\ Asks("stored")

(* A save, whose request ProjectPages has: every field is stored, the token *)
(* if one was typed, and the dialog closes.                                 *)
Saves ==
  /\ open
  /\ ~RepositoryError(fields.url)
  /\ stored' = [type |-> fields.type, host |-> fields.host, url |-> fields.url]
  /\ secret' = IF fields.token = NoToken THEN secret ELSE fields.token
  /\ open' = FALSE
  /\ IF stored' # stored THEN Refills ELSE UNCHANGED <<fields, verdict, late, test>>
  /\ UNCHANGED counted

(* Other clients change the project, or the sidebar selects another: if its *)
(* settings are others, an open dialog is filled again.                     *)
OthersSave ==
  /\ Counts("foreign", MaxForeign)
  /\ \E type \in Types, host \in Hosts, p \in Paths, token \in Tokens \union {NoToken} :
       /\ token = NoToken => secret = NoToken
       /\ stored' = [type |-> type, host |-> host,
                     url |-> [scheme |-> "https", path |-> p]]
       /\ secret' = token
  /\ IF open /\ stored' # stored THEN Refills ELSE UNCHANGED <<fields, verdict, late, test>>
  /\ UNCHANGED open

----------------------------------------------------------------------------
(* The server.                                                              *)

Serves(from, next) == test.at = from /\ test' = next
Only == UNCHANGED <<stored, secret, fields, open, verdict, late, counted>>

(* The typed token is in the request.                                       *)
ServesTyped ==
  /\ test.kind = "typed"
  /\ Serves("sent", [test EXCEPT !.at = "api"])
  /\ Only

(* The token is the one stored when the request is served.                  *)
ServesStored ==
  /\ test.kind = "stored"
  /\ Serves("sent", IF secret = NoToken THEN [test EXCEPT !.at = "failed"]
                    ELSE [test EXCEPT !.at = "api", !.of.token = secret])
  /\ Only

(* Only a test that the API lets in goes on to Git.                         *)
ApiAnswers ==
  /\ \/ Serves("api", [test EXCEPT !.at = "git", !.api = TRUE])
     \/ Serves("api", [test EXCEPT !.at = "failed"])
  /\ Only

GitAnswers ==
  /\ \E at \in {"succeeded", "failed"} : Serves("git", [test EXCEPT !.at = at])
  /\ Only

(* The request or its answer is lost, which the dialog shows as a failure.  *)
Breaks ==
  /\ test.at \in {"sent", "api", "git", "succeeded"}
  /\ test' = [test EXCEPT !.at = "failed"]
  /\ Only

(* The answer becomes the verdict, whatever the fields hold by now.         *)
Answers ==
  /\ test.at \in {"succeeded", "failed"}
  /\ verdict' = [given |-> TRUE, ok |-> test.at = "succeeded", of |-> test.of,
                 api |-> test.api]
  /\ late' = test.edited
  /\ test' = NoTest
  /\ UNCHANGED <<stored, secret, fields, open, counted>>

Next ==
  \/ Opens \/ Dismisses \/ Leaves
  \/ \E type \in Types : SelectsType(type)
  \/ \E url \in Urls \union {Empty} : TypesRepository(url)
  \/ SwitchesHosting
  \/ \E host \in Hosts : TypesHost(host)
  \/ \E token \in Tokens \union {NoToken} : TypesToken(token)
  \/ AsksTyped \/ AsksStored \/ Saves \/ OthersSave
  \/ ServesTyped \/ ServesStored \/ ApiAnswers \/ GitAnswers \/ Breaks \/ Answers

Spec == Init /\ [][Next]_vars

----------------------------------------------------------------------------
(* The fields, the test and the verdict keep their shape.                   *)
TypeOK ==
  LET Tested == [type : Types, host : Hosts, path : Paths \union {NoPath},
                 token : Tokens \union {NoToken}]
  IN  /\ fields \in [type : Types, host : Hosts, custom : BOOLEAN,
                     url : Urls \union {Empty}, token : Tokens \union {NoToken}]
      /\ test \in [at : {"none", "sent", "api", "git", "succeeded", "failed"},
                   kind : {"typed", "stored"}, of : Tested, api : BOOLEAN,
                   edited : BOOLEAN]
      /\ verdict \in [given : BOOLEAN, ok : BOOLEAN, of : Tested, api : BOOLEAN]

(* "MAL can access the repository through both the forge API and Git over   *)
(* HTTPS" is said of what the fields hold, with the typed token if there is *)
(* one and a stored one if not, through every edit, refill, late answer and *)
(* save; unless the fields were changed while the test was under way.       *)
VerdictFits ==
  (open /\ verdict.ok /\ ~late) =>
     /\ verdict.api
     /\ verdict.of = [Entered EXCEPT !.token = IF fields.token = NoToken
                                               THEN verdict.of.token ELSE @]
     /\ verdict.of.token # NoToken
=============================================================================
