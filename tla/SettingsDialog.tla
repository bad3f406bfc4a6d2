--------------------------- MODULE SettingsDialog ---------------------------
(* The workspace settings dialog of one browser tab.  It saves through two  *)
(* requests, the workspace and its sandbox type, each a transaction of its  *)
(* own on the server, and shows what two queries have cached.  Other        *)
(* clients write the same rows.  Name and harness stand for one value: they *)
(* are edited, sent and stored together.                                    *)
EXTENDS Naturals

CONSTANTS Names,        \* what the name and harness fields may hold
          SandboxTypes, \* the types the select offers
          Default,      \* null: the server's default type
          Unknown,      \* the query has no data yet
          MaxSaves,     \* how often Save is pressed
          MaxForeign,   \* how often another client writes
          MaxFaults     \* how many requests are refused, fail or lose their answer

VARIABLES row,     \* the stored workspace and sandbox type
          cache,   \* what the tab's queries hold
          fetch,   \* the query of each key under way
          dialog,  \* the dialog: open, and its fields (sandbox: Untouched or a value)
          save,    \* the two requests of the last save
          spent,   \* what is used up of the bounds
          overtaken \* the cached type may be old: see UntouchedKept

vars == <<row, cache, fetch, dialog, save, spent, overtaken>>

Parts == {"name", "sandbox"}
Choices == SandboxTypes \union {Default}
Untouched == Unknown   \* the null of sandboxTypeValue
Content(part) == IF part = "name" THEN Names ELSE Choices

NoRequest == [at |-> "none", body |-> Default, touched |-> FALSE, told |-> FALSE]
Ended(at) == [NoRequest EXCEPT !.at = at]
NoFetch == [at |-> "idle", data |-> Default, old |-> FALSE]
Closed == [open |-> FALSE, name |-> Default, sandbox |-> Untouched]

Init ==
  /\ row \in [name: Names, sandbox: Choices]
  /\ cache = [name |-> row.name, sandbox |-> Unknown]
  /\ fetch = [name |-> NoFetch, sandbox |-> [NoFetch EXCEPT !.at = "asked"]]
  /\ dialog = Closed
  /\ save = [part \in Parts |-> NoRequest]
  /\ spent = [saves |-> 0, foreign |-> 0, faults |-> 0]
  /\ overtaken = FALSE

Faults == /\ spent.faults < MaxFaults
          /\ spent' = [spent EXCEPT !.faults = @ + 1]

----------------------------------------------------------------------------
(* The dialog.                                                              *)

(* What the form shows once its effect has run: the effect fires when the   *)
(* dialog opens and when the cached workspace changes, never on the type.   *)
Reset(known) == [open |-> TRUE, name |-> known.name, sandbox |-> Untouched]

Shown(known) == IF dialog.open /\ known.name # cache.name THEN Reset(known) ELSE dialog

Learns(known) == /\ cache' = known
                 /\ dialog' = Shown(known)

Displayed == IF dialog.sandbox # Untouched THEN dialog.sandbox
             ELSE IF cache.sandbox # Unknown THEN cache.sandbox
             ELSE Default

Loading(part) == cache[part] = Unknown /\ fetch[part].at # "idle"
Pending == \E part \in Parts : save[part].at # "none"

Opens == /\ ~dialog.open
         /\ dialog' = Reset(cache)
         /\ UNCHANGED <<row, cache, fetch, save, spent, overtaken>>

Cancels == /\ dialog.open
           /\ dialog' = Closed
           /\ UNCHANGED <<row, cache, fetch, save, spent, overtaken>>

Edits(part) ==
  /\ dialog.open
  /\ ~Loading(part)
  /\ \E value \in Content(part) : dialog' = [dialog EXCEPT ![part] = value]
  /\ UNCHANGED <<row, cache, fetch, save, spent, overtaken>>

(* Both requests go out at once, whatever the user has changed.             *)
Submits ==
  /\ dialog.open
  /\ ~Pending
  /\ spent.saves < MaxSaves
  /\ save' = [name |-> [NoRequest EXCEPT !.at = "sent", !.body = dialog.name],
              sandbox |-> [at |-> "sent", body |-> Displayed,
                           touched |-> dialog.sandbox # Untouched,
                           told |-> cache.sandbox # Unknown]]
  /\ spent' = [spent EXCEPT !.saves = @ + 1]
  /\ UNCHANGED <<row, cache, fetch, dialog, overtaken>>

----------------------------------------------------------------------------
(* The server.                                                              *)

(* A row that changes makes old what a query has read of it.                *)
Writes(part, value) ==
  /\ row' = [row EXCEPT ![part] = value]
  /\ fetch' = [fetch EXCEPT ![part].old = (fetch[part].at = "read")]

Stores(part) ==
  /\ save[part].at = "sent"
  /\ Writes(part, save[part].body)
  /\ save' = [save EXCEPT ![part] = [Ended("stored") EXCEPT !.body = save[part].body]]
  /\ UNCHANGED <<cache, dialog, spent, overtaken>>

Refuses(part) ==
  /\ save[part].at = "sent"
  /\ Faults
  /\ save' = [save EXCEPT ![part] = Ended("refused")]
  /\ UNCHANGED <<row, cache, fetch, dialog, overtaken>>

OtherWrites(part) ==
  /\ spent.foreign < MaxForeign
  /\ \E value \in Content(part) \ {row[part]} : Writes(part, value)
  /\ spent' = [spent EXCEPT !.foreign = @ + 1]
  /\ overtaken' = (overtaken \/ part = "sandbox")
  /\ UNCHANGED <<cache, dialog, save>>

----------------------------------------------------------------------------
(* Answers.                                                                 *)

(* Promise.all: the dialog closes when the last answer is a success too.    *)
Both(answered) == \A part \in Parts : answered[part].at = "ok"

(* A mutant: the dialog closes with the workspace alone.                    *)
ClosesEarly(answered, shown) ==
  IF answered["name"].at = "ok" THEN Closed ELSE shown

Closes(answered, shown) ==
  IF Both(answered) THEN Closed ELSE shown

(* The record of a save is kept until both its requests have ended.         *)
Settled(answered) ==
  IF \A part \in Parts : answered[part].at \in {"ok", "failed"}
  THEN [part \in Parts |-> NoRequest] ELSE answered

(* A mutant: the answer of the sandbox type is not cached.                  *)
CachesName(part) == IF part = "name" THEN [cache EXCEPT ![part] = save[part].body] ELSE cache

Caches(part) == [cache EXCEPT ![part] = save[part].body]

Succeeds(part) ==
  /\ save[part].at = "stored"
  /\ cache' = Caches(part)
  /\ LET answered == [save EXCEPT ![part] = Ended("ok")]
     IN  /\ dialog' = Closes(answered, Shown(cache'))
         /\ save' = Settled(answered)
  /\ UNCHANGED <<row, fetch, spent, overtaken>>

Rejects(part) ==
  /\ save[part].at = "refused"
  /\ save' = Settled([save EXCEPT ![part] = Ended("failed")])
  /\ UNCHANGED <<row, cache, fetch, dialog, spent, overtaken>>

(* The connection fails before the server has acted, or after.              *)
LosesAnswer(part) ==
  /\ save[part].at \in {"sent", "stored"}
  /\ Faults
  /\ overtaken' = (overtaken \/ (part = "sandbox" /\ save[part].at = "stored"))
  /\ save' = Settled([save EXCEPT ![part] = Ended("failed")])
  /\ UNCHANGED <<row, cache, fetch, dialog>>

----------------------------------------------------------------------------
(* Queries: at mount, on focus and on reconnection.                         *)

Refetches(part) ==
  /\ fetch[part].at = "idle"
  /\ fetch' = [fetch EXCEPT ![part] = [NoFetch EXCEPT !.at = "asked"]]
  /\ UNCHANGED <<row, cache, dialog, save, spent, overtaken>>

Reads(part) ==
  /\ fetch[part].at = "asked"
  /\ fetch' = [fetch EXCEPT ![part] = [at |-> "read", data |-> row[part], old |-> FALSE]]
  /\ UNCHANGED <<row, cache, dialog, save, spent, overtaken>>

(* What a query brings replaces the cached value, saved or not meanwhile.   *)
Lands(part) ==
  /\ fetch[part].at = "read"
  /\ Learns([cache EXCEPT ![part] = fetch[part].data])
  /\ overtaken' = (overtaken \/ (part = "sandbox" /\ fetch[part].old))
  /\ fetch' = [fetch EXCEPT ![part] = NoFetch]
  /\ UNCHANGED <<row, save, spent>>

(* After its retries a query gives up; what was cached stays.               *)
GivesUp(part) ==
  /\ fetch[part].at # "idle"
  /\ Faults
  /\ fetch' = [fetch EXCEPT ![part] = NoFetch]
  /\ UNCHANGED <<row, cache, dialog, save, overtaken>>

Next ==
  \/ Opens \/ Cancels \/ Submits
  \/ \E part \in Parts :
       \/ Edits(part)
       \/ Stores(part) \/ Refuses(part) \/ OtherWrites(part)
       \/ Succeeds(part) \/ Rejects(part) \/ LosesAnswer(part)
       \/ Refetches(part) \/ Reads(part) \/ Lands(part) \/ GivesUp(part)

Spec == Init /\ [][Next]_vars

----------------------------------------------------------------------------
(* Properties.                                                              *)

(* The rows, the cache and the requests keep their shape.                   *)
TypeOK ==
  /\ row \in [name: Names, sandbox: Choices]
  /\ cache \in [name: Names, sandbox: Choices \union {Unknown}]
  /\ dialog \in [open: BOOLEAN, name: Names \union {Default}, sandbox: Choices \union {Untouched}]
  /\ \A part \in Parts :
       /\ save[part].at \in {"none", "sent", "stored", "refused", "ok", "failed"}
       /\ fetch[part].at \in {"idle", "asked", "read"}

(* A dialog that closes by itself has saved both parts: no failure of       *)
(* either request is hidden behind a closed dialog, in whatever order the   *)
(* answers come and however often it was closed and opened meanwhile.       *)
ClosedMeansSaved ==
  [][(dialog.open /\ ~dialog'.open) =>
        (Cancels \/ \A part \in Parts : save[part].at \in {"stored", "ok"})]_vars

(* A save that leaves the sandbox select alone leaves the stored type       *)
(* alone, unless the tab never got the type, another client changed it, an  *)
(* answer was lost, or a query that read before a save landed after it.     *)
UntouchedKept ==
  [][(/\ save["sandbox"].at = "sent" /\ save'["sandbox"].at = "stored"
      /\ ~save["sandbox"].touched
      /\ row'.sandbox # row.sandbox)
     => (~save["sandbox"].told \/ overtaken)]_vars

(* "The failure is already surfaced through each mutation's error state     *)
(* rendered below; keeping the dialog open is the handling"                 *)
(* (WorkspaceConfigDialog.tsx:117-118): a dialog that stays open after the  *)
(* server has refused the sandbox type still has the type that was refused. *)
RefusedChoiceKept ==
  [][(/\ save["sandbox"].at \in {"refused", "failed"}
      /\ dialog.open /\ dialog'.open
      /\ dialog.sandbox # Untouched)
     => (dialog'.sandbox # Untouched \/ Edits("sandbox"))]_vars
=============================================================================
