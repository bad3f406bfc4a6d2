---------------------------- MODULE ProjectPages ----------------------------
(* The project pages of one browser tab: the cached list of projects, the   *)
(* address, the project selected in the store, the effects that keep them   *)
(* together, and the dialogs that create and edit a project.  Changes by    *)
(* other clients and by runs arrive as events or with a refetch.            *)
(* A project's settings are a version number; its queue is busy or not.     *)
EXTENDS Naturals, Sequences, FiniteSets

CONSTANTS Ids,          \* projects, numbered in the order of their ids
          Home, Admin,  \* the pages that are not a project's
          None,         \* nothing selected
          MaxVersion,   \* versions of a project's settings
          MaxActs,      \* clicks, dialogs opened and requests of the user
          MaxChanges,   \* changes made by others
          MaxFaults     \* requests that fail, streams that break

VARIABLES table,    \* the projects stored
          list,     \* the cached list: is there one, and its entries
          fetch,    \* the query under way
          route,    \* the page of the address
          selected, \* currentProjectId of the store
          dialog,   \* the dialog that is open
          asked,    \* the request under way: create, update, start or stop
          stream,   \* the live event stream
          spent,    \* what is used up of the bounds
          chosen,   \* the project the user last went for
          lost      \* why another page may be shown: see ChosenIsShown

vars == <<table, list, fetch, route, selected, dialog, asked, stream, spent,
          chosen, lost>>

Absent == [exists |-> FALSE, settings |-> 0, busy |-> FALSE]
Closed == [mode |-> "closed", of |-> None, base |-> 0, seen |-> <<>>,
           typed |-> FALSE, submitting |-> FALSE]
NoFetch == [at |-> "idle", data |-> <<>>]
NoRequest == [kind |-> "none", of |-> None, at |-> "sent", mounted |-> FALSE]

Entry(p) == [id |-> p, settings |-> table[p].settings, busy |-> table[p].busy]

(* getAllProjects: by id.                                                   *)
Existing == {p \in Ids : table[p].exists}
NthId(n) == CHOOSE p \in Existing : Cardinality({q \in Existing : q <= p}) = n
Stored == [n \in 1..Cardinality(Existing) |-> Entry(NthId(n))]

Init ==
  /\ \E ids \in SUBSET Ids :
       /\ ids # Ids
       /\ table = [p \in Ids |-> [Absent EXCEPT !.exists = p \in ids]]
       /\ route \in ids \union {Home, Admin}
  /\ list = [known |-> FALSE, entries |-> <<>>]
  /\ fetch = [NoFetch EXCEPT !.at = "asked"]
  /\ selected = None
  /\ chosen = route
  /\ dialog = Closed
  /\ asked = NoRequest
  /\ stream = [at |-> "connecting", events |-> <<>>]
  /\ spent = [acts |-> 0, changes |-> 0, faults |-> 0]
  /\ lost = FALSE

Spends(what, bound) == /\ spent[what] < bound
                       /\ spent' = [spent EXCEPT ![what] = @ + 1]

----------------------------------------------------------------------------
(* What the components derive from the list.                                *)

Known == list.known
Projects == list.entries
Caches(entries) == list' = [known |-> TRUE, entries |-> entries]
IsLoading == ~Known /\ fetch.at # "idle"
IsListed(p) == \E i \in DOMAIN Projects : Projects[i].id = p
PlaceOf(p) == CHOOSE i \in DOMAIN Projects :
                /\ Projects[i].id = p
                /\ \A j \in 1..(i - 1) : Projects[j].id # p
Current == IF IsListed(selected) THEN selected ELSE None
OnProject == route \in Ids

----------------------------------------------------------------------------
(* Effects, after a render.                                                 *)

(* An address change opens another stream, and pages of another kind mount  *)
(* their own dialogs.                                                       *)
KindOf(page) == IF page \in Ids THEN "project" ELSE page

Goes(page) ==
  /\ route' = page
  /\ stream' = IF page = route \/ {page, route} \subseteq {Home, Admin} THEN stream
               ELSE [at |-> "connecting", events |-> <<>>]

Remounts(page) == KindOf(page) # KindOf(route)

(* A mutant: to the first project when the address is not the selected one. *)
RedirectsUnselected ==
  OnProject /\ ~IsLoading /\ Projects # <<>> /\ (Current = None \/ selected # route)

(* ProjectPage: to the first project when none is current.                  *)
Redirects == OnProject /\ ~IsLoading /\ Projects # <<>> /\ Current = None

LeavesHome == route = Home /\ ~IsLoading /\ Projects # <<>>
AsksForFirst == /\ route = Home /\ ~IsLoading /\ Projects = <<>>
                /\ dialog.mode # "create"
Selects == OnProject /\ route # selected

(* What the reset effect of an edit dialog depends on: the settings, not    *)
(* the queue.  An entry that moves in the list has new objects in it.       *)
Listed == Projects[PlaceOf(Current)]

(* A mutant: the effect depends on the whole project.                       *)
SeenWhole == <<Current, Listed.settings, PlaceOf(Current), Listed.busy>>

Seen == <<Current, Listed.settings, PlaceOf(Current)>>

Filled == [Closed EXCEPT !.mode = "edit", !.of = Current,
                         !.base = Listed.settings, !.seen = Seen]

(* A mutant: the form is filled when the dialog opens only.                 *)
ResetsForAnother == /\ dialog.mode = "edit"
                    /\ Current # None
                    /\ dialog.of # Current

Resets == /\ dialog.mode = "edit"
          /\ Current # None
          /\ dialog.seen # Seen

(* The queue's component, with its edit dialog, is gone.                    *)
Unmounts == /\ ~OnProject \/ Current = None
            /\ dialog.mode = "edit" \/ (asked.kind = "update" /\ asked.mounted)

Unsettled == Redirects \/ LeavesHome \/ AsksForFirst \/ Selects \/ Resets \/ Unmounts

(* All effects of one commit see the same render; a child's effects run     *)
(* before its parent's, so ProjectPage redirects by the selection that      *)
(* ProjectsProvider is about to change.                                     *)
Renders ==
  /\ Unsettled
  /\ Goes(IF Redirects \/ LeavesHome THEN Projects[1].id ELSE route)
  /\ selected' = IF Selects THEN route ELSE selected
  /\ dialog' = IF Remounts(route') \/ (Unmounts /\ dialog.mode = "edit") THEN Closed
               ELSE IF Resets THEN Filled
               ELSE IF AsksForFirst THEN [Closed EXCEPT !.mode = "create"]
               ELSE dialog
  /\ asked' = [asked EXCEPT !.mounted = @ /\ ~Remounts(route')
                                     /\ ~(Unmounts /\ asked.kind = "update")]
  /\ chosen' = IF LeavesHome THEN route' ELSE chosen
  /\ UNCHANGED <<table, list, fetch, spent, lost>>

----------------------------------------------------------------------------
(* The user, on a page whose effects have run.                              *)

Acts == Spends("acts", MaxActs)

(* A project of the sidebar.  The first page of a project after another     *)
(* page finds nothing selected.                                             *)
SelectsProject(p) ==
  /\ Acts
  /\ route # Home
  /\ dialog.mode = "closed"
  /\ IsListed(p)
  /\ Goes(p)
  /\ chosen' = p
  /\ lost' = (Current = None /\ Projects[1].id # p)
  /\ asked' = [asked EXCEPT !.mounted = @ /\ ~Remounts(p)]
  /\ UNCHANGED <<table, list, fetch, selected, dialog>>

GoesToAdmin ==
  /\ Acts
  /\ OnProject
  /\ dialog.mode = "closed"
  /\ Goes(Admin)
  /\ chosen' = Admin
  /\ lost' = FALSE
  /\ asked' = [asked EXCEPT !.mounted = FALSE]
  /\ UNCHANGED <<table, list, fetch, selected, dialog>>

OpensCreate ==
  /\ Acts
  /\ route # Home
  /\ dialog.mode = "closed"
  /\ dialog' = [Closed EXCEPT !.mode = "create"]
  /\ UNCHANGED <<table, list, fetch, route, selected, asked, stream, chosen, lost>>

OpensEdit ==
  /\ Acts
  /\ OnProject
  /\ Current # None
  /\ dialog.mode = "closed"
  /\ dialog' = Filled
  /\ UNCHANGED <<table, list, fetch, route, selected, asked, stream, chosen, lost>>

Types ==
  /\ dialog.mode = "edit"
  /\ ~dialog.typed
  /\ dialog' = [dialog EXCEPT !.typed = TRUE]
  /\ UNCHANGED <<table, list, fetch, route, selected, asked, stream, spent, chosen, lost>>

(* Cancel is disabled while a save is under way, Escape is not; the first   *)
(* project's dialog on the home page cannot be dismissed.                   *)
Dismisses ==
  /\ dialog.mode # "closed"
  /\ route # Home
  /\ dialog' = Closed
  /\ UNCHANGED <<table, list, fetch, route, selected, asked, stream, spent, chosen, lost>>

(* Every field is sent, as the form has it.                                 *)
Submits ==
  /\ Acts
  /\ dialog.mode # "closed"
  /\ ~dialog.submitting
  /\ asked.kind = "none"
  /\ dialog' = [dialog EXCEPT !.submitting = TRUE]
  /\ asked' = [kind |-> IF dialog.mode = "create" THEN "create" ELSE "update",
               of |-> dialog.of, at |-> "sent", mounted |-> TRUE]
  /\ UNCHANGED <<table, list, fetch, route, selected, stream, chosen, lost>>

(* The run buttons go by the listed state of the queue.                     *)
PressesRun ==
  /\ Acts
  /\ OnProject
  /\ Current # None
  /\ dialog.mode = "closed"
  /\ asked.kind = "none"
  /\ asked' = [kind |-> IF Projects[PlaceOf(Current)].busy THEN "stop" ELSE "start",
               of |-> Current, at |-> "sent", mounted |-> TRUE]
  /\ UNCHANGED <<table, list, fetch, route, selected, dialog, stream, chosen, lost>>

----------------------------------------------------------------------------
(* The server, other clients and runs.                                      *)

Announces(p) ==
  stream' = IF stream.at # "open" THEN stream
            ELSE [stream EXCEPT !.events =
                    Append(@, [id |-> p, settings |-> table'[p].settings,
                                         busy |-> table'[p].busy])]

Revises(p) == /\ table[p].settings < MaxVersion
              /\ table' = [table EXCEPT ![p].settings = @ + 1]
              /\ Announces(p)

(* A run is started, or the queue goes idle: the settings are not touched.  *)
Turns(p, busy) == /\ table[p].exists
                  /\ table' = [table EXCEPT ![p].busy = busy]
                  /\ Announces(p)

(* No event tells of a new project.                                         *)
Adds(p) == /\ ~table[p].exists
           /\ table' = [table EXCEPT ![p].exists = TRUE]
           /\ UNCHANGED stream

Serves ==
  /\ asked.kind # "none"
  /\ asked.at = "sent"
  /\ \/ /\ asked.kind = "create"
        /\ \E p \in Ids : Adds(p) /\ asked' = [asked EXCEPT !.at = "done", !.of = p]
     \/ /\ asked.kind = "update"
        /\ Revises(asked.of)
        /\ asked' = [asked EXCEPT !.at = "done"]
     \/ /\ asked.kind = "start"
        /\ ~table[asked.of].busy
        /\ Turns(asked.of, TRUE)
        /\ asked' = [asked EXCEPT !.at = "done"]
     \/ /\ asked.kind = "stop"
        /\ table[asked.of].busy
        /\ Turns(asked.of, FALSE)
        /\ asked' = [asked EXCEPT !.at = "done"]
  /\ UNCHANGED <<list, fetch, route, selected, dialog, spent, chosen, lost>>

OthersChange(p) ==
  /\ Spends("changes", MaxChanges)
  /\ \/ table[p].exists /\ Revises(p)
     \/ Turns(p, ~table[p].busy)
     \/ Adds(p)
  /\ UNCHANGED <<list, fetch, route, selected, dialog, asked, chosen, lost>>

----------------------------------------------------------------------------
(* Answers.                                                                 *)

(* The dialog that sent the request, if it is still mounted and open.       *)
Sender == asked.mounted /\ dialog.mode = (IF asked.kind = "create" THEN "create" ELSE "edit")

(* Every entry of the project is replaced; an unknown one is not added.     *)
Replaced(entry) ==
  IF ~Known THEN <<entry>>
  ELSE [i \in DOMAIN Projects |-> IF Projects[i].id = entry.id THEN entry ELSE Projects[i]]

(* A created project is appended, whether a refetch has listed it or not,   *)
(* and the tab goes to it from wherever the user is.                        *)
Created ==
  /\ asked.kind = "create"
  /\ Caches(Append(Projects, Entry(asked.of)))
  /\ Goes(asked.of)
  /\ chosen' = asked.of
  /\ lost' = (Current = None /\ Projects'[1].id # asked.of)
  /\ dialog' = IF Sender \/ Remounts(asked.of) THEN Closed ELSE dialog

Updated ==
  /\ asked.kind \in {"update", "start", "stop"}
  /\ Caches(Replaced(Entry(asked.of)))
  /\ dialog' = IF asked.kind = "update" /\ Sender THEN Closed ELSE dialog
  /\ UNCHANGED <<route, stream, chosen, lost>>

Succeeds ==
  /\ asked.at = "done"
  /\ Created \/ Updated
  /\ asked' = NoRequest
  /\ UNCHANGED <<table, fetch, selected, spent>>

(* Refused, or the connection fails on either way: the dialog stays open    *)
(* with what was entered; a run button asks for the list again.             *)
Fails ==
  /\ asked.kind # "none"
  /\ IF asked.at = "sent" THEN UNCHANGED spent ELSE Spends("faults", MaxFaults)
  /\ asked' = NoRequest
  /\ dialog' = IF asked.kind \in {"create", "update"} /\ Sender
               THEN [dialog EXCEPT !.submitting = FALSE] ELSE dialog
  /\ fetch' = IF asked.kind \in {"start", "stop"} THEN [NoFetch EXCEPT !.at = "asked"]
              ELSE fetch
  /\ UNCHANGED <<table, list, route, selected, stream, chosen, lost>>

----------------------------------------------------------------------------
(* The list query and the event stream.                                     *)

Refetches ==
  /\ fetch.at = "idle"
  /\ fetch' = [NoFetch EXCEPT !.at = "asked"]
  /\ UNCHANGED <<table, list, route, selected, dialog, asked, stream, spent, chosen, lost>>

Reads ==
  /\ fetch.at = "asked"
  /\ fetch' = [at |-> "read", data |-> Stored]
  /\ UNCHANGED <<table, list, route, selected, dialog, asked, stream, spent, chosen, lost>>

Lists(entries) == \E i \in DOMAIN entries : entries[i].id = chosen

Lands ==
  /\ fetch.at = "read"
  /\ Caches(fetch.data)
  /\ fetch' = NoFetch
  /\ lost' = (lost \/ (chosen \in Ids /\ ~Lists(fetch.data)))
  /\ UNCHANGED <<table, route, selected, dialog, asked, stream, spent, chosen>>

GivesUp ==
  /\ fetch.at # "idle"
  /\ Spends("faults", MaxFaults)
  /\ fetch' = NoFetch
  /\ UNCHANGED <<table, list, route, selected, dialog, asked, stream, chosen, lost>>

(* The stream opens: the list is asked for again, and a query under way     *)
(* starts over, except the first one.                                       *)
StreamOpens ==
  /\ stream.at = "connecting"
  /\ stream' = [at |-> "open", events |-> <<>>]
  /\ fetch' = IF IsLoading THEN fetch ELSE [NoFetch EXCEPT !.at = "asked"]
  /\ UNCHANGED <<table, list, route, selected, dialog, asked, spent, chosen, lost>>

StreamBreaks ==
  /\ stream.at = "open"
  /\ Spends("faults", MaxFaults)
  /\ stream' = [at |-> "connecting", events |-> <<>>]
  /\ UNCHANGED <<table, list, fetch, route, selected, dialog, asked, chosen, lost>>

(* applyProjectUpdated: patches the first entry of the project or appends.  *)
Applied(entry) ==
  IF IsListed(entry.id) THEN [Projects EXCEPT ![PlaceOf(entry.id)] = entry]
  ELSE Append(Projects, entry)

Receives ==
  /\ stream.events # <<>>
  /\ Caches(Applied(Head(stream.events)))
  /\ stream' = [stream EXCEPT !.events = Tail(@)]
  /\ lost' = (lost \/ (chosen \in Ids /\ ~Lists(Projects')))
  /\ UNCHANGED <<table, fetch, route, selected, dialog, asked, spent, chosen>>

User == \/ \E p \in Ids : SelectsProject(p)
        \/ GoesToAdmin \/ OpensCreate \/ OpensEdit \/ Types \/ Dismisses
        \/ Submits \/ PressesRun

(* Effects run before anything else reaches the tab.                        *)
Next ==
  \/ Renders
  \/ /\ ~Unsettled
     /\ \/ User
        \/ Serves \/ Succeeds \/ Fails
        \/ \E p \in Ids : OthersChange(p)
        \/ Refetches \/ Reads \/ Lands \/ GivesUp
        \/ StreamOpens \/ StreamBreaks \/ Receives

Spec == Init /\ [][Next]_vars

----------------------------------------------------------------------------
(* Properties.                                                              *)

(* The list, the dialog and the request keep their shape.                   *)
TypeOK ==
  /\ table \in [Ids -> [exists: BOOLEAN, settings: 0..MaxVersion, busy: BOOLEAN]]
  /\ \A i \in DOMAIN Projects : Projects[i].id \in Ids
  /\ route \in Ids \union {Home, Admin}
  /\ selected \in Ids \union {None}
  /\ dialog.mode \in {"closed", "create", "edit"}
  /\ asked.kind \in {"none", "create", "update", "start", "stop"}

(* Once its effects have run, the tab shows the project the user chose or   *)
(* created, through every refetch, event and late answer, unless a list     *)
(* without it came, or nothing had been selected when he left for it and it *)
(* is not the first: then ProjectPage has redirected to the first.          *)
ChosenIsShown ==
  (~Unsettled /\ OnProject /\ chosen \in Ids) =>
     (lost \/ (route = chosen /\ (IsLoading \/ ~IsListed(chosen) \/ Current = chosen)))

(* What is typed into an open edit dialog outlives the news that runs start *)
(* and end: only other settings of the project, another project or another  *)
(* place in the list clear the form.                                        *)
EditsSurvive ==
  [][(dialog.mode = "edit" /\ dialog'.mode = "edit" /\ dialog.typed) =>
        \/ dialog'.typed
        \/ dialog'.of # dialog.of
        \/ dialog'.base # dialog.base
        \/ dialog'.seen[3] # dialog.seen[3]]_vars

(* A save sends every field, yet it never overwrites settings the tab has   *)
(* been told of: the form it sends is of the version the list has.          *)
SavesWhatIsListed ==
  [][(asked.kind = "none" /\ asked'.kind = "update") => dialog.base = Listed.settings]_vars
=============================================================================
