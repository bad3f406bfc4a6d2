----------------------------- MODULE WebClient ------------------------------
(* One browser tab: the project pages, the workspace settings dialog in     *)
(* their sidebar and the connection test of their edit dialog.  The three   *)
(* look at different fields of different rows and share no variable: a step *)
(* of the tab is a step of one of them.                                     *)
EXTENDS Naturals, Sequences, FiniteSets

CONSTANTS Names, SandboxTypes, Default, Unknown, MaxSaves, MaxForeign,
          Ids, Home, Admin, None, MaxVersion, MaxActs, MaxChanges, MaxFaults,
          Own, Tokens, Paths, NoToken, NoPath, MaxEdits, MaxTests

ASSUME IdsAssumption == IsFiniteSet(Ids) /\ Ids \subseteq Nat \ {0}
ASSUME PagesAssumption == {Home, Admin, None} \intersect Ids = {}
ASSUME NullsAssumption == NoToken \notin Tokens /\ NoPath \notin Paths

VARIABLES workspace, cache, queries, form, save, used, overtaken,
          projects, list, listing, route, selected, dialog, asked, events, spent,
          chosen, lost,
          stored, secret, fields, open, test, verdict, late, counted

Settings == INSTANCE SettingsDialog
              WITH row <- workspace, fetch <- queries, dialog <- form, spent <- used
Pages == INSTANCE ProjectPages WITH table <- projects, fetch <- listing, stream <- events
Tests == INSTANCE ConnectionTest

settings == <<workspace, cache, queries, form, save, used, overtaken>>
pages == <<projects, list, listing, route, selected, dialog, asked, events, spent,
           chosen, lost>>
tests == <<stored, secret, fields, open, test, verdict, late, counted>>
clientVars == <<settings, pages, tests>>

ClientInit == Settings!Init /\ Pages!Init /\ Tests!Init

ClientNext == \/ Settings!Next /\ UNCHANGED <<pages, tests>>
              \/ Pages!Next /\ UNCHANGED <<settings, tests>>
              \/ Tests!Next /\ UNCHANGED <<settings, pages>>

ClientSpec == ClientInit /\ [][ClientNext]_clientVars

----------------------------------------------------------------------------
(* Properties of the parts, which are properties of the tab.                *)

(* The parts keep their shape.                                              *)
ClientTypeOK == Settings!TypeOK /\ Pages!TypeOK /\ Tests!TypeOK

(* A settings dialog that closes by itself has saved the workspace and the  *)
(* sandbox type both, in whatever order their answers come.                 *)
ClosedMeansSaved == Settings!ClosedMeansSaved

(* A save that leaves the sandbox select alone leaves the stored type       *)
(* alone, as far as the tab could know it.                                  *)
UntouchedKept == Settings!UntouchedKept

(* An open settings dialog still has the sandbox type that was refused      *)
(* (WorkspaceConfigDialog.tsx:117-118).                                     *)
RefusedChoiceKept == Settings!RefusedChoiceKept

(* Once its effects have run, the tab shows the project the user chose or   *)
(* created.                                                                 *)
ChosenIsShown == Pages!ChosenIsShown

(* What is typed into an edit dialog outlives the start and end of runs.    *)
EditsSurvive == Pages!EditsSurvive

(* A save of the edit dialog never overwrites settings the list has shown.  *)
SavesWhatIsListed == Pages!SavesWhatIsListed

(* The verdict of a connection test on the screen is about the repository   *)
(* and the token in the fields, unless they changed while it was under way. *)
VerdictFits == Tests!VerdictFits
=============================================================================
