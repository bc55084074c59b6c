------------------------------- MODULE Panel -------------------------------
(***************************************************************************)
(* A tab of the panel: BootGate and the Shell, or one of the pages that    *)
(* RouteView shows in it, at work.  The pages share no state with each     *)
(* other, only requests that the service handles; what the service keeps   *)
(* for a page is part of the page's module.                                *)
(***************************************************************************)
EXTENDS FilesPage, PluginsPage, LogsPage, WebsitesPage, TerminalPopup, PanelSession

CONSTANT Pages   \* the pages looked at

ASSUME PagesAreRouted == Pages \subseteq {"files", "plugins", "logs", "websites", "terminal", "session"}

VARIABLE page    \* the page the tab is on

panelVars == <<page, filesVars, piVars, lgVars, wsVars, tpVars, psVars>>

\* The pages that are not on show do nothing: they are left in one initial state.
PanelInit ==
    /\ page \in Pages
    /\ FilesInit /\ PiInit /\ LgInit /\ WsInit /\ TpInit /\ PsInit
    /\ page # "logs" => lgMode = "history"
    /\ page # "session" => psRows = {} /\ psCookie = 0

RouteView ==
    \/ page = "files" /\ FilesNext /\ UNCHANGED <<piVars, lgVars, wsVars, tpVars, psVars>>
    \/ page = "plugins" /\ PiNext /\ UNCHANGED <<filesVars, lgVars, wsVars, tpVars, psVars>>
    \/ page = "logs" /\ LgNext /\ UNCHANGED <<filesVars, piVars, wsVars, tpVars, psVars>>
    \/ page = "websites" /\ WsNext /\ UNCHANGED <<filesVars, piVars, lgVars, tpVars, psVars>>
    \/ page = "terminal" /\ TpNext /\ UNCHANGED <<filesVars, piVars, lgVars, wsVars, psVars>>
    \/ page = "session" /\ PsNext /\ UNCHANGED <<filesVars, piVars, lgVars, wsVars, tpVars>>

PanelNext == RouteView /\ UNCHANGED page

PanelSpec == PanelInit /\ [][PanelNext]_panelVars

(***************************************************************************)
(* Properties of every page.                                               *)
(***************************************************************************)
\* The variables have their types, requests in flight are bounded, and what a
\* dialog, a pane or a ticker needs is there exactly as long as it is.
PanelTypeOK == FilesTypeOK /\ PiTypeOK /\ LgTypeOK /\ WsTypeOK /\ TpTypeOK /\ PsTypeOK

\* Once a page is at rest and nothing failed or changed behind its back, the list
\* on show is what the service has: no action forgets to read it again.
ListsCurrent == RowsCurrent /\ PiRowsCurrent /\ SavedCurrent /\ WsRowsCurrent

\* What is on show answers the last request of its hook or stream, whatever
\* order the answers came in: a directory is not listed under another one's
\* path, a search is not mixed with the one before.
RowsOfTheLastRequest == RowsOfThisDirectory /\ RowsOfTheLastRun

\* What a button says is what its request does, for a list that was right when
\* the button was pressed; the verdict of a job is not taken back.
ShownIsMeant == DisableHitsItsRow /\ ToggleAsOffered /\ VerdictStands
=============================================================================
