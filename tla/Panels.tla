------------------------------- MODULE Panels -------------------------------
(***************************************************************************)
(* The version 1 program: HotFilesService with the panels that show its    *)
(* list, one on each monitor of the desktop (widgets/Panel.tsx, app.tsx).  *)
(* All of it runs on one main loop: clicks, keys and requests are handled  *)
(* between refreshes, and a notification ends when every panel has built   *)
(* its list anew.                                                          *)
(***************************************************************************)
EXTENDS HotFiles

CONSTANTS Monitors,
          Filters, ActionFilters,  \* those that are clicked, "all" among them
          MaxClicks                \* bound: what the user does to the panels

ASSUME PanelsAssumption ==
  /\ Filters \subseteq {"all", "user", "claude", "codex", "system"}
  /\ ActionFilters \subseteq {"all", "opened", "modified", "created", "deleted"}
  /\ MaxClicks \in Nat

VARIABLES filter, actionFilter,  \* _filter, _actionFilter of the service
          panelVisible,
          panels,                \* what each panel shows; none while the service starts
          clicks                 \* how much was done

panelVars == <<filter, actionFilter, panelVisible, panels, clicks>>
appVars == <<hotFilesVars, panelVars>>

-----------------------------------------------------------------------------
\* get files
View(fs, f, a) == SelectSeq(fs, LAMBDA e : /\ f \in {"all", e.source}
                                           /\ a \in {"all", e.action})

NewPanel(fs) == [list |-> View(fs, filter, actionFilter), chip |-> filter,
                 actionChip |-> actionFilter, visible |-> panelVisible]

\* _notify, with rebuildFileList in every panel.
Rebuilt(fs, f, a) == [m \in DOMAIN panels |-> [panels[m] EXCEPT !.list = View(fs, f, a)]]

\* Panels are made when the service has refreshed once, and are told when the list changes.
Notify ==
  /\ panels' = CASE initialized' /\ ~initialized -> [m \in Monitors |-> NewPanel(files')]
                 [] initialized /\ files' # files -> Rebuilt(files', filter, actionFilter)
                 [] OTHER -> panels
  /\ UNCHANGED <<filter, actionFilter, panelVisible, clicks>>

ServiceStep == Next /\ Notify

Clicked == /\ pc = "idle"
           /\ clicks < MaxClicks /\ clicks' = clicks + 1

\* Mutant: only the panel whose chip was clicked builds its list anew.
SetFilterAlone(m, f) ==
  /\ panels[m].visible /\ Clicked
  /\ filter' = f
  /\ panels' = [panels EXCEPT ![m].chip = f, ![m].list = View(files, f, actionFilter)]
  /\ UNCHANGED <<hotFilesVars, actionFilter, panelVisible>>

SetFilter(m, f) ==
  /\ panels[m].visible /\ Clicked
  /\ filter' = f
  /\ panels' = [Rebuilt(files, f, actionFilter) EXCEPT ![m].chip = f]
  /\ UNCHANGED <<hotFilesVars, actionFilter, panelVisible>>

SetActionFilter(m, a) ==
  /\ panels[m].visible /\ Clicked
  /\ actionFilter' = a
  /\ panels' = [Rebuilt(files, filter, a) EXCEPT ![m].actionChip = a]
  /\ UNCHANGED <<hotFilesVars, filter, panelVisible>>

\* togglePanel, by a request or the Escape key.
TogglePanel ==
  /\ Clicked
  /\ panelVisible' = ~panelVisible
  /\ panels' = [m \in DOMAIN panels |-> [panels[m] EXCEPT !.visible = ~panelVisible]]
  /\ UNCHANGED <<hotFilesVars, filter, actionFilter>>

Unplug(m) ==
  /\ Clicked
  /\ panels' = [o \in DOMAIN panels \ {m} |-> panels[o]]
  /\ UNCHANGED <<hotFilesVars, filter, actionFilter, panelVisible>>

Plug(m) ==
  /\ Clicked
  /\ panels' = [o \in DOMAIN panels \cup {m} |-> IF o = m THEN NewPanel(files) ELSE panels[o]]
  /\ UNCHANGED <<hotFilesVars, filter, actionFilter, panelVisible>>

\* Quit, and hotbar is started again.
Quit ==
  /\ Clicked
  /\ StartAgain
  /\ filter' = "all" /\ actionFilter' = "all" /\ panelVisible' = FALSE
  /\ panels' = [m \in {} |-> NewPanel(<<>>)]

UserStep == \/ \E m \in DOMAIN panels : \/ \E f \in Filters : SetFilter(m, f)
                                        \/ \E a \in ActionFilters : SetActionFilter(m, a)
                                        \/ Unplug(m)
            \/ \E m \in Monitors \ DOMAIN panels : Plug(m)
            \/ TogglePanel
            \/ Quit

AppInit == /\ Init
           /\ filter = "all" /\ actionFilter = "all" /\ panelVisible = FALSE
           /\ panels = [m \in {} |-> NewPanel(<<>>)] /\ clicks = 0

AppNext == ServiceStep \/ UserStep

AppSpec == AppInit /\ [][AppNext]_appVars /\ Fairness

-----------------------------------------------------------------------------
(* Properties *)

\* Every panel shows the service's list as the service's filters have it, and all of them
\* are there to see or none: after any order of refreshes, clicks on one monitor or another,
\* toggles, and monitors that come and go (Panel.tsx:15-18, 197-251).
PanelsAgree ==
  \A m \in DOMAIN panels : /\ panels[m].list = View(files, filter, actionFilter)
                           /\ panels[m].visible = panelVisible
=============================================================================
