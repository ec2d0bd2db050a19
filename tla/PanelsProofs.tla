---------------------------- MODULE PanelsProofs ----------------------------
(***************************************************************************)
(* Proofs about the version 1 program: Panels, and what HotFilesProofs     *)
(* shows of a refresh, for AppSpec.                                        *)
(***************************************************************************)
EXTENDS Panels, HotFilesProofs

\* What a panel may show: its chips are its own, the rest is the service's.
Showing == [list : {View(files, filter, actionFilter)}, chip : Filters \cup {"all"},
            actionChip : ActionFilters \cup {"all"}, visible : {panelVisible}]

PanelsInv == /\ filter \in Filters \cup {"all"} /\ actionFilter \in ActionFilters \cup {"all"}
             /\ panels \in [DOMAIN panels -> Showing]
             /\ initialized \/ DOMAIN panels = {}

-----------------------------------------------------------------------------
(* Panels agree *)

\* The service's steps, with what the panels make of a new list.
LEMMA ServiceStepShows ==
  ASSUME ServiceStep, HotFilesInv, PanelsInv
  PROVE  PanelsInv'
  <1> DEFINE shown == [list : {View(files', filter, actionFilter)}, chip : Filters \cup {"all"},
                       actionChip : ActionFilters \cup {"all"}, visible : {panelVisible}]
  <1>1. /\ filter' = filter /\ actionFilter' = actionFilter /\ panelVisible' = panelVisible
        /\ filter \in Filters \cup {"all"} /\ actionFilter \in ActionFilters \cup {"all"}
    BY DEF ServiceStep, Notify, PanelsInv
  <1>2. \/ files' = files /\ initialized' = initialized
        \/ initialized'
    BY OnlyPublishTouchesList DEF ServiceStep, HotFilesInv, WorldInv
  <1>3. CASE initialized' /\ ~initialized
    <2>1. panels' = [m \in Monitors |-> NewPanel(files')]
      BY <1>3 DEF ServiceStep, Notify
    <2> QED
      BY <1>1, <1>3, <2>1 DEF PanelsInv, Showing, NewPanel
  <1>4. CASE initialized /\ files' # files
    <2>1. panels' = Rebuilt(files', filter, actionFilter)
      BY <1>4 DEF ServiceStep, Notify
    <2>2. initialized'
      BY <1>2, <1>4
    <2>3. \A m \in DOMAIN panels : panels[m] \in Showing
      BY DEF PanelsInv
    <2>4. \A m \in DOMAIN panels :
            [panels[m] EXCEPT !.list = View(files', filter, actionFilter)] \in shown
      BY <2>3 DEF Showing
    <2> QED
      BY <1>1, <2>1, <2>2, <2>4 DEF PanelsInv, Showing, Rebuilt
  <1>5. CASE files' = files /\ initialized' = initialized
    <2>1. panels' = panels
      BY <1>5 DEF ServiceStep, Notify
    <2> QED
      BY <1>1, <1>5, <2>1 DEF PanelsInv, Showing
  <1>6. CASE initialized /\ initialized' /\ files' = files
    BY <1>5, <1>6
  <1> QED
    BY <1>2, <1>3, <1>4, <1>5, <1>6 DEF HotFilesInv, PcInv

\* A click on the chips of one panel rebuilds all of them.
LEMMA SetFilterShows ==
  ASSUME PanelsInv, NEW m \in DOMAIN panels, NEW f \in Filters, SetFilter(m, f)
  PROVE  PanelsInv'
  <1> DEFINE shown == [list : {View(files, f, actionFilter)}, chip : Filters \cup {"all"},
                       actionChip : ActionFilters \cup {"all"}, visible : {panelVisible}]
  <1>1. f \in Filters \cup {"all"}
    OBVIOUS
  <1>2. \A o \in DOMAIN panels :
          [panels[o] EXCEPT !.list = View(files, f, actionFilter)] \in shown
    BY DEF PanelsInv, Showing
  <1>3. Rebuilt(files, f, actionFilter) \in [DOMAIN panels -> shown]
    BY <1>2 DEF Rebuilt
  <1>4. panels' \in [DOMAIN panels -> shown]
    BY <1>1, <1>3 DEF SetFilter
  <1>5. /\ files' = files /\ filter' = f /\ actionFilter' = actionFilter
        /\ panelVisible' = panelVisible /\ initialized' = initialized
    BY DEF SetFilter, hotFilesVars, service
  <1> QED
    BY <1>1, <1>4, <1>5 DEF PanelsInv, Showing

LEMMA SetActionFilterShows ==
  ASSUME PanelsInv, NEW m \in DOMAIN panels, NEW a \in ActionFilters, SetActionFilter(m, a)
  PROVE  PanelsInv'
  <1> DEFINE shown == [list : {View(files, filter, a)}, chip : Filters \cup {"all"},
                       actionChip : ActionFilters \cup {"all"}, visible : {panelVisible}]
  <1>1. a \in ActionFilters \cup {"all"}
    OBVIOUS
  <1>2. \A o \in DOMAIN panels :
          [panels[o] EXCEPT !.list = View(files, filter, a)] \in shown
    BY DEF PanelsInv, Showing
  <1>3. Rebuilt(files, filter, a) \in [DOMAIN panels -> shown]
    BY <1>2 DEF Rebuilt
  <1>4. panels' \in [DOMAIN panels -> shown]
    BY <1>1, <1>3 DEF SetActionFilter
  <1>5. /\ files' = files /\ filter' = filter /\ actionFilter' = a
        /\ panelVisible' = panelVisible /\ initialized' = initialized
    BY DEF SetActionFilter, hotFilesVars, service
  <1> QED
    BY <1>1, <1>4, <1>5 DEF PanelsInv, Showing

\* Toggling, monitors that come and go, and a new start.
LEMMA OtherClicksShow ==
  ASSUME PanelsInv, HotFilesInv,
         \/ TogglePanel
         \/ \E m \in DOMAIN panels : Unplug(m)
         \/ \E m \in Monitors \ DOMAIN panels : Plug(m)
         \/ Quit
  PROVE  PanelsInv'
  <1>1. CASE TogglePanel
    <2>1. /\ files' = files /\ filter' = filter /\ actionFilter' = actionFilter
          /\ panelVisible' = ~panelVisible /\ initialized' = initialized
          /\ panels' = [o \in DOMAIN panels |-> [panels[o] EXCEPT !.visible = ~panelVisible]]
      BY <1>1 DEF TogglePanel, hotFilesVars, service
    <2> QED
      BY <2>1 DEF PanelsInv, Showing
  <1>2. ASSUME NEW m \in DOMAIN panels, Unplug(m)
        PROVE  PanelsInv'
    <2>1. /\ files' = files /\ filter' = filter /\ actionFilter' = actionFilter
          /\ panelVisible' = panelVisible /\ initialized' = initialized
          /\ panels' = [o \in DOMAIN panels \ {m} |-> panels[o]]
      BY <1>2 DEF Unplug, hotFilesVars, service
    <2> QED
      BY <2>1 DEF PanelsInv, Showing
  <1>3. ASSUME NEW m \in Monitors \ DOMAIN panels, Plug(m)
        PROVE  PanelsInv'
    <2>1. /\ files' = files /\ filter' = filter /\ actionFilter' = actionFilter
          /\ panelVisible' = panelVisible /\ initialized' = initialized
      BY <1>3 DEF Plug, hotFilesVars, service
    <2>2. NewPanel(files) \in Showing
      BY DEF NewPanel, Showing, PanelsInv
    <2>3. panels' \in [DOMAIN panels \cup {m} -> Showing]
      BY <1>3, <2>2 DEF Plug, PanelsInv
    <2>4. initialized
      BY <1>3 DEF Plug, Clicked, HotFilesInv, PcInv
    <2> QED
      BY <2>1, <2>3, <2>4 DEF PanelsInv, Showing
  <1>4. CASE Quit
    BY <1>4 DEF Quit, StartAgain, PanelsInv, Showing
  <1> QED
    BY <1>1, <1>2, <1>3, <1>4

AppInv == HotFilesInv /\ PanelsInv

LEMMA AppStart == AppInit => AppInv
  <1> SUFFICES ASSUME AppInit
               PROVE  AppInv
    OBVIOUS
  <1>1. HotFilesInv
    BY HotFilesStart DEF AppInit
  <1>2. PanelsInv
    BY DEF AppInit, PanelsInv, Showing
  <1> QED
    BY <1>1, <1>2 DEF AppInv

LEMMA AppStep == AppInv /\ [AppNext]_appVars => AppInv'
  <1> SUFFICES ASSUME AppInv, [AppNext]_appVars
               PROVE  AppInv'
    OBVIOUS
  <1> USE DEF AppInv
  <1>1. CASE ServiceStep
    <2>1. HotFilesInv'
      BY <1>1, HotFilesStep DEF ServiceStep
    <2> QED
      BY <1>1, <2>1, ServiceStepShows
  <1>2. CASE UserStep
    <2>1. PanelsInv'
      BY <1>2, SetFilterShows, SetActionFilterShows, OtherClicksShow DEF UserStep
    <2>2. UNCHANGED hotFilesVars \/ StartAgain
      BY <1>2 DEF UserStep, SetFilter, SetActionFilter, TogglePanel, Unplug, Plug, Quit
    <2>3. CASE UNCHANGED hotFilesVars
      BY <2>3, HotFilesStep, <2>1
    <2>4. CASE StartAgain
      BY <2>1, <2>4, StartsAgain
    <2> QED
      BY <2>2, <2>3, <2>4
  <1>3. CASE UNCHANGED appVars
    <2>1. HotFilesInv'
      BY <1>3, HotFilesStep DEF appVars
    <2>2. PanelsInv'
      BY <1>3 DEF appVars, panelVars, hotFilesVars, service, PanelsInv, Showing
    <2> QED
      BY <2>1, <2>2
  <1> QED
    BY <1>1, <1>2, <1>3 DEF AppNext

-----------------------------------------------------------------------------
(* Theorems *)

\* Whatever the world does and whenever refreshes, clicks and restarts happen, the service
\* holds values of its types, at most MaxFiles entries and at most MaxMonitors monitors.
THEOREM HotFilesTypeCorrect == AppSpec => []HotFilesTypeOK
  <1>1. AppInv => HotFilesTypeOK
    BY TypeSuffices DEF AppInv
  <1> QED
    BY AppStart, AppStep, <1>1, PTL DEF AppSpec

\* For any log of any number of sessions of Claude's that wrote in turn: whatever part of it
\* was read, _readAgentFiles dates no line a second before its tool ran or earlier.
THEOREM NoLineDatedEarly == AppSpec => []DatesNotEarly
  <1>1. AppInv => DatesNotEarly
    BY DatesSuffice DEF AppInv
  <1> QED
    BY AppStart, AppStep, <1>1, PTL DEF AppSpec

\* A refresh does not show as the user's what Codex's log told it about, nor what Claude's
\* did where its sessions wrote in turn, although the world changes between the steps of the
\* refresh.
THEOREM AgentsKeepTheirWrites == AppSpec => NeverTakenFromAgent
  <1> DEFINE NoneTaken ==
        pc = "publish" /\ pc' = "idle" =>
          \A p \in Files : (LineAbout(p) /\ InTurn(TextOf(text))) \/ RowAbout(p) =>
            ~TakenFromAgent(p)
  <1>1. AppInv /\ [AppNext]_appVars => [NoneTaken]_hotFilesVars
    <2> SUFFICES ASSUME AppInv, [AppNext]_appVars
                 PROVE  [NoneTaken]_hotFilesVars
      OBVIOUS
    <2>1. Next \/ UNCHANGED hotFilesVars \/ StartAgain
      BY DEF AppNext, ServiceStep, UserStep, SetFilter, SetActionFilter, TogglePanel, Unplug,
             Plug, Quit, appVars
    <2>2. CASE Next
      BY <2>2, NothingTaken DEF AppInv
    <2>3. CASE StartAgain
      BY <2>3 DEF StartAgain
    <2> QED
      BY <2>1, <2>2, <2>3
  <1> QED
    BY AppStart, AppStep, <1>1, PTL DEF AppSpec, NeverTakenFromAgent

\* However refreshes, signals, clicks and restarts follow one another, a service that is not
\* refreshing has a signal or timer left for every watched change it has not read.
THEOREM NoChangeForgotten == AppSpec => []NoLostWakeup
  <1>1. AppInv => NoLostWakeup
    BY WakeSuffices DEF AppInv
  <1> QED
    BY AppStart, AppStep, <1>1, PTL DEF AppSpec

\* On any number of monitors, every panel shows the service's list under the service's
\* filters, and is visible when all are.
THEOREM PanelsShowTheList == AppSpec => []PanelsAgree
  <1>1. AppInv => PanelsAgree
    BY DEF AppInv, PanelsInv, Showing, PanelsAgree
  <1> QED
    BY AppStart, AppStep, <1>1, PTL DEF AppSpec
=============================================================================
