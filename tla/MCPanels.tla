------------------------------ MODULE MCPanels ------------------------------
(***************************************************************************)
(* The version 1 program on a small desktop. A behaviour stays within one  *)
(* of the scopes, chosen at its start: how much happens, where, by whom,   *)
(* at which times, and whether also while a refresh runs.                  *)
(***************************************************************************)
EXTENDS Panels

CONSTANTS d1, d2, n, left, right

VARIABLE scope

mcVars == <<appVars, scope>>

Scopes == {[dirs |-> {d1}, desktop |-> FALSE, tools |-> {"Edit"}, threads |-> {},
            changes |-> 3, clicks |-> 0, times |-> {2, 3, 5, 6, 7}, busy |-> FALSE],
           [dirs |-> {d1}, desktop |-> FALSE, tools |-> {}, threads |-> {1, 2},
            changes |-> 2, clicks |-> 0, times |-> {2, 4, 6, 8}, busy |-> TRUE],
           [dirs |-> {d1, d2}, desktop |-> TRUE, tools |-> {"Read", "Write"},
            threads |-> {1}, changes |-> 2, clicks |-> 0, times |-> {2, 6, 7}, busy |-> TRUE],
           [dirs |-> {d1}, desktop |-> FALSE, tools |-> {"Read", "Write", "Edit"}, threads |-> {},
            changes |-> 1, clicks |-> 3, times |-> {2, 4}, busy |-> TRUE]}

MCInit == AppInit /\ scope \in Scopes

MCNext ==
  /\ AppNext
  /\ UNCHANGED scope
  /\ changes' <= scope.changes /\ clicks' <= scope.clicks /\ now' \in scope.times
  /\ \A p \in Files : DirOf(p) \notin scope.dirs =>
       disk'[p] = disk[p] /\ visited'[p] = visited[p]
  /\ \A s \in 1 .. MaxSessions : doing'[s].what \in scope.tools \cup {Nothing.what}
  /\ scope.desktop \/ visited' = visited
  /\ \A r \in ToSet(rows') : r.thread \in scope.threads
  /\ scope.tools # {} \/ began' = began
  /\ world' # world => scope.busy \/ pc \in {"start", "idle"}

MCSpec == MCInit /\ [][MCNext]_mcVars /\ Fairness
=============================================================================
