----------------------------- MODULE LatestWins -----------------------------
(***************************************************************************)
(* What the in-memory file list promises to its readers, with none of the  *)
(* machinery of state.rs: every event delivered so far is remembered only  *)
(* as the latest timestamp of its path, and whatever is published for the  *)
(* readers is a best-N list of those timestamps.                           *)
(***************************************************************************)
EXTENDS Integers, Sequences

CONSTANTS Paths,       \* file paths
          Timestamps,  \* unix seconds an event may carry
          Kinds,       \* what else an entry shows: its source and action
          MaxFiles     \* HotState::max_files

VARIABLES latest,  \* latest timestamp delivered for each path
          shown    \* the list readers see

lwVars == <<latest, shown>>

Never == -1   \* no event of the path was delivered yet

Entry == [path : Paths, ts : Timestamps, kind : Kinds]

PathsIn(s) == {s[k].path : k \in DOMAIN s}

\* "All files, sorted by timestamp DESC" (state.rs:49)
Descending(s) == \A a, b \in DOMAIN s : a < b => s[a].ts >= s[b].ts

DistinctPaths(s) == \A a, b \in DOMAIN s : s[a].path = s[b].path => a = b

\* Each entry of s carries the latest timestamp of its path.
CarriesLatest(s, lat) == \A k \in DOMAIN s : s[k].ts = lat[s[k].path]

\* A path that was delivered and is not in s lost to MaxFiles entries, none older than it.
NothingBetterLeftOut(s, lat) ==
  \A p \in Paths \ PathsIn(s) :
     lat[p] # Never => /\ Len(s) = MaxFiles
                       /\ \A k \in DOMAIN s : s[k].ts >= lat[p]

IsTopList(s, lat) == /\ Len(s) <= MaxFiles
                     /\ Descending(s)
                     /\ DistinctPaths(s)
                     /\ CarriesLatest(s, lat)
                     /\ NothingBetterLeftOut(s, lat)

\* An entry is replaced only by a strictly newer one.
KeepsUnlessNewer(old, new) ==
  \A a \in DOMAIN old, b \in DOMAIN new :
     old[a].path = new[b].path => \/ new[b] = old[a]
                                  \/ new[b].ts > old[a].ts

Init == /\ latest = [p \in Paths |-> Never]
        /\ shown = <<>>

Deliver(p, t) == /\ latest' = [latest EXCEPT ![p] = IF t > @ THEN t ELSE @]
                 /\ UNCHANGED shown

Publish == /\ IsTopList(shown', latest)
           /\ KeepsUnlessNewer(shown, shown')
           /\ UNCHANGED latest

Next == \/ \E p \in Paths, t \in Timestamps : Deliver(p, t)
        \/ Publish

Spec == Init /\ [][Next]_lwVars
=============================================================================
