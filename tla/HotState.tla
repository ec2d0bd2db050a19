------------------------------ MODULE HotState ------------------------------
(***************************************************************************)
(* hotbar-daemon/src/state.rs: the file list every other part reads.       *)
(*                                                                         *)
(* One call of apply_events is a run of steps under the write lock: the    *)
(* merge loop over the batch, the insertion sort one comparison at a time, *)
(* then the index rebuild and the trim. Readers run only when pc is        *)
(* "idle"; what they then see is view.                                     *)
(*                                                                         *)
(* Indices start at 1 (the code's at 0). A path stands for its interned    *)
(* id as well (intern.rs maps equal paths to equal ids). kind stands for   *)
(* an entry's source, action and confidence. The activity counter that     *)
(* apply_events also feeds decides nothing here and is left out.           *)
(***************************************************************************)
EXTENDS Integers, Sequences

CONSTANTS Paths,       \* file paths
          Timestamps,  \* unix seconds an event may carry
          Kinds,       \* source and action of an event
          MaxFiles,    \* HotState::max_files (200 in production)
          Batches      \* the event vectors a source may hand over

Event == [path : Paths, ts : Timestamps, kind : Kinds]

ASSUME HotStateAssumption == /\ Timestamps \subseteq Nat
                             /\ MaxFiles \in Nat
                             /\ Batches \subseteq Seq(Event)

VARIABLES files,    \* entries, by timestamp DESC whenever the lock is free
          by_path,  \* path -> index in files
          batch,    \* events of the running call not merged yet
          pc,       \* where the running call is
          i, j,     \* the sort's loop counters
          delta,    \* what the call reports it changed
          view,     \* files when the write lock was last free
          seen      \* history: latest timestamp delivered per path

hotVars == <<files, by_path, batch, pc, i, j, delta, view, seen>>

Never == -1

PathsIn(s) == {s[k].path : k \in DOMAIN s}

\* rebuild_index inserts in order, so the last entry of a path is the one indexed.
IndexOf(s) ==
  [p \in PathsIn(s) |-> CHOOSE k \in DOMAIN s :
                          /\ s[k].path = p
                          /\ \A m \in DOMAIN s : s[m].path = p => m <= k]

NoDelta == [added |-> {}, updated |-> {}, removed |-> {}]

-----------------------------------------------------------------------------
\* HotState::new() hydrated from an empty database.
Init ==
  /\ files = <<>> /\ by_path = IndexOf(<<>>) /\ view = <<>>
  /\ batch = <<>> /\ delta = NoDelta
  /\ pc = "idle"
  /\ i = 0 /\ j = 0
  /\ seen = [p \in Paths |-> Never]

\* apply_events is entered with a non-empty batch; an empty one returns at once.
Receive(b) ==
  /\ pc = "idle"
  /\ b # <<>>
  /\ batch' = b
  /\ delta' = NoDelta
  /\ pc' = "merge"
  /\ UNCHANGED <<files, by_path, i, j, view, seen>>

\* The next event of the merge loop.
Merging == pc = "merge" /\ batch # <<>>

Deliver(e) ==
  /\ batch' = Tail(batch)
  /\ seen' = [seen EXCEPT ![e.path] = IF e.ts > @ THEN e.ts ELSE @]
  /\ UNCHANGED <<pc, i, j, view>>

MergeNew ==
  LET e == Head(batch) IN
  /\ Merging
  /\ e.path \notin DOMAIN by_path
  /\ files' = Append(files, e)
  /\ by_path' = [p \in DOMAIN by_path \cup {e.path} |->
                   IF p = e.path THEN Len(files) + 1 ELSE by_path[p]]
  /\ delta' = [delta EXCEPT !.added = @ \cup {e.path}]
  /\ Deliver(e)

\* Mutant: an event as old as the entry replaces it.
IsNewerOrEqual(e) == e.ts >= files[by_path[e.path]].ts

IsNewer(e) == e.ts > files[by_path[e.path]].ts

MergeUpdate ==
  LET e == Head(batch) IN
  /\ Merging
  /\ e.path \in DOMAIN by_path
  /\ IsNewer(e)
  /\ files' = [files EXCEPT ![by_path[e.path]] = e]
  /\ delta' = [delta EXCEPT !.updated = @ \cup {e.path}]
  /\ UNCHANGED by_path
  /\ Deliver(e)

MergeStale ==
  LET e == Head(batch) IN
  /\ Merging
  /\ e.path \in DOMAIN by_path
  /\ ~IsNewer(e)
  /\ UNCHANGED <<files, by_path, delta>>
  /\ Deliver(e)

BeginSort ==
  /\ pc = "merge" /\ batch = <<>>
  /\ pc' = "sort"
  /\ i' = 2 /\ j' = 2
  /\ UNCHANGED <<files, by_path, batch, delta, view, seen>>

\* Mutant: the sort is ascending.
OutOfPlaceAscending == j > 1 /\ files[j].ts < files[j - 1].ts

\* The inner while loop's condition: entry j must move up past entry j - 1.
OutOfPlace == j > 1 /\ files[j].ts > files[j - 1].ts

\* Mutant: the inner loop walks the wrong way.
SortSwapUpwards ==
  /\ pc = "sort" /\ i <= Len(files)
  /\ OutOfPlace
  /\ files' = [files EXCEPT ![j] = files[j - 1], ![j - 1] = files[j]]
  /\ j' = j + 1
  /\ UNCHANGED <<by_path, batch, pc, i, delta, view, seen>>

SortSwap ==
  /\ pc = "sort" /\ i <= Len(files)
  /\ OutOfPlace
  /\ files' = [files EXCEPT ![j] = files[j - 1], ![j - 1] = files[j]]
  /\ j' = j - 1
  /\ UNCHANGED <<by_path, batch, pc, i, delta, view, seen>>

\* Mutant: the outer loop does not advance.
SortNextStuck ==
  /\ pc = "sort" /\ i <= Len(files)
  /\ ~OutOfPlace
  /\ i' = i /\ j' = i
  /\ UNCHANGED <<files, by_path, batch, pc, delta, view, seen>>

SortNext ==
  /\ pc = "sort" /\ i <= Len(files)
  /\ ~OutOfPlace
  /\ i' = i + 1 /\ j' = i + 1
  /\ UNCHANGED <<files, by_path, batch, pc, delta, view, seen>>

\* Mutants: the trim keeps one entry too many, or the oldest entries.
TrimmedLate == IF Len(files) > MaxFiles + 1 THEN SubSeq(files, 1, MaxFiles) ELSE files

TrimmedFront == IF Len(files) > MaxFiles
                THEN SubSeq(files, Len(files) - MaxFiles + 1, Len(files)) ELSE files

\* rebuild_index, the trim to max_files, the second rebuild; the lock is released.
Trimmed == IF Len(files) > MaxFiles THEN SubSeq(files, 1, MaxFiles) ELSE files

\* Mutant: the first entry cut off is not reported.
PastLimitShort == {files[k].path : k \in {m \in DOMAIN files : m > MaxFiles + 1}}

PastLimit == {files[k].path : k \in {m \in DOMAIN files : m > MaxFiles}}

\* Mutant: the index is not rebuilt after the trim.
FinishStaleIndex ==
  /\ pc = "sort" /\ i > Len(files)
  /\ files' = Trimmed
  /\ by_path' = IndexOf(files)
  /\ delta' = [delta EXCEPT !.removed = PastLimit]
  /\ view' = Trimmed
  /\ pc' = "idle"
  /\ i' = 0 /\ j' = 0
  /\ UNCHANGED <<batch, seen>>

Finish ==
  /\ pc = "sort" /\ i > Len(files)
  /\ files' = Trimmed
  /\ by_path' = IndexOf(Trimmed)
  /\ delta' = [delta EXCEPT !.removed = PastLimit]
  /\ view' = Trimmed
  /\ pc' = "idle"
  /\ i' = 0 /\ j' = 0
  /\ UNCHANGED <<batch, seen>>

ApplyStep == \/ MergeNew \/ MergeUpdate \/ MergeStale
             \/ BeginSort \/ SortSwap \/ SortNext \/ Finish

Next == (\E b \in Batches : Receive(b)) \/ ApplyStep

Spec == Init /\ [][Next]_hotVars /\ WF_hotVars(ApplyStep)

-----------------------------------------------------------------------------
(* Properties *)

\* Every variable holds a value of its type, the loop counters stay in the list.
TypeOK ==
  /\ files \in Seq(Event) /\ view \in Seq(Event) /\ batch \in Seq(Event)
  /\ pc \in {"idle", "merge", "sort"}
  /\ i \in Nat /\ j \in 0 .. i
  /\ seen \in [Paths -> Timestamps \cup {Never}]
  /\ delta \in [added : SUBSET Paths, updated : SUBSET Paths, removed : SUBSET Paths]

Abstract == INSTANCE LatestWins WITH latest <- seen, shown <- view

\* The list readers see is a best-N list of everything delivered: latest timestamp per
\* path, one entry per path, newest first, and nothing newer was trimmed away.
\* (state.rs:49 and :66; only a whole call can break it, by a wrong merge, sort or trim.)
ViewIsTopList == pc = "idle" => Abstract!IsTopList(view, seen)

\* Whenever the lock is free by_path names, for each listed path and no other, an index
\* that holds this path: a stale index after the sort or the trim would make the next
\* call overwrite another file's entry (state.rs:114, 124 and the test at state.rs:621).
IndexExact ==
  pc = "idle" => /\ DOMAIN by_path = PathsIn(files)
                 /\ \A k \in DOMAIN files : by_path[files[k].path] = k

\* The sort's outer loop keeps everything up to i in order but for the entry it is moving
\* (at j), so that the list is in order when the trim cuts it (state.rs:103-112).
SortPrefix ==
  pc = "sort" => \A a, b \in DOMAIN files :
                    a < b /\ b <= i /\ b # j => files[a].ts >= files[b].ts

\* Replaying the reported delta on the old list's paths gives the new list's paths: a
\* consumer that only follows deltas never drifts from the list (state.rs:66-67).
DeltaReplays ==
  [][pc = "sort" /\ pc' = "idle" =>
       PathsIn(view') = (PathsIn(view) \cup delta'.added) \ delta'.removed]_hotVars

\* An entry changes only when a strictly newer event of its path was delivered, so a
\* source that hands over its whole history on every poll changes nothing (xbel.rs:51-52).
OnlyNewerReplaces == [][Abstract!KeepsUnlessNewer(view, view')]_hotVars

\* state.rs implements the promise of LatestWins.
ImplementsLatestWins == Abstract!Spec

\* A call of apply_events ends: the inner while loop and the trim always get there.
CallReturns == (pc # "idle") ~> (pc = "idle")
=============================================================================
