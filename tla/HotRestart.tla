----------------------------- MODULE HotRestart -----------------------------
(***************************************************************************)
(* HotState across a restart: the events of finished calls reach the table *)
(* file_events in the order and at the moments of a write-behind buffer,   *)
(* the process dies between any two steps, and the next one starts from    *)
(* hydrate_from_db. The table has no key on path or timestamp, so a source *)
(* that hands over the same events again adds the same rows again.         *)
(***************************************************************************)
EXTENDS HotState, FiniteSets, SequencesExt

CONSTANT MaxRows  \* bound: rows the table ever holds

VARIABLES rows,    \* the table, in insertion order
          pending  \* events read by the running process and not flushed yet

restartVars == <<hotVars, rows, pending>>

\* INSERT of a whole buffer in one transaction.
Flush == /\ pc = "idle" /\ pending # <<>>
         /\ rows' = rows \o pending
         /\ pending' = <<>>
         /\ UNCHANGED hotVars

\* wb.push(&events) comes just before the call.
PushAndReceive(b) == /\ Len(rows) + Len(pending) + Len(b) <= MaxRows
                     /\ Receive(b)
                     /\ pending' = pending \o b
                     /\ UNCHANGED rows

\* SELECT .. ORDER BY timestamp DESC LIMIT max_files: ties come in any order.
Smaller(m, n) == IF m < n THEN m ELSE n

\* Mutant: the oldest rows come first.
OldestRows == {SubSeq([k \in DOMAIN order |-> rows[order[k]]], 1, Smaller(MaxFiles, Len(rows))) :
                 order \in {o \in SetToSeqs(DOMAIN rows) :
                              \A a, b \in DOMAIN o : a < b => rows[o[a]].ts <= rows[o[b]].ts}}

NewestRows == {SubSeq([k \in DOMAIN order |-> rows[order[k]]], 1, Smaller(MaxFiles, Len(rows))) :
                 order \in {o \in SetToSeqs(DOMAIN rows) :
                              \A a, b \in DOMAIN o : a < b => rows[o[a]].ts >= rows[o[b]].ts}}

LatestRow(p) == LET stamps == {rows[k].ts : k \in {m \in DOMAIN rows : rows[m].path = p}}
                IN  IF stamps = {} THEN Never
                    ELSE CHOOSE t \in stamps : \A u \in stamps : u <= t

\* hydrate_from_db: the rows become the list as they are, the index is rebuilt.
HydrateFromDb == /\ files' \in NewestRows
                 /\ by_path' = IndexOf(files')
                 /\ view' = files'
                 /\ batch' = <<>> /\ delta' = NoDelta
                 /\ pc' = "idle"
                 /\ i' = 0 /\ j' = 0
                 /\ seen' = [p \in Paths |-> LatestRow(p)]

\* Quit or a crash between any two steps, the lock held or not, and the next start.
Restart == /\ HydrateFromDb
           /\ pending' = <<>>
           /\ UNCHANGED rows

RInit == Init /\ rows = <<>> /\ pending = <<>>

RNext == \/ \E b \in Batches : PushAndReceive(b)
         \/ ApplyStep /\ UNCHANGED <<rows, pending>>
         \/ Flush
         \/ Restart

RSpec == RInit /\ [][RNext]_restartVars

-----------------------------------------------------------------------------
(* Properties *)

\* Also after a restart the list is in order, within max_files, and the first entry of
\* each path it shows is the latest one known: neither the rows' order nor an index that
\* names one of several entries of a path lets an older event cover a newer one.
NewestFirstAfterRestart ==
  pc = "idle" =>
    /\ Abstract!Descending(view)
    /\ Len(view) <= MaxFiles
    /\ \A k \in DOMAIN view :
         (\A m \in 1 .. k - 1 : view[m].path # view[k].path) => view[k].ts = seen[view[k].path]

-----------------------------------------------------------------------------
(* What a test of the code says and the code does not do *)

\* "by_path index should be consistent" (state.rs:621-630): whenever the lock is free each
\* entry of the list is the one the index names for its path.
IndexConsistent == pc = "idle" => \A k \in DOMAIN files : by_path[files[k].path] = k
=============================================================================
