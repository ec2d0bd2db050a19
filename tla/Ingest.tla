------------------------------- MODULE Ingest -------------------------------
(***************************************************************************)
(* The four ingest tasks of hotbar-panel/src/main.rs, each with its own    *)
(* WriteBehindBuffer, feeding the shared HotState and the shared database. *)
(*                                                                         *)
(* A source (a log file, the recently-used list, the directories) only     *)
(* grows; event k of source s is its k-th entry. A Cursored source (Claude *)
(* and Codex logs) is read from where the last read ended, the position    *)
(* kept in memory only; the others (XBEL, directory scan) are read whole   *)
(* on every poll. Which event wins in the list is HotState's business: here*)
(* the list is the set of events applied to it. One connection serves all  *)
(* tasks, so a transaction left open by one is open for all.               *)
(***************************************************************************)
EXTENDS Integers, SequencesExt

CONSTANTS Sources,      \* one ingest task each
          Cursored,     \* sources read incrementally
          MaxBatch,     \* WriteBehindBuffer::max_batch (64)
          Interval,     \* flush_interval, in clock ticks (500 ms)
          DbMayFail,    \* whether BEGIN, INSERT or COMMIT may return an error
          MaxEvents,    \* bound: entries a source ever holds
          MaxRows,      \* bound: rows one source may add to the table
          MaxRestarts   \* bound: deaths of the process

ASSUME IngestAssumption == /\ Cursored \subseteq Sources
                           /\ MaxBatch \in Nat \ {0} /\ Interval \in Nat
                           /\ DbMayFail \in BOOLEAN
                           /\ {MaxEvents, MaxRows, MaxRestarts} \subseteq Nat

VARIABLES entries,   \* how many entries each source holds
          cursor,    \* how many of them the running process has read
          pending,   \* WriteBehindBuffer::pending
          age,       \* ticks since last_flush, up to Interval
          pc,        \* where each task is
          shown,     \* events of each source applied to the list
          rows,      \* committed rows of each source, in insertion order
          txnOpen,   \* the connection is inside a transaction nobody will end
          old,       \* history: rows each source had when the process started
          failed,    \* history: sources whose last flush returned an error
          restarts

ingestVars == <<entries, cursor, pending, age, pc, shown, rows, txnOpen,
                old, failed, restarts>>

Each(v) == [s \in Sources |-> v]

UpTo(n) == [k \in 1 .. n |-> k]

-----------------------------------------------------------------------------
Init == /\ entries = Each(0) /\ cursor = Each(0)
        /\ pending = Each(<<>>) /\ age = Each(0)
        /\ pc = Each("wait") /\ shown = Each({})
        /\ rows = Each(<<>>) /\ txnOpen = FALSE
        /\ old = Each(0) /\ failed = {} /\ restarts = 0

\* The source grows: an agent logs a tool call, a file is opened or written.
Grow(s) ==
  /\ entries[s] < MaxEvents
  /\ entries' = [entries EXCEPT ![s] = @ + 1]
  /\ UNCHANGED <<cursor, pending, age, pc, shown, rows, txnOpen, old, failed, restarts>>

\* Mutant: the read starts one entry late.
ReadNewSkips(s) == LET from == IF s \in Cursored THEN cursor[s] ELSE 0
                   IN  [k \in 1 .. entries[s] - from |-> from + k + 1]

\* What read_new returns: the entries past the cursor, or all of them.
ReadNew(s) == LET from == IF s \in Cursored THEN cursor[s] ELSE 0
              IN  [k \in 1 .. entries[s] - from |-> from + k]

\* Mutant: a full buffer is flushed before the events are applied.
ReadFlushesFirst(s) ==
  /\ pc[s] = "wait"
  /\ ReadNew(s) # <<>>
  /\ Len(rows[s]) + Len(pending[s]) + Len(ReadNew(s)) <= MaxRows
  /\ pending' = [pending EXCEPT ![s] = @ \o ReadNew(s)]
  /\ cursor' = [cursor EXCEPT ![s] = entries[s]]
  /\ pc' = [pc EXCEPT ![s] = IF Len(pending'[s]) >= MaxBatch THEN "flush" ELSE "apply"]
  /\ UNCHANGED <<entries, age, shown, rows, txnOpen, old, failed, restarts>>

\* A wake-up (inotify or timeout) that finds events: wb.push, then state.write().await.
\* One that finds none goes back to waiting, and does not look at the buffer.
Read(s) ==
  /\ pc[s] = "wait"
  /\ ReadNew(s) # <<>>
  /\ Len(rows[s]) + Len(pending[s]) + Len(ReadNew(s)) <= MaxRows
  /\ pending' = [pending EXCEPT ![s] = @ \o ReadNew(s)]
  /\ cursor' = [cursor EXCEPT ![s] = entries[s]]
  /\ pc' = [pc EXCEPT ![s] = "apply"]
  /\ UNCHANGED <<entries, age, shown, rows, txnOpen, old, failed, restarts>>

\* Mutant: the threshold must be exceeded.
ShouldFlushLate(s) == Len(pending[s]) > MaxBatch \/ age[s] >= Interval

ShouldFlush(s) == Len(pending[s]) >= MaxBatch \/ age[s] >= Interval

\* Mutant: with a flush due, applying is left to the next round.
ApplyUnlessFlushing(s) ==
  /\ pc[s] = "apply"
  /\ shown' = [shown EXCEPT ![s] = IF ShouldFlush(s) THEN @ ELSE @ \cup 1 .. cursor[s]]
  /\ pc' = [pc EXCEPT ![s] = IF ShouldFlush(s) THEN "flush" ELSE "wait"]
  /\ UNCHANGED <<entries, cursor, pending, age, rows, txnOpen, old, failed, restarts>>

\* st.apply_events(events), and after the guard is dropped should_flush().
Apply(s) ==
  /\ pc[s] = "apply"
  /\ shown' = [shown EXCEPT ![s] = @ \cup 1 .. cursor[s]]
  /\ pc' = [pc EXCEPT ![s] = IF ShouldFlush(s) THEN "flush" ELSE "wait"]
  /\ UNCHANGED <<entries, cursor, pending, age, rows, txnOpen, old, failed, restarts>>

\* flush under db.lock().await: BEGIN, the inserts, COMMIT.
FlushOk(s) ==
  /\ pc[s] = "flush"
  /\ ~txnOpen
  /\ rows' = [rows EXCEPT ![s] = @ \o pending[s]]
  /\ pending' = [pending EXCEPT ![s] = <<>>]
  /\ age' = [age EXCEPT ![s] = 0]
  /\ failed' = failed \ {s}
  /\ pc' = [pc EXCEPT ![s] = "wait"]
  /\ UNCHANGED <<entries, cursor, shown, txnOpen, old, restarts>>

\* Mutant: the buffer is cleared whether the insert worked or not.
FlushErrorClears(s) ==
  /\ pc[s] = "flush"
  /\ \/ txnOpen /\ UNCHANGED txnOpen
     \/ DbMayFail /\ ~txnOpen /\ txnOpen' \in BOOLEAN
  /\ failed' = failed \cup {s}
  /\ pending' = [pending EXCEPT ![s] = <<>>]
  /\ pc' = [pc EXCEPT ![s] = "wait"]
  /\ UNCHANGED <<entries, cursor, age, shown, rows, old, restarts>>

\* BEGIN fails (always inside an open transaction), or an insert does and ROLLBACK follows;
\* or COMMIT fails, the function returns, and SQLite may have left the transaction open.
FlushError(s) ==
  /\ pc[s] = "flush"
  /\ \/ txnOpen /\ UNCHANGED txnOpen
     \/ DbMayFail /\ ~txnOpen /\ txnOpen' \in BOOLEAN
  /\ failed' = failed \cup {s}
  /\ pc' = [pc EXCEPT ![s] = "wait"]
  /\ UNCHANGED <<entries, cursor, pending, age, shown, rows, old, restarts>>

Tick ==
  /\ age' = [s \in Sources |-> IF age[s] < Interval THEN age[s] + 1 ELSE Interval]
  /\ UNCHANGED <<entries, cursor, pending, pc, shown, rows, txnOpen, old, failed, restarts>>

\* Mutant: the read position outlives the process, the buffer does not.
RestartKeepsCursor ==
  /\ restarts < MaxRestarts
  /\ restarts' = restarts + 1
  /\ pending' = Each(<<>>) /\ age' = Each(0)
  /\ pc' = Each("wait")
  /\ shown' = [s \in Sources |-> ToSet(rows[s])]
  /\ txnOpen' = FALSE
  /\ old' = [s \in Sources |-> Len(rows[s])]
  /\ failed' = {}
  /\ UNCHANGED <<entries, cursor, rows>>

\* Quit or a crash between any two steps: buffers, cursors and an open transaction are
\* gone; hydrate_from_db shows the rows.
Restart ==
  /\ restarts < MaxRestarts
  /\ restarts' = restarts + 1
  /\ cursor' = Each(0) /\ pending' = Each(<<>>) /\ age' = Each(0)
  /\ pc' = Each("wait")
  /\ shown' = [s \in Sources |-> ToSet(rows[s])]
  /\ txnOpen' = FALSE
  /\ old' = [s \in Sources |-> Len(rows[s])]
  /\ failed' = {}
  /\ UNCHANGED <<entries, rows>>

TaskStep(s) == Read(s) \/ Apply(s) \/ FlushOk(s) \/ FlushError(s)

Next == \/ \E s \in Sources : Grow(s) \/ TaskStep(s)
        \/ Tick
        \/ Restart

\* A task is woken by its poll timeout at the latest, and time passes.
Fairness == WF_ingestVars(Tick) /\ \A s \in Sources : WF_ingestVars(TaskStep(s))

Spec == Init /\ [][Next]_ingestVars /\ Fairness

-----------------------------------------------------------------------------
(* Properties *)

\* Every variable holds a value of its type.
IngestTypeOK ==
  /\ entries \in [Sources -> 0 .. MaxEvents] /\ cursor \in [Sources -> 0 .. MaxEvents]
  /\ pending \in [Sources -> Seq(1 .. MaxEvents)] /\ rows \in [Sources -> Seq(1 .. MaxEvents)]
  /\ shown \in [Sources -> SUBSET (1 .. MaxEvents)]
  /\ age \in [Sources -> 0 .. Interval] /\ old \in [Sources -> Nat]
  /\ pc \in [Sources -> {"wait", "apply", "flush"}]
  /\ txnOpen \in BOOLEAN /\ failed \subseteq Sources /\ restarts \in 0 .. MaxRestarts

\* What a cursored source handed over since the start is, in order and once each, in the
\* table and then in the buffer: a flush that fails anywhere neither loses events nor
\* writes them twice when the next flush retries (write_behind.rs:52-60, db.rs:126-139).
WrittenOnceInOrder ==
  \A s \in Cursored :
    SubSeq(rows[s], old[s] + 1, Len(rows[s])) \o pending[s] = UpTo(cursor[s])

\* The table never holds an event the list does not: events are applied to the in-memory
\* state before they can hit the database (write_behind.rs:3-4).
DiskBehindMemory == \A s \in Sources : ToSet(rows[s]) \subseteq shown[s]

\* A waiting task holds fewer than MaxBatch events back, unless the database refused them:
\* the buffer cannot grow without bound while flushes work (write_behind.rs:5).
BacklogBounded ==
  \A s \in Sources : pc[s] = "wait" => Len(pending[s]) < MaxBatch \/ s \in failed

\* A waiting task has shown everything it read, whatever became of its flush: an event is
\* never withheld from the panel by the database (main.rs:147-157).
ReadIsShown ==
  \A s \in Sources : pc[s] # "apply" => 1 .. cursor[s] \subseteq shown[s]

\* Every entry of a cursored source gets into the list, also when the process died with
\* the entry in a buffer: the next process starts again at the beginning of the log.
EventuallyShown ==
  \A s \in Cursored, k \in 1 .. MaxEvents : entries[s] >= k ~> k \in shown[s]

-----------------------------------------------------------------------------
(* What a comment of the code says and the code does not do *)

\* "Flushed every 500ms or when 64 events accumulate -- whichever comes first"
\* (write_behind.rs:4-5): what is pending gets flushed.
FlushedInTime == \A s \in Sources : pending[s] # <<>> ~> pending[s] = <<>>
=============================================================================
