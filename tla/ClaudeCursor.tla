---------------------------- MODULE ClaudeCursor ----------------------------
(***************************************************************************)
(* hotbar-daemon/src/ingest/claude.rs: reads Claude Code's events.jsonl    *)
(* from where the last read ended.                                         *)
(*                                                                         *)
(* The writer appends bytes whenever it likes and may start a new file     *)
(* under the same name; a call of read_new looks at the file (Look) and    *)
(* later reads it (ReadFull, ReadAppended), and what happens in between    *)
(* goes unnoticed. Lines carry seconds since their session began; the      *)
(* cursor turns them into absolute times by the file's mtime.              *)
(*                                                                         *)
(* The home and skip-list filters of paths are left out: all paths pass.   *)
(* So is the filter of times more than a minute ahead of the clock, which  *)
(* NotInFuture shows never to apply.                                       *)
(***************************************************************************)
EXTENDS LogFile, SequencesExt, Ordered

CONSTANTS Paths,
          Tools,         \* subset of {"Read", "Write", "Edit", "Bash"}
          Rels,          \* seconds since the session began
          Gap,           \* a fall by more than this is a new session (60)
          Window,        \* events older than this are dropped (86400)
          MaxDelay,      \* bound: seconds from looking at the file to reading it
          MaxLines,      \* bound: lines of the first file, one less of each later one
          MaxRotations   \* bound: new files

Line == [path : Paths, tool : Tools, rel : Rels]

ASSUME ClaudeAssumption == /\ Rels \subseteq Nat
                           /\ Tools \subseteq {"Read", "Write", "Edit", "Bash"}
                           /\ {Gap, Window, MaxDelay, MaxLines, MaxRotations} \subseteq Nat

VARIABLES log,        \* lines of the file, the last one perhaps not all there yet
          size,       \* bytes of the file
          inode,
          mtime,
          pc,         \* "idle", or "read" between looking and reading
          looked,     \* the mtime seen when looking
          offset, last_inode, max_ts, prev_ts,  \* fields of ClaudeCursor
          seen_paths, created_paths,            \* likewise
          batch,      \* the events a read returned, until the next call
          parsed,     \* history: lines parsed since the last reset, with their file's inode
          torn,       \* history: lines a read found half written
          acts        \* history: path and action of the events since the last reset

file == <<log, size, inode, mtime>>
cursor == <<offset, last_inode, max_ts, prev_ts, seen_paths, created_paths>>
claudeVars == <<file, pc, looked, cursor, batch, parsed, torn, acts>>

-----------------------------------------------------------------------------
(* The file *)

Init == /\ log = <<>> /\ size = 0 /\ inode = 1 /\ mtime = 0
        /\ pc = "idle" /\ looked = 0
        /\ offset = 0 /\ last_inode = 0 /\ max_ts = 0 /\ prev_ts = 0
        /\ seen_paths = {} /\ created_paths = {}
        /\ batch = <<>> /\ parsed = {} /\ torn = {} /\ acts = {}

\* The writer adds some of the bytes of a line, which it begins a second after the last.
WriteBytes(k) == /\ size' \in size + 1 .. LineEnd(k)
                 /\ UNCHANGED <<inode, pc, looked, cursor, batch, parsed, torn, acts>>

StartLine(l) == /\ size = LineEnd(Len(log)) /\ Len(log) < MaxLines - (inode - 1)
                /\ log' = Append(log, l)
                /\ mtime' = mtime + 1
                /\ WriteBytes(Len(log) + 1)

ContinueLine == /\ size < LineEnd(Len(log))
                /\ WriteBytes(Len(log))
                /\ UNCHANGED <<log, mtime>>

Rotate == /\ inode <= MaxRotations
          /\ log' = <<>> /\ size' = 0 /\ inode' = inode + 1
          /\ UNCHANGED <<mtime, pc, looked, cursor, batch, parsed, torn, acts>>

-----------------------------------------------------------------------------
(* The events of a read *)

Larger(a, b) == IF a > b THEN a ELSE b

\* Mutant: a path counts as created whenever it is written whole.
ActionOfWrites(l, seen) == CASE l.tool = "Read" -> "opened"
                             [] l.tool = "Write" -> "created"
                             [] OTHER -> "modified"

ActionOf(l, seen) == CASE l.tool = "Read" -> "opened"
                       [] l.tool = "Write" /\ l.path \notin seen -> "created"
                       [] OTHER -> "modified"

\* parse_event_line on each of the lines ks, line ks[n] at time ts[n], at clock time now.
Parse(ks, ts, now) ==
  LET step(acc, n) ==
        LET l == log[ks[n]]
            act == ActionOf(l, acc.seen)
        IN  IF l.tool = "Bash" \/ ts[n] < now - Window THEN acc
            ELSE [events |-> Append(acc.events,
                               [line |-> ks[n], path |-> l.path, action |-> act, ts |-> ts[n]]),
                  seen |-> acc.seen \cup {l.path},
                  created |-> IF act = "created" THEN acc.created \cup {l.path}
                                                 ELSE acc.created]
  IN  FoldLeft(step, [events |-> <<>>, seen |-> seen_paths, created |-> created_paths],
               [n \in DOMAIN ks |-> n])

\* restore_created_actions
Restored(events, created) ==
  [n \in DOMAIN events |->
     IF events[n].action = "modified" /\ events[n].path \in created
     THEN [events[n] EXCEPT !.action = "created"] ELSE events[n]]

\* What both reads do with the events of the lines, dated ts in their order.
Return(lines, ts, now) ==
  LET p == Parse(Ascending(lines), ts, now) IN
  /\ batch' = Restored(p.events, p.created)
  /\ seen_paths' = p.seen /\ created_paths' = p.created
  /\ acts' = acts \cup {<<e.path, e.action>> : e \in ToSet(batch')}
  /\ parsed' = parsed \cup {inode} \X lines
  /\ torn' = IF Cuts(size) THEN torn \cup {<<inode, LineAt(size)>>} ELSE torn
  /\ pc' = "idle"
  /\ UNCHANGED <<file, looked, last_inode>>

\* Where sessions begin among the lines 1 .. n, and the line after the end of one.
Begins(n) == {k \in 1 .. n : k = 1 \/ log[k].rel < log[k - 1].rel - Gap}
After(n, b) == Min({c \in Begins(n) : c > b} \cup {n + 1})
SessionOf(n, k) == Max({b \in Begins(n) : b <= k})

\* max_ts of a session, and its first positive time among its first ten lines.
TopOf(n, b) == Max({log[k].rel : k \in b .. After(n, b) - 1} \cup {0})
FirstOf(n, b) == LET early == {k \in b .. After(n, b) - 1 : k < b + 10 /\ log[k].rel > 0}
                 IN  IF early = {} THEN 0 ELSE log[Min(early)].rel

\* base_times: the last session ends at mtime, each one before it where the next begins.
BaseTimes(n) ==
  LET base[b \in Begins(n)] ==
        LET c == After(n, b)
        IN  IF c > n THEN looked - TopOf(n, b) ELSE base[c] + FirstOf(n, c) - TopOf(n, b)
  IN  base

\* Times of the lines 1 .. n of a whole file.
FullTimes(n) ==
  LET base == BaseTimes(n)
  IN  [times |-> [k \in 1 .. n |-> base[SessionOf(n, k)] + log[k].rel],
       top |-> IF n = 0 THEN 0 ELSE TopOf(n, SessionOf(n, n)),
       prev |-> IF n = 0 THEN 0 ELSE log[n].rel]

\* Mutant: the base time is the one before the line was looked at.
AppendedTimesLate(ks) ==
  LET top[n \in 0 .. Len(ks)] ==
        IF n = 0 THEN max_ts
        ELSE LET before == IF n = 1 THEN prev_ts ELSE log[ks[n - 1]].rel
                 rel == log[ks[n]].rel
             IN  Larger(rel, IF rel < before - Gap THEN 0 ELSE top[n - 1])
  IN  [times |-> [n \in DOMAIN ks |-> looked - top[n - 1] + log[ks[n]].rel],
       top |-> top[Len(ks)],
       prev |-> IF ks = <<>> THEN prev_ts ELSE log[Last(ks)].rel]

\* Times of appended lines: at each line its session is taken to end at mtime.
AppendedTimes(ks) ==
  LET top[n \in 0 .. Len(ks)] ==
        IF n = 0 THEN max_ts
        ELSE LET before == IF n = 1 THEN prev_ts ELSE log[ks[n - 1]].rel
                 rel == log[ks[n]].rel
             IN  Larger(rel, IF rel < before - Gap THEN 0 ELSE top[n - 1])
  IN  [times |-> [n \in DOMAIN ks |-> looked - top[n] + log[ks[n]].rel],
       top |-> top[Len(ks)],
       prev |-> IF ks = <<>> THEN prev_ts ELSE log[Last(ks)].rel]

-----------------------------------------------------------------------------
(* read_new *)

Fresh == inode # last_inode /\ last_inode # 0

\* Mutant: created_paths is not cleared.
ResetKeepsCreated == /\ max_ts' = 0 /\ prev_ts' = 0
                     /\ seen_paths' = {} /\ UNCHANGED created_paths
                     /\ parsed' = {} /\ torn' = {} /\ acts' = {}

Reset == /\ max_ts' = 0 /\ prev_ts' = 0
         /\ seen_paths' = {} /\ created_paths' = {}
         /\ parsed' = {} /\ torn' = {} /\ acts' = {}

\* Mutants: a new file is read from the old position; its inode is not kept.
LookKeepsOffset ==
  /\ pc = "idle" /\ size > offset
  /\ IF Fresh THEN Reset /\ UNCHANGED offset
              ELSE UNCHANGED <<offset, max_ts, prev_ts, seen_paths, created_paths,
                               parsed, torn, acts>>
  /\ last_inode' = inode /\ looked' = mtime
  /\ batch' = <<>>
  /\ pc' = "read"
  /\ UNCHANGED file

LookForgetsInode ==
  /\ pc = "idle" /\ size > offset
  /\ looked' = mtime
  /\ batch' = <<>>
  /\ pc' = "read"
  /\ UNCHANGED <<file, cursor, parsed, torn, acts>>

\* metadata(): the inode, with reset() if it is another one, the size and the mtime. An
\* empty file and one with nothing new end the call without a trace.
Look ==
  /\ pc = "idle" /\ size > 0
  /\ \/ Fresh /\ Reset /\ offset' = 0
     \/ ~Fresh /\ size > offset
               /\ UNCHANGED <<offset, max_ts, prev_ts, seen_paths, created_paths,
                              parsed, torn, acts>>
  /\ last_inode' = inode /\ looked' = mtime
  /\ batch' = <<>>
  /\ pc' = "read"
  /\ UNCHANGED file

\* read_full: the whole content, whatever it is by now.
ReadFull(now) ==
  LET lines == LinesBetween(0, size)
      t == FullTimes(Cardinality(lines))
  IN  /\ pc = "read" /\ offset = 0
      /\ Return(lines, t.times, now)
      /\ offset' = size
      /\ IF size = 0 THEN UNCHANGED <<max_ts, prev_ts>>
                     ELSE max_ts' = t.top /\ prev_ts' = t.prev

\* Mutant: a last line without a newline is left for the next read, though it was parsed.
EndOfReadBefore == IF size <= offset THEN offset ELSE LineStart(LineAt(size))

\* The bytes of a read as the code counts them: each piece and a newline, also for a last
\* piece that has none.
EndOfRead == IF size <= offset THEN offset
             ELSE IF size % (Width + 1) = 0 THEN size ELSE size + 1

\* read_incremental: from the offset to the end of the file.
ReadAppended(now) ==
  LET lines == LinesBetween(offset, size)
      t == AppendedTimes(Ascending(lines))
  IN  /\ pc = "read" /\ offset > 0
      /\ Return(lines, t.times, now)
      /\ offset' = EndOfRead
      /\ max_ts' = t.top /\ prev_ts' = t.prev

Read == \E delay \in 0 .. MaxDelay : ReadFull(looked + delay) \/ ReadAppended(looked + delay)

Next == \/ \E l \in Line : StartLine(l)
        \/ ContinueLine
        \/ Rotate
        \/ Look
        \/ Read

\* The task polls, and a call that has looked at the file ends: only Read leads from
\* "read" to "idle".
Ends == pc = "read" /\ pc' = "idle"

Fairness == WF_pc(Look) /\ WF_pc(Ends)

Spec == Init /\ [][Next]_claudeVars /\ Fairness

-----------------------------------------------------------------------------
(* Properties *)

\* Every variable holds a value of its type, no time lies ahead of the one seen.
ClaudeTypeOK ==
  /\ log \in Seq(Line) /\ size \in 0 .. LineEnd(Len(log))
  /\ inode \in 1 .. MaxRotations + 1 /\ last_inode \in 0 .. inode
  /\ mtime \in Nat /\ looked \in 0 .. mtime
  /\ pc \in {"idle", "read"}
  /\ offset \in Nat /\ max_ts \in {0} \cup Rels /\ prev_ts \in {0} \cup Rels
  /\ created_paths \subseteq seen_paths /\ seen_paths \subseteq Paths
  /\ parsed \subseteq (1 .. MaxRotations + 1) \X (1 .. MaxLines)
  /\ torn \subseteq (1 .. MaxRotations + 1) \X (1 .. MaxLines)
  /\ acts \subseteq Paths \X {"opened", "created", "modified"}

\* No event is dated after the file was last written, whichever read computed it and
\* however its session was cut into reads: the base time is taken back by the latest
\* relative time (claude.rs:164-175, 248-249).
NotInFuture == \A n \in DOMAIN batch : batch[n].ts <= looked

\* A read returns lines in the order of the file, and none that was read since the last
\* reset, whether or not the newline of the last one was there (claude.rs:205, 229, 259).
OnceInOrder ==
  [][pc = "read" /\ pc' = "idle" =>
       /\ \A m, n \in DOMAIN batch' : m < n => batch'[m].line < batch'[n].line
       /\ \A n \in DOMAIN batch' : <<inode, batch'[n].line>> \notin parsed]_claudeVars

\* A line the cursor has passed was parsed, unless a read found half of it: neither the
\* byte counted for a newline that is not there nor a new file makes it miss another line
\* (claude.rs:95-98, 229, 259).
LostOnlyIfTorn ==
  pc = "idle" /\ last_inode = inode =>
    \A k \in 1 .. Len(log) :
      BodyEnd(k) <= offset => <<inode, k>> \in parsed \cup torn

\* A path is reported as created or as modified, never as both, however the log is cut
\* into reads (claude.rs:301-315, 331-337).
LifecycleStable ==
  \A p \in Paths : ~(<<p, "created">> \in acts /\ <<p, "modified">> \in acts)

\* When the writer stops, the cursor gets to the end of the newest file.
CatchesUp == <>[](size > 0 => last_inode = inode /\ offset >= size)
=============================================================================
