---------------------------- MODULE CodexCursor ----------------------------
(***************************************************************************)
(* hotbar-daemon/src/ingest/codex.rs: parse_session_file on one of the     *)
(* session files, read from the size it had when it was looked at last.    *)
(*                                                                         *)
(* The size is taken first (Look) and the content read later (Read), with  *)
(* whatever was written in between. A session file may be truncated and    *)
(* written again. A line holds one patched file; one with several counts   *)
(* as that many lines of the same time. Filters of paths are left out.     *)
(***************************************************************************)
EXTENDS LogFile, SequencesExt, Ordered

CONSTANTS Paths,
          Times,      \* unix seconds of a line
          Clock,      \* bound: unix seconds at which the file is read
          Window,     \* a line older than this is skipped (86400)
          Ahead,      \* so is one this far ahead of the clock (60)
          MaxLines,   \* bound: lines a file ever holds
          MaxTruncs   \* bound: truncations

Line == [path : Paths, ts : Times]

VARIABLES log, size,  \* the file, as in ClaudeCursor
          truncs,
          pc, looked, \* between looking and reading, and the size seen
          offset,     \* file_offsets[path]
          reported,   \* history: events reported since the file was last read whole
          parsed,     \* history: lines parsed since then
          torn,       \* history: lines a read found half written
          unnoticed   \* history: truncated since it was last read whole

codexVars == <<log, size, truncs, pc, looked, offset, reported, parsed, torn, unnoticed>>

-----------------------------------------------------------------------------
Init == /\ log = <<>> /\ size = 0 /\ truncs = 0
        /\ pc = "idle" /\ looked = 0 /\ offset = 0
        /\ reported = {} /\ parsed = {} /\ torn = {} /\ unnoticed = FALSE

WriteBytes(k) == /\ size' \in size + 1 .. LineEnd(k)
                 /\ UNCHANGED <<truncs, pc, looked, offset, reported, parsed, torn, unnoticed>>

StartLine(l) == /\ size = LineEnd(Len(log)) /\ Len(log) < MaxLines
                /\ log' = Append(log, l)
                /\ WriteBytes(Len(log) + 1)

ContinueLine == /\ size < LineEnd(Len(log))
                /\ WriteBytes(Len(log))
                /\ UNCHANGED log

Truncate == /\ truncs < MaxTruncs
            /\ truncs' = truncs + 1
            /\ log' = <<>> /\ size' = 0 /\ unnoticed' = TRUE
            /\ UNCHANGED <<pc, looked, offset, reported, parsed, torn>>

-----------------------------------------------------------------------------
\* Mutant: a file that is smaller counts as not grown.
LookSkipsSmaller ==
  /\ pc = "idle"
  /\ size > offset
  /\ looked' = size
  /\ unnoticed' = (unnoticed /\ offset > 0)
  /\ pc' = "read"
  /\ UNCHANGED <<log, size, truncs, offset, reported, parsed, torn>>

\* metadata(): a file that has not grown is skipped, one that is smaller was truncated.
Look ==
  /\ pc = "idle"
  /\ offset = 0 \/ size # offset
  /\ looked' = size
  /\ unnoticed' = (unnoticed /\ offset > 0 /\ size > offset)
  /\ pc' = "read"
  /\ UNCHANGED <<log, size, truncs, offset, reported, parsed, torn>>

\* Mutant: a truncated file is read from the old position.
StartOffsetKept == offset

StartOffset == IF looked < offset THEN 0 ELSE offset

\* A line's event takes the place of the one of its path.
Insert(kept, l) == [p \in DOMAIN kept \cup {l.path} |-> IF p = l.path THEN l.ts ELSE kept[p]]

\* Not from before the cutoff, nor from the future.
Plausible(ts, now) == ts \in now - Window .. now + Ahead

\* Mutant: a line from the future counts like any other.
DedupAhead(ks, now) ==
  LET stale(kept, l) == \/ l.ts < now - Window
                        \/ l.path \in DOMAIN kept /\ l.ts <= kept[l.path]
      step(kept, k) == IF stale(kept, log[k]) THEN kept ELSE Insert(kept, log[k])
  IN  FoldLeft(step, <<>>, ks)

\* The map seen and the events it points to: most recent event per path.
Dedup(ks, now) ==
  LET skipped(kept, l) == \/ ~Plausible(l.ts, now)
                          \/ l.path \in DOMAIN kept /\ l.ts <= kept[l.path]
      step(kept, k) == IF skipped(kept, log[k]) THEN kept ELSE Insert(kept, log[k])
  IN  FoldLeft(step, <<>>, ks)

\* The size stored is the one seen before the content was read.
Read(now) ==
  LET lines == LinesBetween(StartOffset, size)
      latest == Dedup(Ascending(lines), now)
  IN
  /\ pc = "read"
  /\ reported' = (IF StartOffset = 0 THEN {} ELSE reported)
                   \cup {[path |-> p, ts |-> latest[p]] : p \in DOMAIN latest}
  /\ offset' = looked
  /\ parsed' = (IF StartOffset = 0 THEN {} ELSE parsed) \cup lines
  /\ torn' = (IF StartOffset = 0 THEN {} ELSE torn)
               \cup (IF Cuts(size) THEN {LineAt(size)} ELSE {})
  /\ pc' = "idle"
  /\ UNCHANGED <<log, size, truncs, looked, unnoticed>>

Next == \/ \E l \in Line : StartLine(l)
        \/ ContinueLine
        \/ Truncate
        \/ Look
        \/ \E now \in Clock : Read(now)

\* As in ClaudeCursor.
Ends == pc = "read" /\ pc' = "idle"

Fairness == WF_pc(Look) /\ WF_pc(Ends)

Spec == Init /\ [][Next]_codexVars /\ Fairness

-----------------------------------------------------------------------------
(* Properties *)

\* Every variable holds a value of its type; the offset is a size that was seen.
CodexTypeOK ==
  /\ log \in Seq(Line) /\ size \in 0 .. LineEnd(Len(log)) /\ truncs \in 0 .. MaxTruncs
  /\ pc \in {"idle", "read"}
  /\ offset \in 0 .. LineEnd(MaxLines) /\ looked \in 0 .. LineEnd(MaxLines)
  /\ reported \subseteq Line
  /\ parsed \subseteq 1 .. MaxLines /\ torn \subseteq 1 .. MaxLines
  /\ unnoticed \in BOOLEAN

\* A line before the stored size was parsed, unless a read found half of it, although the
\* size was taken before the content was read and the file grew or was truncated between:
\* what grew is read twice rather than never. Not covered is a truncated file that was
\* no shorter than before when it was looked at next (codex.rs:131-147, 264-265).
PassedWasParsed ==
  pc = "idle" /\ ~unnoticed =>
    \A k \in 1 .. Len(log) : BodyEnd(k) <= offset => k \in parsed \cup torn

\* What the reads reported together is right for the part of the file the offset has passed,
\* however it was cut into reads that each keep one event of a path: a line that is plausible
\* whenever it may be read, and no read found torn, has been reported or a later one of its
\* path has; and nothing is reported but lines of the file that were plausible when read, so
\* none from the future hides an earlier one. A line only from the future at the read that
\* meets it is not looked at again (codex.rs:131-147, 202, 251-265).
LatestReported ==
  pc = "idle" /\ ~unnoticed =>
    /\ \A k \in 1 .. Len(log) :
         /\ BodyEnd(k) <= offset /\ k \notin torn
         /\ \A now \in Clock : Plausible(log[k].ts, now)
         => \E e \in reported : e.path = log[k].path /\ e.ts >= log[k].ts
    /\ \A e \in reported : /\ \E k \in parsed : e = log[k]
                           /\ \E now \in Clock : Plausible(e.ts, now)

\* When the writer stops, the offset gets to the end of the file.
CatchesUp == <>[](offset = size)
=============================================================================
