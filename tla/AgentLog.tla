------------------------------ MODULE AgentLog ------------------------------
(***************************************************************************)
(* The readers of services/hotfiles.ts (the version 1 panel): what         *)
(* _readAgentFiles, _readCodexFiles and _readXbelFiles return for the      *)
(* contents they read. All of them start from nothing on each call.        *)
(*                                                                         *)
(* A result is a Map in the code; here it is the sequence of its values,   *)
(* in the order of their keys' first insertion, which decides about ties   *)
(* when the list is sorted. Filters of paths are left out: all paths pass. *)
(***************************************************************************)
EXTENDS Integers, SequencesExt, Ordered

CONSTANTS Gap,     \* a fall of the relative time by more than this is a new session (60)
          Window,  \* a session, row or mark older than this is dropped (86400)
          Week,    \* so is an agent event older than this (604800)
          Ahead    \* or one this far ahead of the clock (60)

Entry(p, t, s, a) == [path |-> p, timestamp |-> t, source |-> s, action |-> a]

SameKey(e, f) == e.path = f.path /\ e.source = f.source

\* Only a strictly newer entry takes the place of one with the same key.
Put(m, e) ==
  IF \E i \in DOMAIN m : SameKey(m[i], e)
  THEN [i \in DOMAIN m |-> IF SameKey(m[i], e) /\ e.timestamp > m[i].timestamp
                           THEN e ELSE m[i]]
  ELSE Append(m, e)

Merge(entries) == FoldLeft(Put, <<>>, entries)

\* The same for entries at places of a file, from the first place to the last.
MergeInOrder(entry) ==
  LET place == Ascending(DOMAIN entry)
  IN  Merge([n \in DOMAIN place |-> entry[place[n]]])

-----------------------------------------------------------------------------
(* events.jsonl. A line has a path, a tool and seconds since its session began. *)

Begins(lines) == {k \in DOMAIN lines : k = 1 \/ lines[k].rel < lines[k - 1].rel - Gap}

EndOf(lines, b) == Min({c \in Begins(lines) : c > b} \cup {Len(lines) + 1}) - 1

\* Mutant: the largest time of the whole log.
LastTsOfLog(lines, b) == Max({lines[k].rel : k \in DOMAIN lines} \cup {0})

\* maxTs of a segment: its last positive time.
LastTs(lines, b) ==
  LET ks == {k \in b .. EndOf(lines, b) : lines[k].rel > 0}
  IN  IF ks = {} THEN 0 ELSE lines[Max(ks)].rel

\* nextFirstTs: the first positive time among the first ten of a segment.
FirstTs(lines, b) ==
  LET ks == {k \in b .. EndOf(lines, b) : k < b + 10 /\ lines[k].rel > 0}
  IN  IF ks = {} THEN 0 ELSE lines[Min(ks)].rel

\* segBaseTimes: the last session ends at mtime, each one before it where the next begins.
BaseTimes(lines, mtime) ==
  LET base[b \in Begins(lines)] ==
        LET next == EndOf(lines, b) + 1
        IN  IF next > Len(lines) THEN mtime - LastTs(lines, b)
            ELSE base[next] + FirstTs(lines, next) - LastTs(lines, b)
  IN  base

SessionOf(lines, k) == Max({b \in Begins(lines) : b <= k})

LineTimes(lines, mtime) ==
  LET base == BaseTimes(lines, mtime)
  IN  [k \in DOMAIN lines |-> base[SessionOf(lines, k)] + lines[k].rel]

\* The lines whose events count: of a young session, by a tool that touches files, at a
\* plausible time.
Counted(lines, mtime, now) ==
  LET times == LineTimes(lines, mtime)
      sessionEnd(k) == BaseTimes(lines, mtime)[SessionOf(lines, k)]
                         + LastTs(lines, SessionOf(lines, k))
  IN  {k \in DOMAIN lines : /\ sessionEnd(k) >= now - Window
                            /\ lines[k].tool \in {"Read", "Write", "Edit"}
                            /\ times[k] \in now - Week .. now + Ahead}

\* createdPaths: paths whose first counted event is a Write.
CreatedPaths(lines, ks) ==
  {lines[k].path : k \in {k \in ks : /\ lines[k].tool = "Write"
                                     /\ \A j \in ks : lines[j].path = lines[k].path => j >= k}}

\* A created path stays "created" whatever is written later; a Read shows it as opened.
AgentAction(tool, p, created) == CASE tool = "Read" -> "opened"
                                   [] tool # "Read" /\ p \in created -> "created"
                                   [] OTHER -> "modified"

ReadAgentFiles(lines, mtime, now) ==
  LET ks == Counted(lines, mtime, now)
      times == LineTimes(lines, mtime)
      created == CreatedPaths(lines, ks)
  IN  MergeInOrder([k \in ks |-> Entry(lines[k].path, times[k], "claude",
                                       AgentAction(lines[k].tool, lines[k].path, created))])

-----------------------------------------------------------------------------
(* The other two *)

\* Rows of the session files, one per patched path.
ReadCodexFiles(rows, now) ==
  LET young == {k \in DOMAIN rows : rows[k].ts \in now - Window .. now + Ahead}
      action(r) == CASE r.op = "Add" -> "created" [] r.op = "Delete" -> "deleted"
                     [] OTHER -> "modified"
  IN  MergeInOrder([k \in young |-> Entry(rows[k].path, rows[k].ts, "codex", action(rows[k]))])

\* recently-used.xbel: paths and when they were visited last, 0 for never.
ReadXbelFiles(visited, now) ==
  LET paths == SetToSeq({p \in DOMAIN visited : visited[p] > 0 /\ visited[p] >= now - Window})
  IN  [n \in DOMAIN paths |-> Entry(paths[n], visited[paths[n]], "user", "opened")]
=============================================================================
