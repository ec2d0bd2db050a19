------------------------------ MODULE HotFiles ------------------------------
(***************************************************************************)
(* HotFilesService of services/hotfiles.ts (the version 1 panel) and the   *)
(* world it looks at.                                                      *)
(*                                                                         *)
(* A refresh is one synchronous call, but the files it reads change while  *)
(* it runs, so it is four steps: the text of events.jsonl (ReadText); its  *)
(* mtime, recently-used.xbel and the Codex sessions (ReadSources); the     *)
(* directories (Scan); whether each file exists, and the list (Publish).   *)
(* What is read in one step has no change in common with the rest of it.   *)
(*                                                                         *)
(* Signals of file monitors wait until the call returns: pending is a      *)
(* queued signal or the running debounce timer, which make a refresh.      *)
(*                                                                         *)
(* Time goes in parts of a second, and so do the times in events.jsonl.    *)
(* The clock, mtimes and the other dates have whole seconds in the code.   *)
(***************************************************************************)
EXTENDS AgentLog

CONSTANTS Dirs, Names,
          Populated,    \* directories with all their files there at the start
          Tools,        \* what Claude does: subset of {"Read", "Write", "Edit"}
          Ops,          \* what Codex does: subset of {"Add", "Update", "Delete"}
          Threads,      \* sessions of Codex, each with a file
          MaxThreads,   \* session files read at a time (20)
          Watched,      \* sources there to be watched at the start: subset of Sources
          Slack,        \* tolerance between a file's mtime and an agent's event (5)
          Young,        \* a file saved within this of its birth was created (120)
          MaxFiles,     \* length of the list (200)
          MaxMonitors,  \* watched directories (10)
          Second,       \* what time is counted in: parts of a second
          MaxSessions,  \* bound: sessions of Claude
          MaxTime,      \* bound: time
          MaxChanges    \* bound: what users and agents do

Sources == {"log", "xbel", "codex"}
Files == Dirs \X Names
DirOf(p) == p[1]

ASSUME HotFilesAssumption ==
  /\ {Gap, Window, Week, Ahead, Slack, Young, MaxFiles, MaxMonitors, MaxThreads} \subseteq Nat
  /\ 0 < Window /\ Window <= Week
  /\ Second \in Nat \ {0} /\ Second <= Slack
  /\ MaxSessions \in Nat \ {0} /\ {MaxTime, MaxChanges} \subseteq Nat
  /\ Populated \subseteq Dirs /\ Watched \subseteq Sources /\ Dirs \cap Sources = {}
  /\ IsFiniteSet(Dirs) /\ IsFiniteSet(Names) /\ Threads \subseteq Nat
  /\ Tools \subseteq {"Read", "Write", "Edit"} /\ Ops \subseteq {"Add", "Update", "Delete"}

VARIABLES now,
          there,          \* directories that exist
          disk,           \* birth time, mtime and writer of each file, or Absent
          log, logTime,   \* events.jsonl and its mtime
          began,          \* when each of Claude's sessions began
          doing,          \* what Codex and Claude's sessions have begun and not finished
          rows,           \* patches in the Codex session files
          visited,        \* recently-used.xbel: when each file was opened last
          changes,        \* how much was done
          files,          \* _files
          known,          \* _knownPaths
          initialized,    \* _initialized; the sources are watched from then on
          monitors,       \* directories of _dirMonitors
          pending,        \* see above
          pc, text, read, \* the running refresh and what it has read so far
          due             \* history: watched places that changed since they were read

world == <<now, there, disk, log, logTime, began, doing, rows, visited, changes>>
service == <<files, known, initialized, monitors, pc, text, read>>
hotFilesVars == <<world, service, pending, due>>

-----------------------------------------------------------------------------
(* Signals *)

IsWatched(place) == \/ place \in monitors
                    \/ initialized /\ place \in Watched

\* Mutant: a signal during a refresh is ignored.
SignalUnlessRefreshing(place) ==
  IF IsWatched(place) THEN /\ pending' = (pending \/ pc = "idle")
                           /\ due' = due \cup {place}
                      ELSE UNCHANGED <<pending, due>>

Signal(place) ==
  IF IsWatched(place) THEN pending' = TRUE /\ due' = due \cup {place}
                      ELSE UNCHANGED <<pending, due>>

-----------------------------------------------------------------------------
(* The world *)

Whole(t) == t - (t % Second)

\* What the clock says (to_unix), and what files are stamped with (time::modified).
Clock == Whole(now)

Absent == [born |-> 0, mtime |-> 0, by |-> "nobody"]
Old == [born |-> Second, mtime |-> Second, by |-> "nobody"]
Nothing == [path |-> <<>>, what |-> "nothing", since |-> 0]

\* Codex, and the sessions of Claude.
Codex == 0
Agents == {Codex} \cup 1 .. MaxSessions

Exists(p) == disk[p] # Absent

Writes(p, who) ==
  /\ disk' = [disk EXCEPT ![p] = [born |-> IF @ = Absent THEN Clock ELSE @.born,
                                  mtime |-> Clock, by |-> who]]
  /\ there' = there \cup {DirOf(p)}

Removes(p) == disk' = [disk EXCEPT ![p] = Absent] /\ UNCHANGED there

Counts == changes < MaxChanges /\ changes' = changes + 1

Undertakes(agent, p, what) ==
  /\ Counts /\ doing[agent] = Nothing
  /\ doing' = [doing EXCEPT ![agent] = [path |-> p, what |-> what, since |-> now]]

Finished(agent) == doing' = [doing EXCEPT ![agent] = Nothing]

ClaudeReads(s, p) ==
  /\ "Read" \in Tools /\ Exists(p) /\ now > began[s]
  /\ Undertakes(s, p, "Read")
  /\ UNCHANGED <<now, there, disk, log, logTime, began, rows, visited, service, pending, due>>

ClaudeWrites(s, p, tool) ==
  /\ tool = "Edit" => Exists(p)
  /\ now > began[s]
  /\ Undertakes(s, p, tool)
  /\ Writes(p, "claude")
  /\ Signal(DirOf(p))
  /\ UNCHANGED <<now, log, logTime, began, rows, visited, service>>

\* A session's hook appends a line some time after the tool has run: the lines of sessions
\* that run at the same time come in any order.
ClaudeLogs(s) ==
  LET d == doing[s] IN
  /\ d # Nothing
  /\ Finished(s)
  /\ log' = Append(log, [path |-> d.path, tool |-> d.what,
                         rel |-> d.since - began[s], at |-> d.since])
  /\ logTime' = Clock
  /\ Signal("log")
  /\ UNCHANGED <<now, there, disk, began, rows, visited, changes, service>>

NewSession ==
  /\ Len(began) < MaxSessions
  /\ began' = Append(began, now)
  /\ UNCHANGED <<now, there, disk, log, logTime, doing, rows, visited, changes, service,
                 pending, due>>

\* Codex writes the row first and applies the patch later.
CodexCalls(p, op, s) ==
  /\ op # "Add" => Exists(p)
  /\ Undertakes(Codex, p, op)
  /\ rows' = Append(rows, [path |-> p, op |-> op, ts |-> Clock, thread |-> s])
  /\ Signal("codex")
  /\ UNCHANGED <<now, there, disk, log, logTime, began, visited, service>>

CodexApplies ==
  LET d == doing[Codex]
      who == IF Clock <= Whole(d.since) + Slack THEN "codex" ELSE "late codex"
  IN  /\ d # Nothing
      /\ Finished(Codex)
      /\ \/ d.what = "Delete" /\ Removes(d.path)
         \/ d.what = "Add" /\ Writes(d.path, who)
         \/ d.what = "Update" /\ Exists(d.path) /\ Writes(d.path, who)
         \/ d.what = "Update" /\ ~Exists(d.path) /\ UNCHANGED <<disk, there>>
      /\ Signal(DirOf(d.path))
      /\ UNCHANGED <<now, log, logTime, began, rows, visited, changes, service>>

Save(p) ==
  /\ Counts
  /\ Writes(p, "user")
  /\ Signal(DirOf(p))
  /\ UNCHANGED <<now, log, logTime, began, doing, rows, visited, service>>

Delete(p) ==
  /\ Exists(p) /\ Counts
  /\ Removes(p)
  /\ Signal(DirOf(p))
  /\ UNCHANGED <<now, log, logTime, began, doing, rows, visited, service>>

Opens(p) ==
  /\ Exists(p) /\ Counts
  /\ visited' = [visited EXCEPT ![p] = Clock]
  /\ Signal("xbel")
  /\ UNCHANGED <<now, there, disk, log, logTime, began, doing, rows, service>>

Tick ==
  /\ \E t \in now + 1 .. MaxTime : now' = t
  /\ UNCHANGED <<there, disk, log, logTime, began, doing, rows, visited, changes, service,
                 pending, due>>

WorldStep == \/ \E s \in DOMAIN began :
                  \/ \E p \in Files : \/ ClaudeReads(s, p)
                                      \/ \E tool \in Tools \ {"Read"} : ClaudeWrites(s, p, tool)
                  \/ ClaudeLogs(s)
             \/ \E p \in Files : \/ \E op \in Ops, s \in Threads : CodexCalls(p, op, s)
                                 \/ Save(p) \/ Delete(p) \/ Opens(p)
             \/ NewSession \/ CodexApplies \/ Tick

-----------------------------------------------------------------------------
(* What a refresh reads *)

NothingRead == [agents |-> <<>>, codex |-> <<>>, xbel |-> <<>>, scanned |-> <<>>, rows |-> <<>>]

\* readFileText(EVENTS_PATH): how many lines it has.
ReadText == /\ text' = Len(log)
            /\ due' = due \ {"log"}
            /\ pc' = "sources"
            /\ UNCHANGED <<world, files, known, initialized, monitors, read>>

Construct == pc = "start" /\ ReadText /\ UNCHANGED pending

Poll == pc = "idle" /\ ReadText /\ UNCHANGED pending

Debounced == pc = "idle" /\ pending /\ ReadText /\ pending' = FALSE

\* Where in rows those of a session are.
RowsOf(s) == {k \in DOMAIN rows : rows[k].thread = s}

\* A session file lies in the directory of the day it began; a day is as long as Window.
DayOf(t) == t \div Window

\* Session s was written after t; where times are equal the files come in some order.
NewerSession(s, t) ==
  LET written(x) == rows[Max(RowsOf(x))].ts
  IN  written(s) > written(t) \/ (written(s) = written(t) /\ s < t)

\* Mutant: one file too few.
FindOneFileLess ==
  LET young == {s \in Threads : /\ RowsOf(s) # {}
                                /\ DayOf(rows[Min(RowsOf(s))].ts) >= DayOf(Clock) - 1}
  IN  {s \in young : Cardinality({t \in young : NewerSession(t, s)}) < MaxThreads - 1}

\* _findCodexSessionFiles: the MaxThreads of today's and yesterday's written last.
FindCodexSessionFiles ==
  LET young == {s \in Threads : /\ RowsOf(s) # {}
                                /\ DayOf(rows[Min(RowsOf(s))].ts) >= DayOf(Clock) - 1}
  IN  {s \in young : Cardinality({t \in young : NewerSession(t, s)}) < MaxThreads}

\* Their rows, session by session.
RowsRead ==
  LET ks == UNION {RowsOf(s) : s \in FindCodexSessionFiles}
      first(i, j) == \/ NewerSession(rows[i].thread, rows[j].thread)
                     \/ rows[i].thread = rows[j].thread /\ i < j
      place == Arranged(ks, {ij \in ks \X ks : first(ij[1], ij[2])})
  IN  [n \in DOMAIN place |-> rows[place[n]]]

ReadSources ==
  /\ pc = "sources"
  /\ read' = [agents |-> IF text = 0 THEN <<>>
                         ELSE ReadAgentFiles(SubSeq(log, 1, text), logTime, Clock),
              codex |-> ReadCodexFiles(RowsRead, Clock),
              xbel |-> ReadXbelFiles(visited, Clock),
              scanned |-> <<>>, rows |-> RowsRead]
  /\ due' = due \ {"xbel", "codex"}
  /\ pc' = "scan"
  /\ UNCHANGED <<world, files, known, initialized, monitors, text, pending>>

AgentEntries == read.agents \o read.codex

ActiveDirs == {DirOf(e.path) : e \in ToSet(AgentEntries)}

\* Mutant: no tolerance.
CoveredExactly(p) ==
  \E e \in ToSet(AgentEntries) : e.path = p /\ e.timestamp > 0 /\ e.timestamp >= disk[p].mtime

\* An agent has an event at about the time the file was written, or later.
Covered(p) ==
  \E e \in ToSet(AgentEntries) :
    e.path = p /\ e.timestamp > 0 /\ e.timestamp >= disk[p].mtime - Slack

ScanActiveDirs ==
  LET found == SetToSeq({p \in Files : /\ DirOf(p) \in ActiveDirs /\ Exists(p)
                                       /\ disk[p].mtime >= Clock - Window
                                       /\ ~Covered(p)})
      action(f) == IF f.born > Clock - Window /\ f.mtime - f.born < Young
                   THEN "created" ELSE "modified"
  IN  [n \in DOMAIN found |->
         Entry(found[n], disk[found[n]].mtime, "user", action(disk[found[n]]))]

Scan ==
  /\ pc = "scan"
  /\ read' = [read EXCEPT !.scanned = ScanActiveDirs]
  /\ due' = due \ Dirs
  /\ pc' = "publish"
  /\ UNCHANGED <<world, files, known, initialized, monitors, text, pending>>

-----------------------------------------------------------------------------
(* What it makes of it *)

\* Mutant: one monitor more than the cap.
MonitoredOneMore ==
  LET add(ms, e) == IF Cardinality(ms) <= MaxMonitors /\ DirOf(e.path) \in there
                    THEN ms \cup {DirOf(e.path)} ELSE ms
  IN  FoldLeft(add, monitors, AgentEntries)

\* _updateDirMonitors: directories that exist get monitors, up to the cap and never given back.
Monitored ==
  LET add(ms, e) == IF Cardinality(ms) < MaxMonitors /\ DirOf(e.path) \in there
                    THEN ms \cup {DirOf(e.path)} ELSE ms
  IN  FoldLeft(add, monitors, AgentEntries)

Merged == Merge(AgentEntries \o read.xbel \o read.scanned)

PathsOf(m) == {e.path : e \in ToSet(m)}

MarkDeleted(m) == [n \in DOMAIN m |-> IF Exists(m[n].path) THEN m[n]
                                      ELSE [m[n] EXCEPT !.action = "deleted"]]

\* Files that are gone leave _knownPaths before new ones are told from known ones.
MarkCreated(m) ==
  LET kept == {p \in known : p \in PathsOf(m) => Exists(p)}
      new(e) == e.path \notin kept /\ e.action \notin {"deleted", "opened"}
  IN  IF ~initialized THEN m
      ELSE [n \in DOMAIN m |-> IF new(m[n]) THEN [m[n] EXCEPT !.action = "created"] ELSE m[n]]

\* Newest first, in the order of insertion where times are equal.
NewestFirst(m) ==
  LET before(i, j) == \/ m[i].timestamp > m[j].timestamp
                      \/ m[i].timestamp = m[j].timestamp /\ i < j
      order == Arranged(DOMAIN m, {ij \in (DOMAIN m) \X (DOMAIN m) : before(ij[1], ij[2])})
  IN  SubSeq([n \in DOMAIN m |-> m[order[n]]], 1, Min({MaxFiles, Len(m)}))

Publish ==
  /\ pc = "publish"
  /\ files' = NewestFirst(MarkCreated(MarkDeleted(Merged)))
  /\ known' = known \cup PathsOf(Merged)
  /\ initialized' = TRUE
  /\ monitors' = Monitored
  /\ text' = 0 /\ read' = NothingRead
  /\ pc' = "idle"
  /\ UNCHANGED <<world, pending, due>>

RefreshStep == Construct \/ ReadSources \/ Scan \/ Publish

Starting == /\ files = <<>> /\ known = {} /\ initialized = FALSE /\ monitors = {}
            /\ pc = "start" /\ text = 0 /\ read = NothingRead
            /\ pending = FALSE /\ due = {}

\* The program ends and is started again: nothing of the service is kept.
StartAgain == /\ pc = "idle"
              /\ files' = <<>> /\ known' = {} /\ initialized' = FALSE /\ monitors' = {}
              /\ pc' = "start" /\ text' = 0 /\ read' = NothingRead
              /\ pending' = FALSE /\ due' = {}
              /\ UNCHANGED world

Init == /\ now = Second
        /\ disk = [p \in Files |-> IF DirOf(p) \in Populated THEN Old ELSE Absent]
        /\ there = Populated
        /\ log = <<>> /\ logTime = Second /\ began = <<0>>
        /\ doing = [agent \in Agents |-> Nothing]
        /\ rows = <<>> /\ visited = [p \in Files |-> 0] /\ changes = 0
        /\ Starting

Next == WorldStep \/ Poll \/ Debounced \/ RefreshStep

\* The 30 s timer fires again and again, and a refresh that has begun ends. No monitor is
\* relied on: Poll can always take the step Refreshes asks for.
Refreshes == pc = "idle" /\ pc' = "sources"
GoesOn == pc # "idle" /\ pc' \in {"sources", "scan", "publish", "idle"} \ {pc}
Fairness == WF_pc(Refreshes) /\ WF_pc(GoesOn)

Spec == Init /\ [][Next]_hotFilesVars /\ Fairness

-----------------------------------------------------------------------------
(* Properties *)

Entries == [path : Files, timestamp : Int, source : {"claude", "codex", "user"},
            action : {"opened", "modified", "created", "deleted"}]

\* Every variable holds a value of its type; no more directories are watched than the cap
\* allows, although monitors are never given back (hotfiles.ts:398-437).
HotFilesTypeOK ==
  /\ now \in Nat /\ logTime \in 1 .. Clock /\ changes \in 0 .. MaxChanges
  /\ \A p \in Files : disk[p].born <= disk[p].mtime /\ disk[p].mtime <= Clock
  /\ ToSet(files) \subseteq Entries /\ Len(files) <= MaxFiles
  /\ known \subseteq Files /\ PathsOf(files) \subseteq known
  /\ monitors \subseteq there /\ Cardinality(monitors) <= MaxMonitors
  /\ initialized \in BOOLEAN /\ pending \in BOOLEAN
  /\ pc \in {"start", "idle", "sources", "scan", "publish"} /\ text \in 0 .. Len(log)

\* The lines are in the order in which their tools ran, and no session has one after a line of
\* a session that began later.
InTurn(lines) ==
  \A j, k \in DOMAIN lines :
    j <= k => /\ lines[j].at <= lines[k].at
              /\ lines[j].at - lines[j].rel <= lines[k].at - lines[k].rel

TextOf(n) == SubSeq(log, 1, n)

\* Where sessions wrote in turn, no line is dated a second before its tool ran or earlier,
\* whatever part of the log was read, whenever its mtime was looked at after that, and
\* wherever the sessions were told apart: what the scan's tolerance of Claude's dates rests
\* on (hotfiles.ts:629-633, 693-773).
DatesNotEarly ==
  \A n \in 1 .. Len(log) : InTurn(TextOf(n)) =>
    \A m \in Whole(log[n].at) .. logTime :
      LET times == LineTimes(TextOf(n), m)
      IN  \A k \in 1 .. n : times[k] > log[k].at - Second

\* A watched place that changed since it was read last brings about another refresh, also
\* if it changed while one was running (hotfiles.ts:317-328, 343-357, 426-430).
NoLostWakeup == pc = "idle" /\ due # {} => pending

\* How far after the log's mtime line k of the first n is dated: falls of the relative time by
\* no more than Gap are taken for the same session, and add up.
AheadOfLog(n, k) == LineTimes(TextOf(n), 0)[k]

\* Claude's line about the latest write of p was in the text the refresh began with; it is not
\* so old that it is dropped, nor dated too far ahead.
LineAbout(p) ==
  /\ disk[p].by = "claude" /\ disk[p].mtime >= Clock - Window + Second
  /\ \E k \in 1 .. text : /\ log[k].path = p /\ Whole(log[k].at) = disk[p].mtime
                          /\ AheadOfLog(text, k) <= Ahead

\* Codex's row about it was among those the refresh read.
RowAbout(p) ==
  /\ disk[p].by = "codex" /\ disk[p].mtime >= Clock - Window + Slack
  /\ \E r \in ToSet(read.rows) : r.path = p /\ r.ts >= disk[p].mtime - Slack

\* The list that is published has the write as the user's.
TakenFromAgent(p) == \E e \in ToSet(files') : /\ e.path = p /\ e.source = "user"
                                              /\ e.timestamp = disk[p].mtime
                                              /\ e.action \in {"created", "modified"}

\* A write Codex's log told the refresh about, or Claude's where its sessions wrote in turn,
\* is not shown as the user's, whatever is logged, written or removed while the refresh runs
\* (hotfiles.ts:570-575, 629-633).
NeverTakenFromAgent ==
  [][pc = "publish" /\ pc' = "idle" =>
       \A p \in Files : (LineAbout(p) /\ InTurn(TextOf(text))) \/ RowAbout(p) =>
         ~TakenFromAgent(p)]_hotFilesVars

\* The same for any log, as the comments have it: "events.jsonl accumulates across concurrent
\* + sequential sessions. ... process ALL recent sessions, computing per-session baseTimes"
\* (hotfiles.ts:693-696), and the scan is to "skip if an agent has a recent event for this
\* file", with a tolerance for dates that "can drift slightly" (hotfiles.ts:629-631).
NeverTakenFromSessions ==
  [][pc = "publish" /\ pc' = "idle" =>
       \A p \in Files : LineAbout(p) => ~TakenFromAgent(p)]_hotFilesVars

Shows(p, t, sources) ==
  \/ \E e \in ToSet(files) : e.path = p /\ e.timestamp >= t /\ e.source \in sources
  \/ Len(files) = MaxFiles /\ \A e \in ToSet(files) : e.timestamp >= t

\* Lines that are dated within the window.
RecentLines == {k \in DOMAIN log : /\ InTurn(log)
                                   /\ log[k].at >= Clock - Window + Second
                                   /\ AheadOfLog(Len(log), k) <= Ahead}

\* Fewer than MaxThreads other sessions were written when s was for the last time, or later.
AmongNewest(s) ==
  LET last == rows[Max(RowsOf(s))].ts
      others == {rows[k].thread : k \in {k \in DOMAIN rows : rows[k].ts >= last}} \ {s}
  IN  Cardinality(others) < MaxThreads

\* Rows of such sessions, begun today or yesterday.
RecentRows == {rows[k] : k \in {k \in DOMAIN rows :
                 LET s == rows[k].thread
                 IN  /\ rows[k].ts >= Clock - Window
                     /\ DayOf(rows[Min(RowsOf(s))].ts) + 1 >= DayOf(Clock)
                     /\ AmongNewest(s)}}

RecentIn(d) == \/ \E k \in RecentLines : DirOf(log[k].path) = d
               \/ \E r \in RecentRows : DirOf(r.path) = d

\* A save of the user's that no agent's event comes near.
OwnSave(p) ==
  /\ disk[p].by = "user" /\ disk[p].mtime >= Clock - Window
  /\ \A k \in DOMAIN log : log[k].path = p =>
       disk[p].mtime > logTime + AheadOfLog(Len(log), k) + Slack
  /\ \A k \in DOMAIN rows : rows[k].path = p => disk[p].mtime > rows[k].ts + Slack

\* What is recent is listed, or the list is full of newer things; what is gone is shown as
\* deleted, and only Codex's deletions are when the file is there.
Settled ==
  /\ \A k \in RecentLines : Shows(log[k].path, log[k].at - Second + 1, {"claude"})
  /\ \A r \in RecentRows : Shows(r.path, r.ts, {"codex"})
  /\ \A p \in Files : OwnSave(p) /\ RecentIn(DirOf(p)) => Shows(p, disk[p].mtime, {"user"})
  /\ \A e \in ToSet(files) : /\ ~Exists(e.path) => e.action = "deleted"
                             /\ e.action = "deleted" => ~Exists(e.path) \/ e.source = "codex"

\* When nothing changes any more, the list comes to show what happened, although a monitor
\* may be missing, because its directory was not there at the start or the cap is reached,
\* and a change between the scan of a directory and its monitor goes unseen: the poll makes
\* up for all of it (hotfiles.ts:262-267).
Settles == <>[]Settled

\* A file that the last refresh found gone (Claude and the user have no other "deleted"), and
\* that is there again with more than an opening to show, is shown as created: "Remove from
\* known paths so if the file reappears, it's detected as "created"" (hotfiles.ts:513).
FoundGone(p) == \E e \in ToSet(files) : /\ e.path = p /\ e.source # "codex"
                                        /\ e.action = "deleted"

ReappearedIsCreated ==
  [][\A p \in Files : FoundGone(p) =>
       \A e \in ToSet(files') : e.path = p => e.action \in {"deleted", "opened", "created"}
     ]_hotFilesVars
=============================================================================
