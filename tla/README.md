# hotbar — a TLA+ model

hotbar is a desktop panel that shows the files a developer and the developer's
coding agents touched last. The repository holds the program twice. Version 1
is a GNOME/AGS panel in TypeScript (`app.tsx`, `services/hotfiles.ts`,
`widgets/Panel.tsx`): one service polls and watches the sources, and one panel
per monitor shows its list. Version 2 is a Rust process (`crates/…`) that reads
the same sources, keeps SQLite as persistence, answers clients on a Unix socket
and draws the panel itself. This directory holds TLA+ modules translated from
both, the TLC configurations that check them on small instances, and TLAPS
proofs of what matters most for every instance.

`hotfiles.ts`, `Panel.tsx` and `app.tsx` are version 1. Paths of version 2 are
relative to `crates/`; `daemon`, `panel` and `common` stand for
`hotbar-daemon/src`, `hotbar-panel/src` and `hotbar-common/src`.

## 1. Inventory

### Version 1

GJS runs everything on one main loop, so nothing runs in parallel, but the files
that are read belong to other programs and change while they are read:

    events.jsonl ─┐                                   ┌▶ panel, monitor 1 ◀─ chips,
    recently-used │  signals ─▶ 300 ms ─▶ refresh ─▶ notify                  Escape
    .xbel ────────┼─ of file    timer        ▲        └▶ panel, monitor 2
    Codex JSONL ──┤  monitors                │
    directories ──┘              30 s poll ──┘   shared: filters, visibility

`refresh` reads all of it from nothing, merges it per path and source, marks
what is gone and what is new, cuts the list to 200 and tells its listeners; each
panel then builds its rows anew. A signal from a monitor starts a timer anew,
and the timer refreshes; a poll does so in any case. The first refresh sees what
there is and the sources are watched after it; directories are watched when an
agent's event names one. The filters are the service's and shared by all panels,
the chips are each panel's own.

### Version 2

`panel/main.rs` starts everything in one process: a tokio runtime with four
ingest tasks (one each for Claude logs, Codex logs, `recently-used.xbel`, the
directory scan), the IPC server, plugin start-up, the full-text index rebuild
and the dispatcher; the UI thread runs the compositor's callbacks. What they
share is one `Arc<RwLock<HotState>>`, one `Arc<Mutex<Db>>` and channels:

    ingest tasks ──apply_events──▶ HotState ◀──try_read── UI callback (every frame)
        │ flush                      ▲   ▲                   │ try_send Vec<PanelAction> (64)
        ▼                            │   │                   ▼
       Db ◀──upsert/remove pin── IPC conn │             dispatcher ──▶ Db, FTS, inference
                                     │    └──pins──────────┘ │
                                     └─ PanelCommand ─▶ UI ◀─┘ send results (64)

### Components

| component | state | operations | hard behaviour | what makes it correct |
|---|---|---|---|---|
| service, version 1 (`hotfiles.ts`) | `_files`, `_knownPaths`, `_initialized`, monitors, timers, filters | `refresh` with its four readers, `_updateDirMonitors`, `_debouncedRefresh`, poll | sources change between two reads of one refresh; a change during a refresh; events without dates; caps on files, monitors, sessions | an agent's write is not shown as the user's, no change is forgotten, the list comes to show what happened |
| panels, version 1 (`Panel.tsx`, `app.tsx`) | one window per monitor, its rows and chips, `panelVisible` | `rebuildFileList`, `setFilter`, `setActionFilter`, toggle, monitors added and removed, quit | several panels, one service; monitors plugged in at any time | all panels show the same list |
| style sheet, compiled bundle (`styles/`, `hotbar.js`) | — | — | — | — |
| file list (`daemon/state.rs`) | `files`, `by_path`, `pins`, `filter` | `apply_events`, `rebuild_index`, `hydrate_from_db`, `apply_filter` | long sequences of batches, ties, evicted paths that come back, hydration from rows that repeat | readers see a best-N list; the index is exact; the delta is replayable |
| Pit Stop pins (`panel/dispatch.rs`, `daemon/ipc.rs`, `daemon/db.rs`) | `HotState::pins`, table `pins`, two locks | pin, unpin, reorder (panel); pin, unpin (clients) | two lock orders, two writes per command, failing statements, restart | no duplicates, answers are true, memory and table agree, no deadlock |
| ingest tasks and write-behind (`panel/main.rs`, `daemon/write_behind.rs`) | cursors, buffers, clocks, table `file_events` | read, push, apply, flush | failing BEGIN/INSERT/COMMIT, death with a full buffer, a timer nobody looks at | nothing lost, nothing written twice, memory first, bounded backlog |
| Claude cursor (`daemon/ingest/claude.rs`) | file, offset, session, seen writes | `read_full`, `read_incremental`, `parse_event_line` | a line still being written, rotation, two sessions | each complete line becomes one event |
| Codex watcher (`daemon/ingest/codex.rs`) | offset per session file | `read_new`, `parse_session_file` | growth between stat and read, truncation | no line skipped |
| XBEL parser (`daemon/ingest/xbel.rs`) | mtime | `read_new` | hands over its whole history each time | repetition is harmless (file list) |
| directory scan (`daemon/ingest/dirscan.rs`) | none; a snapshot of agent timestamps | `scan`, `detect_action` | the snapshot is stale when its events are applied | an agent's event is not re-attributed |
| watcher (`daemon/watcher.rs`) | a channel of signals | inotify callbacks | lost wake-ups | the poll timeout replaces them |
| IPC server (`daemon/ipc.rs`) | connections, command channel | ten commands | concurrent clients, commands nobody serves | an answer means the thing was done |
| database (`daemon/db.rs`, `common/schema.rs`) | SQLite tables | single statements, one transaction | COMMIT that fails | all or nothing |
| full-text search (`daemon/search.rs`) | FTS tables | rebuild, search, cache a summary | results of an older query | the results shown are of the last query |
| inference (`daemon/inference.rs`) | model, summary cache | load, summarise | slow answers, unloaded model | the summary shown is of the file asked for |
| plugins (`daemon/plugin.rs`) | plugin states | load, invoke | timeout against a late answer | an invocation ends |
| panel application (`panel/main.rs`, `app.rs`, `widgets/*`) | open popover, search text, filters, frame copies | keys, draw, commands | bounded channels, copies of a frame ago | no lost or misplaced action |
| shell (`panel/sctk_shell.rs`) | Wayland objects, visibility | configure, toggle, input | compositor callbacks | toggling shows and hides |
| animations (`panel/anim.rs`, `spinner.rs`, `toast.rs`) | phases and clocks | tick, start, dismiss | phases cut short | a phase ends, the queue is bounded |
| trace database (`common/trace_db.rs`) | buffers, prune thread | record, flush, prune | buffer at its limit | no span lost in order |
| renderer, shaders, theme, configuration, tools | — | drawing, parsing, scripts | none a model checker reaches | — |

`PROJECT.json` lists every component with the reason where it is not modelled,
and every hazard at its line.

## 2. Plan

All of the plan but its last point is done.

1. **File list**: `LatestWins` (abstract), `HotState` (detailed, implements it),
   `HotStateProofs`, `HotRestart` (composes the list with the table and a buffer).
   `MCRestarts` runs it or the ingest tasks (3).
2. **Pins**: `Pins` (dispatcher + clients + table + restart), `PinsProofs`.
3. **Ingest**: `Ingest` (four tasks, buffers, one shared connection), `IngestProofs`.
4. **Log readers**: `LogFile`, `ClaudeCursor`, `CodexCursor` over a file written
   in pieces, with rotation and truncation, and `LogsProofs`.
5. **Version 1**: `AgentLog` (what its readers make of what they read),
   `HotFiles` (the service and the world it looks at), `Panels` (composes it with
   the panels), `HotFilesProofs`, `PanelsProofs`.
6. **Frames and dispatcher**: `PanelLoop`, both channels, search and summary, and
   `DispatcherProofs`.
7. **Not begun**: the directory scan of version 2 against an agent event that
   arrives between its snapshot and its application (version 1 takes the same
   decision, and `HotFiles` has what happens between its steps); the toggle,
   which nothing carries out; the trace database and plugin states, which are
   developer tooling or only called by tests.

Every safety invariant and every action property of the runs that hold is a
theorem; what is left to TLC is liveness. Section 5 says how and why.

## 3. What is modelled

### HotState, LatestWins, HotRestart

`HotState.tla` translates `apply_events` (`daemon/state.rs:68-129`) step by
step: `Receive` is the call, `MergeNew`, `MergeUpdate`, `MergeStale` the three
outcomes for one event of the merge loop, `BeginSort`, `SortSwap`, `SortNext`
the insertion sort one comparison at a time (`i` and `j` are the code's loop
counters, moved by one because sequences start at 1), and `Finish` the index
rebuild, the trim and the second rebuild, after which the write lock is free.
`view` is `files` at that moment, what any reader can see; `seen` is history,
the latest timestamp delivered for each path. `delta` is the value returned.

`LatestWins.tla` is the promise without machinery: the readers' list is some
list of at most `MaxFiles` entries, newest first, each path once with its
latest timestamp, nothing newer left out, and an entry gives way only to a
strictly newer one. Which of several equally old files is left out is open.

`HotRestart.tla` adds the table `file_events` and a buffer of events not yet
flushed. `PushAndReceive` is the push before the call, `Flush` the transaction,
`Restart` the end of the process between any two steps and the next start's
`hydrate_from_db`, which takes `SELECT … ORDER BY timestamp DESC LIMIT
max_files` as it comes. The table has no key, so rows repeat whenever a source
hands over the same events again, which two of the four sources do on each
poll.

### Pins

`Pins.tla` has the two lists (`pins`, `rows`), the two locks (`stOwner`,
`dbOwner`), and each task's program counter and command. The panel takes the
state (`GuiLock`), changes it and lets it go (`GuiPin`, `GuiUnpin`;
`GuiPinAgain` and `GuiReorder` end there), then takes the database for one
statement (`GuiPersist`). A client takes the database for its statement
(`IpcUpsert`, `IpcDelete`, `IpcRefuse`) and keeps that guard, a temporary of
the `match` scrutinee, while it waits for the state (`IpcTake`) and changes it
(`IpcPublish`). A read guard that is taken and dropped in one expression is a
condition on `stOwner`, not an owner. `GuiReorder` picks any indices because
the widget's are those of an earlier frame. The tasks' positions are the
lengths they read when they read them. `unsaved` and `writers` are history.

### Ingest

`Ingest.tla` has the loop of the four tasks in `panel/main.rs:128-281`: wake,
read, push to the buffer (`Read`), apply under the write lock (`Apply`), ask
`should_flush`, flush (`FlushOk`, `FlushError`). Sources are logs read from an
in-memory position or lists handed over whole; `Grow` is the outside world.
`txnOpen` is the state of the one connection when COMMIT failed and nothing
rolled back: each later BEGIN fails until the process ends. `Tick` is the
500 ms clock.

### LogFile, ClaudeCursor, CodexCursor

`LogFile.tla` says which lines lie wholly between two byte positions, which is
all a reader of a file can parse; a line has `Width` bytes and a newline.

`ClaudeCursor.tla` is `ClaudeCursor::read_new` against a writer. `StartLine` and
`ContinueLine` append bytes, `Rotate` puts a new file in the place of the old
one. A call is two steps, because the file changes in between: `Look` is the
`metadata()` with the inode test and `reset`; `Read` opens the file, whichever
one it is by then, and is `read_full` at offset 0 (`ReadFull`) or
`read_incremental` (`ReadAppended`). `FullTimes` and `AppendedTimes` are the two
ways the code turns relative seconds into dates. `EndOfRead` counts bytes as
the code does, a newline for each piece.

`CodexCursor.tla` is `parse_session_file` on one file, again in two steps, with
`Truncate` in place of rotation; the offset it stores is the size seen first. A
line counts if its date is `Plausible`, neither before the cutoff nor more than
60 s ahead of the clock, and of those a read keeps the latest for each path
(`Dedup`). `reported` is history: what the reads have handed over since the file
was last read whole.

`MCLogs.tla` runs one of the two readers per behaviour, chosen at the start;
they share no state.

### AgentLog, HotFiles, Panels

`AgentLog.tla` is what `_readAgentFiles`, `_readCodexFiles` and `_readXbelFiles`
return for given contents. Claude's log has no dates, only seconds since a
session began: `Begins` tells sessions apart by a fall of that number,
`BaseTimes` counts back from the mtime of the log, session by session. A `Map`
is the sequence of its values in the order of insertion, which decides ties in
the sort. `Ordered.tla` arranges a finite set by an order: lines by their place
(`MergeInOrder`), sessions and entries by their time.

`HotFiles.tla` is the service and the world. The world (`disk`, `there`, `log`,
`rows`, `visited`, the clock) is external: Claude writes a file at once and its
hook logs it later (`ClaudeWrites`, `ClaudeLogs`), Codex announces a patch and
applies it later (`CodexCalls`, `CodexApplies`), users save, delete and open
files. Sessions of Claude begin at any time and run at the same time: each has
its own job in `doing`, each dates its lines from its own beginning, and their
lines come into the one log in any order. Time goes in parts of a second
(`Second` of them), as the relative times in the log do; the clock the code
reads, mtimes and the dates in the other sources are whole seconds (`Whole`,
`Clock`). `refresh` is one call without a wait, so no
signal and no click comes in between, but it reads at four moments, and these
are its steps: `ReadText` takes the text of `events.jsonl`; `ReadSources` takes
its mtime, `recently-used.xbel` and the Codex files; `Scan` the active
directories; `Publish` looks whether each file is there, marks deleted and
created, sorts, cuts and places monitors in the directories that exist (`there`).
`pending` stands for a signal in the
main loop's queue or the debounce timer, both of which end in a refresh; `due`
is history, the watched places that changed since they were read last.
`StartAgain` is the next start of the program, with nothing kept.

`Panels.tla` adds the panels: `Notify` is part of the step that publishes the
list, `SetFilter` and `SetActionFilter` set the service's filter and one panel's
chip and rebuild all lists, `Plug` and `Unplug` are a monitor that comes or
goes, `Quit` ends the program. `MCPanels.tla` fixes the desktops to check.

### PanelLoop

`PanelLoop.tla` is a frame of version 2 and the dispatcher. A frame takes all
results that have come (`Drained`), lets the user press a key and then click
(`Keyed`, `Clicked`: in that order within one frame), and ends with `try_send`
(`Send`), which loses the frame's actions when the channel is full. The
dispatcher takes one vector (`Receive`), carries its actions out
(`DoSummarize`, `DoSearch`, each of which may fail) and returns the results
together (`Reply`), waiting for room. Results carry what they are about and the
frame does not look at it. `unanswered`, `lostSearch` and `failedSearch` are
history. `MCDispatcher.tla` runs this or the pins per behaviour, chosen at the
start: the dispatcher serves both, and they share no state.

## 4. The runs

| run | asks | result |
|---|---|---|
| `hotstate` | is the published list a best-N list, the index exact, the delta replayable, the sort right and finite, the refinement of `LatestWins` kept, over every sequence of batches | holds |
| `hotrestart_index` | is the index consistent after a start (`state.rs:621`) | violated |
| `pins_mixed` | two clients and the panel, failures, restarts: duplicates, false answers, memory against table for one kind of writer | holds |
| `pins_locks` | the dispatcher's waits: does every pin command end (strong fairness); with both channels full, do popover and results come to show what was asked last | holds |
| `pins_two_writers` | do memory and table agree when everyone is done (`db.rs:21`) | violated |
| `pins_reorder_lost` | does a drag survive a restart (`types.rs:160`) | violated |
| `ingest_restart` | the process dies anywhere: loss, duplication, order of memory and disk, backlog, arrival in the list; does the next process's list stay ordered and free of covered-up newer entries | holds |
| `ingest_flush` | is what is buffered flushed in the end (`write_behind.rs:4`) | violated |
| `logs` | does a log reader, its writer active at any moment, miss a line, repeat one, date one ahead of the file, call a path both created and modified, leave out a path's latest line or take one from the future for it, or stay behind | holds |
| `panels` | version 1: is Codex's write ever given to the user, or Claude's where its sessions wrote in turn, is such a line dated a second early, a change forgotten, a panel out of step, and does the list come to show what happened | holds |
| `hotfiles_reappears` | is a file that comes back shown as created (`hotfiles.ts:513`) | violated |
| `hotfiles_concurrent` | is Claude's write never given to the user, whatever sessions share the log (`hotfiles.ts:629`, `693`) | violated |

### Bounds, and why they are enough

- `hotstate`: three paths with room for two, so a path is evicted and comes
  back, also with an older event; three timestamps (older, equal, newer); two
  kinds, so a replaced entry is told from an unchanged one; batches of one and
  two events, two being the least that lets one call touch a path twice or
  evict what it added.
- `ingest_restart`, the list (`MCRestarts` runs the list or the tasks, chosen at
  the start; they share no state): two paths, three timestamps, room for two, four
  rows: a path can have two rows while another waits behind them.
- `pins_mixed`: two paths (a list that can be reordered), two clients and the
  panel, all commands and failures. `pins_locks` needs one path: no lock or
  wait depends on which path a command is about, and two clients with the panel
  are all the ways two lock orders can meet.
- `ingest_restart`, the tasks: a log and a re-read list, two entries each, `MaxBatch` 2 and an
  interval of one tick, so the threshold is met by one read, by two, or by
  time; one restart; `MaxRows` stops a re-read list after four rows, which
  leaves room for a repetition.

- `logs`: lines of two bytes, so that a read can end inside a body, between a
  body and its newline, or after the newline; three lines (one less in a second
  file), so that a line lies before and one after the cut; relative times 1 and
  4 with `Gap` 1, so a session can end at each line; `Window` 2 drops old
  events. The Codex lines' times 1, 3 and 6, read at 3 or 4 with `Window` 2 and
  `Ahead` 1, are before the cutoff, plausible, or from the future. One path, since
  paths meet only in `seen_paths`, `created_paths` and `seen`, per path; one
  rotation, one truncation.

- `pins_locks`, channels: two files, so that an answer can come under the
  other's name; one query, against an empty bar; channels of one, so that a
  frame's actions, the channel to the dispatcher, the dispatcher and the channel
  back can all be full at once. A longer channel only delays that.
- `panels`: a behaviour stays in one of four scopes (`Scopes`), because their
  product is out of reach. (1) Sessions and dates: one file, two sessions of
  Claude that edit it, one after the other or at the same time, users save and
  delete, three changes between refreshes. (2) Two Codex sessions of which one may
  be read (`MaxThreads` 1), changes also during a refresh. (3) Two directories of
  which one may be watched (`MaxMonitors` 1) and one is not there at the start,
  reads and writes of Claude, a Codex session, opened files. (4) Two monitors,
  three clicks, one change. A second has two parts, and the clock stands still only
  at the `times` of the scope, up to the fourth second: odd ones where fractions
  matter, and far enough for a line to leave the window. `Gap`, `Slack` and `Ahead`
  are one second, `Window` and `Young` two, `Week` seven, so that each comparison
  is met from both sides; `MaxFiles` 3 is met by two paths with three sources.
  `hotfiles_concurrent` and `hotfiles_reappears` use the same scopes.

No run uses symmetry. Every run but `logs` and the three of version 1 keeps TLC's deadlock check: the system never has to stop, since a task can always
restart or another command arrive. In `logs` the writer may fall silent, and a
Claude cursor at the end of its file then has nothing to do. In the three runs of
version 1 a scope without changes during a refresh bounds steps of the world by
the state of the service, so TLC's own bounds may end a behaviour.

### Fairness

- `HotState`: weak fairness of `ApplyStep`: a call, once entered, is a
  synchronous loop without a wait.
- `Pins`: strong fairness of each task's steps. tokio's `Mutex` and `RwLock`
  queue their waiters first come, first served, so a lock freed again and again
  is handed to every waiter. `GuiLock` and `IpcBegin` are not fair: nobody has
  to ask for anything.
- `Ingest`: weak fairness of each task (its select has a poll timeout, so a
  task that waits wakes up whether or not inotify spoke) and of the clock.
  `Grow` is not fair.
- `HotFiles`: weak fairness of starting a refresh while idle (the 30 s timer)
  and of going on with one (a synchronous call). No signal, monitor or timer of
  300 ms is relied on.
- `PanelLoop`: weak fairness of an idle frame or `Send` (the compositor asks for
  frame after frame; what a user does in one is never forced) and of the
  dispatcher (a tokio task; an inference ends or times out).
- Log readers: weak fairness of `Look` (the task polls) and of the step that
  ends a call (`Ends`, which only `Read` can take). The writer is not fair.

### What the violated runs show

- **Hydration repeats paths** (`state.rs:157`): two rows of one path become two
  entries and the index knows one of them; a newer event then updates that one,
  and the panel shows the path twice until both age out.
- **Panel and client** (`dispatch.rs:95`): `UnpinFile` removes from memory, a
  client's `Pin` of the same path writes the row and pushes to memory, then the
  panel's delete removes the row: the shelf has a pin the table lost. All
  commands were answered, none failed.
- **A drag is not saved** (`dispatch.rs:178`): positions change in memory only.
- **The 500 ms timer is not a timer** (`main.rs:152`): `should_flush` is
  asked only after a read that found events, so the last events before a quiet
  period stay in memory.
- **A file that comes back** (`hotfiles.ts:528`): the loop after the deletion
  check puts every path of the list back into `_knownPaths`, the deleted one
  included, so it is never "newly appeared": Claude edits a file, it is deleted
  and a refresh shows that, it is restored, and it shows as modified.
- **Sessions at the same time** (`hotfiles.ts:703`): a fall of the relative time by
  more than 60 s is all that tells sessions apart, and what lies between two
  falls has one base time. When concurrent sessions' lines alternate, a line of
  the younger session followed by one of the older is taken for the same session
  and dated from the older one's beginning: too early by as much as the two began
  apart. Five seconds of tolerance do not cover that, and the scan lists Claude's
  write as the user's. The comment at 693-696 speaks of concurrent sessions and
  promises a base time for each; `NeverTakenFromSessions` is
  `NeverTakenFromAgent` without the condition that sessions wrote in turn.

## 5. The proofs

TLAPS checks them with no assumption besides the named `ASSUME`s of the
modules (`HotStateAssumption`: timestamps are naturals, `MaxFiles` is one,
batches are sequences of events; `PinsAssumption`: the sentinels are distinct
from what they stand beside; `IngestAssumption`: batches have room for an event;
`WidthAssumption`: a line has a byte besides its newline; `ClaudeAssumption`,
`LogsAssumption`, `HotFilesAssumption`, `PanelsAssumption`, `LoopAssumption`:
bounds are naturals, tools and filters are those of the code, no file or query is
the sentinel for none).

**SequenceLemmas.** Dates, entries and lists are folds and recursive functions
over data. The library's induction theorems take an operator as a parameter,
which the provers here cannot instantiate; a *set* does as well
(`NatInductionOn`: a set with 0 and the successor of each of its elements holds
all naturals), and so does a recursion given as a relation on sets
(`RecursionExists`). From these: a fold is the last of a sequence of values that
begins with its base and makes one step per element (`FoldSteps`, `StepsExist`),
the largest and smallest of a finite set, and that `Arranged` lists each element
once and in order (`ArrangedAll`). The proofs below reason about such a
sequence of values as about the run of a loop, with a loop invariant.

**HotStateProofs.** `IInv` strengthens the checked properties with what holds
while the lock is taken: `IndexInv` (the index is exact during the merge,
though the list is out of order), `SortInv` (the counters), `NeverAhead` (no
entry is newer than what was delivered for its path), and `Floor`, which is the
crux: a path that was trimmed away may come back in a later batch with an
*older* event than the one once shown, and such an entry is wrong. It can never
reach the readers, because as long as a path's latest event is not in the list,
the first `MaxFiles` places hold entries at least that new: the trim left them
so, a merge only raises timestamps in place and appends behind, and a swap
never lowers a place's timestamp. From `IInv`: `TypeCorrect`, `IndexIsExact`,
`SortKeepsPrefix`, `ViewTopList`, `DeltasReplay`, `OnlyNewerReplacesEntries`
and `Refinement` (the detailed list implements `LatestWins` with
`latest <- seen`, `shown <- view`).

A restart hydrates rows that repeat, so paths then stand in the list twice and
the index names one place of each. `IInv` is therefore `CoreInv /\ ListInv`:
`ListInv` (distinct paths, exact index, replayable delta) holds until the first
restart, `CoreInv` (types, `IndexNames`: a path sends to *some* entry of its
own, the sort, `NeverAhead`, `Floor`) for good, and every step of the list
preserves `CoreInv` by itself. `RestartInv` adds the table and the buffer;
`HydrateCore` says that the newest rows of any table make a list with `CoreInv`.
From it `NewestFirst`: in order, within `max_files`, the first entry of each path
the latest known, over any number of restarts.

**PinsProofs.** `IInv` says who holds which lock at which step (`Locks`), that
the table has a key (`Table`), and what a task between its two writes has made
true: a client keeps the database's guard, so its row is still there when it
reaches the memory (`HeldWrite`) and the lists differ on its own path only
(`ClientMatch`); the panel, if nobody else writes, is ahead on its own path
only (`PanelMatch`). The lemmas before it say what `RemoveAt`, `InsertAt`,
`retain` and the load from the table do to a list without repetitions. From
`IInv`: `PinsTypeCorrect`, `ShelfUnique`, `ClientsAgree`, `PanelAgrees` and
`ReplyHolds`.

**IngestProofs.** The checked properties are inductive together once `IInv` adds
`BufferInv`: no task has read past the end of its source, and what a buffer
holds was read. That makes what a flush appends a continuation of the rows of
this process, and puts it in memory already, because a task flushes only after
it applied. From `IInv`: `IngestTypeCorrect`, `NothingLostOrTwice`,
`MemoryFirst`, `BacklogIsBounded`, `ReadGetsShown`, for any sources, batch size
and interval.

**LogsProofs.** First the arithmetic of lines in bytes: which line a position
belongs to, where a file of whole lines ends. `CursorInv` says that every line
that begins before the Claude cursor's offset was parsed or torn; the offset may
lie one byte beyond the file, because a last piece without its newline is
counted with one, but that byte lies inside the line that was cut (`Reached`), so
the next read misses no line but that one. `OffsetInv` says it of the Codex
offset, which is a size the file had before it was read. `HistoryInv` is about
what the reads return. `TimesInv`: the time kept of the session lies among those
of the log, from which each date of a read, whole or appended, lies at or before
the mtime it looked at: each line is counted back by the largest time of its
session so far, and each earlier session ends where the next begins. `ActsInv`
ties the actions reported to `seen_paths` and `created_paths` (a path reported
as modified was seen before and is not a created one), and `ParsedInv` the lines
parsed to the offset. For the Codex reader, the fold of one read (`Dedup`) is
followed line by line: what it keeps for a path is a plausible line of the read
and at least as late as each plausible one so far; the union over the reads since
the file was last read whole, with `OffsetInv`, is `LatestReported`. `LogsInv` is
all of it, for both readers. From it `LogsTypeCorrect`, `ClaudeMissesNoLine`,
`ClaudeDatesNothingAhead`, `ClaudeLifecycles`, `ClaudeReadsOnce`,
`CodexMissesNoLine`, `CodexReportsLatest`, for lines of any width and date, files
of any length, any number of new files and truncations.

**HotFilesProofs, PanelsProofs.** `HotFilesProofs` begins with the readers:
`Merge` keeps one entry for each path and source, at least as new as each that
was merged; the segments of a log cut it into intervals, and `BaseTimes` counts
each back from the next (`BaseTimesAre`). That holds of any log. For one whose
sessions wrote in turn (`InTurn`: along the log neither the time at which a tool
ran nor the beginning of its session ever falls), `BaseTimes` puts no session a
second before it began or earlier. A session told apart is counted back from the
first line of the next one, which came no earlier than its own last line; sessions
that are *not* told apart are all counted from the beginning of the last of them,
which is no earlier than their own; and the mtime they are all counted from has
lost less than a second (`WholeIs`). So dates err on the late side but for that
second: `DatesNotEarly`, for any such log, prefix and mtime. The condition is on
the log that was read and on nothing else: the theorems are about a world whose
sessions run as they like, in which it may hold of one refresh and not of the
next.

`HotFilesInv` is `WorldInv` (each line is about what its session did, no file, row
or line is from the future), types, and what a refresh in progress knows:
`AgentsCover` and `CodexCover` (each recent row read has an entry as recent, and so
has each recent line of a log written in turn, but for a second), `ScannedLater`
(what the scan found is later than what the agents' logs have about the same
file: a second is less than the scan's tolerance), and `WakeInv` (a watched change
not read yet has raised a signal, or lies
in what the running refresh has still to read). `PanelsInv` adds that each
panel's list is the service's under its filters. From them `HotFilesTypeCorrect`,
`NoLineDatedEarly`, `AgentsKeepTheirWrites`, `NoChangeForgotten` and
`PanelsShowTheList`, for any files, agents, sessions and monitors.

`NeverTakenFromAgent` has two conditions on Claude's lines. Without `InTurn` it is
`NeverTakenFromSessions`, which is false. The other is about dates that are too
late, and it showed in the attempt to prove the property without it. Falls of the relative time up to the
gap (60 s) are taken for the same session, and each dates the lines before it
later by as much. Two such falls in a row add up: a line can then be dated
further ahead than the code accepts (`hotfiles.ts:856`), is dropped, and the
write it is about is shown as the user's. So the property is about lines that
are dated no more than `Ahead` beyond the mtime (`AheadOfLog` in `LineAbout`). In
the run, logs of sessions that wrote in turn have one fall at most, and that
excludes nothing.

**DispatcherProofs.** `SummaryInv` follows the last request the user made: it is
the last in the frame's actions, or there is none and it is the last in the
channel, or there is none and it is the last of what the dispatcher has still to
do, or its answer is the last of those it has, in the channel back, or shown.
`BarInv` says the same of searches, with the results in place of answers. With
`LoopTypeOK` they are inductive (`LoopInv`); that a vector of actions is carried
out in order and results are taken in order is all they rest on. From it
`PanelTypeCorrect`, `PopoverShowsItsFile`, `ListShowsTheSearch`, for any files,
queries and channels of any size.

Only model-checked, and why: liveness under fairness is out of the prover's
reach here, which leaves `CallReturns`, `CommandsReturn`, `AnswerArrives`,
`EventuallyShown`, `CatchesUp`, `CodexCatchesUp` and `Settles` to TLC.

## 6. What is abstracted or left out

- A path is an atom; `common/intern.rs` gives equal paths equal ids and that is
  all the list uses. Labels, groups, colours, confidence and wording are left
  out; an entry's `kind` stands for its source and action.
- The sources in `Ingest` never forget entries. The code ignores entries older
  than a day when it reads; within one run of the process that changes nothing
  for what was read once. An entry of a log appears at once; lines written in
  pieces are the log readers' business.
- A line that a read finds half written is lost for good: neither half parses,
  and the offset has moved past it. `LostOnlyIfTorn` and `PassedWasParsed`
  except exactly these lines, so they show that no other line is lost.
- The log readers: path filters, invalid UTF-8 and read errors, an inode number
  used again and a Claude log truncated in place, the choice of session files
  (`codex.rs:88-121`) and lines with several patched files are left out. A
  truncated Codex file that is as long as the old one, or longer, when looked at
  next is taken for the old one; `PassedWasParsed` excepts it by `unnoticed`. The
  dates of lines that one incremental read returns are all counted from the mtime
  seen before it, so they are dates of the read rather than of the events;
  `NotInFuture` bounds them from above only.
- A statement on `pins` inside a transaction left open by a failed COMMIT
  (`db.rs:135`) is lost at the end of the process. Pins and events are separate
  modules, so no run shows it; the hazard is listed.
- `apply_filter`, `active_directories`, `agent_timestamps` only read.
  `ActivityTracker` feeds the flames and decides nothing in the list.
- `PanelLoop`: the cache of summaries (an answer may come from either), toasts
  and the actions that change no widget's content (open, copy, filter) are left
  out; typing with its debounce is the choice of a query that differs from the
  last. Pin actions are in `Pins`.
- Version 1: filters of paths, the parsing of text, MIME types, labels, icons,
  the clipboard and the editor a click starts are left out. Every line of Claude's
  log has a time. Concurrent sessions are modelled; `DatesNotEarly`,
  `NeverTakenFromAgent` and the lines `Settles` asks for except the logs in which
  they alternate, for which the comment's promise does not hold
  (`NeverTakenFromSessions`). The log never shrinks. A patch that Codex applies
  later than the scan's tolerance is shown as the user's, as the code means it to
  be (`"late codex"` in `CodexApplies`). An href that `decodeURIComponent` rejects
  (`hotfiles.ts:955`) throws out of `_refresh`, and so does each refresh after it;
  the model's entries decode, so `Settles` is about refreshes that do not throw. A
  directory whose `monitor_directory` fails (caught, `hotfiles.ts:432`) is not
  modelled; one that does not exist yet is (`there`). The debounce timer is
  `pending`, without the 300 ms that each signal starts anew (`hotfiles.ts:318`):
  `Debounced` may come at once or never, and `Settles` rests on the poll. That the
  chips of the other monitors keep showing the filter of before is modelled
  (`chip`) and is no property. The ages in the rows are as old as the row.
- Drawing, shaders, themes, configuration and the Wayland protocol carry no
  state a property would be about.
