-------------------------------- MODULE Pins --------------------------------
(***************************************************************************)
(* The Pit Stop shelf: a list in memory (HotState::pins, behind a RwLock)  *)
(* and a table on disk (behind a Mutex), changed by two kinds of tasks in  *)
(* opposite orders.                                                        *)
(*                                                                         *)
(*   - the panel's dispatcher (hotbar-panel/src/dispatch.rs), one action   *)
(*     at a time: memory first, then, the write guard dropped, the table;  *)
(*   - an IPC connection (hotbar-daemon/src/ipc.rs): the table first, and  *)
(*     its guard kept while it waits for the memory and changes it.        *)
(*                                                                         *)
(* The process may die at any step; the next one loads the table.          *)
(* A pin is its path and its position; label, group and time are left out. *)
(***************************************************************************)
EXTENDS Integers, SequencesExt

CONSTANTS Paths,
          Conns,      \* open IPC connections
          Panel,      \* the dispatcher task
          GuiOps,     \* what the panel may ask: subset of {"pin", "unpin", "reorder"}
          IpcOps,     \* what a client may ask: subset of {"pin", "unpin"}
          DbMayFail,  \* whether a statement on the table may return an error
          Free,       \* stands for the holder of a lock nobody holds
          NoPin       \* stands for the pin of a task that runs no command

Tasks == Conns \cup {Panel}

Pin == [path : Paths, pos : Nat]

ASSUME PinsAssumption == /\ Panel \notin Conns
                         /\ GuiOps \subseteq {"pin", "unpin", "reorder"}
                         /\ IpcOps \subseteq {"pin", "unpin"}
                         /\ DbMayFail \in BOOLEAN
                         /\ Free \notin Tasks
                         /\ NoPin \notin Pin

VARIABLES pins,     \* HotState::pins
          rows,     \* the table, its primary key the path
          stOwner,  \* task holding the write guard of the state
          dbOwner,  \* task holding the guard of the database
          pc,       \* where each task is
          op, arg,  \* the command it runs and the pin it is about
          unsaved,  \* history: paths whose last statement by the panel failed
          writers   \* history: who has asked for a change since the start

pinVars == <<pins, rows, stOwner, dbOwner, pc, op, arg, unsaved, writers>>

PathsOf(S) == {p.path : p \in S}
Pinned == PathsOf(ToSet(pins))

PositionOf(x) == CHOOSE k \in DOMAIN pins : pins[k].path = x

\* pins.retain(|p| p.path != x): the shelf holds a path at most once (UniquePins).
Without(x) == IF x \in Pinned THEN RemoveAt(pins, PositionOf(x)) ELSE pins

\* Mutant: positions numbered from one below.
ReorderedOffByOne(from, to) ==
  LET moved == InsertAt(RemoveAt(pins, from), to, pins[from])
  IN  [k \in DOMAIN moved |-> [moved[k] EXCEPT !.pos = k - 2]]

\* pins.remove(from), pins.insert(to, ..), positions renumbered from 0.
Reordered(from, to) ==
  LET moved == InsertAt(RemoveAt(pins, from), to, pins[from])
  IN  [k \in DOMAIN moved |-> [moved[k] EXCEPT !.pos = k - 1]]

\* INSERT OR REPLACE and DELETE.
Upserted(p) == {r \in rows : r.path # p.path} \cup {p}
Deleted(x) == {r \in rows : r.path # x}

\* SELECT .. ORDER BY position: rows of equal position come in any order.
ByPosition == {s \in SetToSeqs(rows) :
                 \A a, b \in DOMAIN s : a < b => s[a].pos <= s[b].pos}

\* A command ends, and with it the scope of the guards it still holds.
Return(t) ==
  /\ pc' = [pc EXCEPT ![t] = "idle"]
  /\ op' = [op EXCEPT ![t] = "none"]
  /\ arg' = [arg EXCEPT ![t] = NoPin]
  /\ stOwner' = IF stOwner = t THEN Free ELSE stOwner
  /\ dbOwner' = IF dbOwner = t THEN Free ELSE dbOwner

Goto(t, label) == pc' = [pc EXCEPT ![t] = label]

-----------------------------------------------------------------------------
(* The panel's dispatcher *)

\* self.state.write().await, the first thing each of the three actions does.
GuiLock(o, x) ==
  /\ pc[Panel] = "idle"
  /\ o \in GuiOps
  /\ stOwner = Free
  /\ stOwner' = Panel
  /\ op' = [op EXCEPT ![Panel] = o]
  /\ arg' = [arg EXCEPT ![Panel] = [path |-> x, pos |-> Len(pins)]]
  /\ Goto(Panel, "mem")
  /\ writers' = writers \cup {"panel"}
  /\ UNCHANGED <<pins, rows, dbOwner, unsaved>>

\* Mutant: drop(st) is forgotten, the guard lives until the arm ends.
GuiPinKeepsGuard ==
  /\ pc[Panel] = "mem" /\ op[Panel] = "pin"
  /\ arg[Panel].path \notin Pinned
  /\ pins' = Append(pins, arg[Panel])
  /\ Goto(Panel, "db")
  /\ UNCHANGED <<rows, stOwner, dbOwner, op, arg, unsaved, writers>>

\* PinFile of a path that is not on the shelf: push, drop(st), then the database.
GuiPin ==
  /\ pc[Panel] = "mem" /\ op[Panel] = "pin"
  /\ arg[Panel].path \notin Pinned
  /\ pins' = Append(pins, arg[Panel])
  /\ stOwner' = Free
  /\ Goto(Panel, "db")
  /\ UNCHANGED <<rows, dbOwner, op, arg, unsaved, writers>>

\* PinFile of a path that is on it: only the toast.
GuiPinAgain ==
  /\ pc[Panel] = "mem" /\ op[Panel] = "pin"
  /\ arg[Panel].path \in Pinned
  /\ Return(Panel)
  /\ UNCHANGED <<pins, rows, unsaved, writers>>

GuiUnpin ==
  /\ pc[Panel] = "mem" /\ op[Panel] = "unpin"
  /\ pins' = Without(arg[Panel].path)
  /\ stOwner' = Free
  /\ Goto(Panel, "db")
  /\ UNCHANGED <<rows, dbOwner, op, arg, unsaved, writers>>

\* ReorderPins with the indices the widget drew; out of range, it does nothing.
GuiReorder ==
  /\ pc[Panel] = "mem" /\ op[Panel] = "reorder"
  /\ \/ UNCHANGED pins
     \/ \E from, to \in DOMAIN pins : pins' = Reordered(from, to)
  /\ Return(Panel)
  /\ UNCHANGED <<rows, unsaved, writers>>

\* Mutant: unpinning writes the row back.
GuiStoredAlways == Upserted(arg[Panel])

\* The statement on the table; its error is only logged.
GuiStored == IF op[Panel] = "pin" THEN Upserted(arg[Panel])
                                  ELSE Deleted(arg[Panel].path)

GuiPersist ==
  /\ pc[Panel] = "db"
  /\ dbOwner = Free
  /\ \/ /\ rows' = GuiStored
        /\ unsaved' = unsaved \ {arg[Panel].path}
     \/ /\ DbMayFail
        /\ unsaved' = unsaved \cup {arg[Panel].path}
        /\ UNCHANGED rows
  /\ Return(Panel)
  /\ UNCHANGED <<pins, writers>>

GuiStep == GuiPin \/ GuiPinAgain \/ GuiUnpin \/ GuiReorder \/ GuiPersist

-----------------------------------------------------------------------------
(* An IPC connection *)

\* Pin reads the number of pins under the read lock and lets it go; Unpin reads nothing.
IpcBegin(c, o, x) ==
  /\ pc[c] = "idle"
  /\ o \in IpcOps
  /\ o = "pin" => stOwner = Free
  /\ op' = [op EXCEPT ![c] = o]
  /\ arg' = [arg EXCEPT ![c] = [path |-> x, pos |-> Len(pins)]]
  /\ Goto(c, "db")
  /\ writers' = writers \cup {"client"}
  /\ UNCHANGED <<pins, rows, stOwner, dbOwner, unsaved>>

\* Mutant: the guard is let go as soon as the statement is done.
IpcUpsertLetsGo(c) ==
  /\ pc[c] = "db" /\ op[c] = "pin"
  /\ dbOwner = Free
  /\ rows' = Upserted(arg[c])
  /\ unsaved' = unsaved \ {arg[c].path}
  /\ Goto(c, "take")
  /\ UNCHANGED <<pins, stOwner, dbOwner, op, arg, writers>>

\* The guard is a temporary of the match: it lives until the whole arm is done.
IpcUpsert(c) ==
  /\ pc[c] = "db" /\ op[c] = "pin"
  /\ dbOwner = Free
  /\ dbOwner' = c
  /\ rows' = Upserted(arg[c])
  /\ unsaved' = unsaved \ {arg[c].path}
  /\ Goto(c, "take")
  /\ UNCHANGED <<pins, stOwner, op, arg, writers>>

IpcDelete(c) ==
  /\ pc[c] = "db" /\ op[c] = "unpin"
  /\ dbOwner = Free
  /\ arg[c].path \in PathsOf(rows)
  /\ dbOwner' = c
  /\ rows' = Deleted(arg[c].path)
  /\ unsaved' = unsaved \ {arg[c].path}
  /\ Goto(c, "take")
  /\ UNCHANGED <<pins, stOwner, op, arg, writers>>

\* Mutant: a refused command goes on to change the memory.
IpcRefuseGoesOn(c) ==
  /\ pc[c] = "db"
  /\ dbOwner = Free
  /\ \/ op[c] = "unpin" /\ arg[c].path \notin PathsOf(rows)
     \/ DbMayFail
  /\ Goto(c, "take")
  /\ UNCHANGED <<pins, rows, stOwner, dbOwner, op, arg, unsaved, writers>>

\* NOT_FOUND, or DB_ERROR: the answer goes out and the memory is left alone.
IpcRefuse(c) ==
  /\ pc[c] = "db"
  /\ dbOwner = Free
  /\ \/ op[c] = "unpin" /\ arg[c].path \notin PathsOf(rows)
     \/ DbMayFail
  /\ Return(c)
  /\ UNCHANGED <<pins, rows, unsaved, writers>>

\* state.write().await, the guard of the database still held.
IpcTake(c) ==
  /\ pc[c] = "take"
  /\ stOwner = Free
  /\ stOwner' = c
  /\ Goto(c, "mem")
  /\ UNCHANGED <<pins, rows, dbOwner, op, arg, unsaved, writers>>

\* Mutant: the push is not preceded by the retain.
IpcShelfPushes(c) == IF op[c] = "pin" THEN Append(pins, arg[c])
                                      ELSE Without(arg[c].path)

IpcShelf(c) == IF op[c] = "pin" THEN Append(Without(arg[c].path), arg[c])
                                ELSE Without(arg[c].path)

IpcPublish(c) ==
  /\ pc[c] = "mem"
  /\ pins' = IpcShelf(c)
  /\ Return(c)
  /\ UNCHANGED <<rows, unsaved, writers>>

IpcStep(c) == IpcUpsert(c) \/ IpcDelete(c) \/ IpcRefuse(c) \/ IpcTake(c) \/ IpcPublish(c)

-----------------------------------------------------------------------------
ForAll(v) == [t \in Tasks |-> v]

Init == /\ pins = <<>> /\ rows = {} /\ unsaved = {} /\ writers = {}
        /\ stOwner = Free /\ dbOwner = Free
        /\ pc = ForAll("idle") /\ op = ForAll("none") /\ arg = ForAll(NoPin)

\* Quit (process::exit) or a crash between any two steps, then hydrate_from_db.
Restart == /\ pins' \in ByPosition
           /\ unsaved' = {} /\ writers' = {}
           /\ stOwner' = Free /\ dbOwner' = Free
           /\ pc' = ForAll("idle") /\ op' = ForAll("none") /\ arg' = ForAll(NoPin)
           /\ UNCHANGED rows

Next == \/ \E o \in GuiOps, x \in Paths : GuiLock(o, x)
        \/ GuiStep
        \/ \E c \in Conns, o \in IpcOps, x \in Paths : IpcBegin(c, o, x)
        \/ \E c \in Conns : IpcStep(c)
        \/ Restart

\* tokio's Mutex and RwLock serve their waiters in turn, and a task that can run runs.
Fairness == SF_pinVars(GuiStep) /\ \A c \in Conns : SF_pinVars(IpcStep(c))

Spec == Init /\ [][Next]_pinVars /\ Fairness

-----------------------------------------------------------------------------
(* Properties *)

\* Every variable holds a value of its type.
PinsTypeOK ==
  /\ pins \in Seq(Pin) /\ rows \subseteq Pin /\ unsaved \subseteq Paths
  /\ writers \subseteq {"panel", "client"}
  /\ stOwner \in Tasks \cup {Free} /\ dbOwner \in Tasks \cup {Free}
  /\ pc \in [Tasks -> {"idle", "mem", "db", "take"}]
  /\ op \in [Tasks -> {"none", "pin", "unpin", "reorder"}]
  /\ arg \in [Tasks -> Pin \cup {NoPin}]

\* The shelf shows a path once, however the two kinds of tasks interleave: the panel's
\* check and push share a guard, a client's retain and push do too (dispatch.rs:68-69, 84;
\* ipc.rs:214-217).
UniquePins == \A a, b \in DOMAIN pins : pins[a].path = pins[b].path => a = b

\* A client that is told "pinned" or "unpinned" is told so when both copies say so: the
\* guard of the database is kept until the memory is done (ipc.rs:212-221, 231-238).
ReplyHoldsOnBoth ==
  [][\A c \in Conns :
       pc[c] = "mem" /\ pc'[c] = "idle" =>
         LET shelf == ToSet(pins') IN
         /\ op[c] = "pin" => arg[c] \in shelf /\ arg[c] \in rows'
         /\ op[c] = "unpin" => arg[c].path \notin PathsOf(shelf) \cup PathsOf(rows')]_pinVars

\* As long as only clients have asked for changes, shelf and table hold the same pins at
\* the same positions whenever no client is between its two writes, errors included.
ShelfMatchesTable ==
  "panel" \notin writers /\ dbOwner = Free => ToSet(pins) = rows

\* As long as only the panel has, shelf and table disagree between two actions only about
\* a path whose last statement failed (dispatch.rs:87-89, 99-101 log it and go on).
OnlyFailedDiffer ==
  "client" \notin writers /\ pc[Panel] = "idle" =>
    (Pinned \ PathsOf(rows)) \cup (PathsOf(rows) \ Pinned) \subseteq unsaved

\* Every command is answered: the panel never waits for the database with the state's
\* guard in hand, so the two orders of locking do not meet (dispatch.rs:85, 98).
CommandsReturn == \A t \in Tasks : pc[t] # "idle" ~> pc[t] = "idle"

-----------------------------------------------------------------------------
(* What comments of the code say and the code does not do *)

Quiet == \A t \in Tasks : pc[t] = "idle"

\* "One writer (daemon core), panel reads in-memory state" (db.rs:21): with every command
\* answered, the shelf and its persistent copy hold the same paths.
QuietAgreement == Quiet => Pinned = PathsOf(rows)

\* "Display position (for drag reorder)" (types.rs:160): the order the user dragged the
\* cards into is the one the next start shows.
OrderSurvivesRestart == [][Restart /\ Quiet => pins' = pins]_pinVars
=============================================================================
