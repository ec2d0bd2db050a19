------------------------------ MODULE MCRestarts ------------------------------
(***************************************************************************)
(* The daemon's process dies and starts again, on two questions: what      *)
(* becomes of the events of the ingest tasks (Ingest), and what the list   *)
(* made of the table looks like (HotRestart). The two have no state in     *)
(* common, so a behaviour runs one of them, chosen at the start.           *)
(***************************************************************************)
EXTENDS MCIngest

CONSTANTS Paths, Timestamps, Kinds, MaxFiles, p1, p2

VARIABLES part,
          files, by_path, batch, call, i, j, delta, view, seen, table, unflushed

\* Every event vector of at most MaxBatch events.
MCBatches == UNION {[1 .. n -> [path : Paths, ts : Timestamps, kind : Kinds]] :
                      n \in 1 .. MaxBatch}

List == INSTANCE HotRestart WITH
          pc <- call, rows <- table, pending <- unflushed, Batches <- MCBatches

listVars == <<files, by_path, batch, call, i, j, delta, view, seen, table, unflushed>>

MCInit == part \in {"tasks", "list"} /\ Init /\ List!RInit

TasksNext == part = "tasks" /\ Next /\ UNCHANGED <<part, listVars>>
ListNext == part = "list" /\ List!RNext /\ UNCHANGED <<part, ingestVars>>

MCNext == TasksNext \/ ListNext

\* Fairness of Ingest, where the tasks run.
MCFairness == /\ WF_ingestVars(part = "tasks" /\ Tick)
              /\ \A s \in Sources : WF_ingestVars(part = "tasks" /\ TaskStep(s))

MCSpec == MCInit /\ [][MCNext]_<<part, ingestVars, listVars>> /\ MCFairness

\* The list a restart makes of the table, and of what is read then, is newest first
\* (state.rs:157-178).
NewestFirstAfterRestart == List!NewestFirstAfterRestart
===============================================================================
