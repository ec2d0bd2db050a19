----------------------------- MODULE MCDispatcher -----------------------------
(***************************************************************************)
(* The panel's dispatcher on two questions: the locks its pin commands     *)
(* share with the clients', and the channels it shares with the frames.    *)
(* The two parts have no state in common, so a behaviour runs one of them, *)
(* chosen at the start.                                                    *)
(***************************************************************************)
EXTENDS MCPins

CONSTANTS Files, Queries, Capacity, NoFile, NoQuery

ASSUME LoopAssumption ==
  Capacity \in Nat \ {0} /\ NoFile \notin Files /\ NoQuery \notin Queries

VARIABLES part,
          widgets, out, actions, busy, todo, done, results, search_results,
          unanswered, lostSearch, failedSearch

Loop == INSTANCE PanelLoop

panelVars == <<widgets, out, actions, busy, todo, done, results, search_results,
               unanswered, lostSearch, failedSearch>>

MCInit == part \in {"pins", "loop"} /\ Init /\ Loop!Init

PinsNext == part = "pins" /\ Next /\ UNCHANGED <<part, panelVars>>
LoopNext == part = "loop" /\ Loop!Next /\ UNCHANGED <<part, pinVars>>

MCNext == PinsNext \/ LoopNext

\* At the start none of the steps of a part that does not run is enabled, and the frames
\* have nothing to draw.
MCSpec == MCInit /\ [][MCNext]_<<part, pinVars, panelVars>> /\ Fairness /\ Loop!Fairness

\* Types of PanelLoop.
LoopTypeOK == Loop!LoopTypeOK

\* An answer shown under another file's name is replaced (main.rs:387-393).
SummaryIsOfPath == Loop!SummaryIsOfPath

\* The results shown are those of the search bar (main.rs:438, dispatch.rs:149-168).
ResultsAreOfBar == Loop!ResultsAreOfBar

\* An open popover gets its summary.
AnswerArrives == Loop!AnswerArrives
===============================================================================
