------------------------------- MODULE MCLogs -------------------------------
(***************************************************************************)
(* The two readers of agent logs on small files. They share nothing, so a  *)
(* behaviour runs one of them, chosen at the start.                        *)
(***************************************************************************)
EXTENDS ClaudeCursor

CONSTANTS x1, Times, Clock, Ahead, MaxTruncs

VARIABLES reader,
          xlog, xsize, xtruncs, xpc, xlooked, xoffset, xreported, xparsed, xtorn, xunnoticed

ASSUME LogsAssumption == Times \cup Clock \cup {Ahead, MaxTruncs} \subseteq Nat

Codex == INSTANCE CodexCursor WITH
           log <- xlog, size <- xsize, truncs <- xtruncs, pc <- xpc, looked <- xlooked,
           offset <- xoffset, reported <- xreported, parsed <- xparsed, torn <- xtorn,
           unnoticed <- xunnoticed

xVars == <<xlog, xsize, xtruncs, xpc, xlooked, xoffset, xreported, xparsed, xtorn, xunnoticed>>

MCInit == reader \in {"claude", "codex"} /\ Init /\ Codex!Init

ClaudeNext == reader = "claude" /\ Next /\ UNCHANGED <<reader, xVars>>
CodexNext == reader = "codex" /\ Codex!Next /\ UNCHANGED <<reader, claudeVars>>

MCNext == ClaudeNext \/ CodexNext

MCSpec == /\ MCInit /\ [][MCNext]_<<reader, claudeVars, xVars>>
          /\ WF_pc(reader = "claude" /\ Look) /\ WF_pc(reader = "claude" /\ Ends)
          /\ WF_xpc(reader = "codex" /\ Codex!Look) /\ WF_xpc(reader = "codex" /\ Codex!Ends)

\* Types of both readers: the offset is a size that was seen, no time lies ahead of the
\* one seen, only a path that was seen is taken for a created one.
LogsTypeOK == ClaudeTypeOK /\ Codex!CodexTypeOK

\* No whole line before the stored size is left out (codex.rs:131-147, 264-265).
PassedWasParsed == Codex!PassedWasParsed

\* Reads that each keep one event of a path report the latest one that is plausible
\* (codex.rs:131-147, 202, 251-265).
LatestReported == Codex!LatestReported

\* The offset gets to the end of the file.
CodexCatchesUp == Codex!CatchesUp
=============================================================================
