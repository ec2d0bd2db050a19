---------------------------- MODULE MCHotRestart ----------------------------
EXTENDS HotRestart

CONSTANTS MaxBatch,  \* longest event vector
          p1, p2

\* Every event vector of at most MaxBatch events.
MCBatches == UNION {[1 .. n -> Event] : n \in 1 .. MaxBatch}
=============================================================================
