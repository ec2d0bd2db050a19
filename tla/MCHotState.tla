----------------------------- MODULE MCHotState -----------------------------
EXTENDS HotState

CONSTANTS MaxBatch,  \* longest event vector
          p1, p2, p3

\* Every event vector of at most MaxBatch events.
MCBatches == UNION {[1 .. n -> Event] : n \in 1 .. MaxBatch}
=============================================================================
