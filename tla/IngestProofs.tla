---------------------------- MODULE IngestProofs ----------------------------
(***************************************************************************)
(* Proofs of the safety properties of Ingest, for any sources, batch size, *)
(* interval and failures. IInv adds to the checked properties that no task *)
(* has read past its source, and that a buffer holds events that were read.*)
(***************************************************************************)
EXTENDS Ingest, SequenceTheorems, TLAPS

\* What a flush writes was read, and a task that is past Apply has shown what it read.
BufferInv == \A s \in Sources :
               /\ cursor[s] <= entries[s]
               /\ old[s] <= Len(rows[s])
               /\ pending[s] \in Seq(1 .. cursor[s])

IInv == /\ IngestTypeOK /\ BufferInv /\ WrittenOnceInOrder
        /\ DiskBehindMemory /\ BacklogBounded /\ ReadIsShown

-----------------------------------------------------------------------------
(* Sequences *)

LEMMA ReadNewType ==
  ASSUME IngestTypeOK, BufferInv, NEW s \in Sources
  PROVE  ReadNew(s) \in Seq(1 .. entries[s])
  <1> DEFINE from == IF s \in Cursored THEN cursor[s] ELSE 0
  <1>1. from \in Nat /\ entries[s] \in Nat /\ from <= entries[s]
    BY DEF IngestTypeOK, BufferInv
  <1>2. ReadNew(s) = [k \in 1 .. entries[s] - from |-> from + k]
    BY DEF ReadNew
  <1> HIDE DEF from
  <1>3. entries[s] - from \in Nat
    BY <1>1
  <1>4. \A k \in 1 .. entries[s] - from : from + k \in 1 .. entries[s]
    BY <1>1
  <1>5. ReadNew(s) \in [1 .. entries[s] - from -> 1 .. entries[s]]
    BY <1>2, <1>4
  <1> QED
    BY <1>3, <1>5, SeqDef

LEMMA UpToExtended ==
  ASSUME NEW m \in Nat, NEW n \in Nat, m <= n
  PROVE  UpTo(m) \o [k \in 1 .. n - m |-> m + k] = UpTo(n)
  BY DEF UpTo

LEMMA SeqWidened ==
  ASSUME NEW m \in Nat, NEW n \in Nat, m <= n, NEW q \in Seq(1 .. m)
  PROVE  q \in Seq(1 .. n)
  OBVIOUS

LEMMA LongerTable ==
  ASSUME NEW S, NEW a \in Seq(S), NEW b \in Seq(S), NEW n \in 0 .. Len(a)
  PROVE  n <= Len(a \o b)
  <1>1. Len(a) \in Nat /\ Len(b) \in Nat /\ Len(a \o b) = Len(a) + Len(b)
    BY ConcatProperties
  <1> QED
    BY <1>1

LEMMA TailOfConcat ==
  ASSUME NEW S, NEW a \in Seq(S), NEW b \in Seq(S), NEW n \in 0 .. Len(a)
  PROVE  SubSeq(a \o b, n + 1, Len(a \o b)) = SubSeq(a, n + 1, Len(a)) \o b
  <1> DEFINE left == SubSeq(a \o b, n + 1, Len(a \o b))
             tail == SubSeq(a, n + 1, Len(a))
             right == tail \o b
  <1>1. /\ a \o b \in Seq(S) /\ Len(a \o b) = Len(a) + Len(b)
        /\ \A i \in 1 .. Len(a) + Len(b) :
             (a \o b)[i] = IF i <= Len(a) THEN a[i] ELSE b[i - Len(a)]
    BY ConcatProperties
  <1>2. /\ left \in Seq(S) /\ Len(left) = Len(a) - n + Len(b)
        /\ \A i \in 1 .. Len(a) - n + Len(b) : left[i] = (a \o b)[n + i]
    BY <1>1
  <1>3. /\ tail \in Seq(S) /\ Len(tail) = Len(a) - n
        /\ \A i \in 1 .. Len(a) - n : tail[i] = a[n + i]
    OBVIOUS
  <1> HIDE DEF left, tail
  <1>4. /\ right \in Seq(S) /\ Len(right) = Len(a) - n + Len(b)
        /\ \A i \in 1 .. Len(a) - n + Len(b) :
             right[i] = IF i <= Len(a) - n THEN tail[i] ELSE b[i - (Len(a) - n)]
    <2>1. /\ right \in Seq(S) /\ Len(right) = Len(tail) + Len(b)
          /\ \A i \in 1 .. Len(tail) + Len(b) :
               right[i] = IF i <= Len(tail) THEN tail[i] ELSE b[i - Len(tail)]
      <3>1. tail \in Seq(S)
        BY <1>3
      <3> QED
        BY <3>1, ConcatProperties, Zenon
    <2> HIDE DEF right
    <2> QED
      BY <1>3, <2>1
  <1> HIDE DEF right
  <1>5. \A i \in 1 .. Len(left) : left[i] = right[i]
    BY <1>1, <1>2, <1>3, <1>4
  <1>6. left = right
    BY <1>2, <1>4, <1>5, SeqEqual
  <1> QED
    BY <1>6 DEF left, right, tail

LEMMA ConcatRange ==
  ASSUME NEW S, NEW a \in Seq(S), NEW b \in Seq(S), NEW T, ToSet(a) \subseteq T,
         ToSet(b) \subseteq T
  PROVE  ToSet(a \o b) \subseteq T
  <1> SUFFICES ASSUME NEW i \in 1 .. Len(a) + Len(b)
               PROVE  (a \o b)[i] \in T
    BY ConcatProperties DEF ToSet
  <1>1. CASE i <= Len(a)
    <2>1. i \in DOMAIN a /\ (a \o b)[i] = a[i]
      BY <1>1, ConcatProperties
    <2> QED
      BY <2>1 DEF ToSet
  <1>2. CASE i > Len(a)
    <2>1. i - Len(a) \in DOMAIN b /\ (a \o b)[i] = b[i - Len(a)]
      BY <1>2, ConcatProperties
    <2> QED
      BY <2>1 DEF ToSet
  <1> QED
    BY <1>1, <1>2

-----------------------------------------------------------------------------
(* The invariant holds at the start and is kept by every step *)

LEMMA Bounds == /\ MaxEvents \in Nat /\ MaxRestarts \in Nat /\ Interval \in Nat
                /\ 0 \in 0 .. MaxEvents /\ 0 \in 0 .. MaxRestarts /\ 0 \in 0 .. Interval
                /\ <<>> \in Seq(1 .. MaxEvents)
  BY IngestAssumption

LEMMA Start == Init => IInv
  <1> SUFFICES ASSUME Init
               PROVE  IInv
    OBVIOUS
  <1> USE IngestAssumption DEF Init, Each
  <1>1. IngestTypeOK
    BY Bounds DEF IngestTypeOK
  <1>2. BufferInv
    BY DEF BufferInv
  <1>3. WrittenOnceInOrder
    BY DEF WrittenOnceInOrder, UpTo
  <1>4. DiskBehindMemory /\ BacklogBounded /\ ReadIsShown
    BY DEF DiskBehindMemory, BacklogBounded, ReadIsShown, ToSet
  <1> QED
    BY <1>1, <1>2, <1>3, <1>4 DEF IInv

\* Growing changes no task's state.
LEMMA GrowStep ==
  ASSUME IInv, NEW s \in Sources, Grow(s)
  PROVE  IInv'
  <1> USE IngestAssumption DEF IInv, Grow
  <1>1. IngestTypeOK'
    BY DEF IngestTypeOK
  <1>2. BufferInv'
    BY DEF BufferInv, IngestTypeOK
  <1>3. WrittenOnceInOrder' /\ DiskBehindMemory' /\ BacklogBounded' /\ ReadIsShown'
    BY DEF WrittenOnceInOrder, DiskBehindMemory, BacklogBounded, ReadIsShown
  <1> QED
    BY <1>1, <1>2, <1>3

\* What was read follows what is in the table and the buffer.
LEMMA ReadStep ==
  ASSUME IInv, NEW s \in Sources, Read(s)
  PROVE  IInv'
  <1> USE DEF IInv
  <1>1. /\ cursor[s] \in 0 .. MaxEvents /\ entries[s] \in 0 .. MaxEvents
        /\ cursor[s] <= entries[s] /\ pending[s] \in Seq(1 .. cursor[s])
        /\ rows[s] \in Seq(1 .. MaxEvents) /\ old[s] \in 0 .. Len(rows[s])
        /\ MaxEvents \in Nat /\ cursor[s] \in Nat /\ entries[s] \in Nat
        /\ entries[s] <= MaxEvents
    BY Bounds DEF IngestTypeOK, BufferInv
  <1>2. ReadNew(s) \in Seq(1 .. entries[s])
    BY ReadNewType
  <1>3. pending[s] \in Seq(1 .. entries[s])
    BY <1>1, SeqWidened, IngestAssumption
  <1>4. pending[s] \o ReadNew(s) \in Seq(1 .. entries[s])
    BY <1>2, <1>3, ConcatProperties
  <1>5. pending[s] \o ReadNew(s) \in Seq(1 .. MaxEvents)
    BY <1>1, <1>4, SeqWidened, IngestAssumption
  <1>6. /\ pending' = [pending EXCEPT ![s] = pending[s] \o ReadNew(s)]
        /\ cursor' = [cursor EXCEPT ![s] = entries[s]]
        /\ pc' = [pc EXCEPT ![s] = "apply"]
        /\ UNCHANGED <<entries, age, shown, rows, txnOpen, old, failed, restarts>>
    BY DEF Read
  <1>7. IngestTypeOK'
    BY <1>5, <1>6 DEF IngestTypeOK
  <1>8. BufferInv'
    <2> SUFFICES ASSUME NEW t \in Sources
                 PROVE  /\ cursor'[t] <= entries[t] /\ old[t] <= Len(rows[t])
                        /\ pending'[t] \in Seq(1 .. cursor'[t])
      BY <1>6 DEF BufferInv
    <2>1. CASE t = s
      <3>1. cursor'[t] = entries[t] /\ pending'[t] = pending[s] \o ReadNew(s)
        BY <1>6, <2>1 DEF IngestTypeOK
      <3> QED
        BY <1>1, <1>4, <2>1, <3>1
    <2>2. CASE t # s
      BY <1>6, <2>2 DEF BufferInv, IngestTypeOK
    <2> QED
      BY <2>1, <2>2
  <1>9. WrittenOnceInOrder'
    <2> SUFFICES ASSUME NEW t \in Cursored
                 PROVE  SubSeq(rows[t], old[t] + 1, Len(rows[t])) \o pending'[t]
                          = UpTo(cursor'[t])
      BY <1>6 DEF WrittenOnceInOrder
    <2>1. CASE t # s
      BY <1>6, <2>1, IngestAssumption DEF WrittenOnceInOrder, IngestTypeOK
    <2>2. CASE t = s
      <3> DEFINE tail == SubSeq(rows[s], old[s] + 1, Len(rows[s]))
      <3>1. tail \in Seq(1 .. MaxEvents)
        <4>1. \A i \in old[s] + 1 .. Len(rows[s]) : rows[s][i] \in 1 .. MaxEvents
          BY <1>1
        <4> QED
          BY <1>1, <4>1, SubSeqProperties
      <3>2. ReadNew(s) = [k \in 1 .. entries[s] - cursor[s] |-> cursor[s] + k]
        BY <2>2 DEF ReadNew
      <3>3. tail \o pending[s] = UpTo(cursor[s])
        BY <2>2 DEF WrittenOnceInOrder
      <3> HIDE DEF tail
      <3>4. UpTo(cursor[s]) \o ReadNew(s) = UpTo(entries[s])
        BY <1>1, <3>2, UpToExtended
      <3>5. ReadNew(s) \in Seq(1 .. MaxEvents) /\ pending[s] \in Seq(1 .. MaxEvents)
        <4>1. ReadNew(s) \in Seq(1 .. MaxEvents)
          BY <1>1, <1>2, SeqWidened
        <4> QED
          BY <4>1 DEF IngestTypeOK
      <3>6. (tail \o pending[s]) \o ReadNew(s) = tail \o (pending[s] \o ReadNew(s))
        <4> DEFINE q == pending[s]
                   r == ReadNew(s)
        <4>1. q \in Seq(1 .. MaxEvents) /\ r \in Seq(1 .. MaxEvents)
          BY <3>5
        <4> HIDE DEF q, r, IInv
        <4>2. (tail \o q) \o r = tail \o (q \o r)
          BY <3>1, <4>1, ConcatAssociative
        <4> QED
          BY <4>2 DEF q, r
      <3>7. pending'[t] = pending[s] \o ReadNew(s) /\ cursor'[t] = entries[s]
        BY <1>6, <2>2 DEF IngestTypeOK
      <3> QED
        BY <2>2, <3>3, <3>4, <3>6, <3>7 DEF tail
    <2> QED
      BY <2>1, <2>2
  <1>10. DiskBehindMemory' /\ BacklogBounded' /\ ReadIsShown'
    BY <1>6 DEF DiskBehindMemory, BacklogBounded, ReadIsShown, IngestTypeOK
  <1> QED
    BY <1>7, <1>8, <1>9, <1>10

LEMMA ApplyStep ==
  ASSUME IInv, NEW s \in Sources, Apply(s)
  PROVE  IInv'
  <1> USE DEF IInv, Apply
  <1>1. cursor[s] \in 0 .. MaxEvents /\ Len(pending[s]) \in Nat
    BY DEF IngestTypeOK
  <1>2. 1 .. cursor[s] \subseteq 1 .. MaxEvents
    BY <1>1, IngestAssumption
  <1>3. IngestTypeOK'
    BY <1>2 DEF IngestTypeOK
  <1>4. BufferInv' /\ WrittenOnceInOrder'
    BY DEF BufferInv, WrittenOnceInOrder
  <1>5. DiskBehindMemory' /\ ReadIsShown'
    BY DEF DiskBehindMemory, ReadIsShown, IngestTypeOK
  <1>6. BacklogBounded'
    BY <1>1, IngestAssumption DEF BacklogBounded, ShouldFlush, IngestTypeOK
  <1> QED
    BY <1>3, <1>4, <1>5, <1>6

\* A flush writes the buffer behind the rows, and all of it is shown.
LEMMA FlushOkStep ==
  ASSUME IInv, NEW s \in Sources, FlushOk(s)
  PROVE  IInv'
  <1> USE DEF IInv
  <1>1. /\ pending[s] \in Seq(1 .. cursor[s]) /\ cursor[s] \in 0 .. MaxEvents
        /\ rows[s] \in Seq(1 .. MaxEvents) /\ pending[s] \in Seq(1 .. MaxEvents)
        /\ old[s] \in 0 .. Len(rows[s])
    BY DEF IngestTypeOK, BufferInv
  <1>2. /\ rows[s] \o pending[s] \in Seq(1 .. MaxEvents)
        /\ Len(rows[s] \o pending[s]) = Len(rows[s]) + Len(pending[s])
    BY <1>1, ConcatProperties
  <1>3. /\ rows' = [rows EXCEPT ![s] = rows[s] \o pending[s]]
        /\ pending' = [pending EXCEPT ![s] = <<>>]
        /\ age' = [age EXCEPT ![s] = 0]
        /\ failed' = failed \ {s}
        /\ pc[s] = "flush" /\ pc' = [pc EXCEPT ![s] = "wait"]
        /\ UNCHANGED <<entries, cursor, shown, txnOpen, old, restarts>>
    BY DEF FlushOk
  <1>4. IngestTypeOK'
    BY <1>2, <1>3, IngestAssumption DEF IngestTypeOK
  <1>5. BufferInv'
    <2>1. <<>> \in Seq(1 .. cursor[s])
      BY <1>1
    <2>2. old[s] <= Len(rows[s] \o pending[s])
      BY <1>1, LongerTable
    <2> QED
      BY <1>3, <2>1, <2>2 DEF BufferInv, IngestTypeOK
  <1>6. WrittenOnceInOrder'
    <2> SUFFICES ASSUME NEW t \in Cursored
                 PROVE  SubSeq(rows'[t], old[t] + 1, Len(rows'[t])) \o pending'[t]
                          = UpTo(cursor[t])
      BY <1>3 DEF WrittenOnceInOrder
    <2>1. CASE t # s
      BY <1>3, <2>1, IngestAssumption DEF WrittenOnceInOrder, IngestTypeOK
    <2>2. CASE t = s
      <3>1. rows'[t] = rows[s] \o pending[s] /\ pending'[t] = <<>>
        BY <1>3, <2>2 DEF IngestTypeOK
      <3>2. SubSeq(rows[s] \o pending[s], old[s] + 1, Len(rows[s] \o pending[s]))
              = UpTo(cursor[s])
        BY <1>1, <2>2, TailOfConcat DEF WrittenOnceInOrder
      <3>3. UpTo(cursor[s]) \in Seq(1 .. cursor[s])
        BY <1>1 DEF UpTo
      <3>4. UpTo(cursor[s]) \o <<>> = UpTo(cursor[s])
        BY <3>3, ConcatEmptySeq
      <3> QED
        BY <2>2, <3>1, <3>2, <3>4
    <2> QED
      BY <2>1, <2>2
  <1>7. DiskBehindMemory'
    <2>1. ToSet(pending[s]) \subseteq shown[s]
      <3>1. ToSet(pending[s]) \subseteq 1 .. cursor[s]
        BY <1>1 DEF ToSet
      <3> QED
        BY <1>3, <3>1 DEF ReadIsShown
    <2>2. ToSet(rows[s] \o pending[s]) \subseteq shown[s]
      BY <1>1, <2>1, ConcatRange DEF DiskBehindMemory
    <2> QED
      BY <1>3, <2>2 DEF DiskBehindMemory, IngestTypeOK
  <1>8. BacklogBounded'
    <2>1. Len(<<>>) < MaxBatch
      BY IngestAssumption
    <2> QED
      BY <1>3, <2>1 DEF BacklogBounded, IngestTypeOK
  <1>9. ReadIsShown'
    BY <1>3 DEF ReadIsShown, IngestTypeOK
  <1> QED
    BY <1>4, <1>5, <1>6, <1>7, <1>8, <1>9

LEMMA FlushErrorStep ==
  ASSUME IInv, NEW s \in Sources, FlushError(s)
  PROVE  IInv'
  <1> USE DEF IInv, FlushError
  <1>1. IngestTypeOK'
    BY DEF IngestTypeOK
  <1>2. BufferInv' /\ WrittenOnceInOrder' /\ DiskBehindMemory'
    BY DEF BufferInv, WrittenOnceInOrder, DiskBehindMemory
  <1>3. BacklogBounded'
    BY DEF BacklogBounded, IngestTypeOK
  <1>4. ReadIsShown'
    BY DEF ReadIsShown, IngestTypeOK
  <1> QED
    BY <1>1, <1>2, <1>3, <1>4

LEMMA TickStep ==
  ASSUME IInv, Tick
  PROVE  IInv'
  <1> USE DEF IInv, Tick
  <1>1. IngestTypeOK'
    BY IngestAssumption DEF IngestTypeOK
  <1>2. BufferInv' /\ WrittenOnceInOrder' /\ DiskBehindMemory' /\ BacklogBounded' /\ ReadIsShown'
    BY DEF BufferInv, WrittenOnceInOrder, DiskBehindMemory, BacklogBounded, ReadIsShown
  <1> QED
    BY <1>1, <1>2

\* What the next process has was in the table.
LEMMA RestartStep ==
  ASSUME IInv, Restart
  PROVE  IInv'
  <1> USE IngestAssumption DEF IInv, Restart, Each
  <1>1. \A s \in Sources : rows[s] \in Seq(1 .. MaxEvents) /\ Len(rows[s]) \in Nat
    BY DEF IngestTypeOK
  <1>2. \A s \in Sources : ToSet(rows[s]) \subseteq 1 .. MaxEvents
    BY <1>1 DEF ToSet
  <1>3. IngestTypeOK'
    <2>1. /\ entries' \in [Sources -> 0 .. MaxEvents] /\ cursor' \in [Sources -> 0 .. MaxEvents]
          /\ pending' \in [Sources -> Seq(1 .. MaxEvents)]
          /\ rows' \in [Sources -> Seq(1 .. MaxEvents)] /\ age' \in [Sources -> 0 .. Interval]
      BY Bounds DEF IngestTypeOK
    <2>2. shown' \in [Sources -> SUBSET (1 .. MaxEvents)] /\ old' \in [Sources -> Nat]
      BY <1>1, <1>2
    <2>3. /\ pc' \in [Sources -> {"wait", "apply", "flush"}]
          /\ txnOpen' \in BOOLEAN /\ failed' \subseteq Sources
      OBVIOUS
    <2>4. restarts' \in 0 .. MaxRestarts
      BY Bounds DEF IngestTypeOK
    <2> QED
      BY <2>1, <2>2, <2>3, <2>4 DEF IngestTypeOK
  <1>4. BufferInv'
    BY <1>1 DEF BufferInv, IngestTypeOK
  <1>5. WrittenOnceInOrder'
    <2> SUFFICES ASSUME NEW s \in Cursored
                 PROVE  SubSeq(rows[s], Len(rows[s]) + 1, Len(rows[s])) \o <<>> = UpTo(0)
      BY DEF WrittenOnceInOrder
    <2>1. SubSeq(rows[s], Len(rows[s]) + 1, Len(rows[s])) = <<>>
      BY <1>1, SubSeqEmpty
    <2> QED
      BY <2>1 DEF UpTo
  <1>6. DiskBehindMemory' /\ BacklogBounded' /\ ReadIsShown'
    BY DEF DiskBehindMemory, BacklogBounded, ReadIsShown
  <1> QED
    BY <1>3, <1>4, <1>5, <1>6

LEMMA Inductive == IInv /\ [Next]_ingestVars => IInv'
  <1> SUFFICES ASSUME IInv, [Next]_ingestVars
               PROVE  IInv'
    OBVIOUS
  <1>1. CASE Next
    BY <1>1, GrowStep, ReadStep, ApplyStep, FlushOkStep, FlushErrorStep, TickStep, RestartStep
       DEF Next, TaskStep
  <1>2. CASE UNCHANGED ingestVars
    BY <1>2 DEF ingestVars, IInv, IngestTypeOK, BufferInv, WrittenOnceInOrder,
                DiskBehindMemory, BacklogBounded, ReadIsShown
  <1> QED
    BY <1>1, <1>2

-----------------------------------------------------------------------------
(* Theorems *)

LEMMA Invariance == Spec => []IInv
  BY Start, Inductive, PTL DEF Spec

\* Type correctness, for any sources and bounds.
THEOREM IngestTypeCorrect == Spec => []IngestTypeOK
  <1>1. IInv => IngestTypeOK
    BY DEF IInv
  <1> QED
    BY Invariance, <1>1, PTL

\* Whatever flushes fail, and at whatever point, the events a log's task read since the
\* process started are in the table and then in its buffer, in order and once each.
THEOREM NothingLostOrTwice == Spec => []WrittenOnceInOrder
  <1>1. IInv => WrittenOnceInOrder
    BY DEF IInv
  <1> QED
    BY Invariance, <1>1, PTL

\* The table never has an event the list has not shown, over restarts too.
THEOREM MemoryFirst == Spec => []DiskBehindMemory
  <1>1. IInv => DiskBehindMemory
    BY DEF IInv
  <1> QED
    BY Invariance, <1>1, PTL

\* A task that waits holds less than a batch, or its last flush failed.
THEOREM BacklogIsBounded == Spec => []BacklogBounded
  <1>1. IInv => BacklogBounded
    BY DEF IInv
  <1> QED
    BY Invariance, <1>1, PTL

\* A failing database keeps nothing from the list.
THEOREM ReadGetsShown == Spec => []ReadIsShown
  <1>1. IInv => ReadIsShown
    BY DEF IInv
  <1> QED
    BY Invariance, <1>1, PTL
=============================================================================
