----------------------------- MODULE LogsProofs -----------------------------
(***************************************************************************)
(* The two readers of agent logs, for lines of any width, files of any     *)
(* length, any number of new or truncated files and any times.             *)
(*                                                                         *)
(* No line is left out although a last piece without a newline is counted  *)
(* with one: the byte counted too many lies inside the line that was cut,  *)
(* never before it; and the offset of a session file is a size seen before *)
(* the content was read. What a read returns is followed line by line: the *)
(* folds of Parse and Dedup and the recursions of the times are unrolled   *)
(* by the lemmas of SequenceLemmas.                                        *)
(***************************************************************************)
EXTENDS MCLogs, SequenceLemmas

-----------------------------------------------------------------------------
(* Arithmetic of LogFile, for lines of any width *)

\* Positions are naturals, and lines follow one another.
LEMMA Positions ==
  ASSUME NEW k \in Nat \ {0}
  PROVE  /\ LineStart(k) \in Nat /\ BodyEnd(k) \in Nat /\ LineEnd(k) \in Nat
         /\ LineStart(k) < BodyEnd(k) /\ BodyEnd(k) + 1 = LineEnd(k)
         /\ LineStart(k + 1) = LineEnd(k)
  BY WidthAssumption DEF LineStart, BodyEnd, LineEnd

\* A quotient is told by the multiples on both sides.
LEMMA QuotientIs ==
  ASSUME NEW d \in Nat \ {0}, NEW q \in Nat, NEW n \in Nat, q * d <= n, n < (q + 1) * d
  PROVE  n \div d = q
  <1> DEFINE r == n \div d
  <1>1. r \in Nat /\ r * d <= n /\ n < (r + 1) * d
    BY Z3
  <1> HIDE DEF r
  <1>2. \A a, b \in Nat : a + 1 <= b => (a + 1) * d <= b * d
    BY Z3
  <1>3. ~(q + 1 <= r) /\ ~(r + 1 <= q)
    BY <1>1, <1>2
  <1> QED
    BY <1>1, <1>3 DEF r

\* The line a position within its bytes belongs to.
LEMMA LineAtIs ==
  ASSUME NEW k \in Nat \ {0}, NEW n \in Nat, LineStart(k) <= n, n < LineEnd(k)
  PROVE  LineAt(n) = k
  <1>1. (k - 1) * (Width + 1) <= n /\ n < ((k - 1) + 1) * (Width + 1)
    BY WidthAssumption DEF LineStart, LineEnd, BodyEnd
  <1> DEFINE d == Width + 1
             q == k - 1
  <1>2. d \in Nat \ {0} /\ q \in Nat /\ q * d <= n /\ n < (q + 1) * d
    BY <1>1, WidthAssumption
  <1> HIDE DEF d, q
  <1>3. n \div d = q
    BY <1>2, QuotientIs
  <1> QED
    BY <1>3 DEF LineAt, d, q

LEMMA LineAtMonotone ==
  ASSUME NEW k \in Nat \ {0}, NEW n \in Nat, LineStart(k) <= n
  PROVE  k <= LineAt(n) /\ LineAt(n) \in Nat
  <1> DEFINE r == n \div (Width + 1)
             d == Width + 1
  <1>1. r \in Nat /\ n < (r + 1) * d
    BY WidthAssumption, Z3
  <1>2. d \in Nat \ {0} /\ (k - 1) * d <= n
    BY WidthAssumption DEF LineStart
  <1>3. r + 1 = LineAt(n)
    BY DEF LineAt
  <1> HIDE DEF r, d
  <1>4. \A a, b \in Nat : a + 1 <= b => (a + 1) * d <= b * d
    BY <1>2, Z3
  <1>5. ~(r + 1 <= k - 1)
    BY <1>1, <1>2, <1>4
  <1> QED
    BY <1>1, <1>3, <1>5

\* A read up to a position takes each line that begins in its range, or finds half of it.
LEMMA TakenOrTorn ==
  ASSUME NEW k \in Nat \ {0}, NEW from \in Nat, NEW to \in Nat,
         from <= LineStart(k), LineStart(k) < to
  PROVE  \/ k \in LinesBetween(from, to)
         \/ Cuts(to) /\ LineAt(to) = k
  <1>1. CASE BodyEnd(k) <= to
    <2>1. LineStart(k) \in Nat /\ LineStart(k) <= to
      BY Positions
    <2>2. k <= LineAt(to) /\ LineAt(to) \in Nat
      BY <2>1, LineAtMonotone
    <2> QED
      BY <1>1, <2>2 DEF LinesBetween
  <1>2. CASE to < BodyEnd(k)
    <2>1. LineStart(k) \in Nat /\ BodyEnd(k) + 1 = LineEnd(k) /\ BodyEnd(k) \in Nat
      BY Positions
    <2>2. LineStart(k) <= to /\ to < LineEnd(k)
      BY <1>2, <2>1
    <2>3. LineAt(to) = k
      BY <2>2, LineAtIs
    <2> QED
      BY <1>2, <2>3 DEF Cuts
  <1>3. BodyEnd(k) \in Nat
    BY Positions
  <1> QED
    BY <1>1, <1>2, <1>3

\* Lines begin and end at the multiples of their size.
LEMMA LineBounds ==
  ASSUME NEW k \in Nat
  PROVE  /\ k > 0 => LineStart(k) % (Width + 1) = 0
         /\ LineEnd(k) % (Width + 1) = 0
  <1> DEFINE d == Width + 1
  <1>1. d \in Nat \ {0}
    BY WidthAssumption
  <1>2. ASSUME NEW q \in Nat
        PROVE  (q * d) % d = 0
    BY <1>1, Z3
  <1>3. LineEnd(k) = k * d
    BY WidthAssumption, Z3 DEF LineEnd, BodyEnd, LineStart
  <1>4. k > 0 => k - 1 \in Nat /\ LineStart(k) = (k - 1) * d
    BY DEF LineStart
  <1> HIDE DEF d
  <1>5. (k * d) % d = 0
    BY <1>2
  <1>6. k > 0 => ((k - 1) * d) % d = 0
    BY <1>2, <1>4
  <1> QED
    BY <1>3, <1>4, <1>5, <1>6 DEF d

\* Lines are in order, and those a file holds begin before its end.
LEMMA LineStarts ==
  ASSUME NEW a \in Nat \ {0}, NEW b \in Nat, a <= b
  PROVE  LineStart(a) <= LineStart(b) /\ LineEnd(a) <= LineEnd(b)
  <1> DEFINE d == Width + 1
             p == a - 1
             q == b - 1
  <1>1. d \in Nat \ {0} /\ p \in Nat /\ q \in Nat /\ p <= q
    BY WidthAssumption
  <1>2. LineStart(a) = p * d /\ LineStart(b) = q * d
    BY DEF LineStart
  <1>3. LineEnd(a) = LineStart(a) + Width + 1 /\ LineEnd(b) = LineStart(b) + Width + 1
    BY DEF LineEnd, BodyEnd
  <1> HIDE DEF d, p, q
  <1>4. p * d \in Nat /\ q * d \in Nat /\ p * d <= q * d
    BY <1>1, Z3
  <1> QED
    BY <1>2, <1>3, <1>4, WidthAssumption

LEMMA LinesThere ==
  ASSUME NEW n \in Nat, NEW to \in 0 .. LineEnd(n), NEW from \in Nat
  PROVE  /\ LinesBetween(from, to) \subseteq 1 .. n
         /\ Cuts(to) => LineAt(to) \in 1 .. n
         /\ IsFiniteSet(LinesBetween(from, to))
         /\ Cardinality(LinesBetween(from, to)) \in 0 .. n
  <1> DEFINE lines == LinesBetween(from, to)
  <1>1. LineEnd(n) \in Int /\ to \in Nat /\ to <= LineEnd(n) /\ LineAt(to) \in Nat \ {0}
        /\ LineStart(n + 1) = LineEnd(n)
    BY WidthAssumption, Z3 DEF LineAt, LineEnd, BodyEnd, LineStart
  <1>2. ASSUME NEW k \in Nat \ {0}, LineStart(k) < to
        PROVE  k <= n
    <2>1. ~(n + 1 <= k)
      <3> SUFFICES ASSUME n + 1 <= k
                   PROVE  FALSE
        OBVIOUS
      <3>1. LineStart(n + 1) <= LineStart(k)
        BY LineStarts
      <3>2. LineStart(k) \in Nat
        BY Positions
      <3> QED
        BY <1>1, <1>2, <3>1, <3>2
    <2> QED
      BY <2>1
  <1>3. lines \subseteq 1 .. n
    <2> SUFFICES ASSUME NEW k \in lines
                 PROVE  k \in 1 .. n
      OBVIOUS
    <2>1. k \in 1 .. LineAt(to) /\ BodyEnd(k) <= to
      BY DEF LinesBetween
    <2>2. k \in Nat \ {0}
      BY <1>1, <2>1
    <2>3. LineStart(k) \in Nat /\ BodyEnd(k) \in Nat /\ LineStart(k) < BodyEnd(k)
      BY <2>2, Positions
    <2> QED
      BY <1>1, <1>2, <2>1, <2>2, <2>3
  <1>4. Cuts(to) => LineAt(to) \in 1 .. n
    BY <1>1, <1>2 DEF Cuts
  <1> HIDE DEF lines
  <1>5. IsFiniteSet(1 .. n) /\ Cardinality(1 .. n) = n
    BY FS_Interval
  <1>6. IsFiniteSet(lines) /\ Cardinality(lines) <= n
    BY <1>3, <1>5, FS_Subset
  <1>7. Cardinality(lines) \in Nat
    BY <1>6, FS_CardinalityType
  <1> QED
    BY <1>3, <1>4, <1>6, <1>7 DEF lines

\* The lines a read takes of a file of n lines, in order.
TakenInOrder(lines, n) ==
  LET ks == Ascending(lines)
      N == Cardinality(lines)
  IN  /\ N \in 0 .. n /\ ks \in [1 .. N -> 1 .. n] /\ Len(ks) = N
      /\ \A i \in 1 .. N : ks[i] \in lines
      /\ \A k \in lines : \E i \in 1 .. N : ks[i] = k
      /\ \A i, j \in 1 .. N : i < j => ks[i] < ks[j]

LEMMA LinesInOrder ==
  ASSUME NEW n \in Nat, NEW to \in 0 .. LineEnd(n), NEW from \in Nat
  PROVE  TakenInOrder(LinesBetween(from, to), n)
  <1> DEFINE lines == LinesBetween(from, to)
             ks == Ascending(lines)
             N == Cardinality(lines)
  <1>1. lines \subseteq 1 .. n /\ IsFiniteSet(lines) /\ N \in 0 .. n
    BY LinesThere
  <1> HIDE DEF lines
  <1>2. lines \in SUBSET Int
    BY <1>1
  <1>3. /\ ks \in [1 .. N -> lines]
        /\ \A k \in lines : \E i \in 1 .. N : ks[i] = k
        /\ \A i, j \in 1 .. N : i < j => ks[i] < ks[j]
    BY <1>1, <1>2, AscendingAll
  <1> HIDE DEF N, ks
  <1>4. ks \in [1 .. N -> 1 .. n]
    BY <1>1, <1>3
  <1>5. Len(ks) = N
    BY <1>1, <1>4
  <1>6. \A i \in 1 .. N : ks[i] \in lines
    BY <1>3
  <1> QED
    BY <1>1, <1>3, <1>4, <1>5, <1>6 DEF TakenInOrder, lines, N, ks

-----------------------------------------------------------------------------
(* The cursor of events.jsonl passes no line *)

Positioned == /\ log \in Seq(Line) /\ size \in 0 .. LineEnd(Len(log))
              /\ inode \in Nat \ {0} /\ last_inode \in 0 .. inode
              /\ offset \in Nat /\ pc \in {"idle", "read"}
              /\ last_inode = 0 => offset = 0 /\ pc = "idle"

\* Every line that begins before the position was parsed or torn.
Passed(n) == \A k \in 1 .. Len(log) : LineStart(k) < n => <<inode, k>> \in parsed \cup torn

\* The position lies in the file, or a newline beyond it when a line is half written.
Reached(n) == \/ n <= size
              \/ n = size + 1 /\ size % (Width + 1) # 0

\* Holds of the file the cursor saw last; of a newer one nothing is known until it is read.
CursorInv ==
  last_inode = inode =>
    /\ pc = "idle" => Reached(offset) /\ Passed(offset)
    /\ pc = "read" /\ offset > 0 => offset <= size /\ Passed(offset)

ClaudeInv == Positioned /\ CursorInv

\* The end of the file is where the next line will begin.
LEMMA FileEnd ==
  ASSUME Positioned
  PROVE  /\ Len(log) \in Nat /\ size \in Nat /\ LineEnd(Len(log)) \in Nat
         /\ LineStart(Len(log) + 1) = LineEnd(Len(log))
         /\ LineEnd(Len(log)) % (Width + 1) = 0
  <1>1. Len(log) \in Nat
    BY DEF Positioned
  <1>2. LineStart(Len(log) + 1) = LineEnd(Len(log)) /\ LineEnd(Len(log)) \in Nat
    <2>1. CASE Len(log) = 0
      BY <2>1, WidthAssumption DEF LineStart, LineEnd, BodyEnd
    <2>2. CASE Len(log) # 0
      BY <1>1, <2>2, Positions
    <2> QED
      BY <2>1, <2>2
  <1>3. LineEnd(Len(log)) % (Width + 1) = 0
    BY <1>1, LineBounds
  <1> QED
    BY <1>1, <1>2, <1>3 DEF Positioned

LEMMA ClaudeStart == Init => ClaudeInv
  <1> SUFFICES ASSUME Init
               PROVE  ClaudeInv
    OBVIOUS
  <1>1. log = <<>> /\ Len(log) = 0 /\ LineEnd(0) \in Nat
    BY WidthAssumption DEF Init, LineEnd, BodyEnd, LineStart
  <1>2. Positioned
    <2>1. log \in Seq(Line)
      BY <1>1
    <2>2. 0 \in 0 .. LineEnd(0)
      BY <1>1
    <2> QED
      BY <1>1, <2>1, <2>2 DEF Init, Positioned
  <1>3. CursorInv
    BY DEF Init, CursorInv
  <1> QED
    BY <1>2, <1>3 DEF ClaudeInv

\* A line is begun at the end of the last one, which no position is past.
LEMMA StartLineStep ==
  ASSUME ClaudeInv, NEW l \in Line, StartLine(l)
  PROVE  ClaudeInv'
  <1> DEFINE n == Len(log)
  <1>1. /\ n \in Nat /\ size \in Nat /\ size = LineEnd(n) /\ LineStart(n + 1) = LineEnd(n)
        /\ LineEnd(n + 1) \in Nat /\ size % (Width + 1) = 0
    BY FileEnd, Positions DEF ClaudeInv, StartLine
  <1>2. /\ log' = Append(log, l) /\ Len(log') = n + 1 /\ log' \in Seq(Line)
    BY DEF StartLine, ClaudeInv, Positioned
  <1>3. size' \in size + 1 .. LineEnd(n + 1)
    BY DEF StartLine, WriteBytes
  <1>4. UNCHANGED <<inode, last_inode, pc, offset, parsed, torn>>
    BY DEF StartLine, WriteBytes, cursor
  <1>5. Positioned'
    BY <1>1, <1>2, <1>3, <1>4 DEF ClaudeInv, Positioned
  <1>6. ASSUME offset <= size, Passed(offset)
        PROVE  \A k \in 1 .. n + 1 : LineStart(k) < offset => <<inode, k>> \in parsed \cup torn
    BY <1>1, <1>6 DEF Passed, ClaudeInv, Positioned
  <1> HIDE DEF n
  <1>7. offset \in Nat /\ Reached(offset) => offset <= size
    BY <1>1 DEF Reached, ClaudeInv, Positioned
  <1>8. CursorInv'
    <2> SUFFICES ASSUME last_inode = inode, offset > 0 \/ pc = "idle"
                 PROVE  /\ (pc = "idle" => Reached(offset) /\ Passed(offset))'
                        /\ offset <= size' /\ Passed(offset)'
      BY <1>4 DEF CursorInv
    <2>1. offset \in Nat /\ offset <= size /\ Passed(offset)
      BY <1>7 DEF ClaudeInv, CursorInv, Positioned
    <2>2. \A k \in 1 .. n + 1 : LineStart(k) < offset => <<inode, k>> \in parsed \cup torn
      BY <1>6, <2>1
    <2>3. offset <= size'
      BY <1>1, <1>3, <2>1
    <2>4. Passed(offset)'
      BY <1>2, <1>4, <2>2 DEF Passed
    <2> QED
      BY <1>4, <2>3, <2>4 DEF Reached
  <1> QED
    BY <1>5, <1>8 DEF ClaudeInv

LEMMA ContinueLineStep ==
  ASSUME ClaudeInv, ContinueLine
  PROVE  ClaudeInv'
  <1>1. /\ Len(log) \in Nat /\ size \in Nat /\ LineEnd(Len(log)) \in Nat
        /\ size' \in size + 1 .. LineEnd(Len(log))
        /\ UNCHANGED <<log, inode, last_inode, pc, offset, parsed, torn>>
    BY FileEnd DEF ClaudeInv, ContinueLine, WriteBytes, cursor
  <1>2. Positioned'
    BY <1>1 DEF ClaudeInv, Positioned
  <1>3. offset \in Nat /\ Reached(offset) => offset <= size'
    BY <1>1 DEF Reached, ClaudeInv, Positioned
  <1>4. Passed(offset)' <=> Passed(offset)
    BY <1>1 DEF Passed
  <1>5. CursorInv'
    BY <1>1, <1>3, <1>4 DEF ClaudeInv, CursorInv, Positioned, Reached
  <1> QED
    BY <1>2, <1>5 DEF ClaudeInv

\* The cursor has not seen a file that was just begun.
LEMMA RotateStep ==
  ASSUME ClaudeInv, Rotate
  PROVE  ClaudeInv'
  <1>1. LineEnd(0) \in Nat
    BY WidthAssumption DEF LineEnd, BodyEnd, LineStart
  <1>2. /\ log' = <<>> /\ size' = 0 /\ inode' = inode + 1
        /\ UNCHANGED <<last_inode, pc, offset>>
    BY DEF Rotate, cursor
  <1>3. log' \in Seq(Line) /\ 0 \in 0 .. LineEnd(Len(log'))
    BY <1>1, <1>2
  <1>4. Positioned'
    BY <1>2, <1>3 DEF ClaudeInv, Positioned
  <1>5. CursorInv'
    BY <1>2 DEF ClaudeInv, CursorInv, Positioned
  <1> QED
    BY <1>4, <1>5 DEF ClaudeInv

\* A file that is not the one seen last is read from its start.
LEMMA LookStep ==
  ASSUME ClaudeInv, Look
  PROVE  ClaudeInv'
  <1>1. /\ size \in Nat /\ offset \in Nat /\ inode \in Nat \ {0}
        /\ pc = "idle" /\ pc' = "read" /\ last_inode' = inode
        /\ UNCHANGED <<log, size, inode>>
    BY FileEnd DEF ClaudeInv, Positioned, Look, file
  <1>2. \/ offset' = 0
        \/ ~Fresh /\ size > offset /\ UNCHANGED <<offset, parsed, torn>>
    BY DEF Look
  <1>3. Positioned'
    BY <1>1, <1>2 DEF ClaudeInv, Positioned
  <1>4. CursorInv'
    <2> SUFFICES ASSUME offset' > 0
                 PROVE  offset' <= size /\ Passed(offset)'
      BY <1>1 DEF CursorInv
    <2>1. ~Fresh /\ size > offset /\ UNCHANGED <<offset, parsed, torn>>
      BY <1>2
    <2>2. last_inode = inode
      BY <2>1 DEF Fresh, ClaudeInv, Positioned
    <2>3. Passed(offset)
      BY <1>1, <2>2 DEF ClaudeInv, CursorInv
    <2> QED
      BY <1>1, <2>1, <2>3 DEF Passed
  <1> QED
    BY <1>3, <1>4 DEF ClaudeInv

\* What the lines between two positions and the one cut at the end add up to.
LEMMA ReadPasses ==
  ASSUME Positioned, NEW from \in Nat, Passed(from) \/ from = 0,
         NEW lines, lines = LinesBetween(from, size),
         UNCHANGED <<log, inode>>,
         parsed' = parsed \cup {inode} \X lines,
         torn' = IF Cuts(size) THEN torn \cup {<<inode, LineAt(size)>>} ELSE torn,
         NEW k \in 1 .. Len(log), LineStart(k) < size \/ LineStart(k) < from
  PROVE  <<inode, k>> \in parsed' \cup torn'
  <1>1. k \in Nat \ {0} /\ size \in Nat
    BY FileEnd
  <1>2. LineStart(k) \in Nat
    BY <1>1, Positions
  <1>3. CASE LineStart(k) < from
    <2>1. Passed(from)
      BY <1>2, <1>3
    <2> QED
      BY <1>3, <2>1 DEF Passed
  <1>4. CASE from <= LineStart(k) /\ LineStart(k) < size
    <2>1. k \in lines \/ (Cuts(size) /\ LineAt(size) = k)
      BY <1>1, <1>4, TakenOrTorn
    <2> QED
      BY <2>1
  <1> QED
    BY <1>2, <1>3, <1>4

LEMMA ReadFullStep ==
  ASSUME ClaudeInv, NEW now, ReadFull(now)
  PROVE  ClaudeInv'
  <1> DEFINE lines == LinesBetween(0, size)
  <1>1. /\ size \in Nat /\ pc = "read" /\ pc' = "idle" /\ offset' = size
        /\ UNCHANGED <<log, size, inode, last_inode>>
        /\ parsed' = parsed \cup {inode} \X lines
        /\ torn' = IF Cuts(size) THEN torn \cup {<<inode, LineAt(size)>>} ELSE torn
    BY FileEnd DEF ClaudeInv, ReadFull, Return, file
  <1>2. Positioned'
    BY <1>1 DEF ClaudeInv, Positioned
  <1>3. ASSUME NEW k \in 1 .. Len(log), LineStart(k) < size
        PROVE  <<inode, k>> \in parsed' \cup torn'
    BY <1>1, <1>3, ReadPasses DEF ClaudeInv
  <1> HIDE DEF lines
  <1>4. CursorInv'
    BY <1>1, <1>3 DEF CursorInv, Reached, Passed
  <1> QED
    BY <1>2, <1>4 DEF ClaudeInv

\* The byte counted for a newline that is not there passes no line: none begins at an end
\* of file that cuts one.
LEMMA ReadAppendedStep ==
  ASSUME ClaudeInv, NEW now, ReadAppended(now)
  PROVE  ClaudeInv'
  <1> DEFINE lines == LinesBetween(offset, size)
  <1>1. /\ size \in Nat /\ offset \in Nat /\ offset > 0 /\ pc = "read" /\ pc' = "idle"
        /\ offset' = EndOfRead
        /\ UNCHANGED <<log, size, inode, last_inode>>
        /\ parsed' = parsed \cup {inode} \X lines
        /\ torn' = IF Cuts(size) THEN torn \cup {<<inode, LineAt(size)>>} ELSE torn
    BY FileEnd DEF ClaudeInv, Positioned, ReadAppended, Return, file
  <1>2. EndOfRead \in Nat
    BY <1>1 DEF EndOfRead
  <1>3. Positioned'
    BY <1>1, <1>2 DEF ClaudeInv, Positioned
  <1>4. ASSUME Passed(offset), NEW k \in 1 .. Len(log),
               LineStart(k) < size \/ LineStart(k) < offset
        PROVE  <<inode, k>> \in parsed' \cup torn'
    BY <1>1, <1>4, ReadPasses DEF ClaudeInv
  <1> HIDE DEF lines
  <1>5. ASSUME last_inode = inode
        PROVE  offset <= size /\ Passed(offset)
    BY <1>1, <1>5 DEF ClaudeInv, CursorInv
  <1>6. ASSUME offset <= size
        PROVE  \/ EndOfRead = size
               \/ EndOfRead = size + 1 /\ size % (Width + 1) # 0
    BY <1>1, <1>6 DEF EndOfRead
  <1>7. ASSUME last_inode = inode, NEW k \in 1 .. Len(log), LineStart(k) < EndOfRead
        PROVE  <<inode, k>> \in parsed' \cup torn'
    <2>1. k \in Nat \ {0}
      BY FileEnd DEF ClaudeInv
    <2>2. LineStart(k) \in Nat /\ LineStart(k) % (Width + 1) = 0
      BY <2>1, Positions, LineBounds
    <2>3. LineStart(k) < size
      <3>1. LineStart(k) # size \/ EndOfRead = size
        BY <1>5, <1>6, <1>7, <2>2
      <3> QED
        BY <1>1, <1>5, <1>6, <1>7, <2>2, <3>1
    <2> QED
      BY <1>4, <1>5, <1>7, <2>3
  <1>8. CursorInv'
    <2> SUFFICES ASSUME last_inode = inode
                 PROVE  Reached(EndOfRead) /\ Passed(offset)'
      BY <1>1 DEF CursorInv, Reached
    <2>1. Reached(EndOfRead)
      BY <1>1, <1>5, <1>6 DEF Reached
    <2>2. Passed(offset)'
      BY <1>1, <1>7 DEF Passed
    <2> QED
      BY <2>1, <2>2
  <1> QED
    BY <1>3, <1>8 DEF ClaudeInv

LEMMA ClaudeStep == ClaudeInv /\ [Next]_claudeVars => ClaudeInv'
  <1> SUFFICES ASSUME ClaudeInv, [Next]_claudeVars
               PROVE  ClaudeInv'
    OBVIOUS
  <1>1. CASE \E l \in Line : StartLine(l)
    BY <1>1, StartLineStep
  <1>2. CASE ContinueLine
    BY <1>2, ContinueLineStep
  <1>3. CASE Rotate
    BY <1>3, RotateStep
  <1>4. CASE Look
    BY <1>4, LookStep
  <1>5. CASE Read
    BY <1>5, ReadFullStep, ReadAppendedStep DEF Read
  <1>6. CASE UNCHANGED claudeVars
    BY <1>6 DEF claudeVars, file, cursor, ClaudeInv, Positioned, CursorInv, Passed, Reached
  <1> QED
    BY <1>1, <1>2, <1>3, <1>4, <1>5, <1>6 DEF Next

\* A whole line before the position begins before it.
LEMMA ClaudeSuffices == ClaudeInv => LostOnlyIfTorn
  <1> SUFFICES ASSUME ClaudeInv, pc = "idle", last_inode = inode, NEW k \in 1 .. Len(log),
                      BodyEnd(k) <= offset
               PROVE  <<inode, k>> \in parsed \cup torn
    BY DEF LostOnlyIfTorn
  <1> k \in Nat \ {0}
    BY FileEnd DEF ClaudeInv
  <1>1. LineStart(k) \in Nat /\ BodyEnd(k) \in Nat /\ LineStart(k) < BodyEnd(k)
    BY Positions
  <1>2. offset \in Nat
    BY DEF ClaudeInv, Positioned
  <1> QED
    BY <1>1, <1>2 DEF ClaudeInv, CursorInv, Passed

-----------------------------------------------------------------------------
(* The times of a read: no line is dated after the file was last written *)

\* What holds of the cursor's times besides its position.
TimesInv == /\ max_ts \in {0} \cup Rels /\ prev_ts \in {0} \cup Rels
            /\ mtime \in Nat /\ looked \in 0 .. mtime
            /\ Len(log) <= MaxLines

\* Times of the lines ks, and the fields kept of them.
TimesOf(t, n) ==
  /\ t.times \in [1 .. n -> Int] /\ \A k \in 1 .. n : t.times[k] <= looked
  /\ t.top \in {0} \cup Rels /\ t.prev \in {0} \cup Rels

LEMMA LineTimes ==
  ASSUME log \in Seq(Line), NEW k \in 1 .. Len(log)
  PROVE  log[k].rel \in Rels /\ log[k].rel \in Nat
  <1>1. log[k] \in Line
    OBVIOUS
  <1> QED
    BY <1>1, ClaudeAssumption DEF Line

\* The base time is taken back by the largest relative time, so that of the line itself.
LEMMA AppendedTimesOf ==
  ASSUME Positioned, TimesInv, NEW n \in 0 .. Len(log), NEW ks \in [1 .. n -> 1 .. Len(log)],
         Len(ks) = n
  PROVE  TimesOf(AppendedTimes(ks), n)
  <1> DEFINE X == {0} \cup Rels
             rel == [i \in 1 .. n |-> log[ks[i]].rel]
             before == [i \in 1 .. n |-> IF i = 1 THEN prev_ts ELSE log[ks[i - 1]].rel]
             F(x, i) == Larger(rel[i], IF rel[i] < before[i] - Gap THEN 0 ELSE x)
             G == [xi \in X \X (1 .. n) |-> F(xi[1], xi[2])]
             Tops(h) == h = [i \in 0 .. Len(ks) |->
                               IF i = 0 THEN max_ts
                               ELSE LET bef == IF i = 1 THEN prev_ts ELSE log[ks[i - 1]].rel
                                        r == log[ks[i]].rel
                                    IN  Larger(r, IF r < bef - Gap THEN 0 ELSE h[i - 1])]
  <1>1. n \in Nat /\ \A i \in 1 .. n : log[ks[i]].rel \in Rels /\ log[ks[i]].rel \in Nat
    <2>1. Len(log) \in Nat
      BY FileEnd
    <2>2. \A i \in 1 .. n : ks[i] \in 1 .. Len(log)
      OBVIOUS
    <2> QED
      BY <2>1, <2>2, LineTimes DEF Positioned
  <1>2. X \subseteq Nat /\ max_ts \in X /\ prev_ts \in X /\ looked \in Nat /\ 0 \in X
    BY ClaudeAssumption DEF TimesInv
  <1>3. \A i \in 1 .. n : rel[i] \in X /\ before[i] \in X /\ rel[i] \in Nat /\ before[i] \in Nat
    <2> SUFFICES ASSUME NEW i \in 1 .. n
                 PROVE  rel[i] \in X /\ before[i] \in X
      BY <1>2
    <2>1. i = 1 \/ i - 1 \in 1 .. n
      BY <1>1
    <2> QED
      BY <1>1, <1>2, <2>1
  <1>4. G \in [X \X (1 .. n) -> X]
    <2> SUFFICES ASSUME NEW xi \in X \X (1 .. n)
                 PROVE  F(xi[1], xi[2]) \in X
      BY Zenon
    <2>1. xi[1] \in X /\ xi[2] \in 1 .. n
      OBVIOUS
    <2> HIDE DEF rel, before
    <2> QED
      BY <1>2, <1>3, <2>1 DEF Larger
  <1> HIDE DEF X, G
  <1>5. StepsOf(n, X, max_ts, G) # {}
    BY <1>1, <1>2, <1>4, StepsExist
  <1>6. PICK g \in [0 .. n -> X] : g[0] = max_ts /\ \A k \in 1 .. n : g[k] = G[<<g[k - 1], k>>]
    BY <1>5 DEF StepsOf
  <1>7. \A k \in 1 .. n : g[k - 1] \in X /\ g[k] = F(g[k - 1], k)
    <2> SUFFICES ASSUME NEW k \in 1 .. n
                 PROVE  g[k - 1] \in X /\ g[k] = F(g[k - 1], k)
      OBVIOUS
    <2>1. k - 1 \in 0 .. n
      BY <1>1
    <2>2. g[k - 1] \in X
      BY <2>1
    <2>3. <<g[k - 1], k>> \in X \X (1 .. n)
      BY <2>2
    <2> QED
      BY <1>6, <2>2, <2>3 DEF G
  <1>8. Tops(g)
    <2>1. g = [i \in 0 .. n |-> g[i]]
      OBVIOUS
    <2>2. \A i \in 0 .. n : i # 0 => i \in 1 .. n
      BY <1>1
    <2>3. \A i \in 0 .. n :
            g[i] = IF i = 0 THEN max_ts
                   ELSE LET bef == IF i = 1 THEN prev_ts ELSE log[ks[i - 1]].rel
                            r == log[ks[i]].rel
                        IN  Larger(r, IF r < bef - Gap THEN 0 ELSE g[i - 1])
      BY <1>6, <1>7, <2>2
    <2> QED
      BY <2>1, <2>3
  <1> DEFINE top == CHOOSE h : Tops(h)
  <1>9. AppendedTimes(ks) =
          [times |-> [i \in DOMAIN ks |-> looked - top[i] + log[ks[i]].rel],
           top |-> top[Len(ks)],
           prev |-> IF ks = <<>> THEN prev_ts ELSE log[Last(ks)].rel]
    BY DEF AppendedTimes
  <1>10. Tops(top)
    <2> HIDE DEF Tops
    <2> QED
      BY <1>8, Zenon
  <1> HIDE DEF top
  <1>11. /\ top[0] = max_ts
         /\ \A i \in 1 .. n : top[i] = F(top[i - 1], i)
    BY <1>1, <1>10
  <1> DEFINE S == {i \in Nat : i <= n => top[i] \in X}
  <1>12. 0 \in S
    BY <1>2, <1>11
  <1>13. ASSUME NEW i \in Nat, i \in S
         PROVE  i + 1 \in S
    <2> SUFFICES ASSUME i + 1 <= n
                 PROVE  top[i + 1] \in X
      OBVIOUS
    <2>1. i <= n /\ i + 1 \in 1 .. n /\ (i + 1) - 1 = i
      BY <1>1
    <2>2. top[i] \in X
      BY <1>13, <2>1
    <2>3. top[i + 1] = F(top[i], i + 1)
      BY <1>11, <2>1
    <2> HIDE DEF rel, before
    <2> QED
      BY <1>2, <1>3, <2>1, <2>2, <2>3 DEF Larger
  <1>14. Nat \subseteq S
    <2> HIDE DEF S
    <2> QED
      BY <1>12, <1>13, NatInductionOn
  <1>15. \A i \in 0 .. n : top[i] \in X
    BY <1>1, <1>14
  <1>16. ASSUME NEW i \in 1 .. n
         PROVE  looked - top[i] + log[ks[i]].rel \in Int
                /\ looked - top[i] + log[ks[i]].rel <= looked
    <2>1. i - 1 \in 0 .. n /\ i \in 0 .. n
      BY <1>1
    <2>2. top[i] = F(top[i - 1], i) /\ top[i - 1] \in Nat /\ top[i] \in Nat
      BY <1>2, <1>11, <1>15, <2>1
    <2>3. rel[i] = log[ks[i]].rel
      OBVIOUS
    <2> HIDE DEF rel, before
    <2>4. top[i] >= rel[i]
      BY <1>2, <1>3, <2>2 DEF Larger
    <2> QED
      BY <1>2, <1>3, <2>2, <2>3, <2>4
  <1>17. ks # <<>> => log[Last(ks)].rel \in Rels
    <2> SUFFICES ASSUME ks # <<>>
                 PROVE  log[Last(ks)].rel \in Rels
      OBVIOUS
    <2>1. n # 0
      OBVIOUS
    <2> QED
      BY <1>1, <2>1 DEF Last
  <1>18. DOMAIN ks = 1 .. n /\ n \in 0 .. n
    BY <1>1
  <1> DEFINE t == AppendedTimes(ks)
  <1>19. /\ t.times = [i \in 1 .. n |-> looked - top[i] + log[ks[i]].rel]
         /\ t.top = top[n]
         /\ t.prev = IF ks = <<>> THEN prev_ts ELSE log[Last(ks)].rel
    BY <1>9, <1>18
  <1> HIDE DEF t
  <1>20. t.times \in [1 .. n -> Int] /\ \A i \in 1 .. n : t.times[i] <= looked
    BY <1>16, <1>19
  <1>21. t.top \in X /\ t.prev \in X
    BY <1>2, <1>15, <1>17, <1>18, <1>19 DEF X
  <1> QED
    BY <1>20, <1>21 DEF TimesOf, t, X

\* Sessions: where they begin, and the line after their end.
LEMMA Sessions ==
  ASSUME NEW n \in Nat
  PROVE  /\ Begins(n) \subseteq 1 .. n
         /\ n > 0 => 1 \in Begins(n)
         /\ \A b \in Begins(n) :
              /\ After(n, b) \in Begins(n) \cup {n + 1} /\ After(n, b) > b
              /\ \A c \in Begins(n) : c > b => After(n, b) <= c
         /\ \A k \in 1 .. n :
              /\ SessionOf(n, k) \in Begins(n)
              /\ k \in SessionOf(n, k) .. After(n, SessionOf(n, k)) - 1
  <1>1. Begins(n) \subseteq 1 .. n /\ (n > 0 => 1 \in Begins(n))
    BY DEF Begins
  <1> DEFINE B == Begins(n)
  <1>2. \A b \in B : b \in 1 .. n
    BY <1>1
  <1>3. ASSUME NEW b \in B
        PROVE  /\ After(n, b) \in B \cup {n + 1} /\ After(n, b) > b
               /\ \A c \in B : c > b => After(n, b) <= c
    <2> DEFINE T == {c \in B : c > b} \cup {n + 1}
    <2>1. n + 1 \in T
      OBVIOUS
    <2>2. T \in SUBSET Nat /\ T # {}
      BY <1>2, <2>1
    <2>3. After(n, b) = Min(T)
      BY DEF After
    <2>4. \A c \in T : c \in B \cup {n + 1} /\ c > b
      BY <1>2
    <2>5. \A c \in B : c > b => c \in T
      OBVIOUS
    <2> HIDE DEF T, B
    <2>6. Min(T) \in T /\ \A x \in T : Min(T) <= x
      BY <2>2, MinOf
    <2> QED
      BY <2>3, <2>4, <2>5, <2>6
  <1>4. ASSUME NEW k \in 1 .. n
        PROVE  /\ SessionOf(n, k) \in B
               /\ k \in SessionOf(n, k) .. After(n, SessionOf(n, k)) - 1
    <2> DEFINE T == {b \in B : b <= k}
               s == SessionOf(n, k)
    <2>1. 1 \in B
      BY <1>1
    <2>2. 1 \in T
      BY <2>1
    <2>3. T \in SUBSET Nat /\ T # {} /\ k \in Nat /\ \A x \in T : x <= k
      BY <1>2, <2>2
    <2>4. s = Max(T)
      BY DEF SessionOf
    <2>5. \A x \in B : x <= k => x \in T
      OBVIOUS
    <2>6. \A x \in T : x \in B
      OBVIOUS
    <2> HIDE DEF T, B, s
    <2>7. Max(T) \in T /\ \A x \in T : x <= Max(T)
      BY <2>3, MaxOf
    <2>8. s \in B /\ s <= k /\ s \in 1 .. n
      BY <1>2, <2>3, <2>4, <2>6, <2>7
    <2>9. After(n, s) \in B \cup {n + 1} /\ After(n, s) > s
      BY <1>3, <2>8
    <2>10. After(n, s) > k
      <3>1. CASE After(n, s) = n + 1
        BY <3>1
      <3>2. CASE After(n, s) \in B
        <4>1. After(n, s) \in 1 .. n
          BY <1>2, <3>2
        <4>2. After(n, s) <= k => After(n, s) <= s
          BY <2>4, <2>5, <2>7, <3>2
        <4> QED
          BY <2>8, <2>9, <4>1, <4>2
      <3> QED
        BY <2>9, <3>1, <3>2
    <2>11. After(n, s) \in Nat
      BY <1>2, <2>9
    <2> QED
      BY <2>8, <2>10, <2>11 DEF s
  <1> QED
    BY <1>1, <1>3, <1>4

\* The largest time of a session is that of its lines, and its first one is no larger.
LEMMA SessionTimes ==
  ASSUME log \in Seq(Line), NEW n \in 0 .. Len(log), NEW b \in Begins(n)
  PROVE  /\ TopOf(n, b) \in {0} \cup Rels /\ TopOf(n, b) \in Nat
         /\ \A k \in b .. After(n, b) - 1 : log[k].rel <= TopOf(n, b)
         /\ FirstOf(n, b) \in Nat /\ FirstOf(n, b) <= TopOf(n, b)
  <1> DEFINE range == b .. After(n, b) - 1
             T == {log[k].rel : k \in range} \cup {0}
             early == {k \in range : k < b + 10 /\ log[k].rel > 0}
  <1>1. Len(log) \in Nat /\ n \in Nat /\ n <= Len(log)
    OBVIOUS
  <1>2. b \in 1 .. n /\ After(n, b) \in 1 .. n + 1
    <2>1. \A c \in Begins(n) : c \in 1 .. n
      BY <1>1, Sessions
    <2>2. After(n, b) \in Begins(n) \cup {n + 1}
      BY <1>1, Sessions
    <2> QED
      BY <1>1, <2>1, <2>2
  <1>3. \A k \in range : k \in 1 .. Len(log)
    BY <1>1, <1>2
  <1>4. \A k \in range : log[k].rel \in Rels /\ log[k].rel \in Nat
    BY <1>3, LineTimes
  <1>5. T \subseteq {0} \cup Rels
    BY <1>4
  <1>6. T \in SUBSET Nat /\ 0 \in T
    BY <1>4
  <1>7. PICK N \in Nat : \A k \in 1 .. Len(log) : log[k].rel <= N
    <2> DEFINE f == [k \in 1 .. Len(log) |-> log[k].rel]
    <2>1. f \in [1 .. Len(log) -> Nat]
      BY LineTimes
    <2>2. \A k \in 1 .. Len(log) : f[k] = log[k].rel
      OBVIOUS
    <2> HIDE DEF f
    <2>3. \E N \in Nat : \A k \in 1 .. Len(log) : f[k] <= N
      BY <1>1, <2>1, BoundOf
    <2> QED
      BY <2>2, <2>3
  <1>8. \A x \in T : x <= N
    BY <1>3, <1>7
  <1>9. TopOf(n, b) = Max(T)
    BY DEF TopOf
  <1>10. FirstOf(n, b) = IF early = {} THEN 0 ELSE log[Min(early)].rel
    BY DEF FirstOf
  <1>11. early \in SUBSET Nat /\ early \subseteq range
    BY <1>2
  <1>12. \A k \in range : log[k].rel \in T
    OBVIOUS
  <1> HIDE DEF T, early, range
  <1>13. Max(T) \in T /\ \A x \in T : x <= Max(T)
    BY <1>6, <1>8, MaxOf
  <1>14. early # {} => Min(early) \in early
    BY <1>11, MinOf
  <1>15. FirstOf(n, b) \in T
    <2>1. CASE early = {}
      BY <1>6, <1>10, <2>1
    <2>2. CASE early # {}
      <3>1. Min(early) \in range
        BY <1>11, <1>14, <2>2
      <3> QED
        BY <1>10, <1>12, <2>2, <3>1
    <2> QED
      BY <2>1, <2>2
  <1> QED
    BY <1>5, <1>6, <1>9, <1>12, <1>13, <1>15 DEF range

\* The last session ends at the time the file was written, each one before it no later.
LEMMA FullTimesOf ==
  ASSUME Positioned, TimesInv, NEW n \in 0 .. Len(log)
  PROVE  TimesOf(FullTimes(n), n)
  <1> DEFINE B == Begins(n)
             next(b) == After(n, b)
             top(b) == TopOf(n, b)
             first(b) == FirstOf(n, b)
             Leaves == {b \in B : next(b) > n}
             pred == [b \in B |-> IF next(b) > n THEN b ELSE next(b)]
             a == [b \in B |-> looked - top(b)]
             F == [bx \in B \X Int |-> IF next(bx[1]) > n THEN 0
                                       ELSE bx[2] + first(next(bx[1])) - top(bx[1])]
             Bases(h) == h = [b \in B |-> LET c == After(n, b)
                                          IN  IF c > n THEN looked - TopOf(n, b)
                                              ELSE h[c] + FirstOf(n, c) - TopOf(n, b)]
  <1>1. n \in Nat /\ log \in Seq(Line) /\ looked \in Int /\ n <= Len(log) /\ Len(log) \in Nat
    BY FileEnd DEF Positioned, TimesInv
  <1>2. /\ \A b \in B : b \in 1 .. n
        /\ \A b \in B : next(b) \in B \cup {n + 1} /\ next(b) > b
    BY <1>1, Sessions
  <1>3. \A b \in B : next(b) \in 1 .. n + 1 /\ (~(next(b) > n) => next(b) \in B)
    BY <1>1, <1>2
  <1>4. \A b \in B : top(b) \in Nat /\ first(b) \in Nat /\ first(b) <= top(b)
    BY <1>1, SessionTimes
  <1>5. Descends(B, Leaves, pred)
    <2> DEFINE rank == [b \in B |-> n - b]
    <2>1. rank \in [B -> 0 .. n]
      BY <1>1, <1>2
    <2>2. pred \in [B -> B]
      BY <1>3
    <2>3. ASSUME NEW b \in B \ Leaves
          PROVE  rank[pred[b]] < rank[b]
      <3>1. b \in B /\ ~(next(b) > n) /\ next(b) \in B
        BY <1>3
      <3>2. pred[b] = next(b) /\ rank[b] = n - b /\ rank[next(b)] = n - next(b)
        BY <3>1
      <3>3. b \in 1 .. n /\ next(b) \in 1 .. n + 1 /\ next(b) > b
        BY <1>2, <1>3, <3>1
      <3> QED
        BY <1>1, <3>2, <3>3
    <2> HIDE DEF rank, pred
    <2> QED
      BY <1>1, <2>1, <2>2, <2>3 DEF Descends
  <1>6. a \in [B -> Int] /\ F \in [B \X Int -> Int]
    <2>1. a \in [B -> Int]
      BY <1>1, <1>4
    <2>2. ASSUME NEW bx \in B \X Int
          PROVE  (IF next(bx[1]) > n THEN 0 ELSE bx[2] + first(next(bx[1])) - top(bx[1])) \in Int
      <3>1. bx[1] \in B /\ bx[2] \in Int
        OBVIOUS
      <3> HIDE DEF B, next, top, first
      <3> QED
        BY <1>3, <1>4, <3>1
    <2>3. F \in [B \X Int -> Int]
      BY <2>2, Zenon
    <2> QED
      BY <2>1, <2>3
  <1>7. PICK g \in [B -> Int] :
          \A b \in B : g[b] = IF b \in Leaves THEN a[b] ELSE F[<<b, g[pred[b]]>>]
    <2> HIDE DEF B, Leaves, pred, a, F
    <2>1. Recursions(B, Int, Leaves, pred, a, F) # {}
      BY <1>5, <1>6, RecursionExists
    <2> QED
      BY <2>1 DEF Recursions
  <1>8. ASSUME NEW b \in B
        PROVE  g[b] = IF next(b) > n THEN looked - top(b)
                                     ELSE g[next(b)] + first(next(b)) - top(b)
    <2>1. CASE next(b) > n
      BY <1>7, <2>1
    <2>2. CASE ~(next(b) > n)
      <3>1. pred[b] = next(b) /\ b \notin Leaves /\ next(b) \in B
        BY <1>3, <2>2
      <3>2. g[b] = F[<<b, g[next(b)]>>]
        BY <1>7, <3>1
      <3>3. g[next(b)] \in Int
        BY <3>1
      <3>4. <<b, g[next(b)]>> \in B \X Int
        BY <3>3
      <3> QED
        BY <2>2, <3>2, <3>4
    <2> QED
      BY <2>1, <2>2
  <1>9. Bases(g)
    <2>1. g = [b \in B |-> g[b]]
      OBVIOUS
    <2> QED
      BY <1>8, <2>1
  <1>10. BaseTimes(n) = CHOOSE h : Bases(h)
    BY DEF BaseTimes
  <1> DEFINE base == BaseTimes(n)
  <1>11. Bases(base)
    <2> HIDE DEF Bases
    <2> QED
      BY <1>9, <1>10, Zenon
  <1> HIDE DEF base
  <1>12. \A b \in B : base[b] = IF next(b) > n THEN looked - top(b)
                                ELSE base[next(b)] + first(next(b)) - top(b)
    BY <1>11
  <1> DEFINE Good(b) == base[b] \in Int /\ base[b] + top(b) <= looked
             S == {m \in Nat : \A b \in B : b + m >= n => Good(b)}
  <1>13. ASSUME NEW b \in B, ~(next(b) > n) => Good(next(b))
         PROVE  Good(b)
    <2>1. top(b) \in Nat
      BY <1>4
    <2>2. CASE next(b) > n
      BY <1>1, <1>12, <2>1, <2>2
    <2>3. CASE ~(next(b) > n)
      <3> DEFINE c == next(b)
                 x == base[c]
                 y == base[b]
      <3>1. c \in B /\ x \in Int /\ x + top(c) <= looked
        BY <1>3, <1>13, <2>3
      <3>2. y = x + first(c) - top(b)
        BY <1>12, <2>3
      <3>3. first(c) \in Nat /\ top(c) \in Nat /\ first(c) <= top(c)
        BY <1>4, <3>1
      <3> HIDE DEF x, y, c, top, first
      <3>4. y \in Int /\ y + top(b) <= looked
        BY <1>1, <2>1, <3>1, <3>2, <3>3
      <3> QED
        BY <3>4 DEF y
    <2> QED
      BY <2>2, <2>3
  <1> HIDE DEF Good
  <1>14. 0 \in S
    <2> SUFFICES ASSUME NEW b \in B, b >= n
                 PROVE  Good(b)
      BY <1>2
    <2>1. b \in 1 .. n /\ next(b) \in 1 .. n + 1 /\ next(b) > b
      BY <1>2, <1>3
    <2>2. next(b) > n
      BY <1>1, <2>1
    <2> QED
      BY <1>13, <2>2
  <1>15. ASSUME NEW m \in Nat, m \in S
         PROVE  m + 1 \in S
    <2> SUFFICES ASSUME NEW b \in B, b + (m + 1) >= n
                 PROVE  Good(b)
      OBVIOUS
    <2>1. ~(next(b) > n) => Good(next(b))
      <3> SUFFICES ASSUME ~(next(b) > n)
                   PROVE  Good(next(b))
        OBVIOUS
      <3>1. next(b) \in B /\ b \in 1 .. n /\ next(b) \in 1 .. n + 1 /\ next(b) > b
        BY <1>2, <1>3
      <3>2. next(b) + m >= n
        BY <1>1, <3>1
      <3> QED
        BY <1>15, <3>1, <3>2
    <2> QED
      BY <1>13, <2>1
  <1>16. Nat \subseteq S
    <2> HIDE DEF S
    <2> QED
      BY <1>14, <1>15, NatInductionOn
  <1>17. \A b \in B : Good(b)
    <2> SUFFICES ASSUME NEW b \in B
                 PROVE  Good(b)
      OBVIOUS
    <2>1. n \in S /\ b \in 1 .. n
      BY <1>1, <1>2, <1>16
    <2> QED
      BY <1>1, <2>1
  <1>18. ASSUME NEW k \in 1 .. n
         PROVE  /\ base[SessionOf(n, k)] + log[k].rel \in Int
                /\ base[SessionOf(n, k)] + log[k].rel <= looked
    <2> DEFINE b == SessionOf(n, k)
               x == base[b]
               r == log[k].rel
    <2>1. b \in B /\ k \in b .. After(n, b) - 1
      BY <1>1, Sessions
    <2>2. r <= top(b) /\ top(b) \in Nat
      BY <1>1, <2>1, SessionTimes
    <2>3. r \in Nat
      <3>1. k \in 1 .. Len(log)
        BY <1>1
      <3> QED
        BY <1>1, <3>1, LineTimes
    <2>4. x \in Int /\ x + top(b) <= looked
      BY <1>17, <2>1 DEF Good
    <2> HIDE DEF x, r, top, b
    <2>5. x + r \in Int /\ x + r <= looked
      BY <1>1, <2>2, <2>3, <2>4
    <2> QED
      BY <2>5 DEF x, r, b
  <1> DEFINE t == FullTimes(n)
  <1>19. /\ t.times = [k \in 1 .. n |-> base[SessionOf(n, k)] + log[k].rel]
         /\ t.top = IF n = 0 THEN 0 ELSE TopOf(n, SessionOf(n, n))
         /\ t.prev = IF n = 0 THEN 0 ELSE log[n].rel
    BY DEF FullTimes, base
  <1> HIDE DEF t
  <1>20. t.times \in [1 .. n -> Int] /\ \A k \in 1 .. n : t.times[k] <= looked
    BY <1>18, <1>19
  <1>21. t.top \in {0} \cup Rels /\ t.prev \in {0} \cup Rels
    <2>1. CASE n = 0
      BY <1>19, <2>1
    <2>2. CASE n # 0
      <3>1. n \in 1 .. n /\ n \in 1 .. Len(log)
        BY <1>1, <2>2
      <3>2. SessionOf(n, n) \in B
        BY <1>1, <3>1, Sessions
      <3>3. TopOf(n, SessionOf(n, n)) \in {0} \cup Rels
        BY <1>1, <3>2, SessionTimes
      <3>4. log[n].rel \in Rels
        BY <1>1, <3>1, LineTimes
      <3> QED
        BY <1>19, <2>2, <3>3, <3>4
    <2> QED
      BY <2>1, <2>2
  <1> QED
    BY <1>20, <1>21 DEF TimesOf, t

-----------------------------------------------------------------------------
(* The events of a read *)

Event == [line : 1 .. Len(log), path : Paths, action : {"opened", "created", "modified"}, ts : Int]

\* What Parse takes from line to line.
Account == [events : Seq(Event), seen : SUBSET Paths, created : SUBSET Paths]

\* parse_event_line on line k, dated t.
ParseLine(acc, k, t, now) ==
  LET l == log[k]
      act == ActionOf(l, acc.seen)
  IN  IF l.tool = "Bash" \/ t < now - Window THEN acc
      ELSE [events |-> Append(acc.events, [line |-> k, path |-> l.path, action |-> act, ts |-> t]),
            seen |-> acc.seen \cup {l.path},
            created |-> IF act = "created" THEN acc.created \cup {l.path} ELSE acc.created]

ParseStart == [events |-> <<>>, seen |-> seen_paths, created |-> created_paths]

PathsInv == created_paths \subseteq seen_paths /\ seen_paths \subseteq Paths

LEMMA ParseLineType ==
  ASSUME log \in Seq(Line), NEW acc \in Account, NEW k \in 1 .. Len(log), NEW t \in Int, NEW now
  PROVE  ParseLine(acc, k, t, now) \in Account
  <1> DEFINE l == log[k]
             act == ActionOf(l, acc.seen)
             e == [line |-> k, path |-> l.path, action |-> act, ts |-> t]
  <1>1. l \in Line
    OBVIOUS
  <1>2. l.path \in Paths
    BY <1>1 DEF Line
  <1>3. act \in {"opened", "created", "modified"}
    BY DEF ActionOf
  <1> HIDE DEF l, act
  <1>4. e \in Event
    BY <1>2, <1>3 DEF Event
  <1>5. acc.events \in Seq(Event) /\ acc.seen \in SUBSET Paths /\ acc.created \in SUBSET Paths
    BY DEF Account
  <1> HIDE DEF e
  <1>6. Append(acc.events, e) \in Seq(Event)
    BY <1>4, <1>5
  <1>7. [events |-> Append(acc.events, e), seen |-> acc.seen \cup {l.path},
         created |-> IF act = "created" THEN acc.created \cup {l.path} ELSE acc.created] \in Account
    BY <1>2, <1>5, <1>6 DEF Account
  <1> QED
    BY <1>7 DEF ParseLine, e, act, l

\* The lines of a read one by one.
Accounts(n, ks, ts, now) ==
  {acc \in [0 .. n -> Account] :
     /\ acc[0] = ParseStart
     /\ \A i \in 1 .. n : acc[i] = ParseLine(acc[i - 1], ks[i], ts[i], now)
     /\ Parse(ks, ts, now) = acc[n]}

LEMMA ParseSteps ==
  ASSUME log \in Seq(Line), PathsInv, NEW n \in Nat, NEW ks \in [1 .. n -> 1 .. Len(log)],
         NEW ts \in [1 .. n -> Int], NEW now
  PROVE  Accounts(n, ks, ts, now) # {}
  <1> DEFINE G == [xi \in Account \X (1 .. n) |-> ParseLine(xi[1], ks[xi[2]], ts[xi[2]], now)]
             seq == [i \in DOMAIN ks |-> i]
             step(acc, i) ==
               LET l == log[ks[i]]
                   act == ActionOf(l, acc.seen)
               IN  IF l.tool = "Bash" \/ ts[i] < now - Window THEN acc
                   ELSE [events |-> Append(acc.events,
                                      [line |-> ks[i], path |-> l.path, action |-> act,
                                       ts |-> ts[i]]),
                         seen |-> acc.seen \cup {l.path},
                         created |-> IF act = "created" THEN acc.created \cup {l.path}
                                                        ELSE acc.created]
             Folds(h) == h = [s \in SUBSET (DOMAIN seq) |->
                                IF s = {} THEN ParseStart
                                ELSE step(h[s \ {Max(s)}], seq[Max(s)])]
  <1>1. ParseStart \in Account
    BY DEF ParseStart, PathsInv, Account
  <1>2. G \in [Account \X (1 .. n) -> Account]
    <2> SUFFICES ASSUME NEW xi \in Account \X (1 .. n)
                 PROVE  ParseLine(xi[1], ks[xi[2]], ts[xi[2]], now) \in Account
      BY Zenon
    <2>1. xi[1] \in Account /\ xi[2] \in 1 .. n
      OBVIOUS
    <2>2. ks[xi[2]] \in 1 .. Len(log) /\ ts[xi[2]] \in Int
      BY <2>1
    <2> QED
      BY <2>1, <2>2, ParseLineType
  <1>3. \A acc, i : step(acc, i) = ParseLine(acc, ks[i], ts[i], now)
    BY Zenon DEF ParseLine
  <1>4. DOMAIN seq = 1 .. n /\ \A i \in 1 .. n : seq[i] = i
    OBVIOUS
  <1>5. Parse(ks, ts, now) = (CHOOSE h : Folds(h))[DOMAIN seq]
    BY DEF Parse, FoldLeft, MapThenFoldSet, ParseStart
  <1>6. ASSUME NEW acc \in Account, NEW i \in 1 .. n
        PROVE  G[<<acc, i>>] = ParseLine(acc, ks[i], ts[i], now)
    <2>1. <<acc, i>> \in Account \X (1 .. n) /\ <<acc, i>>[1] = acc /\ <<acc, i>>[2] = i
      OBVIOUS
    <2> QED
      BY <2>1, Zenon
  <1> HIDE DEF step, G
  <1>7. FoldsOf(n, Account, ParseStart, G) # {}
    BY <1>1, <1>2, FoldExists
  <1>8. PICK g \in [SUBSET (1 .. n) -> Account] :
          \A s \in SUBSET (1 .. n) :
            g[s] = IF s = {} THEN ParseStart ELSE G[<<g[s \ {Max(s)}], Max(s)>>]
    BY <1>7 DEF FoldsOf
  <1>9. Folds(g)
    <2>1. ASSUME NEW s \in SUBSET (1 .. n), s # {}
          PROVE  g[s] = step(g[s \ {Max(s)}], seq[Max(s)])
      <3>1. Max(s) \in s
        BY <2>1, MaxOfIndices
      <3>2. Max(s) \in 1 .. n /\ g[s \ {Max(s)}] \in Account
        BY <3>1
      <3>3. G[<<g[s \ {Max(s)}], Max(s)>>] = ParseLine(g[s \ {Max(s)}], ks[Max(s)], ts[Max(s)], now)
        BY <1>6, <3>2
      <3> QED
        BY <1>3, <1>4, <1>8, <2>1, <3>2, <3>3
    <2>2. g = [s \in SUBSET (1 .. n) |-> g[s]]
      OBVIOUS
    <2> QED
      BY <1>4, <1>8, <2>1, <2>2
  <1>10. PICK h : Folds(h) /\ Parse(ks, ts, now) = h[1 .. n]
    <2> HIDE DEF Folds
    <2> QED
      BY <1>4, <1>5, <1>9, Zenon
  <1>11. TakesSteps(h, n, Account, ParseStart, G)
    <2>1. {} \in SUBSET (1 .. n) /\ h[{}] = ParseStart
      BY <1>4, <1>10
    <2>2. ASSUME NEW s \in SUBSET (1 .. n), s # {}, h[s \ {Max(s)}] \in Account
          PROVE  h[s] = G[<<h[s \ {Max(s)}], Max(s)>>]
      <3>1. Max(s) \in 1 .. n
        BY <2>2, MaxOfIndices
      <3>2. h[s] = step(h[s \ {Max(s)}], seq[Max(s)])
        BY <1>4, <1>10, <2>2
      <3> QED
        BY <1>3, <1>4, <1>6, <2>2, <3>1, <3>2
    <2> QED
      BY <2>1, <2>2 DEF TakesSteps
  <1> HIDE DEF Folds
  <1>12. PICK acc \in StepsOf(n, Account, ParseStart, G) : h[1 .. n] = acc[n]
    <2>1. StepsTo(h[1 .. n], n, Account, ParseStart, G) # {}
      BY <1>1, <1>2, <1>11, FoldSteps
    <2> QED
      BY <2>1 DEF StepsTo
  <1>13. acc \in [0 .. n -> Account] /\ acc[0] = ParseStart
         /\ \A i \in 1 .. n : acc[i] = G[<<acc[i - 1], i>>]
    BY <1>12 DEF StepsOf
  <1>14. ASSUME NEW i \in 1 .. n
         PROVE  acc[i] = ParseLine(acc[i - 1], ks[i], ts[i], now)
    <2>1. i - 1 \in 0 .. n
      OBVIOUS
    <2>2. acc[i - 1] \in Account
      BY <1>13, <2>1
    <2> QED
      BY <1>6, <1>13, <2>2
  <1>15. acc \in Accounts(n, ks, ts, now)
    BY <1>10, <1>12, <1>13, <1>14 DEF Accounts
  <1> QED
    BY <1>15

\* What the account of the first i of the lines ks says: each event is of one of them, in
\* their order, and of a path that was seen; a path seen before is not created now.
Tells(acc, i, ks) ==
  /\ acc.created \subseteq acc.seen /\ seen_paths \subseteq acc.seen
  /\ acc.created \cap seen_paths \subseteq created_paths
  /\ created_paths \subseteq acc.created
  /\ \A m \in 1 .. Len(acc.events) :
       /\ \E j \in 1 .. i : acc.events[m].line = ks[j]
       /\ acc.events[m].path \in acc.seen
       /\ acc.events[m].action = "created" => acc.events[m].path \in acc.created
       /\ acc.events[m].ts <= looked
  /\ \A l, m \in 1 .. Len(acc.events) : l < m => acc.events[l].line < acc.events[m].line

LEMMA TellsStep ==
  ASSUME log \in Seq(Line), PathsInv, NEW n \in Nat, NEW ks \in [1 .. n -> 1 .. Len(log)],
         \A a, b \in 1 .. n : a < b => ks[a] < ks[b],
         NEW i \in 1 .. n, NEW acc \in Account, Tells(acc, i - 1, ks),
         NEW t \in Int, t <= looked, NEW now
  PROVE  Tells(ParseLine(acc, ks[i], t, now), i, ks)
  <1> DEFINE k == ks[i]
             l == log[k]
             act == ActionOf(l, acc.seen)
             e == [line |-> k, path |-> l.path, action |-> act, ts |-> t]
             es == acc.events
             fs == Append(es, e)
             new == [events |-> fs, seen |-> acc.seen \cup {l.path},
                     created |-> IF act = "created" THEN acc.created \cup {l.path}
                                                    ELSE acc.created]
  <1>1. k \in 1 .. Len(log) /\ i - 1 \in Nat /\ \A j \in 1 .. i - 1 : j \in 1 .. i /\ j < i
    OBVIOUS
  <1>2. es \in Seq(Event) /\ Len(es) \in Nat
    BY DEF Account
  <1>3. act = "created" => l.path \notin acc.seen
    BY DEF ActionOf
  <1>4. e.line = k /\ e.path = l.path /\ e.action = act /\ e.ts = t
    OBVIOUS
  <1>5. new.events = fs /\ new.seen = acc.seen \cup {l.path}
        /\ new.created = IF act = "created" THEN acc.created \cup {l.path} ELSE acc.created
    OBVIOUS
  <1>6. ParseLine(acc, k, t, now) = acc \/ ParseLine(acc, k, t, now) = new
    BY DEF ParseLine
  <1> HIDE DEF l, act, e, es, k, new
  <1>7. Len(fs) = Len(es) + 1 /\ fs[Len(es) + 1] = e /\ \A m \in 1 .. Len(es) : fs[m] = es[m]
    BY <1>2
  <1>8. \A m \in 1 .. Len(fs) : m \in 1 .. Len(es) \/ m = Len(es) + 1
    BY <1>2, <1>7
  <1>9. /\ acc.created \subseteq acc.seen /\ seen_paths \subseteq acc.seen
        /\ acc.created \cap seen_paths \subseteq created_paths
        /\ created_paths \subseteq acc.created
    BY DEF Tells
  <1>10. ASSUME NEW m \in 1 .. Len(es)
         PROVE  /\ \E j \in 1 .. i : es[m].line = ks[j]
                /\ es[m].line < k
                /\ es[m].path \in acc.seen
                /\ es[m].action = "created" => es[m].path \in acc.created
                /\ es[m].ts <= looked
    <2>1. /\ \E j \in 1 .. i - 1 : es[m].line = ks[j]
          /\ es[m].path \in acc.seen
          /\ es[m].action = "created" => es[m].path \in acc.created
          /\ es[m].ts <= looked
      BY DEF Tells, es
    <2>2. PICK j \in 1 .. i - 1 : es[m].line = ks[j]
      BY <2>1
    <2>3. j \in 1 .. i /\ j \in 1 .. n /\ j < i
      BY <1>1
    <2>4. ks[j] < k
      BY <2>3 DEF k
    <2> QED
      BY <2>1, <2>2, <2>3, <2>4
  <1>11. \A a, b \in 1 .. Len(es) : a < b => es[a].line < es[b].line
    BY DEF Tells, es
  <1>12. CASE ParseLine(acc, k, t, now) = acc
    <2>1. Tells(acc, i, ks)
      BY <1>9, <1>10, <1>11 DEF Tells, es
    <2> QED
      BY <1>12, <2>1 DEF k
  <1>13. CASE ParseLine(acc, k, t, now) = new
    <2>1. /\ new.created \subseteq new.seen /\ seen_paths \subseteq new.seen
          /\ new.created \cap seen_paths \subseteq created_paths
          /\ created_paths \subseteq new.created
      BY <1>3, <1>5, <1>9
    <2>2. acc.seen \subseteq new.seen /\ acc.created \subseteq new.created
      BY <1>5
    <2>3. ASSUME NEW m \in 1 .. Len(fs)
          PROVE  /\ \E j \in 1 .. i : fs[m].line = ks[j]
                 /\ fs[m].path \in new.seen
                 /\ fs[m].action = "created" => fs[m].path \in new.created
                 /\ fs[m].ts <= looked
      <3>1. CASE m \in 1 .. Len(es)
        <4>1. fs[m] = es[m]
          BY <1>7, <3>1
        <4> HIDE DEF fs
        <4> QED
          BY <1>10, <2>2, <3>1, <4>1
      <3>2. CASE m = Len(es) + 1
        <4>1. fs[m] = e
          BY <1>7, <3>2
        <4>2. i \in 1 .. i
          OBVIOUS
        <4> HIDE DEF fs
        <4> QED
          BY <1>4, <1>5, <4>1, <4>2 DEF k
      <3> QED
        BY <1>8, <3>1, <3>2
    <2>4. ASSUME NEW a \in 1 .. Len(fs), NEW b \in 1 .. Len(fs), a < b
          PROVE  fs[a].line < fs[b].line
      <3>1. a \in 1 .. Len(es)
        BY <1>2, <1>7, <2>4
      <3>2. fs[a] = es[a]
        BY <1>7, <3>1
      <3>3. CASE b \in 1 .. Len(es)
        <4>1. fs[b] = es[b]
          BY <1>7, <3>3
        <4> HIDE DEF fs
        <4> QED
          BY <1>11, <2>4, <3>1, <3>2, <3>3, <4>1
      <3>4. CASE b = Len(es) + 1
        <4>1. fs[b] = e
          BY <1>7, <3>4
        <4> HIDE DEF fs
        <4> QED
          BY <1>4, <1>10, <3>1, <3>2, <4>1
      <3> QED
        BY <1>8, <3>3, <3>4
    <2> HIDE DEF fs
    <2>5. Tells(new, i, ks)
      BY <1>5, <2>1, <2>3, <2>4 DEF Tells
    <2> QED
      BY <1>13, <2>5 DEF k
  <1>14. ParseLine(acc, k, t, now) = acc \/ ParseLine(acc, k, t, now) = new
    BY <1>6
  <1> QED
    BY <1>12, <1>13, <1>14

LEMMA ParseTells ==
  ASSUME log \in Seq(Line), PathsInv, NEW n \in Nat, NEW ks \in [1 .. n -> 1 .. Len(log)],
         \A a, b \in 1 .. n : a < b => ks[a] < ks[b],
         NEW ts \in [1 .. n -> Int], \A i \in 1 .. n : ts[i] <= looked, NEW now
  PROVE  Parse(ks, ts, now) \in Account /\ Tells(Parse(ks, ts, now), n, ks)
  <1>1. PICK acc \in [0 .. n -> Account] :
          /\ acc[0] = ParseStart
          /\ \A i \in 1 .. n : acc[i] = ParseLine(acc[i - 1], ks[i], ts[i], now)
          /\ Parse(ks, ts, now) = acc[n]
    <2>1. Accounts(n, ks, ts, now) # {}
      BY ParseSteps
    <2> QED
      BY <2>1 DEF Accounts
  <1> DEFINE S == {i \in Nat : i <= n => Tells(acc[i], i, ks)}
  <1>2. 0 \in S
    <2>1. Tells(ParseStart, 0, ks)
      BY DEF ParseStart, Tells, PathsInv
    <2> QED
      BY <1>1, <2>1
  <1>3. ASSUME NEW i \in Nat, i \in S
        PROVE  i + 1 \in S
    <2> SUFFICES ASSUME i + 1 <= n
                 PROVE  Tells(acc[i + 1], i + 1, ks)
      OBVIOUS
    <2> DEFINE j == i + 1
    <2>1. i <= n /\ j \in 1 .. n /\ j - 1 = i /\ i \in 0 .. n
      OBVIOUS
    <2>2. Tells(acc[i], i, ks) /\ acc[i] \in Account
      BY <1>3, <2>1
    <2>3. acc[j] = ParseLine(acc[i], ks[j], ts[j], now) /\ ts[j] \in Int /\ ts[j] <= looked
      BY <1>1, <2>1
    <2> HIDE DEF j
    <2>4. Tells(acc[i], j - 1, ks)
      BY <2>1, <2>2
    <2>5. Tells(ParseLine(acc[i], ks[j], ts[j], now), j, ks)
      BY <2>1, <2>2, <2>3, <2>4, TellsStep
    <2> QED
      BY <2>3, <2>5 DEF j
  <1>4. Nat \subseteq S
    <2> HIDE DEF S
    <2> QED
      BY <1>2, <1>3, NatInductionOn
  <1>5. n \in S /\ n \in 0 .. n
    BY <1>4
  <1> QED
    BY <1>1, <1>5

\* The actions reported agree with the paths kept.
ActsInv == /\ acts \subseteq Paths \X {"opened", "created", "modified"}
           /\ \A p \in Paths : /\ <<p, "created">> \in acts => p \in created_paths
                               /\ <<p, "modified">> \in acts => p \in seen_paths \ created_paths

\* Lines parsed are lines of files there were, those of the last file before the offset.
ParsedInv == /\ parsed \subseteq (1 .. inode) \X (1 .. MaxLines)
             /\ torn \subseteq (1 .. inode) \X (1 .. MaxLines)
             /\ \A k \in 1 .. MaxLines : <<inode, k>> \in parsed => LineStart(k) < offset

HistoryInv == TimesInv /\ PathsInv /\ ActsInv /\ ParsedInv /\ NotInFuture
              /\ inode \in 1 .. MaxRotations + 1

\* A path whose events become those of a created one was created in this read or before;
\* none reported as modified before is.
LEMMA ReturnEvents ==
  ASSUME ClaudeInv, HistoryInv, NEW from \in Nat, NEW lines, lines = LinesBetween(from, size),
         NEW N, N = Cardinality(lines),
         NEW ts \in [1 .. N -> Int], \A i \in 1 .. N : ts[i] <= looked,
         NEW now, Return(lines, ts, now)
  PROVE  /\ PathsInv' /\ ActsInv'
         /\ \A n \in DOMAIN batch' : batch'[n].line \in lines /\ batch'[n].ts <= looked
         /\ \A m, n \in DOMAIN batch' : m < n => batch'[m].line < batch'[n].line
  <1> DEFINE ks == Ascending(lines)
             p == Parse(ks, ts, now)
             es == p.events
             b == batch'
  <1>1. /\ log \in Seq(Line) /\ Len(log) \in Nat /\ size \in 0 .. LineEnd(Len(log))
        /\ looked \in Nat
    BY FileEnd DEF ClaudeInv, Positioned, HistoryInv, TimesInv
  <1>2. /\ N \in 0 .. Len(log) /\ ks \in [1 .. N -> 1 .. Len(log)]
        /\ \A i \in 1 .. N : ks[i] \in lines
        /\ \A i, j \in 1 .. N : i < j => ks[i] < ks[j]
    <2>1. TakenInOrder(lines, Len(log))
      BY <1>1, LinesInOrder
    <2> QED
      BY <2>1 DEF TakenInOrder
  <1>3. /\ batch' = Restored(es, p.created)
        /\ seen_paths' = p.seen /\ created_paths' = p.created
        /\ acts' = acts \cup {<<e.path, e.action>> : e \in ToSet(batch')}
    BY DEF Return
  <1> HIDE DEF ks
  <1>4. p \in Account /\ Tells(p, N, ks)
    <2>1. N \in Nat /\ PathsInv
      BY <1>1, <1>2 DEF HistoryInv
    <2> QED
      BY <1>1, <1>2, <2>1, ParseTells
  <1> HIDE DEF p
  <1>5. es \in Seq(Event) /\ p.seen \subseteq Paths /\ p.created \subseteq Paths
    BY <1>4 DEF Account
  <1>6. /\ p.created \subseteq p.seen /\ seen_paths \subseteq p.seen
        /\ p.created \cap seen_paths \subseteq created_paths
        /\ created_paths \subseteq p.created
        /\ \A m \in 1 .. Len(es) :
             /\ \E j \in 1 .. N : es[m].line = ks[j]
             /\ es[m].path \in p.seen
             /\ es[m].action = "created" => es[m].path \in p.created
             /\ es[m].ts <= looked
        /\ \A l, m \in 1 .. Len(es) : l < m => es[l].line < es[m].line
    BY <1>4 DEF Tells
  <1>7. DOMAIN es = 1 .. Len(es) /\ Len(es) \in Nat /\ \A m \in 1 .. Len(es) : es[m] \in Event
    BY <1>5
  <1> HIDE DEF es, b
  <1>8. b = [m \in 1 .. Len(es) |->
               IF es[m].action = "modified" /\ es[m].path \in p.created
               THEN [es[m] EXCEPT !.action = "created"] ELSE es[m]]
    BY <1>3, <1>7 DEF Restored, b
  <1>9. DOMAIN b = 1 .. Len(es)
    BY <1>8
  <1>10. ASSUME NEW m \in 1 .. Len(es)
         PROVE  /\ b[m].line = es[m].line /\ b[m].path = es[m].path /\ b[m].ts = es[m].ts
                /\ b[m].path \in p.seen /\ b[m].path \in Paths
                /\ b[m].action \in {"opened", "created", "modified"}
                /\ b[m].action = "created" => b[m].path \in p.created
                /\ b[m].action = "modified" => b[m].path \notin p.created
    <2> DEFINE e == es[m]
    <2>1. /\ e \in Event
          /\ b[m] = IF e.action = "modified" /\ e.path \in p.created
                    THEN [e EXCEPT !.action = "created"] ELSE e
      BY <1>7, <1>8
    <2>2. e.path \in p.seen /\ (e.action = "created" => e.path \in p.created)
      BY <1>6
    <2> HIDE DEF e
    <2>3. e.action \in {"opened", "created", "modified"} /\ e.path \in Paths
      BY <2>1 DEF Event
    <2>4. [e EXCEPT !.action = "created"].line = e.line
          /\ [e EXCEPT !.action = "created"].path = e.path
          /\ [e EXCEPT !.action = "created"].ts = e.ts
          /\ [e EXCEPT !.action = "created"].action = "created"
      BY <2>1 DEF Event
    <2>5. CASE e.action = "modified" /\ e.path \in p.created
      <3>1. b[m] = [e EXCEPT !.action = "created"]
        BY <2>1, <2>5
      <3> QED
        BY <2>2, <2>3, <2>4, <2>5, <3>1 DEF e
    <2>6. CASE ~(e.action = "modified" /\ e.path \in p.created)
      <3>1. b[m] = e
        BY <2>1, <2>6
      <3> QED
        BY <2>2, <2>3, <2>6, <3>1 DEF e
    <2> QED
      BY <2>5, <2>6
  <1>11. PathsInv'
    BY <1>3, <1>5, <1>6 DEF PathsInv
  <1>12. \A x \in acts' : x \in acts \/ \E m \in 1 .. Len(es) : x = <<b[m].path, b[m].action>>
    BY <1>3, <1>9 DEF ToSet, b
  <1>13. ActsInv'
    <2>1. acts \subseteq Paths \X {"opened", "created", "modified"}
          /\ \A q \in Paths : /\ <<q, "created">> \in acts => q \in created_paths
                              /\ <<q, "modified">> \in acts => q \in seen_paths \ created_paths
      BY DEF HistoryInv, ActsInv
    <2>2. acts' \subseteq Paths \X {"opened", "created", "modified"}
      BY <1>10, <1>12, <2>1
    <2>3. ASSUME NEW q \in Paths, <<q, "created">> \in acts'
          PROVE  q \in p.created
      <3>1. CASE <<q, "created">> \in acts
        BY <1>6, <2>1, <3>1
      <3>2. CASE \E m \in 1 .. Len(es) : <<q, "created">> = <<b[m].path, b[m].action>>
        BY <1>10, <3>2
      <3> QED
        BY <1>12, <2>3, <3>1, <3>2
    <2>4. ASSUME NEW q \in Paths, <<q, "modified">> \in acts'
          PROVE  q \in p.seen \ p.created
      <3>1. CASE <<q, "modified">> \in acts
        BY <1>6, <2>1, <3>1
      <3>2. CASE \E m \in 1 .. Len(es) : <<q, "modified">> = <<b[m].path, b[m].action>>
        BY <1>10, <3>2
      <3> QED
        BY <1>12, <2>4, <3>1, <3>2
    <2> QED
      BY <1>3, <2>2, <2>3, <2>4 DEF ActsInv
  <1>14. \A n \in DOMAIN b : b[n].line \in lines /\ b[n].ts <= looked
    <2> SUFFICES ASSUME NEW n \in 1 .. Len(es)
                 PROVE  b[n].line \in lines /\ b[n].ts <= looked
      BY <1>9
    <2>1. PICK j \in 1 .. N : es[n].line = ks[j]
      BY <1>6
    <2>2. ks[j] \in lines /\ es[n].ts <= looked
      BY <1>2, <1>6
    <2> QED
      BY <1>10, <2>1, <2>2
  <1>15. \A m, n \in DOMAIN b : m < n => b[m].line < b[n].line
    BY <1>6, <1>9, <1>10
  <1> QED
    BY <1>11, <1>13, <1>14, <1>15 DEF b

\* A read takes lines that lie at or behind the offset, and leaves the offset behind them.
LEMMA ReturnParsed ==
  ASSUME ClaudeInv, HistoryInv, NEW lines, lines = LinesBetween(offset, size),
         NEW ts, NEW now, Return(lines, ts, now),
         offset' \in Nat, offset <= offset', size <= offset' \/ size <= offset
  PROVE  ParsedInv' /\ \A k \in lines : <<inode, k>> \notin parsed
  <1>1. /\ Len(log) \in Nat /\ size \in 0 .. LineEnd(Len(log)) /\ size \in Nat /\ offset \in Nat
        /\ inode \in Nat \ {0} /\ Len(log) <= MaxLines /\ MaxLines \in Nat
    BY FileEnd, ClaudeAssumption DEF ClaudeInv, Positioned, HistoryInv, TimesInv
  <1>2. lines \subseteq 1 .. Len(log) /\ (Cuts(size) => LineAt(size) \in 1 .. Len(log))
    BY <1>1, LinesThere
  <1>3. ASSUME NEW k \in lines
        PROVE  /\ k \in 1 .. MaxLines
               /\ LineStart(k) \in Nat /\ offset <= LineStart(k) /\ LineStart(k) < size
    <2>1. k \in 1 .. Len(log) /\ offset <= LineStart(k) /\ BodyEnd(k) <= size
      BY <1>2 DEF LinesBetween
    <2>2. k \in Nat \ {0} /\ k \in 1 .. MaxLines
      BY <1>1, <2>1
    <2>3. LineStart(k) \in Nat /\ BodyEnd(k) \in Nat /\ LineStart(k) < BodyEnd(k)
      BY <2>2, Positions
    <2> QED
      BY <1>1, <2>1, <2>2, <2>3
  <1>4. /\ parsed \subseteq (1 .. inode) \X (1 .. MaxLines)
        /\ torn \subseteq (1 .. inode) \X (1 .. MaxLines)
        /\ \A k \in 1 .. MaxLines : <<inode, k>> \in parsed => LineStart(k) < offset
    BY DEF HistoryInv, ParsedInv
  <1>5. /\ parsed' = parsed \cup {inode} \X lines
        /\ torn' = IF Cuts(size) THEN torn \cup {<<inode, LineAt(size)>>} ELSE torn
        /\ inode' = inode
    BY DEF Return, file
  <1>6. parsed' \subseteq (1 .. inode) \X (1 .. MaxLines)
    <2>1. inode \in 1 .. inode
      BY <1>1
    <2> QED
      BY <1>3, <1>4, <1>5, <2>1
  <1>7. torn' \subseteq (1 .. inode) \X (1 .. MaxLines)
    <2>1. inode \in 1 .. inode
      BY <1>1
    <2>2. Cuts(size) => LineAt(size) \in 1 .. MaxLines
      BY <1>1, <1>2
    <2> QED
      BY <1>4, <1>5, <2>1, <2>2
  <1>8. ASSUME NEW k \in 1 .. MaxLines, <<inode, k>> \in parsed'
        PROVE  LineStart(k) < offset'
    <2>0. k \in Nat \ {0}
      BY <1>1
    <2>1. LineStart(k) \in Nat
      BY <2>0, Positions
    <2>2. CASE <<inode, k>> \in parsed
      BY <1>1, <1>4, <2>1, <2>2
    <2>3. CASE k \in lines
      BY <1>1, <1>3, <2>1, <2>3
    <2> QED
      BY <1>5, <1>8, <2>2, <2>3
  <1>9. ParsedInv'
    BY <1>5, <1>6, <1>7, <1>8 DEF ParsedInv
  <1>10. \A k \in lines : <<inode, k>> \notin parsed
    BY <1>1, <1>3, <1>4
  <1> QED
    BY <1>9, <1>10

\* What a read returns, whichever it is.
LEMMA ReadGives ==
  ASSUME ClaudeInv, HistoryInv, Read
  PROVE  /\ HistoryInv'
         /\ \A m, n \in DOMAIN batch' : m < n => batch'[m].line < batch'[n].line
         /\ \A n \in DOMAIN batch' : <<inode, batch'[n].line>> \notin parsed
  <1> DEFINE lines == LinesBetween(offset, size)
             N == Cardinality(lines)
  <1>1. /\ log \in Seq(Line) /\ Len(log) \in Nat /\ size \in 0 .. LineEnd(Len(log))
        /\ size \in Nat /\ offset \in Nat /\ TimesInv
    BY FileEnd DEF ClaudeInv, Positioned, HistoryInv
  <1>2. TakenInOrder(lines, Len(log))
    BY <1>1, LinesInOrder
  <1>3. PICK now, t : /\ now \in Int /\ TimesOf(t, N) /\ Return(lines, t.times, now)
                      /\ \/ max_ts' = t.top /\ prev_ts' = t.prev
                         \/ UNCHANGED <<max_ts, prev_ts>>
                      /\ offset' \in Nat /\ offset <= offset'
                      /\ size <= offset' \/ size <= offset
    <2>1. PICK delay \in 0 .. MaxDelay : ReadFull(looked + delay) \/ ReadAppended(looked + delay)
      BY DEF Read
    <2>2. looked + delay \in Int
      BY <1>1, ClaudeAssumption DEF TimesInv
    <2>3. CASE ReadFull(looked + delay)
      <3>1. offset = 0 /\ offset' = size
        BY <2>3 DEF ReadFull
      <3>2. N \in 0 .. Len(log)
        BY <1>2 DEF TakenInOrder
      <3>3. TimesOf(FullTimes(N), N)
        BY <1>1, <3>2, FullTimesOf DEF ClaudeInv
      <3>4. Return(lines, FullTimes(N).times, looked + delay)
        BY <2>3, <3>1 DEF ReadFull
      <3>5. \/ max_ts' = FullTimes(N).top /\ prev_ts' = FullTimes(N).prev
            \/ UNCHANGED <<max_ts, prev_ts>>
        BY <2>3, <3>1 DEF ReadFull
      <3> HIDE DEF N, lines
      <3> QED
        BY <1>1, <2>2, <3>1, <3>3, <3>4, <3>5
    <2>4. CASE ReadAppended(looked + delay)
      <3>1. offset' = EndOfRead
        BY <2>4 DEF ReadAppended
      <3>2. EndOfRead \in Nat /\ offset <= EndOfRead /\ (size <= EndOfRead \/ size <= offset)
        BY <1>1 DEF EndOfRead
      <3> DEFINE ks == Ascending(lines)
      <3>3. N \in 0 .. Len(log) /\ ks \in [1 .. N -> 1 .. Len(log)] /\ Len(ks) = N
        BY <1>2 DEF TakenInOrder
      <3>4. /\ Return(lines, AppendedTimes(ks).times, looked + delay)
            /\ max_ts' = AppendedTimes(ks).top /\ prev_ts' = AppendedTimes(ks).prev
        BY <2>4 DEF ReadAppended
      <3> HIDE DEF N, lines, ks
      <3>5. TimesOf(AppendedTimes(ks), N)
        BY <1>1, <3>3, AppendedTimesOf DEF ClaudeInv
      <3> QED
        BY <2>2, <3>1, <3>2, <3>4, <3>5
    <2> QED
      BY <2>1, <2>3, <2>4
  <1>4. t.times \in [1 .. N -> Int] /\ \A i \in 1 .. N : t.times[i] <= looked
    BY <1>3 DEF TimesOf
  <1> HIDE DEF N, lines
  <1>5. lines = LinesBetween(offset, size) /\ N = Cardinality(lines)
    BY DEF N, lines
  <1>6. /\ PathsInv' /\ ActsInv'
        /\ \A n \in DOMAIN batch' : batch'[n].line \in lines /\ batch'[n].ts <= looked
        /\ \A m, n \in DOMAIN batch' : m < n => batch'[m].line < batch'[n].line
    BY <1>1, <1>3, <1>4, <1>5, ReturnEvents
  <1>7. ParsedInv' /\ \A k \in lines : <<inode, k>> \notin parsed
    BY <1>3, <1>5, ReturnParsed
  <1>8. UNCHANGED <<log, size, inode, mtime, looked>>
    BY <1>3 DEF Return, file
  <1>9. TimesInv'
    BY <1>1, <1>3, <1>8 DEF TimesInv, TimesOf
  <1>10. NotInFuture'
    BY <1>6, <1>8 DEF NotInFuture
  <1>11. HistoryInv'
    BY <1>6, <1>7, <1>8, <1>9, <1>10 DEF HistoryInv
  <1> QED
    BY <1>6, <1>7, <1>11

LEMMA HistoryStart == Init => HistoryInv
  <1> SUFFICES ASSUME Init
               PROVE  HistoryInv
    OBVIOUS
  <1>1. TimesInv /\ PathsInv
    BY ClaudeAssumption DEF Init, TimesInv, PathsInv
  <1>2. ActsInv /\ ParsedInv /\ NotInFuture
    BY DEF Init, ActsInv, ParsedInv, NotInFuture
  <1> QED
    BY <1>1, <1>2, ClaudeAssumption DEF Init, HistoryInv

\* Only a read touches what the history is about, but for the reset of a new file.
LEMMA HistoryStep == ClaudeInv /\ HistoryInv /\ [Next]_claudeVars => HistoryInv'
  <1> SUFFICES ASSUME ClaudeInv, HistoryInv, [Next]_claudeVars
               PROVE  HistoryInv'
    OBVIOUS
  <1> USE DEF HistoryInv
  <1>1. ASSUME UNCHANGED <<inode, looked, cursor, batch, parsed, torn, acts>>
        PROVE  PathsInv' /\ ActsInv' /\ ParsedInv' /\ NotInFuture'
    BY <1>1 DEF cursor, PathsInv, ActsInv, ParsedInv, NotInFuture
  <1>2. CASE \E l \in Line : StartLine(l)
    <2>1. PICK l \in Line : StartLine(l)
      BY <1>2
    <2>2. UNCHANGED <<inode, looked, cursor, batch, parsed, torn, acts>>
      BY <2>1 DEF StartLine, WriteBytes
    <2>3. TimesInv'
      <3>1. Len(log) \in Nat /\ Len(log') = Len(log) + 1
        BY <2>1, FileEnd DEF StartLine, ClaudeInv, Positioned
      <3>2. Len(log) + 1 <= MaxLines
        BY <2>1, <3>1, ClaudeAssumption DEF StartLine
      <3>3. mtime \in Nat /\ mtime' = mtime + 1 /\ looked \in 0 .. mtime
        BY <2>1 DEF StartLine, TimesInv
      <3> QED
        BY <2>2, <3>1, <3>2, <3>3 DEF TimesInv, cursor
    <2> QED
      BY <1>1, <2>2, <2>3
  <1>3. CASE ContinueLine
    BY <1>1, <1>3 DEF ContinueLine, WriteBytes, TimesInv, cursor
  <1>4. CASE Rotate
    <2>1. /\ inode <= MaxRotations /\ inode' = inode + 1 /\ log' = <<>>
          /\ UNCHANGED <<mtime, looked, cursor, batch, parsed, torn, acts>>
      BY <1>4 DEF Rotate
    <2>2. ParsedInv'
      <3>1. \A n \in 1 .. inode : n \in 1 .. inode + 1 /\ n # inode + 1
        OBVIOUS
      <3>2. \A x \in parsed : x[1] \in 1 .. inode
        BY DEF ParsedInv
      <3>3. \A k \in 1 .. MaxLines : <<inode + 1, k>> \notin parsed
        BY <3>1 DEF ParsedInv
      <3>4. (1 .. inode) \X (1 .. MaxLines) \subseteq (1 .. inode + 1) \X (1 .. MaxLines)
        BY <3>1
      <3> QED
        BY <2>1, <3>3, <3>4 DEF ParsedInv
    <2>3. PathsInv' /\ ActsInv' /\ NotInFuture'
      BY <2>1 DEF cursor, PathsInv, ActsInv, NotInFuture
    <2>4. TimesInv'
      BY <2>1, ClaudeAssumption DEF TimesInv, cursor
    <2>5. inode' \in 1 .. MaxRotations + 1
      BY <2>1, ClaudeAssumption
    <2> QED
      BY <2>2, <2>3, <2>4, <2>5
  <1>5. CASE Look
    <2>1. looked' = mtime /\ batch' = <<>> /\ UNCHANGED <<log, size, inode, mtime>>
      BY <1>5 DEF Look, file
    <2>2. NotInFuture'
      BY <2>1 DEF NotInFuture
    <2>3. \/ Reset
          \/ UNCHANGED <<offset, max_ts, prev_ts, seen_paths, created_paths, parsed, torn, acts>>
      BY <1>5 DEF Look
    <2>4. CASE Reset
      BY <2>1, <2>2, <2>4 DEF Reset, TimesInv, PathsInv, ActsInv, ParsedInv
    <2>5. CASE UNCHANGED <<offset, max_ts, prev_ts, seen_paths, created_paths, parsed, torn, acts>>
      BY <2>1, <2>2, <2>5 DEF TimesInv, PathsInv, ActsInv, ParsedInv
    <2> QED
      BY <2>3, <2>4, <2>5
  <1>6. CASE Read
    BY <1>6, ReadGives
  <1>7. CASE UNCHANGED claudeVars
    BY <1>1, <1>7 DEF claudeVars, file, cursor, TimesInv
  <1> QED
    BY <1>2, <1>3, <1>4, <1>5, <1>6, <1>7 DEF Next

LEMMA HistorySuffices ==
  ClaudeInv /\ HistoryInv => ClaudeTypeOK /\ NotInFuture /\ LifecycleStable
  <1> SUFFICES ASSUME ClaudeInv, HistoryInv
               PROVE  ClaudeTypeOK /\ NotInFuture /\ LifecycleStable
    OBVIOUS
  <1>1. LifecycleStable
    BY DEF HistoryInv, ActsInv, LifecycleStable
  <1>2. \A n \in 1 .. inode : n \in 1 .. MaxRotations + 1
    BY ClaudeAssumption DEF HistoryInv
  <1>3. (1 .. inode) \X (1 .. MaxLines) \subseteq (1 .. MaxRotations + 1) \X (1 .. MaxLines)
    BY <1>2
  <1>4. /\ parsed \subseteq (1 .. MaxRotations + 1) \X (1 .. MaxLines)
        /\ torn \subseteq (1 .. MaxRotations + 1) \X (1 .. MaxLines)
    BY <1>3 DEF HistoryInv, ParsedInv
  <1>5. ClaudeTypeOK
    BY <1>4 DEF ClaudeInv, Positioned, HistoryInv, TimesInv, PathsInv, ActsInv, ClaudeTypeOK
  <1> QED
    BY <1>1, <1>5 DEF HistoryInv

LEMMA ReadsOnceInOrder ==
  ASSUME ClaudeInv, HistoryInv, [Next]_claudeVars, pc = "read", pc' = "idle"
  PROVE  /\ \A m, n \in DOMAIN batch' : m < n => batch'[m].line < batch'[n].line
         /\ \A n \in DOMAIN batch' : <<inode, batch'[n].line>> \notin parsed
  <1>1. Read
    BY DEF Next, StartLine, ContinueLine, WriteBytes, Rotate, Look, claudeVars
  <1> QED
    BY <1>1, ReadGives

-----------------------------------------------------------------------------
(* The offset of a session file passes no line *)

\* The operators of LogFile are the same in CodexCursor.
LEMMA SameFile ==
  \A a, b : /\ Codex!LineStart(a) = LineStart(a) /\ Codex!BodyEnd(a) = BodyEnd(a)
            /\ Codex!LineEnd(a) = LineEnd(a) /\ Codex!LineAt(a) = LineAt(a)
            /\ Codex!Cuts(a) <=> Cuts(a)
            /\ Codex!LinesBetween(a, b) = LinesBetween(a, b)
  BY DEF Codex!LineStart, Codex!BodyEnd, Codex!LineEnd, Codex!LineAt, Codex!Cuts,
         Codex!LinesBetween, LineStart, BodyEnd, LineEnd, LineAt, Cuts, LinesBetween

CodexPositioned ==
  /\ xlog \in Seq(Codex!Line) /\ xsize \in 0 .. LineEnd(Len(xlog))
  /\ xoffset \in Nat /\ xlooked \in Nat
  /\ xunnoticed \in BOOLEAN /\ xpc \in {"idle", "read"}

\* Every line that begins before the position was parsed or torn.
CodexPassed(n) == \A k \in 1 .. Len(xlog) : LineStart(k) < n => k \in xparsed \cup xtorn

\* Between two reads of a file that was not truncated, the offset is a size it had; during
\* a read that goes on from the offset, it lies before the size seen.
OffsetInv ==
  ~xunnoticed =>
    /\ xpc = "idle" => xoffset <= xsize /\ CodexPassed(xoffset)
    /\ xpc = "read" => /\ xlooked <= xsize
                       /\ xoffset > 0 /\ xoffset <= xlooked => CodexPassed(xoffset)

CodexInv == CodexPositioned /\ OffsetInv

\* The end of the file is where the next line will begin.
LEMMA CodexFileEnd ==
  ASSUME CodexPositioned
  PROVE  /\ Len(xlog) \in Nat /\ xsize \in Nat /\ LineEnd(Len(xlog)) \in Nat
         /\ LineStart(Len(xlog) + 1) = LineEnd(Len(xlog))
  <1>1. Len(xlog) \in Nat
    BY DEF CodexPositioned
  <1>2. LineStart(Len(xlog) + 1) = LineEnd(Len(xlog)) /\ LineEnd(Len(xlog)) \in Nat
    <2>1. CASE Len(xlog) = 0
      BY <2>1, WidthAssumption DEF LineStart, LineEnd, BodyEnd
    <2>2. CASE Len(xlog) # 0
      BY <1>1, <2>2, Positions
    <2> QED
      BY <2>1, <2>2
  <1> QED
    BY <1>1, <1>2 DEF CodexPositioned

LEMMA CodexStart == Codex!Init => CodexInv
  <1> SUFFICES ASSUME Codex!Init
               PROVE  CodexInv
    OBVIOUS
  <1>1. xlog = <<>> /\ Len(xlog) = 0 /\ LineEnd(0) \in Nat
    BY WidthAssumption DEF Codex!Init, LineEnd, BodyEnd, LineStart
  <1>2. CodexPositioned
    <2>1. xlog \in Seq(Codex!Line)
      BY <1>1
    <2>2. 0 \in 0 .. LineEnd(0)
      BY <1>1
    <2> QED
      BY <1>1, <2>1, <2>2 DEF Codex!Init, CodexPositioned
  <1>3. OffsetInv
    BY <1>1 DEF Codex!Init, OffsetInv, CodexPassed
  <1> QED
    BY <1>2, <1>3 DEF CodexInv

\* A line that is begun begins at the end of the file, which no offset is past.
LEMMA CodexStartLineStep ==
  ASSUME CodexInv, NEW l \in Codex!Line, Codex!StartLine(l)
  PROVE  CodexInv'
  <1> DEFINE n == Len(xlog)
  <1>1. /\ n \in Nat /\ xsize \in Nat /\ xsize = LineEnd(n) /\ LineStart(n + 1) = LineEnd(n)
        /\ LineEnd(n + 1) \in Nat
    BY CodexFileEnd, Positions, SameFile DEF CodexInv, Codex!StartLine
  <1>2. /\ xlog' = Append(xlog, l) /\ Len(xlog') = n + 1 /\ xlog' \in Seq(Codex!Line)
    BY DEF Codex!StartLine, CodexInv, CodexPositioned
  <1>3. xsize' \in xsize + 1 .. LineEnd(n + 1)
    BY SameFile DEF Codex!StartLine, Codex!WriteBytes
  <1>4. UNCHANGED <<xpc, xlooked, xoffset, xparsed, xtorn, xunnoticed>>
    BY DEF Codex!StartLine, Codex!WriteBytes
  <1>5. CodexPositioned'
    BY <1>1, <1>2, <1>3, <1>4 DEF CodexInv, CodexPositioned
  <1>6. ASSUME NEW m \in Nat, m <= xsize, CodexPassed(m)
        PROVE  \A k \in 1 .. n + 1 : LineStart(k) < m => k \in xparsed \cup xtorn
    BY <1>1, <1>6 DEF CodexPassed
  <1> HIDE DEF n
  <1>7. OffsetInv'
    <2> SUFFICES ASSUME ~xunnoticed
                 PROVE  OffsetInv'
      BY <1>4 DEF OffsetInv
    <2>1. CASE xpc = "idle"
      <3>1. xoffset \in Nat /\ xoffset <= xsize /\ CodexPassed(xoffset)
        BY <2>1 DEF CodexInv, OffsetInv, CodexPositioned
      <3>2. \A k \in 1 .. n + 1 : LineStart(k) < xoffset => k \in xparsed \cup xtorn
        BY <1>6, <3>1
      <3> QED
        BY <1>1, <1>2, <1>3, <1>4, <2>1, <3>1, <3>2 DEF OffsetInv, CodexPassed
    <2>2. CASE xpc = "read"
      <3>1. xlooked \in Nat /\ xoffset \in Nat /\ xlooked <= xsize
        BY <2>2 DEF CodexInv, OffsetInv, CodexPositioned
      <3>2. ASSUME xoffset > 0, xoffset <= xlooked
            PROVE  \A k \in 1 .. n + 1 : LineStart(k) < xoffset => k \in xparsed \cup xtorn
        <4>1. CodexPassed(xoffset) /\ xoffset <= xsize
          BY <1>1, <2>2, <3>1, <3>2 DEF CodexInv, OffsetInv
        <4> QED
          BY <1>6, <3>1, <4>1
      <3> QED
        BY <1>1, <1>2, <1>3, <1>4, <2>2, <3>1, <3>2 DEF OffsetInv, CodexPassed
    <2> QED
      BY <2>1, <2>2 DEF CodexInv, CodexPositioned
  <1> QED
    BY <1>5, <1>7 DEF CodexInv

LEMMA CodexContinueLineStep ==
  ASSUME CodexInv, Codex!ContinueLine
  PROVE  CodexInv'
  <1>1. /\ Len(xlog) \in Nat /\ xsize \in Nat /\ LineEnd(Len(xlog)) \in Nat
        /\ xsize' \in xsize + 1 .. LineEnd(Len(xlog))
        /\ UNCHANGED <<xlog, xpc, xlooked, xoffset, xparsed, xtorn, xunnoticed>>
    BY CodexFileEnd, SameFile DEF CodexInv, Codex!ContinueLine, Codex!WriteBytes
  <1>2. CodexPositioned'
    BY <1>1 DEF CodexInv, CodexPositioned
  <1>3. OffsetInv'
    BY <1>1 DEF CodexInv, CodexPositioned, OffsetInv, CodexPassed
  <1> QED
    BY <1>2, <1>3 DEF CodexInv

LEMMA CodexTruncateStep ==
  ASSUME CodexInv, Codex!Truncate
  PROVE  CodexInv'
  <1>1. LineEnd(0) \in Nat
    BY WidthAssumption DEF LineEnd, BodyEnd, LineStart
  <1>2. CodexPositioned'
    BY <1>1 DEF CodexInv, CodexPositioned, Codex!Truncate
  <1>3. OffsetInv'
    BY DEF OffsetInv, Codex!Truncate
  <1> QED
    BY <1>2, <1>3 DEF CodexInv

\* A file that is seen to be smaller, or was never read, is read whole; any other is still
\* the one the offset is about.
LEMMA CodexLookStep ==
  ASSUME CodexInv, Codex!Look
  PROVE  CodexInv'
  <1>1. xsize \in Nat /\ xoffset \in Nat
    BY CodexFileEnd DEF CodexInv, CodexPositioned
  <1>2. CodexPositioned'
    BY <1>1 DEF CodexInv, CodexPositioned, Codex!Look
  <1>3. OffsetInv'
    BY <1>1 DEF CodexInv, CodexPositioned, OffsetInv, CodexPassed, Codex!Look
  <1> QED
    BY <1>2, <1>3 DEF CodexInv

LEMMA CodexReadStep ==
  ASSUME CodexInv, NEW now \in Clock, Codex!Read(now)
  PROVE  CodexInv'
  <1> DEFINE lines == LinesBetween(Codex!StartOffset, xsize)
             gone == IF Cuts(xsize) THEN {LineAt(xsize)} ELSE {}
  <1>1. xsize \in Nat /\ xoffset \in Nat /\ xlooked \in Nat /\ Codex!StartOffset \in Nat
    BY CodexFileEnd DEF CodexInv, CodexPositioned, Codex!StartOffset
  <1>2. /\ xpc = "read" /\ xpc' = "idle" /\ xoffset' = xlooked
        /\ xparsed' = (IF Codex!StartOffset = 0 THEN {} ELSE xparsed) \cup lines
        /\ xtorn' = (IF Codex!StartOffset = 0 THEN {} ELSE xtorn) \cup gone
        /\ UNCHANGED <<xlog, xsize, xlooked, xunnoticed>>
    BY SameFile DEF Codex!Read
  <1>3. CodexPositioned'
    BY <1>1, <1>2 DEF CodexInv, CodexPositioned
  <1>4. ASSUME NEW k \in 1 .. Len(xlog), Codex!StartOffset <= LineStart(k), LineStart(k) < xsize
        PROVE  k \in lines \cup gone
    <2>1. k \in Nat \ {0}
      BY CodexFileEnd DEF CodexInv
    <2> QED
      BY <1>1, <1>4, <2>1, TakenOrTorn
  <1> HIDE DEF lines, gone
  <1>5. ASSUME ~xunnoticed, NEW k \in 1 .. Len(xlog), LineStart(k) < xlooked
        PROVE  k \in xparsed' \cup xtorn'
    <2> k \in Nat \ {0}
      BY CodexFileEnd DEF CodexInv
    <2>1. LineStart(k) \in Nat /\ xlooked <= xsize
      BY <1>2, <1>5, Positions DEF CodexInv, OffsetInv
    <2>2. CASE Codex!StartOffset <= LineStart(k)
      BY <1>1, <1>2, <1>4, <1>5, <2>1, <2>2
    <2>3. CASE LineStart(k) < Codex!StartOffset
      <3>1. Codex!StartOffset = xoffset /\ xoffset > 0 /\ xoffset <= xlooked
        BY <1>1, <2>1, <2>3 DEF Codex!StartOffset
      <3>2. k \in xparsed \cup xtorn
        BY <1>2, <1>5, <2>3, <3>1 DEF CodexInv, OffsetInv, CodexPassed
      <3> QED
        BY <1>2, <3>1, <3>2
    <2> QED
      BY <1>1, <2>1, <2>2, <2>3
  <1>6. OffsetInv'
    BY <1>1, <1>2, <1>5 DEF CodexInv, OffsetInv, CodexPassed
  <1> QED
    BY <1>3, <1>6 DEF CodexInv

LEMMA CodexStep == CodexInv /\ [Codex!Next]_xVars => CodexInv'
  <1> SUFFICES ASSUME CodexInv, [Codex!Next]_xVars
               PROVE  CodexInv'
    OBVIOUS
  <1>1. CASE Codex!Next
    BY <1>1, CodexStartLineStep, CodexContinueLineStep, CodexTruncateStep, CodexLookStep,
       CodexReadStep DEF Codex!Next
  <1>2. CASE UNCHANGED xVars
    BY <1>2 DEF xVars, CodexInv, CodexPositioned, OffsetInv, CodexPassed
  <1> QED
    BY <1>1, <1>2

\* A whole line before the offset begins before it.
LEMMA CodexSuffices == CodexInv => Codex!PassedWasParsed
  <1> SUFFICES ASSUME CodexInv, xpc = "idle", ~xunnoticed, NEW k \in 1 .. Len(xlog),
                      BodyEnd(k) <= xoffset
               PROVE  k \in xparsed \cup xtorn
    BY SameFile DEF Codex!PassedWasParsed
  <1> k \in Nat \ {0}
    BY CodexFileEnd DEF CodexInv
  <1>1. LineStart(k) \in Nat /\ BodyEnd(k) \in Nat /\ LineStart(k) < BodyEnd(k)
    BY Positions
  <1>2. xoffset \in Nat
    BY DEF CodexInv, CodexPositioned
  <1> QED
    BY <1>1, <1>2 DEF CodexInv, OffsetInv, CodexPassed

-----------------------------------------------------------------------------
(* The dedup of a read of a session file *)

\* What holds of the Codex reader besides its offset.
CodexTypes ==
  /\ Len(xlog) <= MaxLines /\ xtruncs \in 0 .. MaxTruncs
  /\ xoffset \in 0 .. LineEnd(MaxLines) /\ xlooked \in 0 .. LineEnd(MaxLines)
  /\ xreported \subseteq Codex!Line
  /\ xparsed \subseteq 1 .. MaxLines /\ xtorn \subseteq 1 .. MaxLines

\* The most recent time of each of some paths.
Kept == UNION {[D -> Times] : D \in SUBSET Paths}

\* What the dedup does with line k.
DedupLine(kept, k, now) ==
  LET l == xlog[k]
  IN  IF ~Codex!Plausible(l.ts, now) \/ (l.path \in DOMAIN kept /\ l.ts <= kept[l.path])
      THEN kept
      ELSE [p \in DOMAIN kept \cup {l.path} |-> IF p = l.path THEN l.ts ELSE kept[p]]

LEMMA KeptIs ==
  ASSUME NEW f, NEW D \in SUBSET Paths, f \in [D -> Times]
  PROVE  f \in Kept
  BY DEF Kept

LEMMA KeptHas ==
  ASSUME NEW f \in Kept
  PROVE  /\ DOMAIN f \in SUBSET Paths /\ f \in [DOMAIN f -> Times]
         /\ \A p \in DOMAIN f : f[p] \in Times
  <1>1. PICK D \in SUBSET Paths : f \in [D -> Times]
    BY DEF Kept
  <1> QED
    BY <1>1

LEMMA CodexLine ==
  ASSUME xlog \in Seq(Codex!Line), NEW k \in 1 .. Len(xlog)
  PROVE  xlog[k].path \in Paths /\ xlog[k].ts \in Times /\ xlog[k].ts \in Nat
         /\ xlog[k] = [path |-> xlog[k].path, ts |-> xlog[k].ts]
  <1>1. xlog[k] \in Codex!Line
    OBVIOUS
  <1> QED
    BY <1>1, LogsAssumption DEF Codex!Line

\* The time of the line's path is as late as that of the line, no time gets earlier, and one
\* that is new is the line's.
LEMMA DedupLineKeeps ==
  ASSUME xlog \in Seq(Codex!Line), NEW kept \in Kept, NEW k \in 1 .. Len(xlog), NEW now
  PROVE  LET new == DedupLine(kept, k, now) IN
         /\ new \in Kept
         /\ \A p \in DOMAIN kept : p \in DOMAIN new /\ new[p] >= kept[p]
         /\ Codex!Plausible(xlog[k].ts, now) => /\ xlog[k].path \in DOMAIN new
                                                /\ new[xlog[k].path] >= xlog[k].ts
         /\ \A p \in DOMAIN new : \/ (p \in DOMAIN kept /\ new[p] = kept[p])
                                  \/ /\ p = xlog[k].path /\ new[p] = xlog[k].ts
                                     /\ Codex!Plausible(xlog[k].ts, now)
  <1> DEFINE path == xlog[k].path
             t == xlog[k].ts
             good == Codex!Plausible(t, now)
             new == DedupLine(kept, k, now)
             D == DOMAIN kept \cup {path}
             put == [p \in D |-> IF p = path THEN t ELSE kept[p]]
  <1>1. path \in Paths /\ t \in Times /\ t \in Nat
    BY CodexLine
  <1>2. /\ DOMAIN kept \in SUBSET Paths /\ kept \in [DOMAIN kept -> Times]
        /\ \A p \in DOMAIN kept : kept[p] \in Times
    BY KeptHas
  <1>3. \A p \in DOMAIN kept : kept[p] \in Nat
    BY <1>2, LogsAssumption
  <1>4. \/ new = kept /\ (~good \/ (path \in DOMAIN kept /\ t <= kept[path]))
        \/ new = put /\ good /\ (path \in DOMAIN kept => ~(t <= kept[path]))
    <2> HIDE DEF put
    <2>1. ~good \/ (path \in DOMAIN kept /\ t <= kept[path]) => new = kept
      BY Zenon DEF DedupLine
    <2>2. ~(~good \/ (path \in DOMAIN kept /\ t <= kept[path])) => new = put
      BY Zenon DEF DedupLine, put
    <2> QED
      BY <2>1, <2>2
  <1>5. put \in Kept
    <2>1. D \in SUBSET Paths
      BY <1>1, <1>2
    <2>2. put \in [D -> Times]
      BY <1>1, <1>2
    <2> HIDE DEF put, D
    <2> QED
      BY <2>1, <2>2, KeptIs
  <1>6. DOMAIN put = D /\ put[path] = t /\ \A p \in DOMAIN kept : p # path => put[p] = kept[p]
    OBVIOUS
  <1>7. D = DOMAIN kept \cup {path}
    OBVIOUS
  <1> HIDE DEF put, D, new, good, path, t
  <1>8. CASE new = kept /\ (~good \/ (path \in DOMAIN kept /\ t <= kept[path]))
    BY <1>1, <1>3, <1>8 DEF new, good, path, t
  <1>9. CASE new = put /\ good /\ (path \in DOMAIN kept => ~(t <= kept[path]))
    <2>1. ASSUME NEW p \in DOMAIN kept
          PROVE  p \in DOMAIN new /\ new[p] >= kept[p]
      <3>1. kept[p] \in Nat
        BY <1>3
      <3>2. CASE p = path
        BY <1>1, <1>6, <1>7, <1>9, <3>1, <3>2
      <3>3. CASE p # path
        BY <1>6, <1>7, <1>9, <3>1, <3>3
      <3> QED
        BY <3>2, <3>3
    <2>2. path \in DOMAIN new /\ new[path] >= t
      BY <1>1, <1>6, <1>7, <1>9
    <2>3. ASSUME NEW p \in DOMAIN new
          PROVE  (p \in DOMAIN kept /\ new[p] = kept[p]) \/ (p = path /\ new[p] = t)
      BY <1>6, <1>7, <1>9, <2>3
    <2> QED
      BY <1>5, <1>9, <2>1, <2>2, <2>3 DEF new, good, path, t
  <1> QED
    BY <1>4, <1>8, <1>9

\* The values of the dedup of the lines ks one by one.
Dedups(n, ks, now) ==
  {acc \in [0 .. n -> Kept] :
     /\ acc[0] = <<>>
     /\ \A i \in 1 .. n : acc[i] = DedupLine(acc[i - 1], ks[i], now)
     /\ Codex!Dedup(ks, now) = acc[n]}

LEMMA DedupSteps ==
  ASSUME xlog \in Seq(Codex!Line), NEW n \in Nat, NEW ks \in [1 .. n -> 1 .. Len(xlog)],
         NEW now
  PROVE  Dedups(n, ks, now) # {}
  <1> DEFINE G == [xi \in Kept \X (1 .. n) |-> DedupLine(xi[1], ks[xi[2]], now)]
             skipped(kept, l) == \/ ~Codex!Plausible(l.ts, now)
                                 \/ l.path \in DOMAIN kept /\ l.ts <= kept[l.path]
             step(kept, k) == IF skipped(kept, xlog[k]) THEN kept
                              ELSE Codex!Insert(kept, xlog[k])
             Folds(h) == h = [s \in SUBSET (DOMAIN ks) |->
                                IF s = {} THEN <<>> ELSE step(h[s \ {Max(s)}], ks[Max(s)])]
  <1>1. <<>> \in Kept
    <2>1. <<>> \in [{} -> Times]
      OBVIOUS
    <2>2. {} \in SUBSET Paths
      OBVIOUS
    <2> QED
      BY <2>1, <2>2, KeptIs
  <1>2. G \in [Kept \X (1 .. n) -> Kept]
    <2> SUFFICES ASSUME NEW xi \in Kept \X (1 .. n)
                 PROVE  DedupLine(xi[1], ks[xi[2]], now) \in Kept
      BY Zenon
    <2>1. xi[1] \in Kept /\ xi[2] \in 1 .. n
      OBVIOUS
    <2>2. ks[xi[2]] \in 1 .. Len(xlog)
      BY <2>1
    <2> QED
      BY <2>1, <2>2, DedupLineKeeps
  <1>3. \A kept, k : step(kept, k) = DedupLine(kept, k, now)
    BY Zenon DEF DedupLine, Codex!Insert
  <1>4. DOMAIN ks = 1 .. n
    OBVIOUS
  <1>5. Codex!Dedup(ks, now) = (CHOOSE h : Folds(h))[DOMAIN ks]
    BY DEF Codex!Dedup, Codex!FoldLeft, Codex!MapThenFoldSet, Codex!Max, Max
  <1>6. ASSUME NEW acc \in Kept, NEW i \in 1 .. n
        PROVE  G[<<acc, i>>] = DedupLine(acc, ks[i], now)
    <2>1. <<acc, i>> \in Kept \X (1 .. n) /\ <<acc, i>>[1] = acc /\ <<acc, i>>[2] = i
      OBVIOUS
    <2> QED
      BY <2>1, Zenon
  <1> HIDE DEF step, G
  <1>7. FoldsOf(n, Kept, <<>>, G) # {}
    BY <1>1, <1>2, FoldExists
  <1>8. PICK g \in [SUBSET (1 .. n) -> Kept] :
          \A s \in SUBSET (1 .. n) :
            g[s] = IF s = {} THEN <<>> ELSE G[<<g[s \ {Max(s)}], Max(s)>>]
    BY <1>7 DEF FoldsOf
  <1>9. Folds(g)
    <2>1. ASSUME NEW s \in SUBSET (1 .. n), s # {}
          PROVE  g[s] = step(g[s \ {Max(s)}], ks[Max(s)])
      <3>1. Max(s) \in s
        BY <2>1, MaxOfIndices
      <3>2. Max(s) \in 1 .. n /\ g[s \ {Max(s)}] \in Kept
        BY <3>1
      <3>3. G[<<g[s \ {Max(s)}], Max(s)>>] = DedupLine(g[s \ {Max(s)}], ks[Max(s)], now)
        BY <1>6, <3>2
      <3> QED
        BY <1>3, <1>8, <2>1, <3>3
    <2>2. g = [s \in SUBSET (1 .. n) |-> g[s]]
      OBVIOUS
    <2> QED
      BY <1>4, <1>8, <2>1, <2>2
  <1>10. PICK h : Folds(h) /\ Codex!Dedup(ks, now) = h[1 .. n]
    <2> HIDE DEF Folds
    <2> QED
      BY <1>4, <1>5, <1>9, Zenon
  <1>11. TakesSteps(h, n, Kept, <<>>, G)
    <2>1. {} \in SUBSET (1 .. n) /\ h[{}] = <<>>
      BY <1>4, <1>10
    <2>2. ASSUME NEW s \in SUBSET (1 .. n), s # {}, h[s \ {Max(s)}] \in Kept
          PROVE  h[s] = G[<<h[s \ {Max(s)}], Max(s)>>]
      <3>1. Max(s) \in 1 .. n
        BY <2>2, MaxOfIndices
      <3>2. h[s] = step(h[s \ {Max(s)}], ks[Max(s)])
        BY <1>4, <1>10, <2>2
      <3> QED
        BY <1>3, <1>6, <2>2, <3>1, <3>2
    <2> QED
      BY <2>1, <2>2 DEF TakesSteps
  <1> HIDE DEF Folds
  <1>12. PICK acc \in StepsOf(n, Kept, <<>>, G) : h[1 .. n] = acc[n]
    <2>1. StepsTo(h[1 .. n], n, Kept, <<>>, G) # {}
      BY <1>1, <1>2, <1>11, FoldSteps
    <2> QED
      BY <2>1 DEF StepsTo
  <1>13. acc \in [0 .. n -> Kept] /\ acc[0] = <<>>
         /\ \A i \in 1 .. n : acc[i] = G[<<acc[i - 1], i>>]
    BY <1>12 DEF StepsOf
  <1>14. ASSUME NEW i \in 1 .. n
         PROVE  acc[i] = DedupLine(acc[i - 1], ks[i], now)
    <2>1. i - 1 \in 0 .. n
      OBVIOUS
    <2>2. acc[i - 1] \in Kept
      BY <1>13, <2>1
    <2> QED
      BY <1>6, <1>13, <2>2
  <1>15. acc \in Dedups(n, ks, now)
    BY <1>10, <1>12, <1>13, <1>14 DEF Dedups
  <1> QED
    BY <1>15

\* Each path of a plausible line is kept, with a time as late as the line's.
Keeps(kept, k, now) ==
  Codex!Plausible(xlog[k].ts, now) => /\ xlog[k].path \in DOMAIN kept
                                      /\ kept[xlog[k].path] >= xlog[k].ts

\* What is kept for path p is line k, and that was plausible.
KeptOf(kept, p, k, now) == /\ p = xlog[k].path /\ kept[p] = xlog[k].ts
                           /\ Codex!Plausible(xlog[k].ts, now)

LEMMA DedupKeeps ==
  ASSUME xlog \in Seq(Codex!Line), NEW n \in Nat, NEW ks \in [1 .. n -> 1 .. Len(xlog)],
         NEW now
  PROVE  /\ Codex!Dedup(ks, now) \in Kept
         /\ \A i \in 1 .. n : Keeps(Codex!Dedup(ks, now), ks[i], now)
         /\ \A p \in DOMAIN Codex!Dedup(ks, now) :
              \E i \in 1 .. n : KeptOf(Codex!Dedup(ks, now), p, ks[i], now)
  <1>1. PICK acc \in [0 .. n -> Kept] :
          /\ acc[0] = <<>>
          /\ \A i \in 1 .. n : acc[i] = DedupLine(acc[i - 1], ks[i], now)
          /\ Codex!Dedup(ks, now) = acc[n]
    <2>1. Dedups(n, ks, now) # {}
      BY DedupSteps
    <2> QED
      BY <2>1 DEF Dedups
  <1> DEFINE All(i) == \A j \in 1 .. i : Keeps(acc[i], ks[j], now)
             Only(i) == \A p \in DOMAIN acc[i] : \E j \in 1 .. i : KeptOf(acc[i], p, ks[j], now)
             S == {i \in Nat : i <= n => All(i) /\ Only(i)}
  <1>2. 0 \in S
    <2>1. DOMAIN acc[0] = {}
      BY <1>1
    <2> QED
      BY <2>1
  <1>3. ASSUME NEW i \in Nat, i \in S
        PROVE  i + 1 \in S
    <2> SUFFICES ASSUME i + 1 <= n
                 PROVE  All(i + 1) /\ Only(i + 1)
      OBVIOUS
    <2>1. i <= n /\ i \in 0 .. n /\ i + 1 \in 1 .. n /\ (i + 1) - 1 = i /\ i + 1 \in 0 .. n
          /\ All(i) /\ Only(i)
      BY <1>3
    <2> DEFINE old == acc[i]
               new == acc[i + 1]
               k == ks[i + 1]
    <2>2. old \in Kept /\ k \in 1 .. Len(xlog) /\ new = DedupLine(old, k, now)
      BY <1>1, <2>1
    <2> HIDE DEF old, new, k
    <2>5. /\ new \in Kept
          /\ \A p \in DOMAIN old : p \in DOMAIN new /\ new[p] >= old[p]
          /\ Codex!Plausible(xlog[k].ts, now) => /\ xlog[k].path \in DOMAIN new
                                                 /\ new[xlog[k].path] >= xlog[k].ts
          /\ \A p \in DOMAIN new : \/ (p \in DOMAIN old /\ new[p] = old[p])
                                   \/ KeptOf(new, p, k, now)
      BY <2>2, DedupLineKeeps DEF KeptOf
    <2>6. ASSUME NEW j \in 1 .. i + 1
          PROVE  Keeps(acc[i + 1], ks[j], now)
      <3> DEFINE l == ks[j]
      <3>1. j \in 1 .. n /\ l \in 1 .. Len(xlog) /\ (j = i + 1 \/ j \in 1 .. i)
        BY <2>1
      <3>2. j = i + 1 => l = k
        BY DEF k
      <3>3. j \in 1 .. i => Keeps(old, l, now)
        BY <2>1 DEF old
      <3> HIDE DEF l
      <3>4. CASE j = i + 1
        BY <2>5, <3>2, <3>4 DEF Keeps, new, l
      <3>5. CASE j \in 1 .. i
        <4> SUFFICES ASSUME Codex!Plausible(xlog[l].ts, now)
                     PROVE  xlog[l].path \in DOMAIN new /\ new[xlog[l].path] >= xlog[l].ts
          BY DEF Keeps, new, l
        <4> DEFINE p == xlog[l].path
                   t == xlog[l].ts
                   a == old[p]
                   b == new[p]
        <4>1. p \in DOMAIN old /\ a >= t
          BY <3>3, <3>5 DEF Keeps
        <4>2. p \in DOMAIN new /\ b >= a
          BY <2>5, <4>1
        <4>3. a \in Times /\ b \in Times
          BY <2>2, <2>5, <4>1, <4>2, KeptHas
        <4>4. t \in Nat
          BY <3>1, CodexLine
        <4>5. a \in Nat /\ b \in Nat
          BY <4>3, LogsAssumption
        <4> HIDE DEF a, b, t, p
        <4>6. b >= t
          BY <4>1, <4>2, <4>4, <4>5
        <4> QED
          BY <4>2, <4>6 DEF a, b, t, p
      <3> QED
        BY <3>1, <3>4, <3>5
    <2>7. ASSUME NEW p \in DOMAIN acc[i + 1]
          PROVE  \E j \in 1 .. i + 1 : KeptOf(acc[i + 1], p, ks[j], now)
      <3>1. CASE p \in DOMAIN old /\ new[p] = old[p]
        <4>1. PICK j \in 1 .. i : KeptOf(old, p, ks[j], now)
          BY <2>1, <3>1 DEF old
        <4>2. KeptOf(new, p, ks[j], now) /\ j \in 1 .. i + 1
          BY <3>1, <4>1 DEF KeptOf
        <4> QED
          BY <4>2 DEF new
      <3>2. CASE KeptOf(new, p, k, now)
        BY <3>2 DEF new, k
      <3> QED
        BY <2>5, <3>1, <3>2 DEF new
    <2> QED
      BY <2>6, <2>7
  <1>4. Nat \subseteq S
    <2> HIDE DEF S
    <2> QED
      BY <1>2, <1>3, NatInductionOn
  <1>5. n \in S /\ n \in 0 .. n
    BY <1>4
  <1> QED
    BY <1>1, <1>5

LEMMA SameOrder == \A S : Codex!Ascending(S) = Ascending(S)
  BY Zenon DEF Codex!Ascending, Codex!Arranged, Codex!Cardinality, Ascending, Arranged,
               Cardinality

\* What a read of a session file at a time of the clock adds to what is reported.
Taken == LinesBetween(Codex!StartOffset, xsize)

LEMMA CodexReadGives ==
  ASSUME CodexInv, NEW now \in Clock, Codex!Read(now)
  PROVE  \E new \in SUBSET Codex!Line :
           /\ xreported' = (IF Codex!StartOffset = 0 THEN {} ELSE xreported) \cup new
           /\ \A k \in Taken : Codex!Plausible(xlog[k].ts, now) =>
                \E e \in new : e.path = xlog[k].path /\ e.ts >= xlog[k].ts
           /\ \A e \in new : /\ \E k \in Taken : e = xlog[k]
                              /\ Codex!Plausible(e.ts, now)
  <1> DEFINE from == Codex!StartOffset
             lines == LinesBetween(from, xsize)
             N == Cardinality(lines)
             ks == Ascending(lines)
             latest == Codex!Dedup(ks, now)
             new == {[path |-> p, ts |-> latest[p]] : p \in DOMAIN latest}
  <1>1. /\ xlog \in Seq(Codex!Line) /\ Len(xlog) \in Nat /\ xsize \in 0 .. LineEnd(Len(xlog))
        /\ from \in Nat
    BY CodexFileEnd DEF CodexInv, CodexPositioned, Codex!StartOffset
  <1>2. TakenInOrder(lines, Len(xlog)) /\ lines \subseteq 1 .. Len(xlog)
    <2> HIDE DEF from
    <2> QED
      BY <1>1, LinesInOrder, LinesThere
  <1>3. /\ N \in 0 .. Len(xlog) /\ ks \in [1 .. N -> 1 .. Len(xlog)]
        /\ \A k \in lines : \E i \in 1 .. N : ks[i] = k
        /\ \A i \in 1 .. N : ks[i] \in lines
    BY <1>2 DEF TakenInOrder
  <1>4. xreported' = (IF from = 0 THEN {} ELSE xreported) \cup new
    <2>1. Codex!LinesBetween(from, xsize) = lines /\ Codex!Ascending(lines) = ks
      BY SameFile, SameOrder
    <2> HIDE DEF from, lines, ks
    <2> QED
      BY <2>1 DEF Codex!Read, from
  <1> HIDE DEF lines, N, ks, from
  <1>5. /\ latest \in Kept
        /\ \A i \in 1 .. N : Keeps(latest, ks[i], now)
        /\ \A p \in DOMAIN latest : \E i \in 1 .. N : KeptOf(latest, p, ks[i], now)
    <2>1. N \in Nat
      BY <1>1, <1>3
    <2> HIDE DEF latest
    <2>2. latest = Codex!Dedup(ks, now)
      BY DEF latest
    <2> QED
      BY <1>1, <1>3, <2>1, <2>2, DedupKeeps
  <1> HIDE DEF latest
  <1>6. new \in SUBSET Codex!Line
    BY <1>5, KeptHas DEF Codex!Line
  <1>7. ASSUME NEW k \in lines, Codex!Plausible(xlog[k].ts, now)
        PROVE  \E e \in new : e.path = xlog[k].path /\ e.ts >= xlog[k].ts
    <2>1. Keeps(latest, k, now)
      BY <1>3, <1>5
    <2>2. xlog[k].path \in DOMAIN latest /\ latest[xlog[k].path] >= xlog[k].ts
      BY <1>7, <2>1 DEF Keeps
    <2> DEFINE e == [path |-> xlog[k].path, ts |-> latest[xlog[k].path]]
    <2>3. e \in new /\ e.path = xlog[k].path /\ e.ts = latest[xlog[k].path]
      BY <2>2
    <2> QED
      BY <2>2, <2>3
  <1>8. ASSUME NEW p \in DOMAIN latest
        PROVE  /\ \E k \in lines : [path |-> p, ts |-> latest[p]] = xlog[k]
               /\ Codex!Plausible(latest[p], now)
    <2>1. PICK i \in 1 .. N : KeptOf(latest, p, ks[i], now)
      BY <1>5
    <2>2. ks[i] \in lines /\ ks[i] \in 1 .. Len(xlog)
      BY <1>3
    <2>3. xlog[ks[i]] = [path |-> xlog[ks[i]].path, ts |-> xlog[ks[i]].ts]
      BY <1>1, <2>2, CodexLine
    <2> QED
      BY <2>1, <2>2, <2>3 DEF KeptOf
  <1>9. \A e \in new : (\E k \in lines : e = xlog[k]) /\ Codex!Plausible(e.ts, now)
    BY <1>8
  <1> HIDE DEF new
  <1> QED
    BY <1>4, <1>6, <1>7, <1>9 DEF Taken, lines, from

\* The types after a read.
LEMMA CodexReadTypes ==
  ASSUME CodexInv, CodexTypes, NEW now \in Clock, Codex!Read(now)
  PROVE  CodexTypes'
  <1> DEFINE from == Codex!StartOffset
  <1>1. /\ xlog \in Seq(Codex!Line) /\ Len(xlog) \in Nat /\ xsize \in 0 .. LineEnd(Len(xlog))
        /\ from \in Nat
    BY CodexFileEnd DEF CodexInv, CodexPositioned, Codex!StartOffset
  <1>2. Taken \subseteq 1 .. Len(xlog) /\ (Cuts(xsize) => LineAt(xsize) \in 1 .. Len(xlog))
    <2> HIDE DEF from
    <2> QED
      BY <1>1, LinesThere DEF Taken, from
  <1>3. /\ xparsed' = (IF from = 0 THEN {} ELSE xparsed) \cup Taken
        /\ xtorn' = (IF from = 0 THEN {} ELSE xtorn)
                      \cup (IF Cuts(xsize) THEN {LineAt(xsize)} ELSE {})
        /\ xoffset' = xlooked /\ UNCHANGED <<xlog, xsize, xtruncs, xlooked>>
    BY SameFile DEF Codex!Read, Taken
  <1>4. 1 .. Len(xlog) \subseteq 1 .. MaxLines
    BY <1>1, ClaudeAssumption DEF CodexTypes
  <1>5. xparsed' \subseteq 1 .. MaxLines /\ xtorn' \subseteq 1 .. MaxLines
    BY <1>2, <1>3, <1>4 DEF CodexTypes
  <1>6. xreported' \subseteq Codex!Line
    <2>1. PICK new \in SUBSET Codex!Line :
            xreported' = (IF from = 0 THEN {} ELSE xreported) \cup new
      BY CodexReadGives
    <2> QED
      BY <2>1 DEF CodexTypes
  <1> QED
    BY <1>3, <1>5, <1>6 DEF CodexTypes

LEMMA CodexTypesStart == Codex!Init => CodexTypes
  <1> SUFFICES ASSUME Codex!Init
               PROVE  CodexTypes
    OBVIOUS
  <1>1. LineEnd(MaxLines) \in Nat
    <2>1. MaxLines = 0 => LineEnd(MaxLines) = 0
      BY WidthAssumption DEF LineEnd, BodyEnd, LineStart
    <2> QED
      BY <2>1, Positions, ClaudeAssumption
  <1>2. xlog = <<>> /\ xreported = {} /\ Len(xlog) = 0
    BY DEF Codex!Init
  <1> QED
    BY <1>1, <1>2, ClaudeAssumption, LogsAssumption DEF Codex!Init, CodexTypes

LEMMA CodexTypesStep == CodexInv /\ CodexTypes /\ [Codex!Next]_xVars => CodexTypes'
  <1> SUFFICES ASSUME CodexInv, CodexTypes, [Codex!Next]_xVars
               PROVE  CodexTypes'
    OBVIOUS
  <1>0. Len(xlog) \in Nat /\ xsize \in 0 .. LineEnd(Len(xlog)) /\ MaxLines \in Nat
    BY CodexFileEnd, ClaudeAssumption DEF CodexInv, CodexPositioned
  <1>1. CASE \E l \in Codex!Line : Codex!StartLine(l)
    <2>1. PICK l \in Codex!Line : Codex!StartLine(l)
      BY <1>1
    <2>2. Len(xlog') = Len(xlog) + 1 /\ Len(xlog) < MaxLines
      BY <2>1 DEF Codex!StartLine, CodexInv, CodexPositioned
    <2>3. UNCHANGED <<xtruncs, xlooked, xoffset, xreported, xparsed, xtorn>>
      BY <2>1 DEF Codex!StartLine, Codex!WriteBytes
    <2> QED
      BY <1>0, <2>2, <2>3 DEF CodexTypes
  <1>2. CASE Codex!ContinueLine
    BY <1>2 DEF Codex!ContinueLine, Codex!WriteBytes, CodexTypes
  <1>3. CASE Codex!Truncate
    BY <1>0, <1>3, LogsAssumption DEF Codex!Truncate, CodexTypes
  <1>4. CASE Codex!Look
    <2>1. LineEnd(Len(xlog)) <= LineEnd(MaxLines) /\ LineEnd(MaxLines) \in Int
      <3>1. LineEnd(MaxLines) \in Int /\ LineEnd(Len(xlog)) \in Int
        BY <1>0, WidthAssumption DEF LineEnd, BodyEnd, LineStart
      <3>2. Len(xlog) = 0 => LineEnd(Len(xlog)) = 0
        BY WidthAssumption DEF LineEnd, BodyEnd, LineStart
      <3>3. MaxLines # 0 => LineEnd(MaxLines) \in Nat
        BY <1>0, Positions
      <3>4. MaxLines = 0 => LineEnd(MaxLines) = 0
        BY WidthAssumption DEF LineEnd, BodyEnd, LineStart
      <3>5. Len(xlog) # 0 => LineEnd(Len(xlog)) <= LineEnd(MaxLines)
        <4>1. Len(xlog) <= MaxLines
          BY DEF CodexTypes
        <4> QED
          BY <1>0, <4>1, LineStarts
      <3> QED
        BY <3>1, <3>2, <3>3, <3>4, <3>5
    <2>2. xlooked' \in 0 .. LineEnd(MaxLines)
      BY <1>0, <1>4, <2>1, CodexFileEnd DEF Codex!Look, CodexInv
    <2> QED
      BY <1>4, <2>2 DEF Codex!Look, CodexTypes
  <1>5. CASE \E now \in Clock : Codex!Read(now)
    BY <1>5, CodexReadTypes
  <1>6. CASE UNCHANGED xVars
    BY <1>6 DEF xVars, CodexTypes
  <1> QED
    BY <1>1, <1>2, <1>3, <1>4, <1>5, <1>6 DEF Codex!Next

LEMMA CodexTypesSuffice == CodexInv /\ CodexTypes => Codex!CodexTypeOK
  BY SameFile DEF CodexInv, CodexPositioned, CodexTypes, Codex!CodexTypeOK

\* What is reported is right for the lines parsed: a line that is plausible whenever it may
\* be read is covered, and nothing is reported but these lines.
ReportsParsed ==
  /\ xparsed \subseteq 1 .. Len(xlog)
  /\ \A k \in xparsed : (\A now \in Clock : Codex!Plausible(xlog[k].ts, now)) =>
       \E e \in xreported : e.path = xlog[k].path /\ e.ts >= xlog[k].ts
  /\ \A e \in xreported : \E k \in xparsed : e = xlog[k]

\* It is so between reads, and during one that goes on from the offset.
ReportInv ==
  /\ ~xunnoticed /\ (xpc = "idle" \/ (xoffset > 0 /\ xoffset <= xlooked)) => ReportsParsed
  /\ \A e \in xreported : \E now \in Clock : Codex!Plausible(e.ts, now)

LEMMA ReportStart == Codex!Init => ReportInv
  BY DEF Codex!Init, ReportInv, ReportsParsed

LEMMA ReportReadStep ==
  ASSUME CodexInv, ReportInv, NEW now \in Clock, Codex!Read(now)
  PROVE  ReportInv'
  <1> DEFINE from == Codex!StartOffset
             old == IF from = 0 THEN {} ELSE xreported
             before == IF from = 0 THEN {} ELSE xparsed
  <1>1. PICK new \in SUBSET Codex!Line :
          /\ xreported' = old \cup new
          /\ \A k \in Taken : Codex!Plausible(xlog[k].ts, now) =>
               \E e \in new : e.path = xlog[k].path /\ e.ts >= xlog[k].ts
          /\ \A e \in new : (\E k \in Taken : e = xlog[k]) /\ Codex!Plausible(e.ts, now)
    BY CodexReadGives
  <1>2. /\ xpc = "read" /\ xparsed' = before \cup Taken
        /\ UNCHANGED <<xlog, xunnoticed>>
    BY SameFile DEF Codex!Read, Taken
  <1>3. Taken \subseteq 1 .. Len(xlog)
    <2>1. Len(xlog) \in Nat /\ xsize \in 0 .. LineEnd(Len(xlog)) /\ from \in Nat
      BY CodexFileEnd DEF CodexInv, CodexPositioned, Codex!StartOffset
    <2> HIDE DEF from
    <2> QED
      BY <2>1, LinesThere DEF Taken, from
  <1>4. \A e \in xreported' : \E t \in Clock : Codex!Plausible(e.ts, t)
    BY <1>1 DEF ReportInv
  <1>5. ASSUME ~xunnoticed
        PROVE  /\ before \subseteq 1 .. Len(xlog)
               /\ \A k \in before : (\A t \in Clock : Codex!Plausible(xlog[k].ts, t)) =>
                    \E e \in old : e.path = xlog[k].path /\ e.ts >= xlog[k].ts
               /\ \A e \in old : \E k \in before : e = xlog[k]
    <2>1. CASE from = 0
      BY <2>1
    <2>2. CASE from # 0
      <3>1. xoffset > 0 /\ xoffset <= xlooked
        BY <2>2 DEF Codex!StartOffset, CodexInv, CodexPositioned
      <3> QED
        BY <1>5, <2>2, <3>1 DEF ReportInv, ReportsParsed
    <2> QED
      BY <2>1, <2>2
  <1> HIDE DEF old, before, from
  <1>6. ASSUME ~xunnoticed
        PROVE  ReportsParsed'
    BY <1>1, <1>2, <1>3, <1>5, <1>6 DEF ReportsParsed, Codex!Plausible
  <1> QED
    BY <1>2, <1>4, <1>6 DEF ReportInv, Codex!Plausible

\* A file that grows keeps its lines; one whose truncation went unnoticed until now is read
\* whole.
LEMMA ReportStep == CodexInv /\ ReportInv /\ [Codex!Next]_xVars => ReportInv'
  <1> SUFFICES ASSUME CodexInv, ReportInv, [Codex!Next]_xVars
               PROVE  ReportInv'
    OBVIOUS
  <1>1. CASE \E l \in Codex!Line : Codex!StartLine(l)
    <2>1. PICK l \in Codex!Line : Codex!StartLine(l)
      BY <1>1
    <2>2. /\ Len(xlog) \in Nat /\ Len(xlog') = Len(xlog) + 1
          /\ \A k \in 1 .. Len(xlog) : xlog'[k] = xlog[k]
      BY <2>1 DEF Codex!StartLine, CodexInv, CodexPositioned
    <2>3. UNCHANGED <<xpc, xlooked, xoffset, xreported, xparsed, xunnoticed>>
      BY <2>1 DEF Codex!StartLine, Codex!WriteBytes
    <2>4. ReportsParsed => ReportsParsed'
      BY <2>2, <2>3 DEF ReportsParsed, Codex!Plausible
    <2> QED
      BY <2>3, <2>4 DEF ReportInv, Codex!Plausible
  <1>2. CASE Codex!ContinueLine
    BY <1>2 DEF Codex!ContinueLine, Codex!WriteBytes, ReportInv, ReportsParsed, Codex!Plausible
  <1>3. CASE Codex!Truncate
    BY <1>3 DEF Codex!Truncate, ReportInv, Codex!Plausible
  <1>4. CASE Codex!Look
    <2>1. xsize \in Nat /\ xoffset \in Nat /\ xpc = "idle"
      BY <1>4, CodexFileEnd DEF Codex!Look, CodexInv, CodexPositioned
    <2>2. ~xunnoticed => ReportsParsed
      BY <2>1 DEF ReportInv
    <2>3. UNCHANGED <<xlog, xreported, xparsed, xoffset>> /\ xlooked' = xsize
          /\ xunnoticed' = (xunnoticed /\ xoffset > 0 /\ xsize > xoffset)
          /\ (xoffset = 0 \/ xsize # xoffset) /\ xpc' = "read"
      BY <1>4 DEF Codex!Look
    <2>4. ~xunnoticed' /\ xoffset > 0 /\ xoffset <= xlooked' => ~xunnoticed
      <3> SUFFICES ASSUME xoffset > 0, xoffset <= xlooked', xunnoticed
                   PROVE  xunnoticed'
        OBVIOUS
      <3>1. xsize > xoffset
        BY <2>1, <2>3
      <3> QED
        BY <2>3, <3>1
    <2>5. ReportsParsed => ReportsParsed'
      BY <2>3 DEF ReportsParsed, Codex!Plausible
    <2> QED
      BY <2>2, <2>3, <2>4, <2>5 DEF ReportInv, Codex!Plausible
  <1>5. CASE \E now \in Clock : Codex!Read(now)
    BY <1>5, ReportReadStep
  <1>6. CASE UNCHANGED xVars
    BY <1>6 DEF xVars, ReportInv, ReportsParsed, Codex!Plausible
  <1> QED
    BY <1>1, <1>2, <1>3, <1>4, <1>5, <1>6 DEF Codex!Next

LEMMA ReportSuffices == CodexInv /\ ReportInv => Codex!LatestReported
  <1> SUFFICES ASSUME CodexInv, ReportInv, xpc = "idle", ~xunnoticed
               PROVE  Codex!LatestReported
    BY DEF Codex!LatestReported
  <1>1. ReportsParsed
    BY DEF ReportInv
  <1>2. \A k \in 1 .. Len(xlog) : BodyEnd(k) <= xoffset => k \in xparsed \cup xtorn
    BY CodexSuffices, SameFile DEF Codex!PassedWasParsed
  <1> QED
    BY <1>1, <1>2, SameFile DEF Codex!LatestReported, ReportsParsed, ReportInv

-----------------------------------------------------------------------------
(* The theorems *)

LogsInv == ClaudeInv /\ HistoryInv /\ CodexInv /\ CodexTypes /\ ReportInv

LEMMA LogsStart == MCInit => LogsInv
  BY ClaudeStart, HistoryStart, CodexStart, CodexTypesStart, ReportStart DEF MCInit, LogsInv

LEMMA EachReaderSteps ==
  [MCNext]_<<reader, claudeVars, xVars>> => [Next]_claudeVars /\ [Codex!Next]_xVars
  BY DEF MCNext, ClaudeNext, CodexNext

LEMMA LogsStep == LogsInv /\ [MCNext]_<<reader, claudeVars, xVars>> => LogsInv'
  BY EachReaderSteps, ClaudeStep, HistoryStep, CodexStep, CodexTypesStep, ReportStep DEF LogsInv

LEMMA LogsInvariant == MCSpec => []LogsInv
  BY LogsStart, LogsStep, PTL DEF MCSpec

\* Both readers keep their types: no time lies ahead of the one seen, the offset of a session
\* file is a size that was seen, only a path that was seen is taken for a created one.
THEOREM LogsTypeCorrect == MCSpec => []LogsTypeOK
  <1>1. LogsInv => LogsTypeOK
    BY HistorySuffices, CodexTypesSuffice DEF LogsInv, LogsTypeOK
  <1> QED
    BY <1>1, LogsInvariant, PTL

\* However events.jsonl grows or is replaced between the look at it and the read of its
\* content, a whole line the cursor has passed was parsed or torn.
THEOREM ClaudeMissesNoLine == MCSpec => []LostOnlyIfTorn
  <1>1. LogsInv => LostOnlyIfTorn
    BY ClaudeSuffices DEF LogsInv
  <1> QED
    BY <1>1, LogsInvariant, PTL

\* No event is dated after the file was last written, whatever sessions its lines are of and
\* wherever they are cut into reads.
THEOREM ClaudeDatesNothingAhead == MCSpec => []NotInFuture
  <1>1. LogsInv => NotInFuture
    BY HistorySuffices DEF LogsInv
  <1> QED
    BY <1>1, LogsInvariant, PTL

\* A path is reported as created or as modified, never as both.
THEOREM ClaudeLifecycles == MCSpec => []LifecycleStable
  <1>1. LogsInv => LifecycleStable
    BY HistorySuffices DEF LogsInv
  <1> QED
    BY <1>1, LogsInvariant, PTL

\* Each line is reported once, in the order of the file.
THEOREM ClaudeReadsOnce == MCSpec => OnceInOrder
  <1>1. LogsInv /\ [MCNext]_<<reader, claudeVars, xVars>> =>
          [pc = "read" /\ pc' = "idle" =>
             /\ \A m, n \in DOMAIN batch' : m < n => batch'[m].line < batch'[n].line
             /\ \A n \in DOMAIN batch' : <<inode, batch'[n].line>> \notin parsed]_claudeVars
    BY EachReaderSteps, ReadsOnceInOrder DEF LogsInv
  <1> QED
    BY <1>1, LogsInvariant, PTL DEF MCSpec, OnceInOrder

\* However a session file grows between the look at its size and the read of its content,
\* and wherever it was truncated, a whole line the offset has passed was parsed or torn.
THEOREM CodexMissesNoLine == MCSpec => []PassedWasParsed
  <1>1. LogsInv => PassedWasParsed
    BY CodexSuffices DEF LogsInv, PassedWasParsed
  <1> QED
    BY <1>1, LogsInvariant, PTL

\* However a session file grows, is cut into reads and is truncated, and whatever its lines'
\* times are: what was reported has, for each line before the offset, that line or a later one
\* of its path, and nothing that was from the future or too old when it was read.
THEOREM CodexReportsLatest == MCSpec => []LatestReported
  <1>1. LogsInv => LatestReported
    BY ReportSuffices DEF LogsInv, LatestReported
  <1> QED
    BY <1>1, LogsInvariant, PTL
=============================================================================
