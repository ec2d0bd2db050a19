--------------------------- MODULE HotFilesProofs ---------------------------
(***************************************************************************)
(* Proofs about HotFiles: what the readers of AgentLog return for any      *)
(* contents, and what a refresh makes of it.                               *)
(***************************************************************************)
EXTENDS HotFiles, SequenceLemmas

-----------------------------------------------------------------------------
(* Merge *)

LEMMA PutType ==
  ASSUME NEW E, NEW m \in Seq(E), NEW e \in E
  PROVE  Put(m, e) \in Seq(E)
  <1>1. CASE \E i \in DOMAIN m : SameKey(m[i], e)
    <2>1. Put(m, e) = [i \in 1 .. Len(m) |-> IF SameKey(m[i], e) /\ e.timestamp > m[i].timestamp
                                             THEN e ELSE m[i]]
      BY <1>1 DEF Put
    <2> HIDE DEF SameKey
    <2> QED
      BY <2>1
  <1>2. CASE ~\E i \in DOMAIN m : SameKey(m[i], e)
    BY <1>2 DEF Put
  <1> QED
    BY <1>1, <1>2

LEMMA MergeSteps ==
  ASSUME NEW E, NEW entries \in Seq(E)
  PROVE  \E acc \in [0 .. Len(entries) -> Seq(E)] :
           /\ acc[0] = <<>>
           /\ \A k \in 1 .. Len(entries) : acc[k] = Put(acc[k - 1], entries[k])
           /\ Merge(entries) = acc[Len(entries)]
  <1> DEFINE n == Len(entries)
             X == Seq(E)
             G == [mk \in X \X (1 .. n) |-> Put(mk[1], entries[mk[2]])]
  <1>1. n \in Nat /\ DOMAIN entries = 1 .. n /\ <<>> \in X
    OBVIOUS
  <1>2. G \in [X \X (1 .. n) -> X]
    <2> SUFFICES ASSUME NEW mk \in X \X (1 .. n)
                 PROVE  Put(mk[1], entries[mk[2]]) \in X
      BY Zenon
    <2>1. mk[1] \in Seq(E) /\ entries[mk[2]] \in E
      OBVIOUS
    <2> QED
      BY <2>1, PutType
  <1>3. PICK g \in [SUBSET (1 .. n) -> X] :
          \A s \in SUBSET (1 .. n) :
            g[s] = IF s = {} THEN <<>> ELSE G[<<g[s \ {Max(s)}], Max(s)>>]
    <2> HIDE DEF n, X, G
    <2>1. FoldsOf(n, X, <<>>, G) # {}
      BY <1>1, <1>2, FoldExists
    <2> QED
      BY <2>1 DEF FoldsOf
  <1>4. ASSUME NEW s \in SUBSET (1 .. n), s # {}
        PROVE  g[s] = Put(g[s \ {Max(s)}], entries[Max(s)])
    <2>1. Max(s) \in 1 .. n
      BY <1>1, <1>4, MaxOfIndices
    <2>2. g[s \ {Max(s)}] \in X
      OBVIOUS
    <2> QED
      BY <1>3, <1>4, <2>1, <2>2
  <1> DEFINE Folds(h) == h = [s \in SUBSET (DOMAIN entries) |->
                                IF s = {} THEN <<>> ELSE Put(h[s \ {Max(s)}], entries[Max(s)])]
  <1>5. Folds(g)
    <2> HIDE DEF n, X, G
    <2>1. \A s \in SUBSET (1 .. n) : s = {} => g[s] = <<>>
      BY <1>3
    <2> QED
      BY <1>1, <1>3, <1>4, <2>1
  <1>6. Merge(entries) = (CHOOSE h : Folds(h))[DOMAIN entries]
    BY DEF Merge, FoldLeft, MapThenFoldSet
  <1> HIDE DEF Folds
  <1>7. PICK h : Folds(h) /\ Merge(entries) = h[1 .. n]
    BY <1>1, <1>5, <1>6, Zenon
  <1>8. /\ h[{}] = <<>>
        /\ \A k \in 1 .. n : h[1 .. k] = Put(h[1 .. k - 1], entries[k])
    <2> HIDE DEF n
    <2>1. h[{}] = <<>>
      BY <1>1, <1>7 DEF Folds
    <2>2. ASSUME NEW k \in 1 .. n
          PROVE  h[1 .. k] = Put(h[1 .. k - 1], entries[k])
      <3>1. k \in Nat /\ k > 0 /\ 1 .. k \in SUBSET (1 .. n) /\ k \in 1 .. k
        BY <1>1
      <3>2. Max(1 .. k) = k /\ (1 .. k) \ {k} = 1 .. k - 1
        BY <3>1, MaxOfPrefix
      <3>3. h[1 .. k] = Put(h[(1 .. k) \ {Max(1 .. k)}], entries[Max(1 .. k)])
        BY <1>1, <1>7, <3>1 DEF Folds
      <3> QED
        BY <3>2, <3>3
    <2> QED
      BY <2>1, <2>2
  <1> DEFINE acc == [k \in 0 .. n |-> h[1 .. k]]
  <1>9. acc[0] = <<>> /\ \A k \in 1 .. n : acc[k] = Put(acc[k - 1], entries[k])
    <2>1. 1 .. 0 = {}
      OBVIOUS
    <2> HIDE DEF n
    <2> QED
      BY <1>1, <1>8, <2>1
  <1>10. \A k \in 0 .. n : acc[k] \in Seq(E)
    <2> HIDE DEF acc, n
    <2> DEFINE S == {k \in Nat : k <= n => acc[k] \in Seq(E)}
    <2>1. 0 \in S
      BY <1>1, <1>9
    <2>2. ASSUME NEW k \in Nat, k \in S
          PROVE  k + 1 \in S
      <3> SUFFICES ASSUME k + 1 <= n
                   PROVE  acc[k + 1] \in Seq(E)
        OBVIOUS
      <3>1. acc[k] \in Seq(E) /\ k + 1 \in 1 .. n /\ (k + 1) - 1 = k
        BY <1>1, <2>2
      <3>2. entries[k + 1] \in E
        BY <3>1 DEF n
      <3>3. acc[k + 1] = Put(acc[k], entries[k + 1])
        BY <1>9, <3>1
      <3>4. Put(acc[k], entries[k + 1]) \in Seq(E)
        BY <3>1, <3>2, PutType
      <3> QED
        BY <3>3, <3>4
    <2>3. Nat \subseteq S
      <3> HIDE DEF S
      <3> QED
        BY <2>1, <2>2, NatInductionOn
    <2> QED
      BY <1>1, <2>3
  <1>11. acc \in [0 .. n -> Seq(E)] /\ Merge(entries) = acc[n]
    <2> HIDE DEF n
    <2> QED
      BY <1>1, <1>7, <1>10
  <1> QED
    BY <1>9, <1>11

\* What Merge returns comes from its input, and holds for each input an entry with its key
\* that is not older.
LEMMA MergeKeeps ==
  ASSUME NEW E, NEW entries \in Seq(E), \A e \in E : e.timestamp \in Int
  PROVE  /\ Merge(entries) \in Seq(E)
         /\ ToSet(Merge(entries)) \subseteq ToSet(entries)
         /\ \A e \in ToSet(entries) : \E f \in ToSet(Merge(entries)) :
              SameKey(f, e) /\ f.timestamp >= e.timestamp
  <1> DEFINE n == Len(entries)
  <1>1. PICK acc \in [0 .. n -> Seq(E)] :
          /\ acc[0] = <<>>
          /\ \A k \in 1 .. n : acc[k] = Put(acc[k - 1], entries[k])
          /\ Merge(entries) = acc[n]
    BY MergeSteps
  <1>0. n \in Nat /\ \A k \in 1 .. n : entries[k] \in E
    OBVIOUS
  <1> HIDE DEF n
  <1> DEFINE From(m, k) == \A i \in 1 .. Len(m) : \E j \in 1 .. k : m[i] = entries[j]
             Has(m, k) == \A j \in 1 .. k : \E i \in 1 .. Len(m) :
                            SameKey(m[i], entries[j]) /\ m[i].timestamp >= entries[j].timestamp
             S == {k \in Nat : k <= n => From(acc[k], k) /\ Has(acc[k], k)}
  <1>2. 0 \in S
    BY <1>1
  <1>3. ASSUME NEW k \in Nat, k \in S
        PROVE  k + 1 \in S
    <2> HIDE DEF From, Has
    <2> SUFFICES ASSUME k + 1 <= n
                 PROVE  From(acc[k + 1], k + 1) /\ Has(acc[k + 1], k + 1)
      BY <1>0
    <2> DEFINE m == acc[k]
               r == acc[k + 1]
               e == entries[k + 1]
    <2>1. /\ k \in 0 .. n /\ k + 1 \in 1 .. n /\ (k + 1) - 1 = k
          /\ From(m, k) /\ Has(m, k)
      BY <1>0, <1>3
    <2>2. m \in Seq(E) /\ e \in E /\ r = Put(m, e)
      BY <1>0, <1>1, <2>1
    <2>3. /\ \A i \in 1 .. Len(m) : m[i] \in E /\ m[i].timestamp \in Int
          /\ \A j \in 1 .. n : entries[j].timestamp \in Int
          /\ e.timestamp \in Int
      BY <1>0, <2>2
    <2> HIDE DEF m, r, e
    <2>9. \A j \in 1 .. k + 1 : j \in 1 .. n /\ (j = k + 1 \/ j \in 1 .. k)
      BY <1>0, <2>1
    <2>4. CASE \E i \in DOMAIN m : SameKey(m[i], e)
      <3>1. /\ Len(r) = Len(m) /\ Len(m) \in Nat
            /\ \A i \in 1 .. Len(m) : r[i] = IF SameKey(m[i], e) /\ e.timestamp > m[i].timestamp
                                            THEN e ELSE m[i]
        BY <2>2, <2>4 DEF Put
      <3>2. From(r, k + 1)
        <4> SUFFICES ASSUME NEW i \in 1 .. Len(r)
                     PROVE  \E j \in 1 .. k + 1 : r[i] = entries[j]
          BY DEF From
        <4>1. CASE r[i] = e
          BY <4>1 DEF e
        <4>2. CASE r[i] = m[i]
          BY <2>1, <3>1, <4>2 DEF From
        <4> QED
          BY <3>1, <4>1, <4>2
      <3>3. ASSUME NEW j \in 1 .. k
            PROVE  \E i \in 1 .. Len(r) : /\ SameKey(r[i], entries[j])
                                          /\ r[i].timestamp >= entries[j].timestamp
        <4>1. PICK i \in 1 .. Len(m) : /\ SameKey(m[i], entries[j])
                                       /\ m[i].timestamp >= entries[j].timestamp
          BY <2>1 DEF Has
        <4>2. e.timestamp \in Int /\ m[i].timestamp \in Int /\ entries[j].timestamp \in Int
          BY <2>3, <2>9
        <4>3. CASE r[i] = m[i]
          BY <3>1, <4>1, <4>3
        <4>4. CASE r[i] = e /\ SameKey(m[i], e) /\ e.timestamp > m[i].timestamp
          <5>1. SameKey(e, entries[j])
            BY <4>1, <4>4 DEF SameKey
          <5>2. e.timestamp >= entries[j].timestamp
            BY <4>1, <4>2, <4>4
          <5> QED
            BY <3>1, <4>4, <5>1, <5>2
        <4> QED
          BY <3>1, <4>3, <4>4
      <3>4. \E i \in 1 .. Len(r) : SameKey(r[i], e) /\ r[i].timestamp >= e.timestamp
        <4>0. DOMAIN m = 1 .. Len(m)
          BY <2>2
        <4>1. PICK i \in 1 .. Len(m) : SameKey(m[i], e)
          BY <2>4, <4>0, Zenon
        <4>2. e.timestamp \in Int /\ m[i].timestamp \in Int
          BY <2>1, <2>3
        <4>3. r[i].timestamp >= e.timestamp
          BY <3>1, <4>1, <4>2
        <4>4. SameKey(r[i], e)
          BY <3>1, <4>1 DEF SameKey
        <4> QED
          BY <3>1, <4>3, <4>4
      <3>5. Has(r, k + 1)
        BY <2>9, <3>3, <3>4 DEF Has, e
      <3> QED
        BY <3>2, <3>5 DEF r
    <2>5. CASE ~\E i \in DOMAIN m : SameKey(m[i], e)
      <3>1. r = Append(m, e)
        BY <2>2, <2>5 DEF Put
      <3>2. /\ Len(m) \in Nat /\ Len(r) = Len(m) + 1 /\ r[Len(m) + 1] = e
            /\ \A i \in 1 .. Len(m) : r[i] = m[i]
        BY <2>2, <3>1
      <3>3. From(r, k + 1)
        <4> SUFFICES ASSUME NEW i \in 1 .. Len(r)
                     PROVE  \E j \in 1 .. k + 1 : r[i] = entries[j]
          BY DEF From
        <4>1. CASE i = Len(m) + 1
          BY <3>2, <4>1 DEF e
        <4>2. CASE i \in 1 .. Len(m)
          BY <2>1, <3>2, <4>2 DEF From
        <4> QED
          BY <3>2, <4>1, <4>2
      <3>4. SameKey(e, e) /\ e.timestamp >= e.timestamp
        BY <2>1, <2>3 DEF SameKey
      <3>5. Has(r, k + 1)
        <4> SUFFICES ASSUME NEW j \in 1 .. k + 1
                     PROVE  \E i \in 1 .. Len(r) : /\ SameKey(r[i], entries[j])
                                                   /\ r[i].timestamp >= entries[j].timestamp
          BY DEF Has
        <4>1. CASE j = k + 1
          BY <3>2, <3>4, <4>1 DEF e
        <4>2. CASE j \in 1 .. k
          <5>1. PICK i \in 1 .. Len(m) : /\ SameKey(m[i], entries[j])
                                         /\ m[i].timestamp >= entries[j].timestamp
            BY <2>1, <4>2 DEF Has
          <5>2. i \in 1 .. Len(r) /\ r[i] = m[i]
            BY <3>2
          <5> QED
            BY <5>1, <5>2
        <4> QED
          BY <2>9, <4>1, <4>2
      <3> QED
        BY <3>3, <3>5 DEF r
    <2> QED
      BY <2>4, <2>5
  <1> HIDE DEF From, Has
  <1>4. n \in S
    <2> HIDE DEF S
    <2> QED
      BY <1>0, <1>2, <1>3, NatInductionOn
  <1>5. From(acc[n], n) /\ Has(acc[n], n) /\ Merge(entries) = acc[n] /\ acc[n] \in Seq(E)
    BY <1>0, <1>1, <1>4
  <1>6. /\ ToSet(entries) = {entries[j] : j \in 1 .. n}
        /\ ToSet(Merge(entries)) = {acc[n][i] : i \in 1 .. Len(acc[n])}
    BY <1>5 DEF ToSet, n
  <1>7. ToSet(Merge(entries)) \subseteq ToSet(entries)
    BY <1>5, <1>6 DEF From
  <1>8. \A e \in ToSet(entries) : \E f \in ToSet(Merge(entries)) :
          SameKey(f, e) /\ f.timestamp >= e.timestamp
    BY <1>5, <1>6 DEF Has
  <1> QED
    BY <1>5, <1>7, <1>8

LEMMA MergeInOrderKeeps ==
  ASSUME NEW E, \A e \in E : e.timestamp \in Int,
         NEW K \in SUBSET Int, IsFiniteSet(K), NEW entry \in [K -> E]
  PROVE  /\ MergeInOrder(entry) \in Seq(E)
         /\ ToSet(MergeInOrder(entry)) \subseteq {entry[k] : k \in K}
         /\ \A k \in K : \E f \in ToSet(MergeInOrder(entry)) :
              SameKey(f, entry[k]) /\ f.timestamp >= entry[k].timestamp
  <1> DEFINE N == Cardinality(K)
             place == Ascending(K)
             entries == [n \in DOMAIN place |-> entry[place[n]]]
  <1>1. /\ N \in Nat /\ place \in [1 .. N -> K]
        /\ \A x \in K : \E n \in 1 .. N : place[n] = x
    <2> HIDE DEF place
    <2>1. place = Ascending(K)
      BY DEF place
    <2> QED
      BY <2>1, AscendingAll
  <1>2. MergeInOrder(entry) = Merge(entries)
    BY DEF MergeInOrder
  <1> HIDE DEF N, place
  <1>8. DOMAIN place = 1 .. N /\ \A n \in 1 .. N : place[n] \in K /\ entry[place[n]] \in E
    BY <1>1
  <1>3. /\ entries \in Seq(E) /\ Len(entries) = N
        /\ \A n \in 1 .. N : entries[n] = entry[place[n]]
    <2>1. entries \in [1 .. N -> E] /\ \A n \in 1 .. N : entries[n] = entry[place[n]]
      BY <1>8
    <2> HIDE DEF entries
    <2> QED
      BY <1>1, <2>1
  <1> HIDE DEF entries
  <1>4. ToSet(entries) = {entries[n] : n \in 1 .. N}
    BY <1>3 DEF ToSet
  <1>5. \A k \in K : entry[k] \in ToSet(entries)
    BY <1>1, <1>3, <1>4
  <1>6. ToSet(entries) \subseteq {entry[k] : k \in K}
    <2> SUFFICES ASSUME NEW n \in 1 .. N
                 PROVE  entries[n] \in {entry[k] : k \in K}
      BY <1>4
    <2> QED
      BY <1>3, <1>8
  <1>7. /\ Merge(entries) \in Seq(E)
        /\ ToSet(Merge(entries)) \subseteq ToSet(entries)
        /\ \A e \in ToSet(entries) : \E f \in ToSet(Merge(entries)) :
              SameKey(f, e) /\ f.timestamp >= e.timestamp
    BY <1>3, MergeKeeps
  <1> QED
    BY <1>2, <1>5, <1>6, <1>7

-----------------------------------------------------------------------------
(* Sessions of events.jsonl *)

\* Lines as Claude's sessions write them, in whatever order: none at the very start of its
\* session.
LogLines == [path : Files, tool : Tools, rel : Nat \ {0}, at : Nat]
IsLog(lines) == lines \in Seq(LogLines)

LEMMA LogType ==
  ASSUME NEW lines, IsLog(lines)
  PROVE  /\ Len(lines) \in Nat /\ DOMAIN lines = 1 .. Len(lines)
         /\ \A k \in 1 .. Len(lines) : /\ lines[k] \in LogLines
                                       /\ lines[k].rel \in Nat /\ lines[k].rel > 0
                                       /\ lines[k].at \in Nat
         /\ Begins(lines) \subseteq 1 .. Len(lines)
  <1>1. /\ Len(lines) \in Nat /\ DOMAIN lines = 1 .. Len(lines)
        /\ \A k \in 1 .. Len(lines) : lines[k] \in LogLines
    BY DEF IsLog
  <1> QED
    BY <1>1 DEF LogLines, Begins

\* The segments cover the log, one after the other.
LEMMA Segments ==
  ASSUME NEW lines, IsLog(lines), NEW b \in Begins(lines)
  PROVE  /\ b \in 1 .. Len(lines)
         /\ EndOf(lines, b) \in b .. Len(lines) /\ EndOf(lines, b) \in 1 .. Len(lines)
         /\ EndOf(lines, b) < Len(lines) => /\ EndOf(lines, b) + 1 \in Begins(lines)
                                            /\ EndOf(lines, b) + 1 > b
                                            /\ EndOf(lines, b) + 1 \in 1 .. Len(lines)
         /\ \A c \in Begins(lines) : c > b => c > EndOf(lines, b)
  <1> DEFINE n == Len(lines)
             B == Begins(lines)
             T == {c \in B : c > b} \cup {n + 1}
  <1>1. n \in Nat /\ B \subseteq 1 .. n /\ b \in B
    BY LogType
  <1>4. EndOf(lines, b) = Min(T) - 1
    BY DEF EndOf
  <1> HIDE DEF n, B
  <1>2. T \in SUBSET Nat /\ T # {} /\ \A c \in T : c > b /\ c <= n + 1
    <2>1. b \in 1 .. n /\ \A c \in B : c \in 1 .. n
      BY <1>1
    <2>2. n + 1 \in T /\ n + 1 \in Nat /\ n + 1 > b
      BY <1>1, <2>1
    <2>3. ASSUME NEW c \in T
          PROVE  c \in Nat /\ c > b /\ c <= n + 1
      <3>1. CASE c = n + 1
        BY <2>2, <3>1
      <3>2. CASE c \in B /\ c > b
        BY <1>1, <2>1, <3>2
      <3> QED
        BY <3>1, <3>2
    <2> QED
      BY <2>2, <2>3
  <1>3. Min(T) \in T /\ \A c \in T : Min(T) <= c
    <2> HIDE DEF T
    <2> QED
      BY <1>2, MinOf
  <1>5. Min(T) \in Nat /\ Min(T) > b /\ Min(T) <= n + 1 /\ b \in 1 .. n
    BY <1>1, <1>2, <1>3
  <1>6. Min(T) < n + 1 => Min(T) \in B
    BY <1>1, <1>3, <1>5
  <1>7. \A c \in B : c > b => Min(T) <= c /\ c \in 1 .. n
    BY <1>1, <1>3
  <1> DEFINE e == Min(T)
  <1> HIDE DEF e
  <1>8. /\ e \in Nat /\ e > b /\ e <= n + 1 /\ b \in 1 .. n /\ n \in Nat
        /\ e < n + 1 => e \in B
        /\ \A c \in B : c > b => e <= c /\ c \in 1 .. n
    BY <1>1, <1>5, <1>6, <1>7 DEF e
  <1>9. /\ b \in 1 .. n /\ e - 1 \in b .. n /\ e - 1 \in 1 .. n
        /\ e - 1 < n => (e - 1) + 1 \in B /\ (e - 1) + 1 > b /\ (e - 1) + 1 \in 1 .. n
        /\ \A c \in B : c > b => c > e - 1
    BY <1>8
  <1> QED
    BY <1>4, <1>9 DEF n, B, e

\* Induction over the sessions, from the last one back.
LEMMA FromTheLastSession ==
  ASSUME NEW lines, IsLog(lines), NEW P,
         \A b \in Begins(lines) : (EndOf(lines, b) < Len(lines) => EndOf(lines, b) + 1 \in P)
                                   => b \in P
  PROVE  Begins(lines) \subseteq P
  <1> DEFINE n == Len(lines)
             B == Begins(lines)
             S == {j \in Nat : \A b \in B : n - b <= j => b \in P}
  <1>1. n \in Nat /\ \A b \in B : b \in 1 .. n
    BY LogType
  <1>2. ASSUME NEW b \in B, \A c \in B : c > b => c \in P
        PROVE  b \in P
    BY <1>2, Segments
  <1> HIDE DEF n, B
  <1>3. 0 \in S
    <2> SUFFICES ASSUME NEW b \in B, n - b <= 0
                 PROVE  b \in P
      OBVIOUS
    <2>1. \A c \in B : ~(c > b)
      BY <1>1
    <2> QED
      BY <1>2, <2>1
  <1>4. ASSUME NEW j \in Nat, j \in S
        PROVE  j + 1 \in S
    <2> SUFFICES ASSUME NEW b \in B, n - b <= j + 1
                 PROVE  b \in P
      OBVIOUS
    <2>1. \A c \in B : c > b => n - c <= j
      BY <1>1
    <2> QED
      BY <1>2, <1>4, <2>1
  <1>5. n \in S
    <2> HIDE DEF S
    <2> QED
      BY <1>1, <1>3, <1>4, NatInductionOn
  <1>6. \A b \in B : n - b <= n
    BY <1>1
  <1> QED
    BY <1>5, <1>6 DEF B

\* A segment's first and last times are those of its first and last line.
LEMMA SegmentTimes ==
  ASSUME NEW lines, IsLog(lines), NEW b \in Begins(lines)
  PROVE  /\ LastTs(lines, b) = lines[EndOf(lines, b)].rel
         /\ FirstTs(lines, b) = lines[b].rel
  <1> DEFINE e == EndOf(lines, b)
  <1>1. b \in 1 .. Len(lines) /\ e \in b .. Len(lines) /\ Len(lines) \in Nat
    BY Segments, LogType
  <1> HIDE DEF e
  <1>2. \A k \in b .. e : lines[k].rel > 0 /\ k \in Nat
    <2>1. \A k \in b .. e : k \in 1 .. Len(lines)
      BY <1>1
    <2> QED
      BY <2>1, LogType
  <1> DEFINE L == {k \in b .. e : lines[k].rel > 0}
             F == {k \in b .. e : k < b + 10 /\ lines[k].rel > 0}
  <1>3. /\ b \in Nat /\ e \in Nat
        /\ L \in SUBSET Nat /\ e \in L /\ \A k \in L : k <= e
        /\ F \in SUBSET Nat /\ b \in F /\ \A k \in F : b <= k
    BY <1>1, <1>2
  <1>4. LastTs(lines, b) = lines[Max(L)].rel /\ FirstTs(lines, b) = lines[Min(F)].rel
    BY <1>3 DEF LastTs, FirstTs, e
  <1> HIDE DEF L, F
  <1>5. Max(L) \in L /\ e <= Max(L)
    BY <1>3, MaxOf
  <1>6. Min(F) \in F /\ Min(F) <= b
    BY <1>3, MinOf
  <1>7. Max(L) = e
    <2>1. Max(L) \in Nat /\ Max(L) <= e
      BY <1>3, <1>5
    <2> QED
      BY <1>3, <1>5, <2>1
  <1>8. Min(F) = b
    <2>1. Min(F) \in Nat /\ b <= Min(F)
      BY <1>3, <1>6
    <2> QED
      BY <1>3, <1>6, <2>1
  <1> QED
    BY <1>4, <1>7, <1>8 DEF e

\* Where a session is placed: the last one ends at the log's mtime, and each other one where
\* the next begins.
LEMMA BaseTimesAre ==
  ASSUME NEW lines, IsLog(lines), NEW m \in Int
  PROVE  /\ BaseTimes(lines, m) \in [Begins(lines) -> Int]
         /\ \A b \in Begins(lines) :
              LET e == EndOf(lines, b)
              IN  BaseTimes(lines, m)[b] + lines[e].rel =
                    IF e = Len(lines) THEN m
                    ELSE BaseTimes(lines, m)[e + 1] + lines[e + 1].rel
  <1> DEFINE n == Len(lines)
             D == Begins(lines)
             Leaves == {b \in D : EndOf(lines, b) = n}
             next == [b \in D |-> IF b \in Leaves THEN b ELSE EndOf(lines, b) + 1]
             a == [b \in D |-> m - LastTs(lines, b)]
             F == [by \in D \X Int |-> by[2] + FirstTs(lines, next[by[1]]) - LastTs(lines, by[1])]
             rank == [b \in D |-> n - b]
  <1>0. n \in Nat
    BY LogType
  <1>1. ASSUME NEW b \in D
        PROVE  /\ b \in 1 .. n /\ EndOf(lines, b) \in b .. n
               /\ EndOf(lines, b) < n => /\ EndOf(lines, b) + 1 \in D
                                         /\ EndOf(lines, b) + 1 > b
    BY Segments
  <1>2. ASSUME NEW b \in D
        PROVE  /\ LastTs(lines, b) = lines[EndOf(lines, b)].rel /\ LastTs(lines, b) \in Nat
               /\ FirstTs(lines, b) = lines[b].rel /\ FirstTs(lines, b) \in Nat
    <2> HIDE DEF n
    <2>1. b \in 1 .. n /\ EndOf(lines, b) \in 1 .. n
      BY <1>0, <1>1
    <2>2. lines[b].rel \in Nat /\ lines[EndOf(lines, b)].rel \in Nat
      BY <2>1, LogType DEF n
    <2> QED
      BY <2>2, SegmentTimes
  <1> HIDE DEF n
  <1>9. \A b \in D \ Leaves : EndOf(lines, b) < n
    BY <1>0, <1>1
  <1>3. next \in [D -> D]
    BY <1>1, <1>9
  <1>4. rank \in [D -> 0 .. n] /\ \A b \in D \ Leaves : rank[next[b]] < rank[b]
    <2> HIDE DEF D
    <2>1. rank \in [D -> 0 .. n]
      BY <1>0, <1>1
    <2>2. ASSUME NEW b \in D \ Leaves
          PROVE  rank[next[b]] < rank[b]
      <3>1. next[b] = EndOf(lines, b) + 1 /\ next[b] \in D /\ next[b] > b
        BY <1>1, <1>9
      <3>2. next[b] \in 1 .. n /\ b \in 1 .. n
        BY <1>1, <3>1
      <3> HIDE DEF next
      <3> QED
        BY <1>0, <3>1, <3>2
    <2> QED
      BY <2>1, <2>2
  <1>5. Descends(D, Leaves, next)
    <2>1. Leaves \subseteq D
      OBVIOUS
    <2> HIDE DEF D, next, rank, Leaves
    <2> QED
      BY <1>0, <1>3, <1>4, <2>1 DEF Descends
  <1>6. a \in [D -> Int]
    BY <1>2
  <1>7. F \in [D \X Int -> Int]
    <2> SUFFICES ASSUME NEW by \in D \X Int
                 PROVE  by[2] + FirstTs(lines, next[by[1]]) - LastTs(lines, by[1]) \in Int
      BY Zenon
    <2> HIDE DEF next
    <2>1. by[1] \in D /\ by[2] \in Int /\ next[by[1]] \in D
      BY <1>3
    <2>2. FirstTs(lines, next[by[1]]) \in Int /\ LastTs(lines, by[1]) \in Int
      BY <1>2, <2>1
    <2> QED
      BY <2>1, <2>2
  <1>8. PICK g \in [D -> Int] :
          \A b \in D : g[b] = IF b \in Leaves THEN a[b] ELSE F[<<b, g[next[b]]>>]
    <2> HIDE DEF D, Leaves, next, a, F
    <2>0. Recursions(D, Int, Leaves, next, a, F) # {}
      BY <1>5, <1>6, <1>7, RecursionExists
    <2> QED
      BY <2>0 DEF Recursions
  <1> DEFINE Placed(h) ==
        h = [b \in Begins(lines) |->
               IF EndOf(lines, b) + 1 > Len(lines) THEN m - LastTs(lines, b)
               ELSE h[EndOf(lines, b) + 1] + FirstTs(lines, EndOf(lines, b) + 1)
                      - LastTs(lines, b)]
  <1>10. BaseTimes(lines, m) = CHOOSE h : Placed(h)
    BY DEF BaseTimes
  <1>11. \E h : Placed(h)
    <2>1. \A b \in D : g[b] = IF EndOf(lines, b) + 1 > n THEN m - LastTs(lines, b)
                              ELSE g[EndOf(lines, b) + 1] + FirstTs(lines, EndOf(lines, b) + 1)
                                     - LastTs(lines, b)
      <3> SUFFICES ASSUME NEW b \in D
                   PROVE  g[b] = IF EndOf(lines, b) + 1 > n THEN m - LastTs(lines, b)
                                 ELSE g[EndOf(lines, b) + 1]
                                        + FirstTs(lines, EndOf(lines, b) + 1)
                                        - LastTs(lines, b)
        OBVIOUS
      <3> HIDE DEF D
      <3>1. EndOf(lines, b) \in 1 .. n
        BY <1>0, <1>1
      <3>2. CASE b \in Leaves
        <4>1. EndOf(lines, b) + 1 > n
          BY <1>0, <3>1, <3>2
        <4> QED
          BY <1>8, <3>2, <4>1
      <3>3. CASE b \notin Leaves
        <4>1. next[b] = EndOf(lines, b) + 1 /\ next[b] \in D
          BY <1>3, <3>3
        <4>2. ~(EndOf(lines, b) + 1 > n)
          BY <1>0, <1>9, <3>1, <3>3
        <4> HIDE DEF next, Leaves
        <4>3. g[next[b]] \in Int
          BY <4>1
        <4>4. F[<<b, g[next[b]]>>] = g[next[b]] + FirstTs(lines, next[b]) - LastTs(lines, b)
          BY <4>3
        <4> HIDE DEF F
        <4>5. g[b] = g[next[b]] + FirstTs(lines, next[b]) - LastTs(lines, b)
          BY <1>8, <3>3, <4>4
        <4> QED
          BY <4>1, <4>2, <4>5
      <3> QED
        BY <3>2, <3>3
    <2>2. g = [b \in D |-> g[b]]
      OBVIOUS
    <2> HIDE DEF Leaves, next, a, F, rank
    <2>3. Placed(g)
      BY <2>1, <2>2 DEF n
    <2> QED
      BY <2>3, Zenon
  <1>12. PICK h : Placed(h) /\ BaseTimes(lines, m) = h
    <2> HIDE DEF Placed
    <2> QED
      BY <1>10, <1>11, Zenon
  <1>13. \A b \in D : h[b] = IF EndOf(lines, b) + 1 > n THEN m - LastTs(lines, b)
                            ELSE h[EndOf(lines, b) + 1] + FirstTs(lines, EndOf(lines, b) + 1)
                                   - LastTs(lines, b)
    BY <1>12 DEF n
  <1> HIDE DEF D
  <1>14. \A b \in D : h[b] \in Int
    <2> DEFINE P == {b \in D : h[b] \in Int}
    <2>1. ASSUME NEW b \in D, EndOf(lines, b) < n => EndOf(lines, b) + 1 \in P
          PROVE  b \in P
      <3>1. EndOf(lines, b) \in Nat /\ LastTs(lines, b) \in Nat /\ EndOf(lines, b) <= n
        BY <1>0, <1>1, <1>2
      <3>2. CASE EndOf(lines, b) + 1 > n
        BY <1>13, <3>1, <3>2
      <3>3. CASE EndOf(lines, b) < n
        <4>1. h[EndOf(lines, b) + 1] \in Int /\ FirstTs(lines, EndOf(lines, b) + 1) \in Nat
          BY <1>2, <2>1, <3>3
        <4>2. ~(EndOf(lines, b) + 1 > n)
          BY <1>0, <3>1, <3>3
        <4> QED
          BY <1>13, <3>1, <4>1, <4>2
      <3> QED
        BY <1>0, <3>1, <3>2, <3>3
    <2> HIDE DEF P
    <2>2. D \subseteq P
      BY <2>1, FromTheLastSession DEF D, n
    <2> QED
      BY <2>2 DEF P
  <1>15. ASSUME NEW b \in D
         PROVE  h[b] + lines[EndOf(lines, b)].rel =
                  IF EndOf(lines, b) = n THEN m
                  ELSE h[EndOf(lines, b) + 1] + lines[EndOf(lines, b) + 1].rel
    <2>1. /\ EndOf(lines, b) \in Nat /\ EndOf(lines, b) <= n
          /\ LastTs(lines, b) = lines[EndOf(lines, b)].rel /\ LastTs(lines, b) \in Nat
      BY <1>0, <1>1, <1>2
    <2>2. CASE EndOf(lines, b) = n
      <3>1. EndOf(lines, b) + 1 > n
        BY <1>0, <2>2
      <3>2. h[b] = m - LastTs(lines, b)
        BY <1>13, <3>1
      <3> QED
        BY <2>1, <2>2, <3>2
    <2>3. CASE EndOf(lines, b) < n
      <3>1. EndOf(lines, b) + 1 \in D
        BY <1>1, <2>3
      <3>2. /\ h[EndOf(lines, b) + 1] \in Int
            /\ FirstTs(lines, EndOf(lines, b) + 1) = lines[EndOf(lines, b) + 1].rel
            /\ FirstTs(lines, EndOf(lines, b) + 1) \in Nat
        BY <1>2, <1>14, <3>1
      <3>3. ~(EndOf(lines, b) + 1 > n) /\ EndOf(lines, b) # n
        BY <1>0, <2>1, <2>3
      <3>4. h[b] = h[EndOf(lines, b) + 1] + FirstTs(lines, EndOf(lines, b) + 1)
                     - LastTs(lines, b)
        BY <1>13, <3>3
      <3> QED
        BY <2>1, <3>2, <3>3, <3>4
    <2> QED
      BY <1>0, <2>1, <2>2, <2>3
  <1>16. h \in [D -> Int]
    <2>1. h = [b \in D |-> h[b]]
      BY <1>12 DEF D
    <2> QED
      BY <1>14, <2>1
  <1> QED
    BY <1>12, <1>15, <1>16 DEF D, n

LEMMA SessionOfLine ==
  ASSUME NEW lines, IsLog(lines), NEW k \in 1 .. Len(lines)
  PROVE  /\ SessionOf(lines, k) \in Begins(lines)
         /\ k \in SessionOf(lines, k) .. EndOf(lines, SessionOf(lines, k))
  <1> DEFINE n == Len(lines)
             B == Begins(lines)
             T == {b \in B : b <= k}
             s == SessionOf(lines, k)
  <1>1. n \in Nat /\ B \subseteq 1 .. n /\ DOMAIN lines = 1 .. n
    BY LogType
  <1>2. 1 \in B
    BY <1>1 DEF Begins
  <1>3. \A b \in B : /\ EndOf(lines, b) \in b .. n
                     /\ EndOf(lines, b) < n => EndOf(lines, b) + 1 \in B /\ EndOf(lines, b) + 1 > b
    BY Segments
  <1>4. s = Max(T)
    BY DEF SessionOf
  <1>5. k \in 1 .. n
    OBVIOUS
  <1> HIDE DEF n, B, s
  <1>6. T \in SUBSET Nat /\ T # {} /\ \A b \in T : b <= k
    <2>1. 1 \in T
      BY <1>2, <1>5
    <2>2. \A b \in T : b \in 1 .. n /\ b <= k
      BY <1>1
    <2> QED
      BY <2>1, <2>2
  <1>7. s \in T /\ \A b \in T : b <= s
    <2>1. k \in Nat
      BY <1>5
    <2> HIDE DEF T
    <2> QED
      BY <1>4, <1>6, <2>1, MaxOf
  <1>8. k <= EndOf(lines, s)
    <2> DEFINE e == EndOf(lines, s)
    <2>0. s \in B /\ s <= k
      BY <1>7
    <2>1. e \in s .. n /\ (e < n => e + 1 \in B /\ e + 1 > s)
      BY <1>3, <2>0
    <2> HIDE DEF e
    <2>2. ~(e + 1 <= k)
      BY <1>1, <1>5, <1>7, <2>0, <2>1
    <2>3. e <= n /\ e \in Int /\ s \in 1 .. n
      BY <1>1, <2>0, <2>1
    <2> QED
      BY <1>1, <1>5, <2>2, <2>3 DEF e
  <1> QED
    BY <1>1, <1>3, <1>5, <1>7, <1>8 DEF B, s

LEMMA LineTimesAre ==
  ASSUME NEW lines, IsLog(lines), NEW m \in Int, NEW k \in 1 .. Len(lines)
  PROVE  /\ LineTimes(lines, m)[k] = BaseTimes(lines, m)[SessionOf(lines, k)] + lines[k].rel
         /\ BaseTimes(lines, m)[SessionOf(lines, k)] \in Int
         /\ LineTimes(lines, m)[k] \in Int
  <1>1. DOMAIN lines = 1 .. Len(lines) /\ lines[k].rel \in Nat
    BY LogType
  <1>2. BaseTimes(lines, m)[SessionOf(lines, k)] \in Int
    BY BaseTimesAre, SessionOfLine
  <1>3. LineTimes(lines, m)[k] = BaseTimes(lines, m)[SessionOf(lines, k)] + lines[k].rel
    BY <1>1, Zenon DEF LineTimes
  <1> QED
    BY <1>1, <1>2, <1>3

\* The times move with the mtime.
LEMMA LineTimesShift ==
  ASSUME NEW lines, IsLog(lines), NEW m \in Int, NEW k \in 1 .. Len(lines)
  PROVE  LineTimes(lines, m)[k] = m + LineTimes(lines, 0)[k]
  <1> DEFINE n == Len(lines)
             B == Begins(lines)
             g == BaseTimes(lines, m)
             h == BaseTimes(lines, 0)
             P == {b \in B : g[b] = m + h[b]}
  <1>1. /\ n \in Nat
        /\ \A b \in B : /\ g[b] \in Int /\ h[b] \in Int
                        /\ g[b] + lines[EndOf(lines, b)].rel =
                              IF EndOf(lines, b) = n THEN m
                              ELSE g[EndOf(lines, b) + 1] + lines[EndOf(lines, b) + 1].rel
                        /\ h[b] + lines[EndOf(lines, b)].rel =
                              IF EndOf(lines, b) = n THEN 0
                              ELSE h[EndOf(lines, b) + 1] + lines[EndOf(lines, b) + 1].rel
    <2>1. 0 \in Int
      OBVIOUS
    <2> QED
      BY <2>1, BaseTimesAre, LogType
  <1>2. \A b \in B : /\ b \in 1 .. n /\ EndOf(lines, b) \in b .. n /\ EndOf(lines, b) \in 1 .. n
                     /\ EndOf(lines, b) < n => /\ EndOf(lines, b) + 1 \in B
                                               /\ EndOf(lines, b) + 1 \in 1 .. n
    BY Segments
  <1>3. \A j \in 1 .. n : lines[j].rel \in Nat
    BY LogType
  <1> HIDE DEF n, B, g, h
  <1>4. ASSUME NEW b \in B, EndOf(lines, b) < n => EndOf(lines, b) + 1 \in P
        PROVE  b \in P
    <2> DEFINE e == EndOf(lines, b)
    <2>1. /\ e \in 1 .. n /\ (e < n => e + 1 \in B /\ e + 1 \in 1 .. n)
      BY <1>2
    <2> HIDE DEF e
    <2>4. e = n \/ e < n
      BY <1>1, <2>1
    <2>2. CASE e = n
      <3>1. g[b] + lines[e].rel = m /\ h[b] + lines[e].rel = 0
        BY <1>1, <2>2 DEF e
      <3>2. lines[e].rel \in Nat /\ g[b] \in Int /\ h[b] \in Int
        BY <1>1, <1>3, <2>1
      <3>3. g[b] = m + h[b]
        BY <3>1, <3>2
      <3> QED
        BY <3>3
    <2>3. CASE e < n
      <3>1. /\ e + 1 \in B /\ g[e + 1] = m + h[e + 1]
            /\ lines[e].rel \in Nat /\ lines[e + 1].rel \in Nat
        BY <1>3, <1>4, <2>1, <2>3 DEF e
      <3>2. /\ g[b] + lines[e].rel = g[e + 1] + lines[e + 1].rel
            /\ h[b] + lines[e].rel = h[e + 1] + lines[e + 1].rel
        BY <1>1, <2>1, <2>3 DEF e
      <3>3. g[b] \in Int /\ h[b] \in Int /\ g[e + 1] \in Int /\ h[e + 1] \in Int
        BY <1>1, <3>1
      <3> DEFINE x == g[b]
                 y == h[b]
                 u == g[e + 1]
                 v == h[e + 1]
                 p == lines[e].rel
                 q == lines[e + 1].rel
      <3>4. /\ x + p = u + q /\ y + p = v + q /\ u = m + v
            /\ x \in Int /\ y \in Int /\ u \in Int /\ v \in Int /\ p \in Nat /\ q \in Nat
        BY <3>1, <3>2, <3>3, Zenon
      <3> HIDE DEF x, y, u, v, p, q
      <3>5. x = m + y
        BY <3>4
      <3> QED
        BY <3>5 DEF x, y
    <2> QED
      BY <2>2, <2>3, <2>4
  <1>5. B \subseteq P
    <2> HIDE DEF P
    <2> QED
      BY <1>4, FromTheLastSession DEF B, n
  <1>6. SessionOf(lines, k) \in B
    BY SessionOfLine DEF B
  <1>7. /\ LineTimes(lines, m)[k] = g[SessionOf(lines, k)] + lines[k].rel
        /\ LineTimes(lines, 0)[k] = h[SessionOf(lines, k)] + lines[k].rel
        /\ lines[k].rel \in Nat
    <2>1. LineTimes(lines, m)[k] = g[SessionOf(lines, k)] + lines[k].rel
      BY LineTimesAre DEF g
    <2>2. 0 \in Int
      OBVIOUS
    <2>3. LineTimes(lines, 0)[k] = h[SessionOf(lines, k)] + lines[k].rel
      BY <2>2, LineTimesAre DEF h
    <2>4. lines[k].rel \in Nat
      BY LogType
    <2> QED
      BY <2>1, <2>3, <2>4
  <1> QED
    BY <1>1, <1>5, <1>6, <1>7

\* Where sessions wrote in turn, no line is dated a second before its tool ran, and no session
\* is held to have ended that long before one of its lines.
LEMMA LineTimesNotEarly ==
  ASSUME NEW lines, IsLog(lines), InTurn(lines), NEW m \in Int, NEW k \in 1 .. Len(lines),
         NEW c \in Int, m > lines[Len(lines)].at - c
  PROVE  /\ LineTimes(lines, m)[k] > lines[k].at - c
         /\ BaseTimes(lines, m)[SessionOf(lines, k)] + LastTs(lines, SessionOf(lines, k))
              > lines[k].at - c
  <1> DEFINE n == Len(lines)
             B == Begins(lines)
             g == BaseTimes(lines, m)
             P == {b \in B : g[b] + lines[EndOf(lines, b)].rel
                               > lines[EndOf(lines, b)].at - c}
  <1>1. /\ n \in Nat
        /\ \A b \in B : /\ g[b] \in Int
                        /\ g[b] + lines[EndOf(lines, b)].rel =
                              IF EndOf(lines, b) = n THEN m
                              ELSE g[EndOf(lines, b) + 1] + lines[EndOf(lines, b) + 1].rel
    BY BaseTimesAre, LogType
  <1>2. \A b \in B : /\ b \in 1 .. n /\ EndOf(lines, b) \in b .. n /\ EndOf(lines, b) \in 1 .. n
                     /\ EndOf(lines, b) < n => /\ EndOf(lines, b) + 1 \in B
                                               /\ EndOf(lines, b) + 1 \in 1 .. n
    BY Segments
  <1>3. \A j \in 1 .. n : lines[j].rel \in Nat /\ lines[j].at \in Nat
    BY LogType
  <1>4. \A i, j \in 1 .. n : i <= j => /\ lines[i].at <= lines[j].at
                                       /\ lines[i].at - lines[i].rel <= lines[j].at - lines[j].rel
    BY LogType DEF InTurn
  <1>5. m > lines[n].at - c
    OBVIOUS
  <1> HIDE DEF n, B, g
  <1>6. ASSUME NEW b \in B, EndOf(lines, b) < n => EndOf(lines, b) + 1 \in P
        PROVE  b \in P
    <2> DEFINE e == EndOf(lines, b)
    <2>1. /\ e \in 1 .. n /\ (e < n => e + 1 \in B /\ e + 1 \in 1 .. n)
      BY <1>2
    <2> HIDE DEF e
    <2>4. e = n \/ e < n
      BY <1>1, <2>1
    <2>2. CASE e = n
      BY <1>1, <1>3, <1>5, <2>1, <2>2 DEF e
    <2>3. CASE e < n
      <3> DEFINE f == EndOf(lines, e + 1)
      <3>1. e + 1 \in B /\ e + 1 \in 1 .. n /\ f \in e + 1 .. n
        BY <1>2, <2>1, <2>3
      <3>2. g[e + 1] + lines[f].rel > lines[f].at - c /\ g[e + 1] \in Int
        BY <1>1, <1>6, <2>3, <3>1 DEF e
      <3>3. g[b] + lines[e].rel = g[e + 1] + lines[e + 1].rel
        BY <1>1, <2>1, <2>3 DEF e
      <3> HIDE DEF f
      <3>4. f \in 1 .. n /\ e + 1 <= f /\ e \in 1 .. n /\ e <= e + 1
        BY <1>1, <2>1, <3>1
      <3>5. /\ lines[e + 1].at - lines[e + 1].rel <= lines[f].at - lines[f].rel
            /\ lines[e].at <= lines[e + 1].at
        BY <1>4, <3>1, <3>4
      <3>6. /\ lines[e].rel \in Nat /\ lines[e].at \in Nat
            /\ lines[e + 1].rel \in Nat /\ lines[e + 1].at \in Nat
            /\ lines[f].rel \in Nat /\ lines[f].at \in Nat
        BY <1>3, <3>1, <3>4
      <3>7. g[b] \in Int
        BY <1>1
      <3> DEFINE x == g[b]
                 u == g[e + 1]
                 p == lines[e].rel
                 q == lines[e + 1].rel
                 r == lines[f].rel
                 w == lines[e].at
                 t == lines[e + 1].at
                 s == lines[f].at
      <3>8. /\ u + r > s - c /\ x + p = u + q /\ t - q <= s - r /\ w <= t
            /\ x \in Int /\ u \in Int /\ p \in Nat /\ q \in Nat /\ r \in Nat
            /\ w \in Nat /\ t \in Nat /\ s \in Nat
        BY <3>2, <3>3, <3>5, <3>6, <3>7, Zenon
      <3> HIDE DEF x, u, p, q, r, w, t, s
      <3>9. u + q > t - c
        BY <3>8
      <3>10. x + p > w - c
        BY <3>8, <3>9
      <3> QED
        BY <3>10 DEF e, P, x, p, w
    <2> QED
      BY <2>2, <2>3, <2>4
  <1>7. B \subseteq P
    <2> HIDE DEF P
    <2> QED
      BY <1>6, FromTheLastSession DEF B, n
  <1> DEFINE b == SessionOf(lines, k)
             e == EndOf(lines, b)
  <1>8. b \in B /\ k \in b .. e /\ k \in 1 .. n
    BY SessionOfLine DEF B, n
  <1>9. LineTimes(lines, m)[k] = g[b] + lines[k].rel /\ LastTs(lines, b) = lines[e].rel
    BY LineTimesAre, SegmentTimes, <1>8 DEF g, B
  <1>10. e \in 1 .. n /\ k <= e
    <2>1. e \in 1 .. n
      BY <1>2, <1>8
    <2> HIDE DEF e, b
    <2> QED
      BY <2>1, <1>8
  <1>11. g[b] + lines[e].rel > lines[e].at - c /\ g[b] \in Int
    BY <1>1, <1>7, <1>8
  <1>12. /\ lines[k].at <= lines[e].at
         /\ lines[k].at - lines[k].rel <= lines[e].at - lines[e].rel
         /\ lines[k].rel \in Nat /\ lines[k].at \in Nat
         /\ lines[e].rel \in Nat /\ lines[e].at \in Nat
    BY <1>3, <1>4, <1>8, <1>10
  <1> HIDE DEF b, e
  <1>13. g[b] + lines[k].rel > lines[k].at - c /\ g[b] + lines[e].rel > lines[k].at - c
    <2> DEFINE x == g[b]
               t == lines[k].at
               p == lines[k].rel
               u == lines[e].at
               q == lines[e].rel
    <2>1. /\ x + q > u - c /\ x \in Int /\ t <= u /\ t - p <= u - q
          /\ p \in Nat /\ t \in Nat /\ q \in Nat /\ u \in Nat
      BY <1>11, <1>12, Zenon
    <2> HIDE DEF x, t, p, u, q
    <2>2. x + p > t - c /\ x + q > t - c
      BY <2>1
    <2> QED
      BY <2>2 DEF x, t, p, q
  <1> QED
    BY <1>9, <1>13 DEF g, b

-----------------------------------------------------------------------------
(* What the readers return *)

\* Rows of Codex's session files.
Rows == [path : Files, op : Ops, ts : Nat, thread : Threads]

EntriesOf(source, actions) == [path : Files, timestamp : Int, source : {source}, action : actions]

LEMMA EntryType ==
  ASSUME NEW p \in Files, NEW t \in Int, NEW s, NEW actions, NEW a \in actions
  PROVE  Entry(p, t, s, a) \in EntriesOf(s, actions)
  BY DEF Entry, EntriesOf

LEMMA EntriesOfType ==
  ASSUME NEW source \in {"claude", "codex", "user"}, NEW actions,
         actions \subseteq {"opened", "modified", "created", "deleted"}
  PROVE  EntriesOf(source, actions) \subseteq Entries
  BY DEF EntriesOf, Entries

\* Each line the code keeps has an entry that is not older.
LEMMA ReadAgentFilesIs ==
  ASSUME NEW lines, IsLog(lines), NEW m \in Int, NEW t \in Int
  PROVE  /\ ReadAgentFiles(lines, m, t)
              \in Seq(EntriesOf("claude", {"opened", "created", "modified"}))
         /\ \A k \in Counted(lines, m, t) :
              \E f \in ToSet(ReadAgentFiles(lines, m, t)) :
                f.path = lines[k].path /\ f.timestamp >= LineTimes(lines, m)[k]
  <1> DEFINE n == Len(lines)
             K == Counted(lines, m, t)
             times == LineTimes(lines, m)
             created == CreatedPaths(lines, K)
             E == EntriesOf("claude", {"opened", "created", "modified"})
             entry == [k \in K |-> Entry(lines[k].path, times[k], "claude",
                                         AgentAction(lines[k].tool, lines[k].path, created))]
  <1>1. n \in Nat /\ DOMAIN lines = 1 .. n /\ K \in SUBSET (1 .. n)
    BY LogType DEF Counted
  <1>2. IsFiniteSet(K) /\ K \in SUBSET Int
    <2>1. IsFiniteSet(1 .. n)
      BY <1>1, FS_Interval
    <2> QED
      BY <1>1, <2>1, FS_Subset
  <1>3. \A k \in 1 .. n : lines[k].path \in Files /\ times[k] \in Int
    BY LogType, LineTimesAre DEF LogLines
  <1> HIDE DEF n, K, times, created
  <1>4. \A k \in K : AgentAction(lines[k].tool, lines[k].path, created)
                       \in {"opened", "created", "modified"}
    BY DEF AgentAction
  <1>5. \A k \in K : times[k] \in Int
    BY <1>1, <1>3
  <1>6. entry \in [K -> E]
    <2> SUFFICES ASSUME NEW k \in K
                 PROVE  entry[k] \in E
      BY Zenon
    <2>1. lines[k].path \in Files
      BY <1>1, <1>3
    <2> HIDE DEF E
    <2> QED
      BY <1>4, <1>5, <2>1, EntryType DEF E
  <1>7. \A e \in E : e.timestamp \in Int
    BY DEF EntriesOf
  <1>8. ReadAgentFiles(lines, m, t) = MergeInOrder(entry)
    BY DEF ReadAgentFiles, n, K, times, created
  <1>9. \A k \in K : entry[k].path = lines[k].path /\ entry[k].timestamp = times[k]
    BY DEF Entry
  <1> HIDE DEF entry, E
  <1>10. /\ MergeInOrder(entry) \in Seq(E)
         /\ \A k \in K : \E f \in ToSet(MergeInOrder(entry)) :
              SameKey(f, entry[k]) /\ f.timestamp >= entry[k].timestamp
    BY <1>2, <1>6, <1>7, MergeInOrderKeeps
  <1>11. ASSUME NEW k \in K
         PROVE  \E f \in ToSet(MergeInOrder(entry)) :
                  f.path = lines[k].path /\ f.timestamp >= times[k]
    <2>1. PICK f \in ToSet(MergeInOrder(entry)) :
            SameKey(f, entry[k]) /\ f.timestamp >= entry[k].timestamp
      BY <1>10
    <2>2. f.path = lines[k].path /\ f.timestamp >= times[k]
      BY <1>9, <2>1 DEF SameKey
    <2> QED
      BY <2>2
  <1> QED
    BY <1>8, <1>10, <1>11 DEF E, K, times

LEMMA ReadCodexFilesIs ==
  ASSUME NEW rs \in Seq(Rows), NEW t \in Nat
  PROVE  /\ ReadCodexFiles(rs, t) \in Seq(EntriesOf("codex", {"created", "deleted", "modified"}))
         /\ \A k \in DOMAIN rs : rs[k].ts \in t - Window .. t + Ahead =>
              \E f \in ToSet(ReadCodexFiles(rs, t)) :
                f.path = rs[k].path /\ f.timestamp >= rs[k].ts
  <1> DEFINE n == Len(rs)
             K == {k \in DOMAIN rs : rs[k].ts \in t - Window .. t + Ahead}
             action(r) == CASE r.op = "Add" -> "created" [] r.op = "Delete" -> "deleted"
                            [] OTHER -> "modified"
             E == EntriesOf("codex", {"created", "deleted", "modified"})
             entry == [k \in K |-> Entry(rs[k].path, rs[k].ts, "codex", action(rs[k]))]
  <1>1. n \in Nat /\ DOMAIN rs = 1 .. n /\ K \in SUBSET (1 .. n)
    OBVIOUS
  <1>2. IsFiniteSet(K) /\ K \in SUBSET Int
    <2>1. IsFiniteSet(1 .. n)
      BY <1>1, FS_Interval
    <2> HIDE DEF K, n
    <2>2. IsFiniteSet(K)
      BY <1>1, <2>1, FS_Subset
    <2> QED
      BY <1>1, <2>2
  <1>3. \A k \in 1 .. n : rs[k].path \in Files /\ rs[k].ts \in Nat
    <2>1. \A k \in 1 .. n : rs[k] \in Rows
      OBVIOUS
    <2> QED
      BY <2>1 DEF Rows
  <1>4. \A k \in K : k \in 1 .. n
    BY <1>1
  <1>8. ReadCodexFiles(rs, t) = MergeInOrder(entry)
    BY DEF ReadCodexFiles
  <1>12. \A k \in DOMAIN rs : rs[k].ts \in t - Window .. t + Ahead => k \in K
    OBVIOUS
  <1> HIDE DEF n, K
  <1>6. entry \in [K -> E]
    <2> SUFFICES ASSUME NEW k \in K
                 PROVE  entry[k] \in E
      BY Zenon
    <2>1. rs[k].path \in Files /\ rs[k].ts \in Nat
      BY <1>3, <1>4
    <2>2. action(rs[k]) \in {"created", "deleted", "modified"}
      OBVIOUS
    <2> HIDE DEF E, action
    <2> QED
      BY <2>1, <2>2, EntryType DEF E
  <1>7. \A e \in E : e.timestamp \in Int
    BY DEF EntriesOf
  <1>9. \A k \in K : entry[k].path = rs[k].path /\ entry[k].timestamp = rs[k].ts
    BY DEF Entry
  <1> HIDE DEF entry, E
  <1>10. /\ MergeInOrder(entry) \in Seq(E)
         /\ \A k \in K : \E f \in ToSet(MergeInOrder(entry)) :
              SameKey(f, entry[k]) /\ f.timestamp >= entry[k].timestamp
    BY <1>2, <1>6, <1>7, MergeInOrderKeeps
  <1>11. ASSUME NEW k \in K
         PROVE  \E f \in ToSet(MergeInOrder(entry)) :
                  f.path = rs[k].path /\ f.timestamp >= rs[k].ts
    BY <1>9, <1>10 DEF SameKey
  <1> QED
    BY <1>8, <1>10, <1>11, <1>12 DEF E

LEMMA ReadXbelFilesIs ==
  ASSUME NEW v \in [Files -> Nat], NEW t \in Nat
  PROVE  ReadXbelFiles(v, t) \in Seq(EntriesOf("user", {"opened"}))
  <1> DEFINE S == {p \in DOMAIN v : v[p] > 0 /\ v[p] >= t - Window}
             E == EntriesOf("user", {"opened"})
             paths == SetToSeq(S)
  <1>1. IsFiniteSet(Files)
    BY HotFilesAssumption, FS_Product DEF Files
  <1>2. S \in SUBSET Files
    OBVIOUS
  <1>3. ReadXbelFiles(v, t) =
          [n \in DOMAIN paths |-> Entry(paths[n], v[paths[n]], "user", "opened")]
    BY DEF ReadXbelFiles
  <1> HIDE DEF S
  <1>4. IsFiniteSet(S)
    BY <1>1, <1>2, FS_Subset
  <1>5. Cardinality(S) \in Nat /\ paths \in [1 .. Cardinality(S) -> S]
    BY <1>4, SetToSeqAll
  <1> HIDE DEF paths, E
  <1>6. \A n \in 1 .. Cardinality(S) : Entry(paths[n], v[paths[n]], "user", "opened") \in E
    BY <1>2, <1>5, EntryType DEF E
  <1>7. DOMAIN paths = 1 .. Cardinality(S)
    BY <1>5
  <1> QED
    BY <1>3, <1>5, <1>6, <1>7 DEF E

-----------------------------------------------------------------------------
(* What a refresh does with them *)

LEMMA FilesAreFinite == IsFiniteSet(Files)
  BY HotFilesAssumption, FS_Product DEF Files

\* Rows of the session files, in the order they are read.
LEMMA RowsReadType ==
  ASSUME rows \in Seq(Rows)
  PROVE  RowsRead \in Seq(Rows) /\ ToSet(RowsRead) \subseteq ToSet(rows)
  <1> DEFINE n == Len(rows)
             K == UNION {RowsOf(s) : s \in FindCodexSessionFiles}
             first(i, j) == \/ NewerSession(rows[i].thread, rows[j].thread)
                            \/ rows[i].thread = rows[j].thread /\ i < j
             R == {ij \in K \X K : first(ij[1], ij[2])}
             place == Arranged(K, R)
             written(x) == rows[Max(RowsOf(x))].ts
  <1>1. n \in Nat /\ DOMAIN rows = 1 .. n
    OBVIOUS
  <1>2. \A k \in 1 .. n : rows[k] \in Rows /\ rows[k].thread \in Nat /\ rows[k].ts \in Nat
    <2>1. \A k \in 1 .. n : rows[k] \in Rows
      OBVIOUS
    <2> QED
      BY <2>1, HotFilesAssumption DEF Rows
  <1>3. K \in SUBSET (1 .. n)
    BY <1>1 DEF RowsOf
  <1>4. ASSUME NEW k \in K
        PROVE  written(rows[k].thread) \in Nat
    <2> DEFINE T == RowsOf(rows[k].thread)
    <2>1. T \in SUBSET (1 .. n) /\ k \in T
      BY <1>1, <1>3 DEF RowsOf
    <2> HIDE DEF T, n
    <2>2. Max(T) \in T
      BY <1>1, <2>1, MaxOfIndices
    <2> QED
      BY <1>2, <2>1, <2>2 DEF T
  <1>5. RowsRead = [i \in DOMAIN place |-> rows[place[i]]]
    BY DEF RowsRead
  <1> HIDE DEF n, K
  <1>6. \A x, y : <<x, y>> \in R <=> x \in K /\ y \in K /\ first(x, y)
    OBVIOUS
  <1>7. /\ \A x \in K : ~first(x, x)
        /\ \A x, y \in K : x = y \/ first(x, y) \/ first(y, x)
        /\ \A x, y, z \in K : first(x, y) /\ first(y, z) => first(x, z)
    <2>1. \A x \in K : /\ x \in Nat /\ rows[x].thread \in Nat
                       /\ written(rows[x].thread) \in Nat
      BY <1>1, <1>2, <1>3, <1>4
    <2>2. \A x, y \in K : first(x, y) <=>
            \/ written(rows[x].thread) > written(rows[y].thread)
            \/ /\ written(rows[x].thread) = written(rows[y].thread)
               /\ rows[x].thread < rows[y].thread
            \/ rows[x].thread = rows[y].thread /\ x < y
      BY DEF NewerSession
    <2> DEFINE w(x) == written(rows[x].thread)
               th(x) == rows[x].thread
    <2>3. \A x \in K : x \in Nat /\ th(x) \in Nat /\ w(x) \in Nat
      BY <2>1
    <2>4. \A x, y \in K : first(x, y) <=> \/ w(x) > w(y)
                                          \/ w(x) = w(y) /\ th(x) < th(y)
                                          \/ th(x) = th(y) /\ x < y
      BY <2>2
    <2>5. \A x, y \in K : th(x) = th(y) => w(x) = w(y)
      OBVIOUS
    <2> HIDE DEF first, w, th
    <2>6. \A x \in K : ~first(x, x)
      BY <2>3, <2>4
    <2>7. \A x, y \in K : x = y \/ first(x, y) \/ first(y, x)
      BY <2>3, <2>4
    <2>8. \A x, y, z \in K : first(x, y) /\ first(y, z) => first(x, z)
      BY <2>3, <2>4, <2>5
    <2> QED
      BY <2>6, <2>7, <2>8
  <1> HIDE DEF first, R
  <1>8. /\ \A x \in K : <<x, x>> \notin R
        /\ \A x, y \in K : x = y \/ <<x, y>> \in R \/ <<y, x>> \in R
        /\ \A x, y, z \in K : <<x, y>> \in R /\ <<y, z>> \in R => <<x, z>> \in R
    BY <1>6, <1>7
  <1>9. IsFiniteSet(K)
    <2>1. IsFiniteSet(1 .. n)
      BY <1>1, FS_Interval
    <2> QED
      BY <1>3, <2>1, FS_Subset
  <1> DEFINE N == Cardinality(K)
  <1>10. N \in Nat /\ place \in [1 .. N -> K]
    <2> HIDE DEF place
    <2>1. place = Arranged(K, R)
      BY DEF place
    <2> QED
      BY <1>8, <1>9, <2>1, ArrangedAll
  <1> HIDE DEF N, place
  <1>11. DOMAIN place = 1 .. N /\ \A i \in 1 .. N : place[i] \in 1 .. n
    BY <1>3, <1>10
  <1>12. /\ RowsRead \in [1 .. N -> Rows]
         /\ \A i \in 1 .. N : RowsRead[i] = rows[place[i]]
    BY <1>2, <1>5, <1>11
  <1>13. RowsRead \in Seq(Rows)
    BY <1>10, <1>12
  <1>14. ToSet(RowsRead) \subseteq ToSet(rows)
    BY <1>1, <1>11, <1>12 DEF ToSet
  <1> QED
    BY <1>13, <1>14

\* NewestFirst takes entries from the list, no more than it may.
LEMMA NewestFirstIs ==
  ASSUME NEW E, \A e \in E : e.timestamp \in Int, NEW m \in Seq(E)
  PROVE  /\ NewestFirst(m) \in Seq(E) /\ Len(NewestFirst(m)) <= MaxFiles
         /\ ToSet(NewestFirst(m)) \subseteq ToSet(m)
  <1> DEFINE n == Len(m)
             K == 1 .. n
             before(i, j) == \/ m[i].timestamp > m[j].timestamp
                             \/ m[i].timestamp = m[j].timestamp /\ i < j
             R == {ij \in K \X K : before(ij[1], ij[2])}
             order == Arranged(K, R)
             sorted == [i \in K |-> m[order[i]]]
             cut == Min({MaxFiles, n})
  <1>1. n \in Nat /\ DOMAIN m = K /\ \A i \in K : m[i] \in E /\ m[i].timestamp \in Int
    OBVIOUS
  <1>2. NewestFirst(m) = SubSeq(sorted, 1, cut)
    BY <1>1 DEF NewestFirst
  <1>3. \A x, y : <<x, y>> \in R <=> x \in K /\ y \in K /\ before(x, y)
    OBVIOUS
  <1> HIDE DEF n
  <1>4. /\ \A x \in K : ~before(x, x)
        /\ \A x, y \in K : x = y \/ before(x, y) \/ before(y, x)
        /\ \A x, y, z \in K : before(x, y) /\ before(y, z) => before(x, z)
    <2> DEFINE w(x) == m[x].timestamp
    <2>1. \A x \in K : x \in Nat /\ w(x) \in Int
      BY <1>1
    <2>2. \A x, y \in K : before(x, y) <=> w(x) > w(y) \/ (w(x) = w(y) /\ x < y)
      OBVIOUS
    <2> HIDE DEF before, w, K
    <2>3. \A x \in K : ~before(x, x)
      BY <2>1, <2>2
    <2>4. \A x, y \in K : x = y \/ before(x, y) \/ before(y, x)
      BY <2>1, <2>2
    <2>5. \A x, y, z \in K : before(x, y) /\ before(y, z) => before(x, z)
      BY <2>1, <2>2
    <2> QED
      BY <2>3, <2>4, <2>5
  <1> HIDE DEF before, R
  <1>5. /\ \A x \in K : <<x, x>> \notin R
        /\ \A x, y \in K : x = y \/ <<x, y>> \in R \/ <<y, x>> \in R
        /\ \A x, y, z \in K : <<x, y>> \in R /\ <<y, z>> \in R => <<x, z>> \in R
    BY <1>3, <1>4
  <1>6. IsFiniteSet(K) /\ Cardinality(K) = n
    BY <1>1, FS_Interval
  <1>7. order \in [1 .. n -> K]
    <2> HIDE DEF order, K
    <2>1. order = Arranged(K, R)
      BY DEF order
    <2>2. order \in [1 .. Cardinality(K) -> K]
      BY <1>5, <1>6, <2>1, ArrangedAll
    <2> QED
      BY <1>6, <2>2
  <1> HIDE DEF order
  <1>8. sorted \in [1 .. n -> E] /\ \A i \in 1 .. n : sorted[i] \in ToSet(m)
    BY <1>1, <1>7 DEF ToSet
  <1> HIDE DEF sorted
  <1>9. sorted \in Seq(E) /\ Len(sorted) = n
    BY <1>1, <1>8
  <1>10. cut \in Nat /\ cut <= MaxFiles /\ cut <= n
    <2>0. MaxFiles \in Nat
      BY HotFilesAssumption
    <2> DEFINE T == {MaxFiles, n}
    <2>1. T \in SUBSET Nat /\ T # {}
      BY <1>1, <2>0
    <2> HIDE DEF T
    <2>2. Min(T) \in T /\ \A x \in T : Min(T) <= x
      BY <2>1, MinOf
    <2> QED
      BY <1>1, <2>0, <2>1, <2>2 DEF T
  <1> HIDE DEF cut
  <1>11. /\ SubSeq(sorted, 1, cut) \in Seq(E) /\ Len(SubSeq(sorted, 1, cut)) = cut
         /\ \A i \in 1 .. cut : SubSeq(sorted, 1, cut)[i] = sorted[i]
    BY <1>1, <1>9, <1>10
  <1>12. \A i \in 1 .. cut : sorted[i] \in ToSet(m)
    BY <1>1, <1>8, <1>10
  <1>13. ToSet(NewestFirst(m)) \subseteq ToSet(m)
    BY <1>2, <1>11, <1>12 DEF ToSet
  <1> QED
    BY <1>2, <1>10, <1>11, <1>13

\* Marks change actions only.
LEMMA MarksAre ==
  ASSUME NEW m \in Seq(Entries)
  PROVE  /\ MarkCreated(MarkDeleted(m)) \in Seq(Entries)
         /\ \A e \in ToSet(MarkCreated(MarkDeleted(m))) :
              \E f \in ToSet(m) : /\ SameKey(e, f) /\ e.timestamp = f.timestamp
                                  /\ f.action = "opened" => e.action \in {"opened", "deleted"}
  <1> DEFINE n == Len(m)
             d == MarkDeleted(m)
             c == MarkCreated(d)
             Same(e, f) == /\ SameKey(e, f) /\ e.timestamp = f.timestamp
                           /\ f.action = "opened" => e.action \in {"opened", "deleted"}
  <1>1. n \in Nat /\ DOMAIN m = 1 .. n /\ \A i \in 1 .. n : m[i] \in Entries
    OBVIOUS
  <1>2. d = [i \in 1 .. n |-> IF Exists(m[i].path) THEN m[i]
                              ELSE [m[i] EXCEPT !.action = "deleted"]]
    BY <1>1 DEF MarkDeleted
  <1> HIDE DEF n, d, Same
  <1>3. ASSUME NEW i \in 1 .. n
        PROVE  d[i] \in Entries /\ Same(d[i], m[i])
    <2>1. m[i] \in Entries
      BY <1>1
    <2>2. CASE d[i] = m[i]
      BY <2>1, <2>2 DEF Same, SameKey
    <2>3. CASE d[i] = [m[i] EXCEPT !.action = "deleted"]
      BY <2>1, <2>3 DEF Same, SameKey, Entries
    <2> QED
      BY <1>2, <2>2, <2>3
  <1>4. DOMAIN d = 1 .. n
    BY <1>2
  <1>5. /\ DOMAIN c = 1 .. n
        /\ \A i \in 1 .. n : \/ c[i] = d[i]
                             \/ /\ d[i].action \notin {"deleted", "opened"}
                                /\ c[i] = [d[i] EXCEPT !.action = "created"]
    BY <1>4 DEF MarkCreated
  <1>6. c = [i \in 1 .. n |-> c[i]]
    <2>1. d = [i \in 1 .. n |-> d[i]]
      BY <1>2, <1>4
    <2>2. CASE ~initialized
      BY <2>1, <2>2 DEF MarkCreated
    <2>3. CASE initialized
      BY <1>4, <2>3 DEF MarkCreated
    <2> QED
      BY <2>2, <2>3
  <1> HIDE DEF c
  <1>7. ASSUME NEW i \in 1 .. n
        PROVE  c[i] \in Entries /\ Same(c[i], m[i])
    <2>1. m[i] \in Entries /\ d[i] \in Entries /\ Same(d[i], m[i])
      BY <1>1, <1>3
    <2>2. CASE c[i] = d[i]
      BY <2>1, <2>2
    <2>3. CASE /\ d[i].action \notin {"deleted", "opened"}
               /\ c[i] = [d[i] EXCEPT !.action = "created"]
      BY <2>1, <2>3 DEF Same, SameKey, Entries
    <2> QED
      BY <1>5, <2>2, <2>3
  <1>8. c \in Seq(Entries) /\ Len(c) = n
    BY <1>1, <1>6, <1>7
  <1>9. ToSet(c) = {c[i] : i \in 1 .. n} /\ ToSet(m) = {m[i] : i \in 1 .. n}
    BY <1>1, <1>5 DEF ToSet
  <1>10. \A e \in ToSet(c) : \E f \in ToSet(m) : Same(e, f)
    BY <1>7, <1>9
  <1> QED
    BY <1>8, <1>10 DEF c, d, Same

LEMMA MonitoredIs ==
  ASSUME AgentEntries \in Seq(Entries), there \subseteq Dirs, monitors \subseteq there,
         Cardinality(monitors) <= MaxMonitors
  PROVE  Monitored \subseteq there /\ Cardinality(Monitored) <= MaxMonitors
  <1> DEFINE n == Len(AgentEntries)
             X == {ms \in SUBSET there : Cardinality(ms) <= MaxMonitors}
             add(ms, e) == IF Cardinality(ms) < MaxMonitors /\ DirOf(e.path) \in there
                           THEN ms \cup {DirOf(e.path)} ELSE ms
             G == [mk \in X \X (1 .. n) |-> add(mk[1], AgentEntries[mk[2]])]
             Folds(h) == h = [s \in SUBSET (DOMAIN AgentEntries) |->
                                IF s = {} THEN monitors
                                ELSE add(h[s \ {Max(s)}], AgentEntries[Max(s)])]
  <1>1. /\ n \in Nat /\ DOMAIN AgentEntries = 1 .. n /\ monitors \in X
        /\ \A k \in 1 .. n : AgentEntries[k] \in Entries
    OBVIOUS
  <1>2. ASSUME NEW ms \in X, NEW k \in 1 .. n
        PROVE  add(ms, AgentEntries[k]) \in X
    <2>2. IsFiniteSet(ms) /\ Cardinality(ms) \in Nat
      <3>1. ms \in SUBSET Dirs
        OBVIOUS
      <3> QED
        BY <3>1, HotFilesAssumption, FS_Subset, FS_CardinalityType
    <2> DEFINE d == DirOf(AgentEntries[k].path)
    <2> HIDE DEF d
    <2>3. Cardinality(ms \cup {d}) <= Cardinality(ms) + 1 /\ Cardinality(ms \cup {d}) \in Nat
      <3>1. IsFiniteSet(ms)
        BY <2>2
      <3>2. \/ Cardinality(ms \cup {d}) = Cardinality(ms)
            \/ Cardinality(ms \cup {d}) = Cardinality(ms) + 1
        BY <3>1, FS_AddElement
      <3> QED
        BY <2>2, <3>2
    <2>4. MaxMonitors \in Nat
      BY HotFilesAssumption
    <2>5. CASE Cardinality(ms) < MaxMonitors /\ d \in there
      <3>1. Cardinality(ms \cup {d}) <= MaxMonitors
        BY <2>2, <2>3, <2>4, <2>5
      <3>2. ms \cup {d} \in X
        BY <2>5, <3>1
      <3>3. add(ms, AgentEntries[k]) = ms \cup {d}
        BY <2>5 DEF d
      <3> HIDE DEF X, add
      <3> QED
        BY <3>2, <3>3
    <2>6. CASE ~(Cardinality(ms) < MaxMonitors /\ d \in there)
      BY <2>6 DEF d
    <2> QED
      BY <2>5, <2>6
  <1>3. Monitored = (CHOOSE h : Folds(h))[DOMAIN AgentEntries]
    BY DEF Monitored, FoldLeft, MapThenFoldSet
  <1> HIDE DEF n, X, add
  <1>4. G \in [X \X (1 .. n) -> X]
    <2> SUFFICES ASSUME NEW mk \in X \X (1 .. n)
                 PROVE  add(mk[1], AgentEntries[mk[2]]) \in X
      BY Zenon
    <2> QED
      BY <1>2
  <1>5. PICK g \in [SUBSET (1 .. n) -> X] :
          \A s \in SUBSET (1 .. n) :
            g[s] = IF s = {} THEN monitors ELSE G[<<g[s \ {Max(s)}], Max(s)>>]
    <2> HIDE DEF G
    <2>1. FoldsOf(n, X, monitors, G) # {}
      BY <1>1, <1>4, FoldExists
    <2> QED
      BY <2>1 DEF FoldsOf
  <1>6. Folds(g)
    <2>1. ASSUME NEW s \in SUBSET (1 .. n), s # {}
          PROVE  g[s] = add(g[s \ {Max(s)}], AgentEntries[Max(s)])
      <3>1. Max(s) \in 1 .. n /\ g[s \ {Max(s)}] \in X
        BY <1>1, <2>1, MaxOfIndices
      <3> QED
        BY <1>5, <2>1, <3>1
    <2> HIDE DEF G
    <2>2. \A s \in SUBSET (1 .. n) : s = {} => g[s] = monitors
      BY <1>5
    <2> QED
      BY <1>1, <1>5, <2>1, <2>2
  <1> HIDE DEF Folds, G
  <1>7. PICK h : Folds(h) /\ Monitored = h[1 .. n]
    BY <1>1, <1>3, <1>6, Zenon
  <1> DEFINE S == {k \in Nat : k <= n => h[1 .. k] \in X}
  <1>8. 0 \in S
    <2>1. 1 .. 0 = {}
      OBVIOUS
    <2> QED
      BY <1>1, <1>7, <2>1 DEF Folds
  <1>9. ASSUME NEW k \in Nat, k \in S
        PROVE  k + 1 \in S
    <2> SUFFICES ASSUME k + 1 <= n
                 PROVE  h[1 .. k + 1] \in X
      OBVIOUS
    <2>1. h[1 .. k] \in X /\ k + 1 \in 1 .. n
      BY <1>1, <1>9
    <2>2. Max(1 .. k + 1) = k + 1 /\ (1 .. k + 1) \ {k + 1} = 1 .. k
      <3>1. k + 1 \in Nat /\ k + 1 > 0 /\ (k + 1) - 1 = k
        OBVIOUS
      <3> QED
        BY <3>1, MaxOfPrefix
    <2>3. 1 .. k + 1 \in SUBSET (1 .. n) /\ 1 .. k + 1 # {}
      <3>1. k + 1 \in 1 .. k + 1 /\ n \in Nat /\ k + 1 <= n
        BY <1>1
      <3>2. \A j \in 1 .. k + 1 : j \in 1 .. n
        BY <3>1
      <3> QED
        BY <3>1, <3>2
    <2>4. h[1 .. k + 1] = add(h[(1 .. k + 1) \ {Max(1 .. k + 1)}], AgentEntries[Max(1 .. k + 1)])
      BY <1>1, <1>7, <2>3 DEF Folds
    <2>5. h[1 .. k + 1] = add(h[1 .. k], AgentEntries[k + 1])
      BY <2>2, <2>4
    <2> QED
      BY <1>2, <2>1, <2>5
  <1>10. n \in S
    <2> HIDE DEF S
    <2> QED
      BY <1>1, <1>8, <1>9, NatInductionOn
  <1> QED
    BY <1>1, <1>7, <1>10 DEF X

\* The scan finds files written within the window and not covered.
LEMMA ScanActiveDirsIs ==
  ASSUME \A p \in Files : disk[p].mtime \in Nat
  PROVE  /\ ScanActiveDirs \in Seq(EntriesOf("user", {"created", "modified"}))
         /\ \A e \in ToSet(ScanActiveDirs) : /\ e.timestamp = disk[e.path].mtime
                                             /\ disk[e.path].mtime >= Clock - Window
                                             /\ ~Covered(e.path)
  <1> DEFINE S == {p \in Files : /\ DirOf(p) \in ActiveDirs /\ Exists(p)
                                 /\ disk[p].mtime >= Clock - Window
                                 /\ ~Covered(p)}
             E == EntriesOf("user", {"created", "modified"})
             found == SetToSeq(S)
             action(f) == IF f.born > Clock - Window /\ f.mtime - f.born < Young
                          THEN "created" ELSE "modified"
  <1>1. ScanActiveDirs = [n \in DOMAIN found |->
                            Entry(found[n], disk[found[n]].mtime, "user", action(disk[found[n]]))]
    BY DEF ScanActiveDirs
  <1>2. S \in SUBSET Files /\ \A p \in S : disk[p].mtime >= Clock - Window /\ ~Covered(p)
    OBVIOUS
  <1>3. \A f : action(f) \in {"created", "modified"}
    OBVIOUS
  <1> HIDE DEF S, E, found, action
  <1>4. IsFiniteSet(S)
    BY <1>2, FilesAreFinite, FS_Subset
  <1> DEFINE N == Cardinality(S)
  <1>5. N \in Nat /\ found \in [1 .. N -> S]
    BY <1>4, SetToSeqAll DEF found
  <1> HIDE DEF N
  <1>6. ASSUME NEW i \in 1 .. N
        PROVE  /\ ScanActiveDirs[i] \in E
               /\ ScanActiveDirs[i].path \in S
               /\ ScanActiveDirs[i].timestamp = disk[ScanActiveDirs[i].path].mtime
    <2>1. found[i] \in S /\ found[i] \in Files /\ disk[found[i]].mtime \in Int
      BY <1>2, <1>5
    <2>2. ScanActiveDirs[i] = Entry(found[i], disk[found[i]].mtime, "user",
                                    action(disk[found[i]]))
      BY <1>1, <1>5
    <2>3. ScanActiveDirs[i] \in E
      BY <1>3, <2>1, <2>2, EntryType DEF E
    <2>4. /\ ScanActiveDirs[i].path = found[i]
          /\ ScanActiveDirs[i].timestamp = disk[found[i]].mtime
      BY <2>2 DEF Entry
    <2> QED
      BY <2>1, <2>3, <2>4
  <1>7. ScanActiveDirs \in Seq(E) /\ DOMAIN ScanActiveDirs = 1 .. N
    <2>1. DOMAIN found = 1 .. N
      BY <1>5
    <2>2. ScanActiveDirs = [i \in 1 .. N |-> ScanActiveDirs[i]]
      BY <1>1, <2>1
    <2> QED
      BY <1>5, <1>6, <2>2
  <1>8. ToSet(ScanActiveDirs) = {ScanActiveDirs[i] : i \in 1 .. N}
    BY <1>7 DEF ToSet
  <1> QED
    BY <1>2, <1>6, <1>7, <1>8 DEF E

-----------------------------------------------------------------------------
(* Whole seconds *)

LEMMA PartOfSecond ==
  ASSUME NEW t \in Nat
  PROVE  /\ t % Second \in Nat /\ (t % Second) < Second /\ (t % Second) <= t
         /\ t \div Second \in Nat /\ t = Second * (t \div Second) + (t % Second)
  BY HotFilesAssumption

LEMMA DivisionMonotone ==
  ASSUME NEW s \in Nat, NEW t \in Nat, s <= t
  PROVE  s \div Second <= t \div Second
  BY HotFilesAssumption

LEMMA NextMultiple ==
  ASSUME NEW q \in Int, NEW r \in Int, q > r
  PROVE  Second * q >= Second * r + Second
  BY HotFilesAssumption

\* A time's second begins no later, and less than a second earlier; so do those of later times.
LEMMA WholeIs ==
  ASSUME NEW t \in Nat
  PROVE  /\ Whole(t) \in Nat /\ Whole(t) <= t /\ t < Whole(t) + Second
         /\ t >= Second => Whole(t) >= Second
         /\ \A s \in Nat : s <= t => Whole(s) <= Whole(t)
  <1>1. /\ Second \in Nat /\ t % Second \in Nat /\ (t % Second) < Second /\ (t % Second) <= t
        /\ t \div Second \in Nat /\ t = Second * (t \div Second) + (t % Second)
    BY PartOfSecond, HotFilesAssumption
  <1>2. ASSUME NEW s \in Nat, s <= t
        PROVE  Whole(s) <= Whole(t)
    <2>1. /\ s % Second \in Nat /\ s \div Second \in Nat
          /\ s = Second * (s \div Second) + (s % Second)
      BY PartOfSecond
    <2>2. s \div Second <= t \div Second
      BY <1>2, DivisionMonotone
    <2>3. \/ s \div Second = t \div Second
          \/ Second * (t \div Second) >= Second * (s \div Second) + Second
      BY <1>1, <2>1, <2>2, NextMultiple
    <2> QED
      BY <1>1, <2>1, <2>3 DEF Whole
  <1>3. t >= Second => Whole(t) >= Second
    <2>1. Second % Second = 0
      BY HotFilesAssumption
    <2>2. Whole(Second) = Second
      BY <1>1, <2>1 DEF Whole
    <2> QED
      BY <1>1, <1>2, <2>2
  <1> QED
    BY <1>1, <1>2, <1>3 DEF Whole

-----------------------------------------------------------------------------
(* Invariants *)

Writers == {"nobody", "claude", "codex", "late codex", "user"}

\* What an agent has begun is about a file.
Jobs == {Nothing} \cup [path : Files, what : Tools \cup Ops, since : Nat]

ClockInv == /\ now \in Nat /\ now >= Second
            /\ logTime \in Nat /\ 1 <= logTime /\ logTime <= Clock
            /\ changes \in Nat /\ changes <= MaxChanges

\* No file was written after now, none before it was born, and none outside a directory.
DiskInv == /\ disk \in [Files -> [born : Nat, mtime : Nat, by : Writers]]
           /\ \A p \in Files : disk[p].born <= disk[p].mtime /\ disk[p].mtime <= Clock
           /\ there \subseteq Dirs

\* What a session of Claude's has begun or logged it began after the session, and the log's
\* mtime is at least the second of each of its lines.
ClaudeInv == /\ IsLog(log)
             /\ began \in Seq(Nat) /\ Len(began) <= MaxSessions
             /\ \A k \in 1 .. Len(log) : Second <= log[k].at /\ Whole(log[k].at) <= logTime
             /\ \A s \in 1 .. MaxSessions : doing[s] # Nothing =>
                  /\ s \in DOMAIN began /\ began[s] < doing[s].since
                  /\ Second <= doing[s].since /\ doing[s].since <= now
                  /\ doing[s].what \in Tools

\* The other sources have nothing from after now.
SourcesInv == /\ doing \in [Agents -> Jobs]
              /\ rows \in Seq(Rows)
              /\ \A k \in 1 .. Len(rows) : 1 <= rows[k].ts /\ rows[k].ts <= Clock
              /\ visited \in [Files -> Nat]

WorldInv == ClockInv /\ DiskInv /\ ClaudeInv /\ SourcesInv

PcInv == /\ pc \in {"start", "idle", "sources", "scan", "publish"}
         /\ pending \in BOOLEAN /\ initialized \in BOOLEAN
         /\ pc = "idle" => initialized

ListInv == /\ files \in Seq(Entries) /\ Len(files) <= MaxFiles
           /\ known \subseteq Files /\ PathsOf(files) \subseteq known
           /\ monitors \subseteq there /\ Cardinality(monitors) <= MaxMonitors

\* What has been read is of the kind its reader returns.
ReadInv == /\ text \in Nat /\ text <= Len(log)
           /\ read \in [agents : Seq(EntriesOf("claude", {"opened", "created", "modified"})),
                        codex : Seq(EntriesOf("codex", {"created", "deleted", "modified"})),
                        xbel : Seq(EntriesOf("user", {"opened"})),
                        scanned : Seq(EntriesOf("user", {"created", "modified"})),
                        rows : Seq(Rows)]
           /\ \A r \in ToSet(read.rows) : r.ts >= 1

\* Line k of the text is not so old that it is dropped, nor dated too far ahead.
Recent(k) == log[k].at >= Clock - Window + Second /\ AheadOfLog(text, k) <= Ahead

\* Such a line of a text written in turn has an entry that is less than a second older.
AgentsCover ==
  InTurn(TextOf(text)) => \A k \in 1 .. text : Recent(k) =>
    \E e \in ToSet(read.agents) : e.path = log[k].path /\ e.timestamp > log[k].at - Second

\* A recent row has one that is as recent.
CodexCover ==
  \A r \in ToSet(read.rows) : r.ts >= Clock - Window =>
    \E e \in ToSet(read.codex) : e.path = r.path /\ e.timestamp >= r.ts

\* The scan's finds are later than what the agents' logs have about the same file.
ScannedLater ==
  \A e \in ToSet(read.scanned) :
    /\ InTurn(TextOf(text)) => \A k \in 1 .. text :
         log[k].path = e.path /\ Recent(k) => log[k].at < e.timestamp
    /\ \A r \in ToSet(read.rows) : r.path = e.path /\ r.ts >= Clock - Window =>
         r.ts < e.timestamp - Slack

RefreshInv == /\ pc \in {"scan", "publish"} => AgentsCover /\ CodexCover
              /\ pc = "publish" => ScannedLater

\* The places the running refresh has still to read.
Unread == CASE pc = "sources" -> {"xbel", "codex"} \cup Dirs
            [] pc = "scan" -> Dirs
            [] pc \in {"start", "idle", "publish"} -> {}

\* A watched change not read yet has raised a signal, or the running refresh will read it.
WakeInv == /\ due \subseteq Sources \cup Dirs
           /\ pending \/ due \subseteq Unread

HotFilesInv == WorldInv /\ PcInv /\ ListInv /\ ReadInv /\ RefreshInv /\ WakeInv

LEMMA PrefixOfLog ==
  ASSUME IsLog(log), NEW n \in Nat, n <= Len(log)
  PROVE  /\ IsLog(SubSeq(log, 1, n)) /\ Len(SubSeq(log, 1, n)) = n
         /\ \A k \in 1 .. n : SubSeq(log, 1, n)[k] = log[k]
  BY DEF IsLog

LEMMA AppendKeepsPrefix ==
  ASSUME NEW S, NEW s \in Seq(S), NEW x \in S, NEW n \in Nat, n <= Len(s)
  PROVE  SubSeq(Append(s, x), 1, n) = SubSeq(s, 1, n)
  <1>1. \A k \in 1 .. n : Append(s, x)[k] = s[k]
    OBVIOUS
  <1> QED
    BY <1>1

LEMMA DirOfFile == \A p \in Files : DirOf(p) \in Dirs
  BY DEF Files, DirOf

-----------------------------------------------------------------------------
(* The world's steps *)

OneSignal == /\ UNCHANGED service
             /\ \/ UNCHANGED <<pending, due>>
                \/ \E place \in Sources \cup Dirs : Signal(place)

\* What the world does leaves the service alone and signals at most one place.
LEMMA WorldEffect ==
  ASSUME WorldStep, SourcesInv
  PROVE  OneSignal
  <1>1. ASSUME NEW p \in Files, Save(p) \/ Delete(p) \/ Opens(p)
        PROVE  OneSignal
    BY <1>1, DirOfFile DEF Save, Delete, Opens, OneSignal, Sources
  <1>2. ASSUME NEW s, NEW p \in Files, ClaudeReads(s, p) \/ \E tool : ClaudeWrites(s, p, tool)
        PROVE  OneSignal
    BY <1>2, DirOfFile DEF ClaudeReads, ClaudeWrites, OneSignal
  <1>3. ASSUME NEW p \in Files, NEW op, NEW s, CodexCalls(p, op, s)
        PROVE  OneSignal
    BY <1>3 DEF CodexCalls, OneSignal, Sources
  <1>4. ASSUME NEW s, ClaudeLogs(s) \/ NewSession \/ Tick
        PROVE  OneSignal
    BY <1>4 DEF ClaudeLogs, NewSession, Tick, OneSignal, Sources
  <1>5. ASSUME CodexApplies
        PROVE  OneSignal
    <2>1. doing[Codex].path \in Files
      BY <1>5 DEF CodexApplies, SourcesInv, Jobs, Agents
    <2>2. UNCHANGED service /\ Signal(DirOf(doing[Codex].path))
      BY <1>5 DEF CodexApplies
    <2> QED
      BY <2>1, <2>2, DirOfFile DEF OneSignal
  <1> QED
    BY <1>1, <1>2, <1>3, <1>4, <1>5 DEF WorldStep

\* Of the clock and the log's mtime a step changes one at most.
TimesChange == \/ now' = now /\ logTime' = logTime
               \/ now' \in Nat /\ now < now' /\ logTime' = logTime
               \/ now' = now /\ logTime' = Clock

\* The clock goes on, and the log's mtime with it.
LEMMA ClockStep ==
  ASSUME WorldStep, ClockInv
  PROVE  /\ ClockInv' /\ now <= now' /\ logTime <= logTime'
         /\ Clock \in Nat /\ Clock' \in Nat /\ Clock <= Clock' /\ Clock <= now
         /\ Clock >= Second /\ Clock >= 1
  <1>1. TimesChange
    <2>1. CASE Tick
      <3>1. PICK t \in now + 1 .. MaxTime : now' = t
        BY <2>1 DEF Tick
      <3>2. now \in Nat /\ MaxTime \in Nat /\ logTime' = logTime
        BY <2>1, HotFilesAssumption DEF Tick, ClockInv
      <3> QED
        BY <3>1, <3>2 DEF TimesChange
    <2>2. CASE ~Tick
      BY <2>2 DEF WorldStep, ClaudeReads, ClaudeWrites, ClaudeLogs, NewSession, CodexCalls,
                  CodexApplies, Save, Delete, Opens, TimesChange
    <2> QED
      BY <2>1, <2>2
  <1>2. changes' = changes \/ Counts
    BY DEF WorldStep, ClaudeReads, ClaudeWrites, ClaudeLogs, NewSession, CodexCalls,
           CodexApplies, Save, Delete, Opens, Tick, Undertakes
  <1>3. MaxChanges \in Nat /\ Second \in Nat /\ Second >= 1
    BY HotFilesAssumption
  <1>4. now \in Nat /\ now' \in Nat /\ now <= now' /\ now >= Second
    BY <1>1 DEF ClockInv, TimesChange
  <1>5. /\ Clock \in Nat /\ Clock' \in Nat /\ Clock <= Clock' /\ Clock <= now
        /\ Clock >= Second
    BY <1>4, WholeIs DEF Clock
  <1>6. /\ logTime' \in Nat /\ 1 <= logTime' /\ logTime <= logTime' /\ logTime' <= Clock'
    BY <1>1, <1>3, <1>5 DEF ClockInv, TimesChange
  <1>7. changes' \in Nat /\ changes' <= MaxChanges
    BY <1>2, <1>3 DEF ClockInv, Counts
  <1> QED
    BY <1>3, <1>4, <1>5, <1>6, <1>7 DEF ClockInv

\* What a step may do to the disk.
DiskChange == \/ \E p \in Files, who \in Writers : Writes(p, who)
              \/ \E p \in Files : Removes(p)
              \/ UNCHANGED <<disk, there>>

LEMMA DiskChanges ==
  ASSUME WorldStep, SourcesInv
  PROVE  DiskChange
  <1>1. ASSUME NEW p \in Files, Save(p) \/ Delete(p) \/ Opens(p)
        PROVE  DiskChange
    BY <1>1 DEF Save, Delete, Opens, DiskChange, Writers
  <1>2. ASSUME NEW s, NEW p \in Files, ClaudeReads(s, p) \/ \E tool : ClaudeWrites(s, p, tool)
        PROVE  DiskChange
    BY <1>2 DEF ClaudeReads, ClaudeWrites, DiskChange, Writers
  <1>3. ASSUME NEW p \in Files, NEW op, NEW s, CodexCalls(p, op, s)
        PROVE  DiskChange
    BY <1>3 DEF CodexCalls, DiskChange
  <1>4. ASSUME NEW s, ClaudeLogs(s) \/ NewSession \/ Tick
        PROVE  DiskChange
    BY <1>4 DEF ClaudeLogs, NewSession, Tick, DiskChange
  <1>5. CASE CodexApplies
    <2> DEFINE d == doing[Codex]
               who == IF Clock <= Whole(d.since) + Slack THEN "codex" ELSE "late codex"
    <2>1. d.path \in Files /\ who \in Writers
      BY <1>5 DEF CodexApplies, SourcesInv, Jobs, Writers, Agents
    <2>2. Removes(d.path) \/ Writes(d.path, who) \/ UNCHANGED <<disk, there>>
      BY <1>5 DEF CodexApplies
    <2> HIDE DEF d, who
    <2> QED
      BY <2>1, <2>2 DEF DiskChange
  <1> QED
    BY <1>1, <1>2, <1>3, <1>4, <1>5 DEF WorldStep

LEMMA DiskStep ==
  ASSUME WorldStep, WorldInv
  PROVE  DiskInv' /\ there \subseteq there'
  <1> DEFINE Stamps == [born : Nat, mtime : Nat, by : Writers]
             Fits(f) == f \in Stamps /\ f.born <= f.mtime /\ f.mtime <= Clock'
  <1>1. Clock \in Nat /\ Clock' \in Nat /\ Clock <= Clock'
    BY ClockStep DEF WorldInv
  <1>2. /\ disk \in [Files -> Stamps] /\ there \subseteq Dirs
        /\ \A p \in Files : disk[p].born <= disk[p].mtime /\ disk[p].mtime <= Clock
    BY DEF WorldInv, DiskInv
  <1> HIDE DEF Clock
  <1>3. \A p \in Files : Fits(disk[p])
    BY <1>1, <1>2
  <1>4. ASSUME NEW p \in Files, NEW f, Fits(f), disk' = [disk EXCEPT ![p] = f],
               there \subseteq there', there' \subseteq Dirs
        PROVE  DiskInv' /\ there \subseteq there'
    <2>1. \A q \in Files : disk'[q] = IF q = p THEN f ELSE disk[q]
      BY <1>2, <1>4
    <2>2. \A q \in Files : Fits(disk'[q])
      BY <1>3, <1>4, <2>1
    <2>3. disk' \in [Files -> Stamps]
      BY <1>2, <1>4
    <2> QED
      BY <1>4, <2>2, <2>3 DEF DiskInv
  <1>5. ASSUME NEW p \in Files, NEW who \in Writers, Writes(p, who)
        PROVE  DiskInv' /\ there \subseteq there'
    <2> DEFINE f == [born |-> IF disk[p] = Absent THEN Clock ELSE disk[p].born,
                     mtime |-> Clock, by |-> who]
    <2>1. Fits(f)
      BY <1>1, <1>2
    <2>2. disk' = [disk EXCEPT ![p] = f] /\ there' = there \cup {DirOf(p)}
      BY <1>5 DEF Writes
    <2> HIDE DEF f, Fits
    <2> QED
      BY <1>2, <1>4, <2>1, <2>2, DirOfFile
  <1>6. ASSUME NEW p \in Files, Removes(p)
        PROVE  DiskInv' /\ there \subseteq there'
    <2>1. Fits(Absent)
      BY <1>1 DEF Absent, Writers
    <2>2. disk' = [disk EXCEPT ![p] = Absent] /\ there' = there
      BY <1>6 DEF Removes
    <2> HIDE DEF Fits
    <2> QED
      BY <1>2, <1>4, <2>1, <2>2
  <1>7. CASE UNCHANGED <<disk, there>>
    BY <1>2, <1>3, <1>7 DEF DiskInv
  <1>8. DiskChange
    BY DiskChanges DEF WorldInv
  <1> QED
    BY <1>5, <1>6, <1>7, <1>8 DEF DiskChange

LEMMA SourcesStep ==
  ASSUME WorldStep, WorldInv
  PROVE  SourcesInv'
  <1> USE DEF WorldInv
  <1>1. /\ now \in Nat /\ Clock \in Nat /\ 1 <= Clock /\ Clock' \in Nat /\ Clock <= Clock'
    BY ClockStep DEF ClockInv
  <1>0. ASSUME NEW s \in DOMAIN began
        PROVE  s \in Agents
    <2>1. Len(began) \in Nat /\ s \in 1 .. Len(began) /\ Len(began) <= MaxSessions
      BY DEF ClaudeInv
    <2> QED
      BY <2>1, HotFilesAssumption DEF Agents
  <1>2. doing' \in [Agents -> Jobs]
    <2>1. ASSUME NEW p \in Files, NEW what \in Tools \cup Ops, NEW agent \in Agents,
                 Undertakes(agent, p, what)
          PROVE  doing' \in [Agents -> Jobs]
      BY <1>1, <2>1 DEF Undertakes, SourcesInv, Jobs
    <2>2. ASSUME NEW agent \in Agents, Finished(agent)
          PROVE  doing' \in [Agents -> Jobs]
      BY <2>2 DEF Finished, SourcesInv, Jobs
    <2>3. CASE doing' = doing
      BY <2>3 DEF SourcesInv
    <2>4. \/ \E p \in Files, what \in Tools \cup Ops, agent \in DOMAIN began \cup {Codex} :
               Undertakes(agent, p, what)
          \/ \E agent \in DOMAIN began \cup {Codex} : Finished(agent)
          \/ doing' = doing
      BY DEF WorldStep, ClaudeReads, ClaudeWrites, ClaudeLogs, NewSession, CodexCalls,
             CodexApplies, Save, Delete, Opens, Tick
    <2>5. Codex \in Agents
      BY DEF Agents
    <2> QED
      BY <1>0, <2>1, <2>2, <2>3, <2>4, <2>5
  <1> DEFINE Clock1 == Clock'
  <1>3. /\ rows' \in Seq(Rows)
        /\ \A k \in 1 .. Len(rows') : 1 <= rows'[k].ts /\ rows'[k].ts <= Clock1
    <2>1. CASE rows' = rows
      <3>0. \A k \in 1 .. Len(rows) : rows[k] \in Rows
        BY DEF SourcesInv
      <3>1. \A k \in 1 .. Len(rows) : rows[k].ts \in Nat
        BY <3>0 DEF Rows
      <3>2. \A k \in 1 .. Len(rows) : 1 <= rows[k].ts /\ rows[k].ts <= Clock1
        BY <1>1, <3>1 DEF SourcesInv
      <3> QED
        BY <2>1, <3>2 DEF SourcesInv
    <2>2. ASSUME NEW p \in Files, NEW op \in Ops, NEW s \in Threads, CodexCalls(p, op, s)
          PROVE  /\ rows' \in Seq(Rows)
                 /\ \A k \in 1 .. Len(rows') : 1 <= rows'[k].ts /\ rows'[k].ts <= Clock1
      <3> DEFINE r == [path |-> p, op |-> op, ts |-> Clock, thread |-> s]
      <3>1. rows' = Append(rows, r)
        BY <2>2 DEF CodexCalls
      <3>2. r \in Rows /\ 1 <= r.ts /\ r.ts <= Clock1
        BY <1>1 DEF Rows
      <3>3. rows \in Seq(Rows) /\ Len(rows) \in Nat
        BY DEF SourcesInv
      <3> HIDE DEF r
      <3>4. rows' \in Seq(Rows) /\ Len(rows') = Len(rows) + 1
        BY <3>1, <3>2, <3>3
      <3>5. \A k \in 1 .. Len(rows') : rows'[k] = r \/ (k \in 1 .. Len(rows) /\ rows'[k] = rows[k])
        BY <3>1, <3>3, <3>4
      <3>6. \A k \in 1 .. Len(rows) : 1 <= rows[k].ts /\ rows[k].ts <= Clock1
        <4>1. \A k \in 1 .. Len(rows) : rows[k] \in Rows
          BY <3>3
        <4>2. \A k \in 1 .. Len(rows) : rows[k].ts \in Nat
          BY <4>1 DEF Rows
        <4> QED
          BY <1>1, <4>2 DEF SourcesInv
      <3> QED
        BY <3>2, <3>4, <3>5, <3>6
    <2>3. \/ rows' = rows
          \/ \E p \in Files, op \in Ops, s \in Threads : CodexCalls(p, op, s)
      BY DEF WorldStep, ClaudeReads, ClaudeWrites, ClaudeLogs, NewSession,
             CodexApplies, Save, Delete, Opens, Tick
    <2> QED
      BY <2>1, <2>2, <2>3
  <1>4. visited' \in [Files -> Nat]
    <2>1. visited' = visited \/ \E p \in Files : visited' = [visited EXCEPT ![p] = Clock]
      BY DEF WorldStep, ClaudeReads, ClaudeWrites, ClaudeLogs, NewSession, CodexCalls,
             CodexApplies, Save, Delete, Opens, Tick
    <2> QED
      BY <1>1, <2>1 DEF SourcesInv
  <1> QED
    BY <1>2, <1>3, <1>4 DEF SourcesInv

\* The log only grows, by what one of the sessions has begun last.
LEMMA ClaudeLogsKeeps ==
  ASSUME NEW s \in DOMAIN began, ClaudeLogs(s), WorldInv
  PROVE  /\ ClaudeInv'
         /\ \E line \in LogLines : log' = Append(log, line)
  <1> USE DEF WorldInv
  <1> DEFINE d == doing[s]
             b == began[s]
             line == [path |-> d.path, tool |-> d.what, rel |-> d.since - b, at |-> d.since]
             n == Len(log)
  <1>1. /\ log' = Append(log, line) /\ logTime' = Clock /\ now' = now /\ began' = began
        /\ doing' = [doing EXCEPT ![s] = Nothing] /\ d # Nothing
    BY DEF ClaudeLogs, Finished
  <1>2. s \in 1 .. MaxSessions /\ s \in Agents /\ b \in Nat
    <2>1. began \in Seq(Nat) /\ Len(began) \in Nat /\ Len(began) <= MaxSessions
      BY DEF ClaudeInv
    <2>2. MaxSessions \in Nat
      BY HotFilesAssumption
    <2>3. s \in 1 .. MaxSessions /\ b \in Nat
      BY <2>1, <2>2
    <2> QED
      BY <2>3 DEF Agents
  <1>3. /\ d \in [path : Files, what : Tools \cup Ops, since : Nat] /\ d.what \in Tools
        /\ b < d.since /\ Second <= d.since /\ d.since <= now
    BY <1>1, <1>2 DEF ClaudeInv, SourcesInv, Jobs
  <1>4. /\ n \in Nat /\ log \in Seq(LogLines)
        /\ now \in Nat /\ logTime \in Nat /\ logTime <= Clock /\ Clock \in Nat
    BY WholeIs DEF ClaudeInv, IsLog, ClockInv, Clock
  <1>5. d.path \in Files /\ d.since \in Nat /\ d.since - b \in Nat \ {0}
    BY <1>2, <1>3
  <1>6. Whole(d.since) <= Clock
    BY <1>3, <1>4, <1>5, WholeIs DEF Clock
  <1> HIDE DEF b, d, Clock
  <1>7. line \in LogLines /\ line.at = d.since
    BY <1>3, <1>5 DEF LogLines
  <1> HIDE DEF line
  <1>8. /\ log' \in Seq(LogLines) /\ Len(log') = n + 1
        /\ \A k \in 1 .. n : log'[k] = log[k]
        /\ log'[n + 1] = line
    BY <1>1, <1>4, <1>7
  <1>9. ASSUME NEW k \in 1 .. n + 1
        PROVE  Second <= log'[k].at /\ Whole(log'[k].at) <= Clock
    <2>1. CASE k \in 1 .. n
      <3> DEFINE at == log[k].at
      <3>1. Second <= at /\ Whole(at) <= logTime /\ at \in Nat
        BY <2>1, LogType DEF ClaudeInv
      <3>2. Whole(at) \in Nat
        BY <3>1, WholeIs
      <3> HIDE DEF at
      <3>3. Whole(at) <= Clock
        BY <1>4, <3>1, <3>2
      <3> QED
        BY <1>8, <2>1, <3>1, <3>3 DEF at
    <2>2. CASE k = n + 1
      BY <1>3, <1>6, <1>7, <1>8, <2>2
    <2>3. k = n + 1 \/ k \in 1 .. n
      BY <1>4
    <2> QED
      BY <2>1, <2>2, <2>3
  <1>10. \A t \in 1 .. MaxSessions : doing'[t] = Nothing \/ doing'[t] = doing[t]
    <2>1. \A t \in 1 .. MaxSessions : t \in Agents
      BY DEF Agents
    <2> QED
      BY <1>1, <2>1 DEF SourcesInv
  <1>11. ClaudeInv'
    <2>1. \A t \in 1 .. MaxSessions : doing'[t] # Nothing =>
            /\ t \in DOMAIN began' /\ began'[t] < doing'[t].since
            /\ Second <= doing'[t].since /\ doing'[t].since <= now'
            /\ doing'[t].what \in Tools
      BY <1>1, <1>10 DEF ClaudeInv
    <2> QED
      BY <1>1, <1>8, <1>9, <2>1 DEF ClaudeInv, IsLog
  <1> QED
    BY <1>1, <1>7, <1>11

\* What the sessions have begun stays as it is, or one of them begins something after its own
\* beginning.
JobsChange ==
  \/ \A s \in 1 .. MaxSessions : doing'[s] = doing[s]
  \/ /\ began' = began /\ now' = now
     /\ \E s \in DOMAIN began, p \in Files, tool \in Tools :
          now > began[s] /\ Undertakes(s, p, tool)

LEMMA ClaudeStep ==
  ASSUME WorldStep, WorldInv
  PROVE  ClaudeInv'
  <1> USE DEF WorldInv
  <1>1. /\ now \in Nat /\ now' \in Nat /\ now <= now' /\ logTime \in Nat /\ logTime' \in Nat
        /\ logTime <= logTime' /\ Second \in Nat /\ Second <= now
    BY ClockStep, HotFilesAssumption DEF ClockInv
  <1>2. /\ began \in Seq(Nat) /\ Len(began) \in Nat /\ Len(began) <= MaxSessions
        /\ MaxSessions \in Nat
    BY HotFilesAssumption DEF ClaudeInv
  <1>3. CASE \E s \in DOMAIN began : ClaudeLogs(s)
    BY <1>3, ClaudeLogsKeeps
  <1>4. CASE ~\E s \in DOMAIN began : ClaudeLogs(s)
    <2>1. log' = log /\ logTime' = logTime
      BY <1>4 DEF WorldStep, ClaudeReads, ClaudeWrites, NewSession, CodexCalls,
                  CodexApplies, Save, Delete, Opens, Tick
    <2>2. began' = began \/ (Len(began) < MaxSessions /\ began' = Append(began, now))
      BY <1>4 DEF WorldStep, ClaudeReads, ClaudeWrites, NewSession, CodexCalls,
                  CodexApplies, Save, Delete, Opens, Tick
    <2>3. /\ began' \in Seq(Nat) /\ Len(began') <= MaxSessions
          /\ \A s \in DOMAIN began : s \in DOMAIN began' /\ began'[s] = began[s]
      <3>1. CASE began' = began
        BY <1>2, <3>1
      <3>2. CASE Len(began) < MaxSessions /\ began' = Append(began, now)
        <4>1. began' \in Seq(Nat) /\ Len(began') = Len(began) + 1
          BY <1>1, <1>2, <3>2
        <4>2. \A s \in DOMAIN began : s \in DOMAIN began' /\ began'[s] = began[s]
          BY <1>1, <1>2, <3>2
        <4>3. Len(began') <= MaxSessions
          BY <1>2, <3>2, <4>1
        <4> QED
          BY <4>1, <4>2, <4>3
      <3> QED
        BY <2>2, <3>1, <3>2
    <2>4. JobsChange
      <3>1. \A s \in 1 .. MaxSessions : s \in Agents /\ s # Codex
        BY DEF Agents, Codex
      <3>2. Codex \in Agents
        BY DEF Agents
      <3>3. ASSUME Undertakes(Codex, <<>>, "x") \/ (\E p, op : Undertakes(Codex, p, op))
                   \/ Finished(Codex) \/ doing' = doing
            PROVE  JobsChange
        BY <3>1, <3>2, <3>3 DEF JobsChange, Undertakes, Finished, SourcesInv
      <3>4. ASSUME NEW s \in DOMAIN began, NEW p \in Files, ClaudeReads(s, p)
            PROVE  JobsChange
        BY <3>4 DEF ClaudeReads, JobsChange
      <3>5. ASSUME NEW s \in DOMAIN began, NEW p \in Files, NEW tool \in Tools \ {"Read"},
                   ClaudeWrites(s, p, tool)
            PROVE  JobsChange
        BY <3>5 DEF ClaudeWrites, JobsChange
      <3>6. ASSUME NEW p \in Files,
                   \/ \E op \in Ops, s \in Threads : CodexCalls(p, op, s)
                   \/ Save(p) \/ Delete(p) \/ Opens(p)
            PROVE  JobsChange
        BY <3>3, <3>6 DEF CodexCalls, Save, Delete, Opens
      <3>7. CASE NewSession \/ CodexApplies \/ Tick
        BY <3>3, <3>7 DEF NewSession, CodexApplies, Tick
      <3> QED
        BY <1>4, <3>4, <3>5, <3>6, <3>7 DEF WorldStep
    <2>5. ASSUME NEW t \in 1 .. MaxSessions, doing'[t] # Nothing
          PROVE  /\ t \in DOMAIN began' /\ began'[t] < doing'[t].since
                 /\ Second <= doing'[t].since /\ doing'[t].since <= now'
                 /\ doing'[t].what \in Tools
      <3>1. CASE doing'[t] = doing[t]
        <4>1. /\ t \in DOMAIN began /\ began[t] < doing[t].since
              /\ Second <= doing[t].since /\ doing[t].since <= now
              /\ doing[t].what \in Tools
          BY <2>5, <3>1 DEF ClaudeInv
        <4>2. t \in Agents
          BY DEF Agents
        <4>3. doing[t].since \in Nat
          BY <2>5, <3>1, <4>2 DEF SourcesInv, Jobs
        <4> QED
          BY <1>1, <2>3, <3>1, <4>1, <4>3
      <3>2. ASSUME NEW s \in DOMAIN began, NEW p \in Files, NEW tool \in Tools,
                   now > began[s], Undertakes(s, p, tool), began' = began, now' = now,
                   doing'[t] # doing[t]
            PROVE  /\ t \in DOMAIN began' /\ began'[t] < doing'[t].since
                   /\ Second <= doing'[t].since /\ doing'[t].since <= now'
                   /\ doing'[t].what \in Tools
        <4> DEFINE d == [path |-> p, what |-> tool, since |-> now]
        <4>1. doing' = [doing EXCEPT ![s] = d]
          BY <3>2 DEF Undertakes
        <4>2. t \in Agents
          BY DEF Agents
        <4>3. t = s /\ doing'[t] = d
          BY <3>2, <4>1, <4>2 DEF SourcesInv
        <4> QED
          BY <1>1, <1>2, <3>2, <4>3
      <3> QED
        BY <2>4, <3>1, <3>2 DEF JobsChange
    <2>6. \A k \in 1 .. Len(log) : Second <= log[k].at /\ Whole(log[k].at) <= logTime
      BY DEF ClaudeInv
    <2>7. IsLog(log)
      BY DEF ClaudeInv
    <2> QED
      BY <2>1, <2>3, <2>5, <2>6, <2>7 DEF ClaudeInv
  <1> QED
    BY <1>3, <1>4

\* The parts of the log that have been read stay as they are.
LEMMA LogGrows ==
  ASSUME WorldStep, WorldInv
  PROVE  /\ Len(log) \in Nat /\ Len(log') \in Nat /\ Len(log) <= Len(log')
         /\ \A n \in Nat : n <= Len(log) => /\ SubSeq(log', 1, n) = SubSeq(log, 1, n)
                                            /\ \A k \in 1 .. n : log'[k] = log[k]
  <1>1. log \in Seq(LogLines)
    BY DEF WorldInv, ClaudeInv, IsLog
  <1>2. log' = log \/ \E line \in LogLines : log' = Append(log, line)
    <2>1. CASE \E s \in DOMAIN began : ClaudeLogs(s)
      BY <2>1, ClaudeLogsKeeps
    <2>2. CASE ~\E s \in DOMAIN began : ClaudeLogs(s)
      BY <2>2 DEF WorldStep, ClaudeReads, ClaudeWrites, NewSession, CodexCalls,
                  CodexApplies, Save, Delete, Opens, Tick
    <2> QED
      BY <2>1, <2>2
  <1>3. CASE log' = log
    BY <1>1, <1>3
  <1>4. ASSUME NEW line \in LogLines, log' = Append(log, line)
        PROVE  /\ Len(log') = Len(log) + 1
               /\ \A n \in Nat : n <= Len(log) => /\ SubSeq(log', 1, n) = SubSeq(log, 1, n)
                                                  /\ \A k \in 1 .. n : log'[k] = log[k]
    <2>1. \A n \in Nat : n <= Len(log) => SubSeq(log', 1, n) = SubSeq(log, 1, n)
      BY <1>1, <1>4, AppendKeepsPrefix
    <2>2. \A n \in Nat : n <= Len(log) => \A k \in 1 .. n : log'[k] = log[k]
      BY <1>1, <1>4
    <2> QED
      BY <1>1, <1>4, <2>1, <2>2
  <1> QED
    BY <1>1, <1>2, <1>3, <1>4

\* What the running refresh has read goes on to hold while the world changes.
LEMMA WorldKeepsRead ==
  ASSUME WorldStep, WorldInv, ReadInv, RefreshInv
  PROVE  ReadInv' /\ RefreshInv'
  <1>1. pc' = pc /\ text' = text /\ read' = read
    BY WorldEffect DEF OneSignal, service, WorldInv
  <1>2. /\ Len(log) \in Nat /\ Len(log') \in Nat /\ Len(log) <= Len(log')
        /\ SubSeq(log', 1, text) = SubSeq(log, 1, text)
        /\ \A k \in 1 .. text : log'[k] = log[k]
    BY LogGrows DEF ReadInv
  <1>3. Clock \in Nat /\ Clock' \in Nat /\ Clock <= Clock' /\ Window \in Nat /\ Second \in Nat
    BY ClockStep, HotFilesAssumption DEF WorldInv
  <1>4. ReadInv'
    BY <1>1, <1>2 DEF ReadInv
  <1>5. TextOf(text)' = TextOf(text)
    BY <1>1, <1>2 DEF TextOf
  <1>6. ASSUME NEW k \in 1 .. text, Recent(k)'
        PROVE  Recent(k)
    <2>1. log[k].at \in Nat
      BY <1>2, LogType DEF WorldInv, ClaudeInv, ReadInv
    <2>2. log[k].at >= Clock' - Window + Second
      BY <1>2, <1>6 DEF Recent
    <2>3. AheadOfLog(text, k) <= Ahead
      BY <1>1, <1>5, <1>6 DEF Recent, AheadOfLog
    <2> HIDE DEF Clock
    <2> QED
      BY <1>3, <2>1, <2>2, <2>3 DEF Recent
  <1>11. ASSUME AgentsCover
         PROVE  AgentsCover'
    <2>1. InTurn(TextOf(text))' => InTurn(TextOf(text))
      BY <1>5 DEF InTurn
    <2> SUFFICES ASSUME InTurn(TextOf(text)), NEW k \in 1 .. text, Recent(k)'
                 PROVE  \E e \in ToSet(read.agents) :
                          e.path = log[k].path /\ e.timestamp > log[k].at - Second
      BY <1>1, <1>2, <2>1 DEF AgentsCover
    <2>2. Recent(k)
      BY <1>6
    <2> QED
      BY <1>11, <2>2 DEF AgentsCover
  <1>7. \A r \in ToSet(read.rows) : r.ts \in Nat
    <2>1. read.rows \in Seq(Rows)
      BY DEF ReadInv
    <2>2. \A k \in DOMAIN read.rows : read.rows[k] \in Rows
      BY <2>1
    <2> QED
      BY <2>2 DEF Rows, ToSet
  <1>8. \A r \in ToSet(read.rows) : r.ts >= Clock' - Window => r.ts >= Clock - Window
    <2> HIDE DEF Clock
    <2> QED
      BY <1>3, <1>7
  <1>9. CodexCover => CodexCover'
    BY <1>1, <1>8 DEF CodexCover
  <1>10. ASSUME ScannedLater
         PROVE  ScannedLater'
    <2>1. InTurn(TextOf(text))' => InTurn(TextOf(text))
      BY <1>5 DEF InTurn
    <2>2. ASSUME NEW e \in ToSet(read.scanned), InTurn(TextOf(text)), NEW k \in 1 .. text,
                 log[k].path = e.path, Recent(k)'
          PROVE  log[k].at < e.timestamp
      BY <1>6, <1>10, <2>2 DEF ScannedLater
    <2>3. ASSUME NEW e \in ToSet(read.scanned), NEW r \in ToSet(read.rows),
                 r.path = e.path, r.ts >= Clock' - Window
          PROVE  r.ts < e.timestamp - Slack
      BY <1>8, <1>10, <2>3 DEF ScannedLater
    <2> QED
      BY <1>1, <1>2, <2>1, <2>2, <2>3 DEF ScannedLater
  <1> QED
    BY <1>1, <1>4, <1>9, <1>10, <1>11 DEF RefreshInv

LEMMA WorldInvStep ==
  ASSUME WorldStep, WorldInv
  PROVE  WorldInv'
  BY ClockStep, DiskStep, ClaudeStep, SourcesStep DEF WorldInv

-----------------------------------------------------------------------------
(* A refresh's steps *)

LEMMA ConcatSets ==
  ASSUME NEW S, NEW a \in Seq(S), NEW b \in Seq(S)
  PROVE  a \o b \in Seq(S) /\ ToSet(a \o b) = ToSet(a) \cup ToSet(b)
  <1>1. a \o b \in Seq(S) /\ Len(a \o b) = Len(a) + Len(b) /\ Len(a) \in Nat /\ Len(b) \in Nat
    OBVIOUS
  <1>2. /\ DOMAIN a = 1 .. Len(a) /\ DOMAIN b = 1 .. Len(b)
        /\ DOMAIN (a \o b) = 1 .. Len(a) + Len(b)
    BY <1>1
  <1>3. /\ \A i \in 1 .. Len(a) : i \in DOMAIN (a \o b) /\ (a \o b)[i] = a[i]
        /\ \A i \in 1 .. Len(b) : /\ Len(a) + i \in DOMAIN (a \o b)
                                  /\ (a \o b)[Len(a) + i] = b[i]
    BY <1>1, <1>2
  <1>4. ASSUME NEW i \in DOMAIN (a \o b)
        PROVE  (a \o b)[i] \in ToSet(a) \cup ToSet(b)
    <2>1. CASE i \in 1 .. Len(a)
      BY <1>2, <1>3, <2>1 DEF ToSet
    <2>2. CASE i \notin 1 .. Len(a)
      <3>1. i - Len(a) \in 1 .. Len(b) /\ Len(a) + (i - Len(a)) = i
        BY <1>1, <1>2, <2>2
      <3> QED
        BY <1>2, <1>3, <3>1 DEF ToSet
    <2> QED
      BY <2>1, <2>2
  <1>5. ToSet(a \o b) \subseteq ToSet(a) \cup ToSet(b)
    BY <1>4 DEF ToSet
  <1>6. ToSet(a) \subseteq ToSet(a \o b)
    BY <1>2, <1>3 DEF ToSet
  <1>7. ToSet(b) \subseteq ToSet(a \o b)
    BY <1>2, <1>3 DEF ToSet
  <1> QED
    BY <1>1, <1>5, <1>6, <1>7

\* The lines the code leaves out are old or from the future, if sessions wrote in turn.
LEMMA AgentsAreCovered ==
  ASSUME WorldInv, ReadInv, text # 0
  PROVE  LET entries == ReadAgentFiles(SubSeq(log, 1, text), logTime, Clock)
         IN  /\ entries \in Seq(EntriesOf("claude", {"opened", "created", "modified"}))
             /\ InTurn(TextOf(text)) => \A k \in 1 .. text : Recent(k) =>
                  \E e \in ToSet(entries) :
                    e.path = log[k].path /\ e.timestamp > log[k].at - Second
  <1> DEFINE lines == SubSeq(log, 1, text)
             entries == ReadAgentFiles(lines, logTime, Clock)
  <1>1. text \in Nat /\ text <= Len(log) /\ Len(log) \in Nat /\ IsLog(log)
    BY LogType DEF ReadInv, WorldInv, ClaudeInv
  <1>2. /\ IsLog(lines) /\ Len(lines) = text
        /\ \A k \in 1 .. text : lines[k] = log[k]
    BY <1>1, PrefixOfLog
  <1>3. Clock \in Nat /\ logTime \in Nat /\ logTime <= Clock /\ Second \in Nat
    BY WholeIs, HotFilesAssumption DEF WorldInv, ClockInv, Clock
  <1> HIDE DEF Clock
  <1>4. /\ Window \in Nat /\ Week \in Nat /\ Ahead \in Nat /\ Window <= Week
        /\ Tools \subseteq {"Read", "Write", "Edit"}
    BY HotFilesAssumption
  <1>5. \A k \in 1 .. text : /\ k \in 1 .. Len(log) /\ log[k].at \in Nat
                             /\ Whole(log[k].at) <= logTime /\ log[k].tool \in Tools
    <2>1. \A k \in 1 .. text : k \in 1 .. Len(log)
      BY <1>1
    <2>2. \A k \in 1 .. Len(log) : log[k] \in LogLines /\ log[k].at \in Nat
      BY <1>1, LogType
    <2> QED
      BY <2>1, <2>2 DEF WorldInv, ClaudeInv, LogLines
  <1> HIDE DEF lines
  <1>6. text \in 1 .. text
    BY <1>1
  <1>7. logTime > lines[Len(lines)].at - Second
    <2> DEFINE at == log[text].at
               w == Whole(at)
    <2>1. at \in Nat /\ w <= logTime /\ lines[Len(lines)].at = at
      BY <1>2, <1>5, <1>6
    <2>2. w \in Nat /\ at < w + Second
      BY <2>1, WholeIs
    <2> HIDE DEF at, w
    <2> QED
      BY <1>3, <2>1, <2>2
  <1>8. /\ entries \in Seq(EntriesOf("claude", {"opened", "created", "modified"}))
        /\ \A k \in Counted(lines, logTime, Clock) :
             \E f \in ToSet(entries) : /\ f.path = lines[k].path
                                       /\ f.timestamp >= LineTimes(lines, logTime)[k]
    <2>1. logTime \in Int /\ Clock \in Int
      BY <1>3
    <2> QED
      BY <1>2, <2>1, ReadAgentFilesIs
  <1>9. ASSUME InTurn(lines), NEW k \in 1 .. text, Recent(k)
        PROVE  /\ k \in Counted(lines, logTime, Clock)
               /\ LineTimes(lines, logTime)[k] \in Int
               /\ LineTimes(lines, logTime)[k] > log[k].at - Second
    <2> DEFINE t == LineTimes(lines, logTime)[k]
               a == LineTimes(lines, 0)[k]
               end == BaseTimes(lines, logTime)[SessionOf(lines, k)]
                        + LastTs(lines, SessionOf(lines, k))
               at == log[k].at
    <2>1. t = logTime + a
      BY <1>2, <1>3, LineTimesShift
    <2>2. t > at - Second /\ end > at - Second
      BY <1>2, <1>3, <1>7, <1>9, LineTimesNotEarly
    <2>3. t \in Int /\ a \in Int
      <3>1. 0 \in Int /\ logTime \in Int
        BY <1>3
      <3> QED
        BY <1>2, <3>1, LineTimesAre
    <2>4. end \in Int
      <3>1. BaseTimes(lines, logTime)[SessionOf(lines, k)] \in Int
        BY <1>2, <1>3, LineTimesAre
      <3>2. SessionOf(lines, k) \in Begins(lines)
        BY <1>2, SessionOfLine
      <3>3. LastTs(lines, SessionOf(lines, k)) \in Int
        BY <1>2, <3>2, SegmentTimes, Segments, LogType
      <3> QED
        BY <3>1, <3>3
    <2>5. a <= Ahead
      BY <1>9 DEF AheadOfLog, Recent, TextOf, lines
    <2>6. at \in Nat /\ at >= Clock - Window + Second
      BY <1>5, <1>9 DEF Recent
    <2>7. lines[k].tool \in {"Read", "Write", "Edit"} /\ k \in DOMAIN lines
      BY <1>2, <1>4, <1>5, LogType
    <2> HIDE DEF t, a, end, at
    <2>8. end >= Clock - Window /\ t \in Clock - Week .. Clock + Ahead
      BY <1>3, <1>4, <2>1, <2>2, <2>3, <2>4, <2>5, <2>6
    <2>9. k \in Counted(lines, logTime, Clock)
      BY <2>7, <2>8 DEF Counted, t, end
    <2> QED
      BY <2>2, <2>3, <2>9 DEF t, at
  <1> HIDE DEF entries
  <1>10. ASSUME InTurn(lines), NEW k \in 1 .. text, Recent(k)
         PROVE  \E e \in ToSet(entries) :
                  e.path = log[k].path /\ e.timestamp > log[k].at - Second
    <2>1. /\ k \in Counted(lines, logTime, Clock) /\ LineTimes(lines, logTime)[k] \in Int
          /\ LineTimes(lines, logTime)[k] > log[k].at - Second
      BY <1>9, <1>10
    <2>2. PICK f \in ToSet(entries) : /\ f.path = lines[k].path
                                      /\ f.timestamp >= LineTimes(lines, logTime)[k]
      BY <1>8, <2>1
    <2>3. f.timestamp \in Int
      <3>1. \A i \in DOMAIN entries :
              entries[i] \in EntriesOf("claude", {"opened", "created", "modified"})
        BY <1>8
      <3> QED
        BY <3>1 DEF EntriesOf, ToSet
    <2> DEFINE x == f.timestamp
               t == LineTimes(lines, logTime)[k]
               at == log[k].at
    <2>4. x \in Int /\ t \in Int /\ at \in Nat /\ x >= t /\ t > at - Second
      BY <1>5, <2>1, <2>2, <2>3
    <2> HIDE DEF x, t, at
    <2>5. x > at - Second
      BY <1>3, <2>4
    <2> QED
      BY <1>2, <2>2, <2>5 DEF x, at
  <1> QED
    BY <1>8, <1>10 DEF entries, lines, TextOf

LEMMA ReadSourcesStep ==
  ASSUME ReadSources, WorldInv, ReadInv
  PROVE  ReadInv' /\ RefreshInv'
  <1> DEFINE agents == IF text = 0 THEN <<>>
                       ELSE ReadAgentFiles(SubSeq(log, 1, text), logTime, Clock)
             codex == ReadCodexFiles(RowsRead, Clock)
             xbel == ReadXbelFiles(visited, Clock)
  <1>1. /\ read' = [agents |-> agents, codex |-> codex, xbel |-> xbel,
                    scanned |-> <<>>, rows |-> RowsRead]
        /\ pc' = "scan" /\ text' = text
        /\ log' = log /\ Clock' = Clock
    BY DEF ReadSources, world, Clock
  <1>2. /\ Clock \in Nat /\ rows \in Seq(Rows) /\ visited \in [Files -> Nat] /\ text \in Nat
        /\ Window \in Nat /\ Ahead \in Nat
    BY WholeIs, HotFilesAssumption DEF WorldInv, ClockInv, SourcesInv, ReadInv, Clock
  <1> HIDE DEF Clock
  <1>3. RowsRead \in Seq(Rows) /\ ToSet(RowsRead) \subseteq ToSet(rows)
    BY <1>2, RowsReadType
  <1>4. /\ agents \in Seq(EntriesOf("claude", {"opened", "created", "modified"}))
        /\ InTurn(TextOf(text)) => \A k \in 1 .. text : Recent(k) =>
             \E e \in ToSet(agents) : e.path = log[k].path /\ e.timestamp > log[k].at - Second
    <2>1. CASE text = 0
      BY <2>1
    <2>2. CASE text # 0
      BY <2>2, AgentsAreCovered
    <2> QED
      BY <2>1, <2>2
  <1>5. /\ codex \in Seq(EntriesOf("codex", {"created", "deleted", "modified"}))
        /\ \A k \in DOMAIN RowsRead : RowsRead[k].ts \in Clock - Window .. Clock + Ahead =>
             \E f \in ToSet(codex) :
               f.path = RowsRead[k].path /\ f.timestamp >= RowsRead[k].ts
    BY <1>2, <1>3, ReadCodexFilesIs
  <1>6. xbel \in Seq(EntriesOf("user", {"opened"}))
    BY <1>2, ReadXbelFilesIs
  <1> HIDE DEF agents, codex, xbel
  <1>7. \A r \in ToSet(RowsRead) : r.ts \in Nat /\ 1 <= r.ts /\ r.ts <= Clock
    <2>1. \A k \in 1 .. Len(rows) : rows[k] \in Rows
      BY <1>2
    <2>2. \A r \in ToSet(rows) : r.ts \in Nat /\ 1 <= r.ts /\ r.ts <= Clock
      BY <1>2, <2>1 DEF WorldInv, SourcesInv, Rows, ToSet
    <2> QED
      BY <1>3, <2>2
  <1>8. \A r \in ToSet(RowsRead) : r.ts >= Clock - Window =>
          \E e \in ToSet(codex) : e.path = r.path /\ e.timestamp >= r.ts
    <2> SUFFICES ASSUME NEW k \in DOMAIN RowsRead, RowsRead[k].ts >= Clock - Window
                 PROVE  \E e \in ToSet(codex) :
                          e.path = RowsRead[k].path /\ e.timestamp >= RowsRead[k].ts
      BY DEF ToSet
    <2>1. RowsRead[k].ts \in Nat /\ RowsRead[k].ts <= Clock
      BY <1>7 DEF ToSet
    <2>2. RowsRead[k].ts \in Clock - Window .. Clock + Ahead
      BY <1>2, <2>1
    <2> QED
      BY <1>5, <2>2
  <1>9. /\ read'.agents = agents /\ read'.codex = codex /\ read'.rows = RowsRead
    BY <1>1
  <1>10. read' \in [agents : Seq(EntriesOf("claude", {"opened", "created", "modified"})),
                    codex : Seq(EntriesOf("codex", {"created", "deleted", "modified"})),
                    xbel : Seq(EntriesOf("user", {"opened"})),
                    scanned : Seq(EntriesOf("user", {"created", "modified"})),
                    rows : Seq(Rows)]
    <2> DEFINE T == EntriesOf("user", {"created", "modified"})
    <2>1. <<>> \in Seq(T)
      OBVIOUS
    <2> HIDE DEF T
    <2> QED
      BY <1>1, <1>3, <1>4, <1>5, <1>6, <2>1 DEF T
  <1>11. ReadInv'
    BY <1>1, <1>7, <1>9, <1>10 DEF ReadInv
  <1>12. /\ InTurn(TextOf(text))' = InTurn(TextOf(text))
         /\ \A k \in 1 .. text : Recent(k)' = Recent(k)
    BY <1>1 DEF AheadOfLog, Recent, TextOf, InTurn
  <1>13. AgentsCover'
    BY <1>1, <1>4, <1>9, <1>12 DEF AgentsCover
  <1>14. CodexCover'
    BY <1>1, <1>8, <1>9 DEF CodexCover
  <1> QED
    BY <1>1, <1>11, <1>13, <1>14 DEF RefreshInv

LEMMA ReadTypes ==
  ASSUME ReadInv
  PROVE  /\ read.agents \in Seq(Entries) /\ read.codex \in Seq(Entries)
         /\ read.xbel \in Seq(Entries) /\ read.scanned \in Seq(Entries)
         /\ \A e \in ToSet(read.agents) : e.source = "claude"
         /\ \A e \in ToSet(read.codex) : e.source = "codex"
         /\ \A e \in ToSet(read.xbel) : e.action = "opened"
         /\ AgentEntries \in Seq(Entries)
         /\ ToSet(AgentEntries) = ToSet(read.agents) \cup ToSet(read.codex)
  <1> DEFINE A == EntriesOf("claude", {"opened", "created", "modified"})
             C == EntriesOf("codex", {"created", "deleted", "modified"})
             X == EntriesOf("user", {"opened"})
             S == EntriesOf("user", {"created", "modified"})
  <1>1. /\ A \subseteq Entries /\ C \subseteq Entries /\ X \subseteq Entries
        /\ S \subseteq Entries
    BY EntriesOfType
  <1>2. /\ \A e \in A : e.source = "claude"
        /\ \A e \in C : e.source = "codex"
        /\ \A e \in X : e.action = "opened"
    BY DEF EntriesOf
  <1>3. /\ read.agents \in Seq(A) /\ read.codex \in Seq(C) /\ read.xbel \in Seq(X)
        /\ read.scanned \in Seq(S)
    BY DEF ReadInv
  <1> HIDE DEF A, C, X, S
  <1>4. /\ read.agents \in Seq(Entries) /\ read.codex \in Seq(Entries)
        /\ read.xbel \in Seq(Entries) /\ read.scanned \in Seq(Entries)
    BY <1>1, <1>3
  <1>5. /\ \A e \in ToSet(read.agents) : e \in A
        /\ \A e \in ToSet(read.codex) : e \in C
        /\ \A e \in ToSet(read.xbel) : e \in X
    BY <1>3 DEF ToSet
  <1>6. /\ AgentEntries \in Seq(Entries)
        /\ ToSet(AgentEntries) = ToSet(read.agents) \cup ToSet(read.codex)
    BY <1>4, ConcatSets DEF AgentEntries
  <1> QED
    BY <1>2, <1>4, <1>5, <1>6

\* What the agents' logs say about a file the scan takes for the user's is older.
LEMMA ScanStep ==
  ASSUME Scan, WorldInv, ReadInv, RefreshInv
  PROVE  ReadInv' /\ RefreshInv'
  <1> DEFINE found == ScanActiveDirs
  <1>1. /\ read' = [read EXCEPT !.scanned = found] /\ pc' = "publish" /\ pc = "scan"
        /\ text' = text /\ log' = log /\ Clock' = Clock
    BY DEF Scan, world, Clock
  <1>2. /\ Clock \in Nat /\ Window \in Nat /\ Slack \in Nat /\ Second \in Nat /\ Second <= Slack
        /\ \A p \in Files : disk[p].mtime \in Nat
    BY WholeIs, HotFilesAssumption DEF WorldInv, ClockInv, DiskInv, Clock
  <1> HIDE DEF Clock
  <1>3. /\ found \in Seq(EntriesOf("user", {"created", "modified"}))
        /\ \A e \in ToSet(found) : /\ e.timestamp = disk[e.path].mtime
                                   /\ disk[e.path].mtime >= Clock - Window
                                   /\ ~Covered(e.path)
    BY <1>2, ScanActiveDirsIs
  <1>4. \A e \in ToSet(found) : e.path \in Files
    <2>1. \A i \in DOMAIN found : found[i] \in EntriesOf("user", {"created", "modified"})
      BY <1>3
    <2> QED
      BY <2>1 DEF EntriesOf, ToSet
  <1> HIDE DEF found
  <1>5. /\ read'.agents = read.agents /\ read'.codex = read.codex /\ read'.rows = read.rows
        /\ read'.scanned = found
    BY <1>1 DEF ReadInv
  <1>6. ReadInv'
    BY <1>1, <1>3, <1>5 DEF ReadInv
  <1>7. /\ InTurn(TextOf(text))' = InTurn(TextOf(text))
        /\ \A k \in 1 .. text : Recent(k)' = Recent(k)
    BY <1>1 DEF AheadOfLog, Recent, TextOf, InTurn
  <1>8. AgentsCover /\ CodexCover
    BY <1>1 DEF RefreshInv
  <1>9. AgentsCover' /\ CodexCover'
    BY <1>1, <1>5, <1>7, <1>8 DEF AgentsCover, CodexCover
  <1>10. \A e \in ToSet(read.agents) \cup ToSet(read.codex) :
           e \in ToSet(AgentEntries) /\ e.timestamp \in Int
    <2>1. \A i \in DOMAIN AgentEntries : AgentEntries[i] \in Entries
      BY ReadTypes
    <2>2. \A e \in ToSet(AgentEntries) : e.timestamp \in Int
      BY <2>1 DEF Entries, ToSet
    <2> QED
      BY <2>2, ReadTypes
  <1>11. ASSUME NEW e \in ToSet(found), InTurn(TextOf(text)), NEW k \in 1 .. text,
                log[k].path = e.path, Recent(k)
         PROVE  log[k].at < e.timestamp
    <2> DEFINE m == disk[e.path].mtime
               at == log[k].at
    <2>1. m \in Nat /\ e.timestamp = m /\ ~Covered(e.path)
      BY <1>2, <1>3, <1>4
    <2>2. at \in Nat /\ at >= Second
      BY LogType DEF WorldInv, ClaudeInv, ReadInv
    <2> HIDE DEF at, m
    <2> SUFFICES ASSUME at >= m
                 PROVE  FALSE
      BY <2>1, <2>2 DEF at
    <2>4. PICK f \in ToSet(read.agents) : f.path = e.path /\ f.timestamp > at - Second
      BY <1>8, <1>11 DEF AgentsCover, at
    <2>5. f \in ToSet(AgentEntries) /\ f.timestamp \in Int
      BY <1>10
    <2>6. f.timestamp > 0 /\ f.timestamp >= m - Slack
      BY <1>2, <2>1, <2>2, <2>4, <2>5
    <2>7. Covered(e.path)
      BY <2>4, <2>5, <2>6 DEF Covered, m
    <2> QED
      BY <2>1, <2>7
  <1>12. ASSUME NEW e \in ToSet(found), NEW r \in ToSet(read.rows),
                r.path = e.path, r.ts >= Clock - Window
         PROVE  r.ts < e.timestamp - Slack
    <2> DEFINE m == disk[e.path].mtime
               ts == r.ts
    <2>1. m \in Nat /\ e.timestamp = m /\ ~Covered(e.path)
      BY <1>2, <1>3, <1>4
    <2>2. ts \in Nat /\ ts >= 1
      <3>1. \A k \in DOMAIN read.rows : read.rows[k] \in Rows
        BY DEF ReadInv
      <3> QED
        BY <3>1 DEF ReadInv, Rows, ToSet
    <2> HIDE DEF ts, m
    <2> SUFFICES ASSUME ts >= m - Slack
                 PROVE  FALSE
      BY <1>2, <2>1, <2>2 DEF ts
    <2>3. PICK f \in ToSet(read.codex) : f.path = e.path /\ f.timestamp >= ts
      BY <1>8, <1>12 DEF CodexCover, ts
    <2>4. f \in ToSet(AgentEntries) /\ f.timestamp \in Int
      BY <1>10
    <2>5. f.timestamp > 0 /\ f.timestamp >= m - Slack
      BY <1>2, <2>1, <2>2, <2>3, <2>4
    <2>6. Covered(e.path)
      BY <2>3, <2>4, <2>5 DEF Covered, m
    <2> QED
      BY <2>1, <2>6
  <1>13. ScannedLater'
    BY <1>1, <1>5, <1>7, <1>11, <1>12 DEF ScannedLater
  <1> QED
    BY <1>1, <1>6, <1>9, <1>13 DEF RefreshInv

\* What is published as the user's writing is what the scan found.
LEMMA PublishStep ==
  ASSUME Publish, WorldInv, ListInv, ReadInv
  PROVE  /\ ListInv' /\ ReadInv' /\ RefreshInv'
         /\ \A e \in ToSet(files') : e.source = "user" /\ e.action \in {"created", "modified"} =>
              \E f \in ToSet(read.scanned) : f.path = e.path /\ f.timestamp = e.timestamp
  <1> DEFINE all == AgentEntries \o read.xbel \o read.scanned
             marked == MarkCreated(MarkDeleted(Merged))
  <1>1. /\ files' = NewestFirst(marked) /\ known' = known \cup PathsOf(Merged)
        /\ monitors' = Monitored /\ text' = 0 /\ read' = NothingRead /\ pc' = "idle"
        /\ log' = log /\ there' = there
    BY DEF Publish, world
  <1>2. /\ all \in Seq(Entries)
        /\ ToSet(all) = ToSet(AgentEntries) \cup ToSet(read.xbel) \cup ToSet(read.scanned)
    <2> DEFINE some == AgentEntries \o read.xbel
    <2>1. some \in Seq(Entries) /\ ToSet(some) = ToSet(AgentEntries) \cup ToSet(read.xbel)
      BY ReadTypes, ConcatSets
    <2>2. all = some \o read.scanned
      OBVIOUS
    <2> HIDE DEF some, all
    <2>3. all \in Seq(Entries) /\ ToSet(all) = ToSet(some) \cup ToSet(read.scanned)
      BY <2>1, <2>2, ReadTypes, ConcatSets
    <2> QED
      BY <2>1, <2>3
  <1>3. \A e \in Entries : e.timestamp \in Int
    BY DEF Entries
  <1> HIDE DEF all
  <1>4. Merged \in Seq(Entries) /\ ToSet(Merged) \subseteq ToSet(all)
    <2>1. Merged = Merge(all)
      BY DEF Merged, all
    <2> QED
      BY <1>2, <1>3, <2>1, MergeKeeps
  <1>5. /\ marked \in Seq(Entries)
        /\ \A e \in ToSet(marked) :
             \E f \in ToSet(Merged) : /\ SameKey(e, f) /\ e.timestamp = f.timestamp
                                      /\ f.action = "opened" => e.action \in {"opened", "deleted"}
    BY <1>4, MarksAre
  <1> HIDE DEF marked
  <1>6. /\ files' \in Seq(Entries) /\ Len(files') <= MaxFiles
        /\ ToSet(files') \subseteq ToSet(marked)
    BY <1>1, <1>3, <1>5, NewestFirstIs
  <1>7. PathsOf(Merged) \subseteq Files
    <2>1. \A i \in DOMAIN Merged : Merged[i] \in Entries
      BY <1>4
    <2> QED
      BY <2>1 DEF PathsOf, ToSet, Entries
  <1>8. PathsOf(files') \subseteq PathsOf(Merged)
    BY <1>5, <1>6 DEF PathsOf, SameKey
  <1>9. Monitored \subseteq there /\ Cardinality(Monitored) <= MaxMonitors
    BY ReadTypes, MonitoredIs DEF ListInv, WorldInv, DiskInv
  <1>10. ListInv'
    BY <1>1, <1>6, <1>7, <1>8, <1>9 DEF ListInv, PathsOf
  <1>11. ReadInv'
    <2>1. ToSet(NothingRead.rows) = {}
      BY DEF NothingRead, ToSet
    <2>2. Len(log) \in Nat
      BY LogType DEF WorldInv, ClaudeInv
    <2> QED
      BY <1>1, <2>1, <2>2 DEF ReadInv, NothingRead
  <1>12. ASSUME NEW e \in ToSet(files'), e.source = "user", e.action \in {"created", "modified"}
         PROVE  \E f \in ToSet(read.scanned) : f.path = e.path /\ f.timestamp = e.timestamp
    <2>1. PICK f \in ToSet(Merged) : /\ SameKey(e, f) /\ e.timestamp = f.timestamp
                                     /\ f.action = "opened" => e.action \in {"opened", "deleted"}
      BY <1>5, <1>6
    <2>2. f.source = "user" /\ f.action # "opened" /\ f.path = e.path
      BY <1>12, <2>1 DEF SameKey
    <2>3. f \in ToSet(read.agents) \cup ToSet(read.codex) \cup ToSet(read.xbel)
                \cup ToSet(read.scanned)
      BY <1>2, <1>4, ReadTypes
    <2>4. f \in ToSet(read.scanned)
      BY <2>2, <2>3, ReadTypes
    <2> QED
      BY <2>1, <2>2, <2>4
  <1> QED
    BY <1>1, <1>10, <1>11, <1>12 DEF RefreshInv

\* A write an agent's log told the refresh about is not published as the user's.
LEMMA PublishTakesNothing ==
  ASSUME Publish, HotFilesInv, NEW p \in Files,
         (LineAbout(p) /\ InTurn(TextOf(text))) \/ RowAbout(p), TakenFromAgent(p)
  PROVE  FALSE
  <1> DEFINE m == disk[p].mtime
             start == Clock - Window
  <1>1. PICK f \in ToSet(read.scanned) : f.path = p /\ f.timestamp = m
    <2>1. PICK e \in ToSet(files') : /\ e.path = p /\ e.source = "user"
                                     /\ e.timestamp = m /\ e.action \in {"created", "modified"}
      BY DEF TakenFromAgent
    <2> QED
      BY <2>1, PublishStep DEF HotFilesInv
  <1>2. ScannedLater
    BY DEF Publish, HotFilesInv, RefreshInv
  <1>3. m \in Nat /\ start \in Int /\ Slack \in Nat /\ Second \in Nat
    BY WholeIs, HotFilesAssumption DEF HotFilesInv, WorldInv, ClockInv, DiskInv, Clock
  <1>4. CASE LineAbout(p) /\ InTurn(TextOf(text))
    <2>1. PICK k \in 1 .. text : /\ log[k].path = p /\ Whole(log[k].at) = m
                                 /\ AheadOfLog(text, k) <= Ahead
      BY <1>4 DEF LineAbout
    <2>2. m >= start + Second
      BY <1>4 DEF LineAbout
    <2> DEFINE at == log[k].at
    <2>3. at \in Nat
      BY LogType DEF HotFilesInv, WorldInv, ClaudeInv, ReadInv
    <2>4. m <= at
      BY <2>1, <2>3, WholeIs
    <2>5. at >= start + Second
      <3> HIDE DEF at, m, start
      <3> QED
        BY <1>3, <2>2, <2>3, <2>4
    <2>6. Recent(k)
      BY <2>1, <2>5 DEF Recent
    <2>7. at < f.timestamp
      BY <1>1, <1>2, <1>4, <2>1, <2>6 DEF ScannedLater
    <2>8. at < m
      BY <1>1, <2>7
    <2> HIDE DEF at, m
    <2> QED
      BY <1>3, <2>3, <2>4, <2>8
  <1>5. CASE RowAbout(p)
    <2>1. m >= start + Slack
      BY <1>5 DEF RowAbout
    <2>2. PICK r \in ToSet(read.rows) : r.path = p /\ r.ts >= m - Slack
      BY <1>5 DEF RowAbout
    <2>3. r.ts \in Nat
      <3>1. \A k \in DOMAIN read.rows : read.rows[k] \in Rows
        BY DEF HotFilesInv, ReadInv
      <3> QED
        BY <3>1 DEF Rows, ToSet
    <2> DEFINE ts == r.ts
    <2>4. f.path = r.path /\ (ts >= start => ts < f.timestamp - Slack)
      BY <1>1, <1>2, <2>2 DEF ScannedLater
    <2>5. ts \in Nat /\ ts >= m - Slack /\ (ts >= start => ts < m - Slack)
      BY <1>1, <2>2, <2>3, <2>4
    <2> HIDE DEF m, ts, start
    <2> QED
      BY <1>3, <2>1, <2>5
  <1> QED
    BY <1>4, <1>5

\* The steps that read the text, and the ends of a refresh, leave the rest alone.
LEMMA TextRead ==
  ASSUME ReadText, HotFilesInv, pending' \in BOOLEAN
  PROVE  WorldInv' /\ PcInv' /\ ListInv' /\ ReadInv' /\ RefreshInv'
  <1>1. Len(log) \in Nat
    BY LogType DEF HotFilesInv, WorldInv, ClaudeInv
  <1>2. WorldInv'
    BY DEF ReadText, world, Clock, HotFilesInv, WorldInv, ClockInv, DiskInv, ClaudeInv,
           SourcesInv
  <1>3. ReadInv'
    BY <1>1 DEF ReadText, world, HotFilesInv, ReadInv
  <1> QED
    BY <1>2, <1>3 DEF ReadText, world, HotFilesInv, PcInv, ListInv, PathsOf, RefreshInv

\* The order of a refresh's steps: only the last one touches the list, and after it the
\* service has started.
LEMMA OnlyPublishTouchesList ==
  ASSUME Next, PcInv, SourcesInv
  PROVE  /\ PcInv'
         /\ \/ files' = files /\ initialized' = initialized
            \/ initialized'
  <1>1. CASE WorldStep
    <2>1. pc' = pc /\ files' = files /\ initialized' = initialized
      BY <1>1, WorldEffect DEF OneSignal, service
    <2>2. pending' \in BOOLEAN
      BY <1>1, WorldEffect DEF OneSignal, Signal, PcInv
    <2> QED
      BY <2>1, <2>2 DEF PcInv
  <1>2. CASE Poll \/ Construct \/ Debounced
    BY <1>2 DEF Poll, Construct, Debounced, ReadText, PcInv
  <1>3. CASE ReadSources \/ Scan
    BY <1>3 DEF ReadSources, Scan, PcInv
  <1>4. CASE Publish
    BY <1>4 DEF Publish, PcInv
  <1> QED
    BY <1>1, <1>2, <1>3, <1>4 DEF Next, RefreshStep

\* A signal of a watched place is kept.
LEMMA SignalKept ==
  ASSUME NEW place \in Sources \cup Dirs, Signal(place), WakeInv, pc' = pc
  PROVE  WakeInv'
  BY DEF Signal, WakeInv, Unread

LEMMA WakeStep ==
  ASSUME Next, PcInv, SourcesInv, WakeInv
  PROVE  WakeInv'
  <1>1. CASE WorldStep
    <2>1. pc' = pc
      BY <1>1, WorldEffect DEF OneSignal, service
    <2>2. CASE UNCHANGED <<pending, due>>
      BY <2>1, <2>2 DEF WakeInv, Unread
    <2>3. CASE \E place \in Sources \cup Dirs : Signal(place)
      BY <2>1, <2>3, SignalKept
    <2> QED
      BY <1>1, <2>2, <2>3, WorldEffect DEF OneSignal
  <1>2. CASE Poll \/ Construct \/ Debounced
    BY <1>2 DEF Poll, Construct, Debounced, ReadText, PcInv, WakeInv, Unread, Sources
  <1>3. CASE ReadSources
    BY <1>3 DEF ReadSources, WakeInv, Unread
  <1>4. CASE Scan
    BY <1>4 DEF Scan, WakeInv, Unread
  <1>5. CASE Publish
    BY <1>5 DEF Publish, WakeInv, Unread
  <1> QED
    BY <1>1, <1>2, <1>3, <1>4, <1>5 DEF Next, RefreshStep

-----------------------------------------------------------------------------
(* The invariant *)

LEMMA HotFilesStart == Init => HotFilesInv
  <1> SUFFICES ASSUME Init
               PROVE  HotFilesInv
    OBVIOUS
  <1>0. Second \in Nat /\ Second >= 1 /\ now = Second /\ Clock = Second
    <2>1. Second \in Nat /\ Second >= 1 /\ Second % Second = 0
      BY HotFilesAssumption
    <2> QED
      BY <2>1 DEF Init, Clock, Whole
  <1> HIDE DEF Clock
  <1>1. ClockInv
    BY <1>0, HotFilesAssumption DEF Init, ClockInv
  <1>2. DiskInv
    BY <1>0, HotFilesAssumption DEF Init, DiskInv, Old, Absent, Writers
  <1>3. ClaudeInv
    <2>1. log = <<>> /\ began = <<0>> /\ \A s \in 1 .. MaxSessions : doing[s] = Nothing
      BY DEF Init, Agents
    <2>2. IsLog(log) /\ Len(log) = 0
      BY <2>1 DEF IsLog
    <2>3. began \in Seq(Nat) /\ Len(began) <= MaxSessions
      BY <2>1, HotFilesAssumption
    <2> QED
      BY <2>1, <2>2, <2>3 DEF ClaudeInv
  <1>4. SourcesInv
    <2>1. rows \in Seq(Rows) /\ Len(rows) = 0
      BY DEF Init
    <2>2. doing \in [Agents -> Jobs] /\ visited \in [Files -> Nat]
      BY DEF Init, Jobs
    <2> QED
      BY <2>1, <2>2 DEF SourcesInv
  <1>5. ListInv
    <2>1. IsFiniteSet({}) /\ Cardinality({}) = 0
      BY FS_EmptySet
    <2>2. files = <<>> /\ known = {} /\ monitors = {}
      BY DEF Init, Starting
    <2>3. PathsOf(files) = {}
      BY <2>2 DEF PathsOf, ToSet
    <2>4. MaxFiles \in Nat /\ MaxMonitors \in Nat
      BY HotFilesAssumption
    <2> QED
      BY <2>1, <2>2, <2>3, <2>4 DEF ListInv
  <1>6. ReadInv
    <2>1. read = NothingRead /\ text = 0 /\ log = <<>>
      BY DEF Init, Starting
    <2>2. ToSet(NothingRead.rows) = {}
      BY DEF NothingRead, ToSet
    <2> QED
      BY <2>1, <2>2 DEF ReadInv, NothingRead
  <1>7. PcInv /\ WakeInv /\ RefreshInv
    BY DEF Init, Starting, PcInv, WakeInv, Unread, RefreshInv
  <1> QED
    BY <1>1, <1>2, <1>3, <1>4, <1>5, <1>6, <1>7 DEF HotFilesInv, WorldInv

LEMMA HotFilesNext == HotFilesInv /\ Next => HotFilesInv'
  <1> SUFFICES ASSUME HotFilesInv, Next
               PROVE  HotFilesInv'
    OBVIOUS
  <1>1. PcInv' /\ WakeInv'
    BY OnlyPublishTouchesList, WakeStep DEF HotFilesInv, WorldInv
  <1>2. CASE WorldStep
    <2>1. WorldInv' /\ ReadInv' /\ RefreshInv'
      BY <1>2, WorldInvStep, WorldKeepsRead DEF HotFilesInv
    <2>2. UNCHANGED service
      BY <1>2, WorldEffect DEF OneSignal, HotFilesInv, WorldInv
    <2>4. there \subseteq there'
      BY <1>2, DiskStep DEF HotFilesInv, WorldInv
    <2>3. ListInv'
      BY <2>2, <2>4 DEF service, HotFilesInv, ListInv, PathsOf
    <2> QED
      BY <1>1, <2>1, <2>3 DEF HotFilesInv
  <1>3. CASE Poll \/ Construct \/ Debounced
    <2>1. ReadText /\ pending' \in BOOLEAN
      BY <1>1, <1>3 DEF Poll, Construct, Debounced, PcInv
    <2> QED
      BY <1>1, <2>1, TextRead DEF HotFilesInv
  <1>4. CASE ReadSources \/ Scan \/ Publish
    <2>1. UNCHANGED world
      BY <1>4 DEF ReadSources, Scan, Publish
    <2>2. WorldInv'
      BY <2>1 DEF world, Clock, HotFilesInv, WorldInv, ClockInv, DiskInv, ClaudeInv, SourcesInv
    <2>3. ReadInv' /\ RefreshInv'
      BY <1>4, ReadSourcesStep, ScanStep, PublishStep DEF HotFilesInv
    <2>4. ListInv'
      <3>1. CASE ReadSources \/ Scan
        BY <3>1 DEF ReadSources, Scan, world, HotFilesInv, ListInv, PathsOf
      <3>2. CASE Publish
        BY <3>2, PublishStep DEF HotFilesInv
      <3> QED
        BY <1>4, <3>1, <3>2
    <2> QED
      BY <1>1, <2>2, <2>3, <2>4 DEF HotFilesInv
  <1> QED
    BY <1>2, <1>3, <1>4 DEF Next, RefreshStep

LEMMA HotFilesStutters == HotFilesInv /\ UNCHANGED hotFilesVars => HotFilesInv'
  <1> SUFFICES ASSUME HotFilesInv, UNCHANGED hotFilesVars
               PROVE  HotFilesInv'
    OBVIOUS
  <1>1. UNCHANGED world /\ UNCHANGED service /\ pending' = pending /\ due' = due
    BY DEF hotFilesVars
  <1>2. WorldInv'
    BY <1>1 DEF world, Clock, HotFilesInv, WorldInv, ClockInv, DiskInv, ClaudeInv, SourcesInv
  <1>3. PcInv' /\ ListInv' /\ WakeInv'
    BY <1>1 DEF world, service, HotFilesInv, PcInv, ListInv, PathsOf, WakeInv, Unread
  <1>4. ReadInv'
    BY <1>1 DEF world, service, HotFilesInv, ReadInv
  <1>5. RefreshInv'
    BY <1>1 DEF world, service, HotFilesInv, RefreshInv, AgentsCover, CodexCover, ScannedLater,
                Recent, AheadOfLog, TextOf, InTurn, Clock
  <1> QED
    BY <1>2, <1>3, <1>4, <1>5 DEF HotFilesInv

LEMMA HotFilesStep == HotFilesInv /\ [Next]_hotFilesVars => HotFilesInv'
  BY HotFilesNext, HotFilesStutters

\* Nothing of the service is kept, and the world is as it was.
LEMMA StartsAgain == HotFilesInv /\ StartAgain => HotFilesInv'
  <1> SUFFICES ASSUME HotFilesInv, StartAgain
               PROVE  HotFilesInv'
    OBVIOUS
  <1>1. /\ UNCHANGED world
        /\ files' = <<>> /\ known' = {} /\ initialized' = FALSE /\ monitors' = {}
        /\ pc' = "start" /\ text' = 0 /\ read' = NothingRead
        /\ pending' = FALSE /\ due' = {}
    BY DEF StartAgain
  <1>2. WorldInv'
    BY <1>1 DEF world, Clock, HotFilesInv, WorldInv, ClockInv, DiskInv, ClaudeInv, SourcesInv
  <1>3. ListInv'
    <2>1. IsFiniteSet({}) /\ Cardinality({}) = 0
      BY FS_EmptySet
    <2>2. MaxFiles \in Nat /\ MaxMonitors \in Nat
      BY HotFilesAssumption
    <2>3. files' \in Seq(Entries) /\ Len(files') <= MaxFiles
      BY <1>1, <2>2
    <2>4. known' \subseteq Files /\ PathsOf(files)' \subseteq known'
      BY <1>1 DEF PathsOf, ToSet
    <2>5. monitors' \subseteq there' /\ Cardinality(monitors') <= MaxMonitors
      BY <1>1, <2>1, <2>2
    <2> QED
      BY <2>3, <2>4, <2>5 DEF ListInv
  <1>4. ReadInv'
    <2>1. ToSet(NothingRead.rows) = {}
      BY DEF NothingRead, ToSet
    <2>2. log' = log /\ Len(log) \in Nat
      BY <1>1, LogType DEF world, HotFilesInv, WorldInv, ClaudeInv
    <2> QED
      BY <1>1, <2>1, <2>2 DEF ReadInv, NothingRead
  <1>5. PcInv' /\ WakeInv' /\ RefreshInv'
    BY <1>1 DEF PcInv, WakeInv, Unread, RefreshInv
  <1> QED
    BY <1>2, <1>3, <1>4, <1>5 DEF HotFilesInv

-----------------------------------------------------------------------------
(* What follows from it *)

LEMMA WakeSuffices == HotFilesInv => NoLostWakeup
  BY DEF HotFilesInv, WakeInv, PcInv, Unread, NoLostWakeup

LEMMA TypeSuffices == HotFilesInv => HotFilesTypeOK
  <1> SUFFICES ASSUME HotFilesInv
               PROVE  HotFilesTypeOK
    OBVIOUS
  <1>1. ToSet(files) \subseteq Entries
    BY DEF HotFilesInv, ListInv, ToSet
  <1>2. now \in Nat /\ logTime \in 1 .. Clock /\ changes \in 0 .. MaxChanges
    BY WholeIs, HotFilesAssumption DEF HotFilesInv, WorldInv, ClockInv, Clock
  <1>3. text \in 0 .. Len(log)
    BY LogType DEF HotFilesInv, ReadInv, WorldInv, ClaudeInv
  <1> QED
    BY <1>1, <1>2, <1>3 DEF HotFilesInv, WorldInv, DiskInv, ListInv, PcInv, HotFilesTypeOK

LEMMA DatesSuffice == HotFilesInv => DatesNotEarly
  <1> SUFFICES ASSUME HotFilesInv, NEW n \in 1 .. Len(log), InTurn(TextOf(n)),
                      NEW m \in Whole(log[n].at) .. logTime, NEW k \in 1 .. n
               PROVE  LineTimes(TextOf(n), m)[k] > log[k].at - Second
    BY DEF DatesNotEarly
  <1>1. IsLog(log) /\ Len(log) \in Nat /\ n \in Nat /\ n <= Len(log)
    BY LogType DEF HotFilesInv, WorldInv, ClaudeInv
  <1>2. /\ IsLog(TextOf(n)) /\ Len(TextOf(n)) = n
        /\ \A j \in 1 .. n : TextOf(n)[j] = log[j]
    BY <1>1, PrefixOfLog DEF TextOf
  <1> DEFINE lines == TextOf(n)
             at == log[n].at
             w == Whole(at)
  <1>3. at \in Nat /\ logTime \in Nat /\ Second \in Nat
    BY <1>1, LogType, HotFilesAssumption DEF HotFilesInv, WorldInv, ClockInv
  <1>4. w \in Nat /\ at < w + Second
    BY <1>3, WholeIs
  <1>5. m \in Int /\ m >= w
    BY <1>3, <1>4
  <1>6. m > lines[Len(lines)].at - Second
    <2>1. lines[Len(lines)].at = at
      BY <1>1, <1>2
    <2> HIDE DEF at, w, lines
    <2> QED
      BY <1>3, <1>4, <1>5, <2>1
  <1> HIDE DEF lines, at, w
  <1>7. IsLog(lines) /\ InTurn(lines) /\ k \in 1 .. Len(lines)
    BY <1>2 DEF lines
  <1>8. LineTimes(lines, m)[k] > lines[k].at - Second
    BY <1>3, <1>5, <1>6, <1>7, LineTimesNotEarly
  <1> QED
    BY <1>2, <1>8 DEF lines

\* One step's part of NeverTakenFromAgent.
LEMMA NothingTaken ==
  ASSUME HotFilesInv, Next, pc = "publish", pc' = "idle", NEW p \in Files,
         (LineAbout(p) /\ InTurn(TextOf(text))) \/ RowAbout(p)
  PROVE  ~TakenFromAgent(p)
  <1>1. Publish
    <2>1. ~WorldStep
      BY WorldEffect DEF OneSignal, service, HotFilesInv, WorldInv
    <2> QED
      BY <2>1 DEF Next, RefreshStep, Poll, Debounced, Construct, ReadSources, Scan
  <1> QED
    BY <1>1, PublishTakesNothing
=============================================================================
