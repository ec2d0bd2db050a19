--------------------------- MODULE HotStateProofs ---------------------------
(***************************************************************************)
(* Proofs about HotState.tla and HotRestart.tla, for every set of paths,   *)
(* every list length and every batch. CoreInv is what holds also after a   *)
(* restart, when the list may name a path twice and the index any of its   *)
(* entries; ListInv is what holds as well as long as no restart happens.   *)
(***************************************************************************)
EXTENDS HotRestart, SequenceTheorems, SequenceLemmas

Distinct == Abstract!DistinctPaths(files)

\* While events are merged by_path sends each path it knows to an entry of that path.
IndexNames ==
  pc \in {"idle", "merge"} =>
    \A p \in DOMAIN by_path : by_path[p] \in DOMAIN files /\ files[by_path[p]].path = p

\* Without a restart it is exact, although files is out of order.
IndexInv ==
  pc \in {"idle", "merge"} =>
    /\ DOMAIN by_path = PathsIn(files)
    /\ \A k \in DOMAIN files : by_path[files[k].path] = k

SortInv == pc = "sort" => /\ i >= 2 /\ j >= 1 /\ batch = <<>>
                          /\ i > Len(files) => j = i

RestInv == pc = "idle" => /\ files = view
                          /\ batch = <<>>
                          /\ Abstract!Descending(files)
                          /\ Len(files) <= MaxFiles

NeverAhead == \A k \in DOMAIN files : files[k].ts <= seen[files[k].path]

Current(p) == \E k \in DOMAIN files : files[k].path = p /\ files[k].ts = seen[p]

\* A path trimmed earlier may come back, during a call, with an older event than its
\* latest. Such an entry cannot stay: the first MaxFiles places hold, from the merge on
\* and through every swap of the sort, entries at least as new as the path's latest.
Floor == \A p \in Paths :
           seen[p] # Never /\ ~Current(p) =>
             /\ MaxFiles <= Len(files)
             /\ \A k \in 1 .. MaxFiles : files[k].ts >= seen[p]

Grows == pc # "idle" => PathsIn(files) = PathsIn(view) \cup delta.added

Steady == Abstract!KeepsUnlessNewer(view, files)

CoreInv == /\ TypeOK /\ IndexNames /\ SortInv /\ RestInv /\ SortPrefix
           /\ NeverAhead /\ Floor

ListInv == Distinct /\ IndexInv /\ Grows /\ Steady

IInv == CoreInv /\ ListInv
-----------------------------------------------------------------------------
\* An empty list with an empty index satisfies the invariant.
LEMMA InitInv == Init => IInv
<1> SUFFICES ASSUME Init PROVE IInv
  OBVIOUS
<1>1. /\ files = <<>> /\ view = <<>> /\ batch = <<>> /\ pc = "idle"
      /\ i = 0 /\ j = 0 /\ delta = NoDelta /\ by_path = IndexOf(<<>>)
      /\ seen = [p \in Paths |-> Never]
  BY DEF Init
<1>2. TypeOK
  BY <1>1 DEF TypeOK, NoDelta
<1>3. IndexInv /\ IndexNames
  BY <1>1 DEF IndexInv, IndexNames, IndexOf, PathsIn
<1>4. RestInv
  BY <1>1, HotStateAssumption DEF RestInv, Abstract!Descending
<1>5. Distinct /\ SortInv /\ SortPrefix /\ NeverAhead /\ Grows /\ Steady
  BY <1>1 DEF Distinct, Abstract!DistinctPaths, SortInv, SortPrefix, NeverAhead, Grows,
              Steady, Abstract!KeepsUnlessNewer
<1>6. Floor
  BY <1>1 DEF Floor
<1>. QED
  BY <1>2, <1>3, <1>4, <1>5, <1>6 DEF IInv, CoreInv, ListInv

\* Entering apply_events touches neither list nor index.
LEMMA ReceiveCore == ASSUME CoreInv, NEW b \in Batches, Receive(b) PROVE CoreInv'
<1> USE DEF Receive
<1>1. TypeOK'
  BY HotStateAssumption DEF CoreInv, TypeOK, NoDelta
<1>2. IndexNames'
  BY DEF CoreInv, IndexNames
<1>3. SortInv' /\ RestInv' /\ SortPrefix' /\ NeverAhead'
  BY DEF CoreInv, SortInv, RestInv, SortPrefix, NeverAhead
<1>4. Floor'
  BY DEF CoreInv, Floor, Current
<1>. QED
  BY <1>1, <1>2, <1>3, <1>4 DEF CoreInv

LEMMA ReceiveList == ASSUME CoreInv, ListInv, NEW b \in Batches, Receive(b) PROVE ListInv'
<1> USE DEF Receive
<1>1. IndexInv'
  BY DEF ListInv, IndexInv, PathsIn
<1>2. Grows'
  BY DEF CoreInv, Grows, NoDelta, RestInv, PathsIn
<1>3. Distinct' /\ Steady'
  BY DEF ListInv, Distinct, Abstract!DistinctPaths, Steady, Abstract!KeepsUnlessNewer
<1>. QED
  BY <1>1, <1>2, <1>3 DEF ListInv

\* The sort starts with everything before its second entry in order.
LEMMA BeginSortCore == ASSUME CoreInv, BeginSort PROVE CoreInv'
<1> USE DEF BeginSort
<1>1. TypeOK'
  BY DEF CoreInv, TypeOK
<1>2. SortPrefix'
  <2> SUFFICES ASSUME NEW a \in DOMAIN files, NEW b \in DOMAIN files,
                      a < b, b <= 2, b # 2
               PROVE  FALSE
    BY DEF SortPrefix
  <2>. QED
    BY DEF CoreInv, TypeOK
<1>3. IndexNames' /\ SortInv' /\ RestInv' /\ NeverAhead'
  BY DEF CoreInv, IndexNames, SortInv, RestInv, NeverAhead
<1>4. Floor'
  BY DEF CoreInv, Floor, Current
<1>. QED
  BY <1>1, <1>2, <1>3, <1>4 DEF CoreInv

LEMMA BeginSortList == ASSUME ListInv, BeginSort PROVE ListInv'
<1> USE DEF BeginSort
<1>1. Grows'
  BY DEF ListInv, Grows, PathsIn
<1>2. Distinct' /\ IndexInv' /\ Steady'
  BY DEF ListInv, Distinct, Abstract!DistinctPaths, IndexInv, Steady, Abstract!KeepsUnlessNewer
<1>. QED
  BY <1>1, <1>2 DEF ListInv

-----------------------------------------------------------------------------
\* Timestamps are numbers, so that comparisons mean what they should.
LEMMA TimesAreNumbers ==
  /\ \A t \in Timestamps : t \in Nat
  /\ \A t \in Timestamps \cup {Never} : t \in Int
<1>1. \A t \in Timestamps : t \in Nat
  BY HotStateAssumption
<1>. QED
  BY <1>1 DEF Never

\* What Deliver does with the head of the batch.
LEMMA HeadOfBatch ==
  ASSUME CoreInv, Merging
  PROVE  /\ Head(batch) \in Event
         /\ Head(batch).path \in Paths /\ Head(batch).ts \in Nat
         /\ Tail(batch) \in Seq(Event)
<1>1. batch \in Seq(Event) /\ batch # <<>>
  BY DEF CoreInv, TypeOK, Merging
<1>2. Head(batch) \in Event /\ Tail(batch) \in Seq(Event)
  BY <1>1, HeadTailProperties
<1>. QED
  BY <1>2, HotStateAssumption DEF Event

\* seen only grows, only at the delivered path, and to the delivered timestamp.
LEMMA DeliverSeen ==
  ASSUME CoreInv, Merging, Deliver(Head(batch))
  PROVE  /\ seen' \in [Paths -> Timestamps \cup {Never}]
         /\ \A p \in Paths : seen[p] \in Int /\ seen'[p] \in Int /\ seen'[p] >= seen[p]
         /\ \A p \in Paths : p # Head(batch).path => seen'[p] = seen[p]
         /\ seen'[Head(batch).path] = IF Head(batch).ts > seen[Head(batch).path]
                                     THEN Head(batch).ts ELSE seen[Head(batch).path]
         /\ seen'[Head(batch).path] # Never
<1> DEFINE e == Head(batch)
<1>1. /\ e.path \in Paths /\ e.ts \in Timestamps /\ e.ts \in Nat
  BY HeadOfBatch, HotStateAssumption DEF Event
<1>2. seen \in [Paths -> Timestamps \cup {Never}]
  BY DEF CoreInv, TypeOK
<1>3. \A p \in Paths : seen[p] \in Int
  BY <1>2, TimesAreNumbers
<1>4. seen' = [seen EXCEPT ![e.path] = IF e.ts > seen[e.path] THEN e.ts ELSE seen[e.path]]
  BY DEF Deliver
<1> HIDE DEF e
<1>5. \A p \in Paths : seen'[p] = IF p = e.path /\ e.ts > seen[p] THEN e.ts ELSE seen[p]
  BY <1>1, <1>2, <1>4
<1>6. seen' \in [Paths -> Timestamps \cup {Never}]
  BY <1>1, <1>2, <1>4
<1>7. \A p \in Paths : /\ seen[p] \in Int /\ seen'[p] \in Int
                       /\ seen'[p] >= seen[p]
                       /\ p # e.path => seen'[p] = seen[p]
  BY <1>1, <1>3, <1>5
<1>8. seen'[e.path] = IF e.ts > seen[e.path] THEN e.ts ELSE seen[e.path]
  BY <1>1, <1>5
<1>9. seen'[e.path] # Never
  BY <1>1, <1>3, <1>8 DEF Never
<1>. QED
  BY <1>6, <1>7, <1>8, <1>9 DEF e

\* The entries of the list are records with paths and natural timestamps.
LEMMA EntryTypes ==
  ASSUME NEW s \in Seq(Event)
  PROVE  /\ Len(s) \in Nat /\ DOMAIN s = 1 .. Len(s)
         /\ \A k \in DOMAIN s : /\ s[k] \in Event
                               /\ s[k].path \in Paths /\ s[k].ts \in Nat
<1>1. /\ Len(s) \in Nat /\ DOMAIN s = 1 .. Len(s)
      /\ \A k \in DOMAIN s : s[k] \in Event
  BY ElementOfSeq, LenProperties
<1>. QED
  BY <1>1, HotStateAssumption DEF Event

\* What TypeOK and EntryTypes say of the two lists and of seen.
LEMMA StateTypes ==
  ASSUME CoreInv
  PROVE  /\ files \in Seq(Event) /\ view \in Seq(Event)
         /\ Len(files) \in Nat /\ DOMAIN files = 1 .. Len(files)
         /\ \A k \in DOMAIN files : files[k].path \in Paths /\ files[k].ts \in Nat
         /\ Len(view) \in Nat /\ DOMAIN view = 1 .. Len(view)
         /\ \A k \in DOMAIN view : view[k].path \in Paths /\ view[k].ts \in Nat
         /\ seen \in [Paths -> Timestamps \cup {Never}]
         /\ \A p \in Paths : seen[p] \in Int
<1>1. /\ files \in Seq(Event) /\ view \in Seq(Event)
      /\ seen \in [Paths -> Timestamps \cup {Never}]
  BY DEF CoreInv, TypeOK
<1>2. \A p \in Paths : seen[p] \in Int
  BY <1>1, TimesAreNumbers
<1>. QED
  BY <1>1, <1>2, EntryTypes

\* An event that is not newer leaves the list alone; only seen can grow.
LEMMA MergeStaleCore == ASSUME CoreInv, MergeStale PROVE CoreInv' /\ seen' = seen
<1> DEFINE e == Head(batch)
<1>1. /\ Deliver(Head(batch)) /\ Merging /\ pc = "merge" /\ pc' = "merge" /\ files' = files
      /\ view' = view /\ by_path' = by_path /\ delta' = delta /\ i' = i /\ j' = j
      /\ e.path \in DOMAIN by_path /\ ~IsNewer(e)
  BY DEF Deliver, Merging, MergeStale
<1>2. /\ e.path \in Paths /\ e.ts \in Nat /\ Tail(batch) \in Seq(Event)
      /\ batch' = Tail(batch)
  BY <1>1, HeadOfBatch DEF Deliver
<1>3. /\ seen' \in [Paths -> Timestamps \cup {Never}]
      /\ seen'[e.path] = IF e.ts > seen[e.path] THEN e.ts ELSE seen[e.path]
      /\ \A p \in Paths : p # e.path => seen'[p] = seen[p]
  <2>1. Merging /\ Deliver(Head(batch))
    BY <1>1
  <2>. QED
    BY <2>1, DeliverSeen, Zenon
<1> HIDE DEF e
<1>4. TypeOK'
  BY <1>1, <1>2, <1>3 DEF CoreInv, TypeOK
<1>5. IndexNames' /\ SortInv' /\ RestInv' /\ SortPrefix'
  BY <1>1 DEF CoreInv, IndexNames, SortInv, RestInv, SortPrefix
<1>6. seen' = seen
  <2> DEFINE x == by_path[e.path]
  <2>1. x \in DOMAIN files /\ files[x].path = e.path /\ ~(e.ts > files[x].ts)
    BY <1>1 DEF CoreInv, IndexNames, IsNewer
  <2> HIDE DEF x
  <2>2. files[x].ts <= seen[e.path]
    BY <2>1 DEF CoreInv, NeverAhead
  <2>3. ~(e.ts > seen[e.path])
    BY <1>2, <2>1, <2>2, StateTypes
  <2>4. \A p \in Paths : seen'[p] = seen[p]
    BY <1>3, <2>3
  <2>. QED
    BY <1>3, <2>4, StateTypes
<1>7. NeverAhead' /\ Floor'
  BY <1>1, <1>6 DEF CoreInv, NeverAhead, Floor, Current
<1>. QED
  BY <1>4, <1>5, <1>6, <1>7 DEF CoreInv

LEMMA MergeStaleList == ASSUME ListInv, MergeStale PROVE ListInv'
<1>1. UNCHANGED <<files, view, by_path, delta, pc>>
  BY DEF MergeStale, Deliver
<1>2. Distinct' /\ IndexInv' /\ Grows'
  BY <1>1 DEF ListInv, Distinct, Abstract!DistinctPaths, IndexInv, Grows, PathsIn
<1>3. Steady'
  BY <1>1 DEF ListInv, Steady, Abstract!KeepsUnlessNewer
<1>. QED
  BY <1>2, <1>3 DEF ListInv

\* A new path goes to the end of the list and the index names it there; if the path was
\* trimmed before, the list is full of entries at least as new (Floor).
LEMMA MergeNewCore == ASSUME CoreInv, MergeNew PROVE CoreInv'
<1> DEFINE e == Head(batch)
           n == Len(files)
<1>1. /\ Deliver(Head(batch)) /\ Merging /\ pc = "merge" /\ pc' = "merge" /\ i' = i /\ j' = j
      /\ view' = view /\ batch' = Tail(batch)
      /\ e.path \notin DOMAIN by_path
      /\ files' = Append(files, e)
      /\ by_path' = [p \in DOMAIN by_path \cup {e.path} |->
                       IF p = e.path THEN n + 1 ELSE by_path[p]]
      /\ delta' = [delta EXCEPT !.added = @ \cup {e.path}]
  BY DEF Deliver, Merging, MergeNew
<1>2. /\ e \in Event /\ e.path \in Paths /\ e.ts \in Nat /\ Tail(batch) \in Seq(Event)
  BY <1>1, HeadOfBatch
<1>3. /\ seen' \in [Paths -> Timestamps \cup {Never}]
      /\ \A p \in Paths : seen[p] \in Int /\ seen'[p] \in Int /\ seen'[p] >= seen[p]
      /\ seen'[e.path] = IF e.ts > seen[e.path] THEN e.ts ELSE seen[e.path]
      /\ \A p \in Paths : p # e.path => seen'[p] = seen[p]
  BY <1>1, DeliverSeen
<1> HIDE DEF e
<1>4. /\ n \in Nat /\ files' \in Seq(Event) /\ Len(files') = n + 1
      /\ DOMAIN files = 1 .. n /\ DOMAIN files' = 1 .. (n + 1)
      /\ \A k \in 1 .. n : files'[k] = files[k]
      /\ files'[n + 1] = e
  BY <1>1, <1>2, StateTypes
<1> HIDE DEF n
<1>5. TypeOK'
  <2>1. delta' \in [added : SUBSET Paths, updated : SUBSET Paths, removed : SUBSET Paths]
    BY <1>1, <1>2 DEF CoreInv, TypeOK
  <2>. QED
    BY <1>1, <1>2, <1>3, <1>4, <2>1 DEF CoreInv, TypeOK
<1>6. IndexNames'
  <2>1. \A p \in DOMAIN by_path : by_path[p] \in 1 .. n /\ files[by_path[p]].path = p
    BY <1>1, <1>4 DEF CoreInv, IndexNames
  <2>2. \A p \in DOMAIN by_path : p # e.path /\ by_path'[p] = by_path[p]
    BY <1>1
  <2>3. by_path'[e.path] = n + 1 /\ n + 1 \in 1 .. (n + 1)
    BY <1>1, <1>4
  <2>4. DOMAIN by_path' = DOMAIN by_path \cup {e.path}
    BY <1>1
  <2> SUFFICES ASSUME NEW p \in DOMAIN by_path'
               PROVE  by_path'[p] \in DOMAIN files' /\ files'[by_path'[p]].path = p
    BY DEF IndexNames
  <2>5. CASE p \in DOMAIN by_path
    BY <1>4, <2>1, <2>2, <2>5
  <2>6. CASE p = e.path
    BY <1>4, <2>3, <2>6
  <2>. QED
    BY <2>4, <2>5, <2>6
<1>7. SortInv' /\ RestInv' /\ SortPrefix'
  BY <1>1 DEF SortInv, RestInv, SortPrefix
<1>8. NeverAhead'
  <2>1. \A k \in 1 .. n : files[k].ts <= seen'[files[k].path]
    <3> TAKE k \in 1 .. n
    <3>1. files[k].path \in Paths /\ files[k].ts \in Nat
      BY <1>4, StateTypes
    <3>2. files[k].ts <= seen[files[k].path]
      BY <1>4 DEF CoreInv, NeverAhead
    <3>. QED
      BY <3>1, <3>2, <1>3
  <2>2. e.ts <= seen'[e.path]
    BY <1>2, <1>3
  <2>. QED
    BY <1>4, <2>1, <2>2 DEF NeverAhead
<1>9. Floor'
  <2> SUFFICES ASSUME NEW p \in Paths, seen'[p] # Never, ~Current(p)'
               PROVE  /\ MaxFiles <= Len(files')
                      /\ \A k \in 1 .. MaxFiles : files'[k].ts >= seen'[p]
    BY DEF Floor
  <2>1. seen'[p] = seen[p]
    <3>1. CASE p = e.path
      <4>1. n + 1 \in DOMAIN files' /\ files'[n + 1] = e
        BY <1>4
      <4>2. e.ts # seen'[p]
        BY <4>1, <3>1 DEF Current
      <4>. QED
        BY <4>2, <3>1, <1>3
    <3>2. CASE p # e.path
      BY <3>2, <1>3
    <3>. QED
      BY <3>1, <3>2
  <2>2. ~Current(p)
    <3> SUFFICES ASSUME NEW k \in 1 .. n, files[k].path = p, files[k].ts = seen[p]
                 PROVE  FALSE
      BY <1>4 DEF Current
    <3>1. k \in DOMAIN files' /\ files'[k].path = p /\ files'[k].ts = seen'[p]
      BY <1>4, <2>1
    <3>. QED
      BY <3>1 DEF Current
  <2>3. MaxFiles <= n /\ \A k \in 1 .. MaxFiles : files[k].ts >= seen[p]
    BY <2>1, <2>2 DEF CoreInv, Floor, n
  <2>. QED
    BY <1>4, <2>1, <2>3, HotStateAssumption
<1>. QED
  BY <1>5, <1>6, <1>7, <1>8, <1>9 DEF CoreInv

LEMMA MergeNewList == ASSUME CoreInv, ListInv, MergeNew PROVE ListInv'
<1> DEFINE e == Head(batch)
           n == Len(files)
<1>1. /\ Deliver(Head(batch)) /\ Merging /\ pc = "merge" /\ pc' = "merge" /\ i' = i /\ j' = j
      /\ view' = view /\ batch' = Tail(batch)
      /\ e.path \notin DOMAIN by_path
      /\ files' = Append(files, e)
      /\ by_path' = [p \in DOMAIN by_path \cup {e.path} |->
                       IF p = e.path THEN n + 1 ELSE by_path[p]]
      /\ delta' = [delta EXCEPT !.added = @ \cup {e.path}]
  BY DEF Deliver, Merging, MergeNew
<1>2. /\ e \in Event /\ e.path \in Paths /\ e.ts \in Nat /\ Tail(batch) \in Seq(Event)
  BY <1>1, HeadOfBatch
<1> HIDE DEF e
<1>4. /\ n \in Nat /\ files' \in Seq(Event) /\ Len(files') = n + 1
      /\ DOMAIN files = 1 .. n /\ DOMAIN files' = 1 .. (n + 1)
      /\ \A k \in 1 .. n : files'[k] = files[k]
      /\ files'[n + 1] = e
  BY <1>1, <1>2, StateTypes
<1> HIDE DEF n
<1>5. DOMAIN by_path = PathsIn(files) /\ \A k \in DOMAIN files : by_path[files[k].path] = k
  BY <1>1 DEF ListInv, IndexInv
<1>6. \A k \in DOMAIN files : files[k].path # e.path
  BY <1>1, <1>5 DEF PathsIn
<1>7. PathsIn(files') = PathsIn(files) \cup {e.path}
  <2>1. \A k \in 1 .. (n + 1) : files'[k].path \in PathsIn(files) \cup {e.path}
    <3> TAKE k \in 1 .. (n + 1)
    <3>1. CASE k = n + 1
      BY <3>1, <1>4
    <3>2. CASE k # n + 1
      <4>1. k \in 1 .. n
        BY <3>2, <1>4
      <4>. QED
        BY <4>1, <1>4 DEF PathsIn
    <3>. QED
      BY <3>1, <3>2
  <2>2. \A k \in 1 .. n : k \in 1 .. (n + 1)
    BY <1>4
  <2>3. n + 1 \in 1 .. (n + 1)
    BY <1>4
  <2>. QED
    BY <1>4, <2>1, <2>2, <2>3 DEF PathsIn
<1>8. Distinct'
  BY <1>4, <1>6 DEF ListInv, Distinct, Abstract!DistinctPaths
<1>9. IndexInv'
  <2>1. DOMAIN by_path' = PathsIn(files')
    BY <1>1, <1>5, <1>7
  <2>2. \A k \in 1 .. n : by_path'[files[k].path] = k
    BY <1>1, <1>4, <1>5, <1>6 DEF PathsIn
  <2>3. by_path'[e.path] = n + 1
    BY <1>1
  <2>. QED
    BY <2>1, <2>2, <2>3, <1>4 DEF IndexInv
<1>10. Grows'
  <2>1. PathsIn(files) = PathsIn(view) \cup delta.added
    BY <1>1 DEF ListInv, Grows
  <2>2. delta'.added = delta.added \cup {e.path}
    BY <1>1 DEF CoreInv, TypeOK
  <2>3. PathsIn(view') = PathsIn(view)
    BY <1>1
  <2>. QED
    BY <2>1, <2>2, <2>3, <1>7 DEF Grows
<1>11. Steady'
  <2>1. \A a \in DOMAIN view : view[a].path # e.path
    <3>1. PathsIn(view) \subseteq PathsIn(files)
      BY <1>1 DEF ListInv, Grows
    <3>. QED
      BY <3>1, <1>1, <1>5 DEF PathsIn
  <2>. QED
    BY <1>1, <1>4, <2>1 DEF ListInv, Steady, Abstract!KeepsUnlessNewer
<1>. QED
  BY <1>8, <1>9, <1>10, <1>11 DEF ListInv

\* A newer event replaces its path's entry in place.
LEMMA MergeUpdateCore == ASSUME CoreInv, MergeUpdate PROVE CoreInv'
<1> DEFINE e == Head(batch)
           x == by_path[e.path]
<1>1. /\ Deliver(Head(batch)) /\ Merging /\ pc = "merge" /\ pc' = "merge" /\ i' = i
      /\ j' = j /\ view' = view /\ batch' = Tail(batch)
      /\ e.path \in DOMAIN by_path
      /\ e.ts > files[x].ts
      /\ files' = [files EXCEPT ![x] = e]
      /\ by_path' = by_path
      /\ delta' = [delta EXCEPT !.updated = @ \cup {e.path}]
  BY DEF Deliver, Merging, MergeUpdate, IsNewer
<1>2. /\ e \in Event /\ e.path \in Paths /\ e.ts \in Nat /\ Tail(batch) \in Seq(Event)
  BY <1>1, HeadOfBatch
<1>3. /\ seen' \in [Paths -> Timestamps \cup {Never}]
      /\ \A p \in Paths : seen[p] \in Int /\ seen'[p] \in Int /\ seen'[p] >= seen[p]
      /\ seen'[e.path] = IF e.ts > seen[e.path] THEN e.ts ELSE seen[e.path]
      /\ \A p \in Paths : p # e.path => seen'[p] = seen[p]
  <2>1. Merging /\ Deliver(Head(batch))
    BY <1>1
  <2>. QED
    BY <2>1, DeliverSeen, Zenon
<1> HIDE DEF e
<1>4. x \in DOMAIN files /\ files[x].path = e.path
  BY <1>1 DEF CoreInv, IndexNames
<1>5. /\ files' \in Seq(Event) /\ Len(files') = Len(files) /\ DOMAIN files' = DOMAIN files
      /\ \A k \in DOMAIN files : files'[k] = IF k = x THEN e ELSE files[k]
  BY <1>1, <1>2, <1>4, StateTypes, ExceptSeq
<1> HIDE DEF x
<1>6. \A k \in DOMAIN files : files'[k].path = files[k].path /\ files'[k].ts >= files[k].ts
  BY <1>1, <1>2, <1>4, <1>5, StateTypes
<1>7. TypeOK'
  <2>1. delta' \in [added : SUBSET Paths, updated : SUBSET Paths, removed : SUBSET Paths]
    BY <1>1, <1>2 DEF CoreInv, TypeOK
  <2>. QED
    BY <1>1, <1>2, <1>3, <1>5, <2>1 DEF CoreInv, TypeOK
<1>8. IndexNames'
  BY <1>1, <1>5, <1>6 DEF CoreInv, IndexNames
<1>9. SortInv' /\ RestInv' /\ SortPrefix'
  BY <1>1 DEF SortInv, RestInv, SortPrefix
<1>10. NeverAhead'
  <2> SUFFICES ASSUME NEW k \in DOMAIN files PROVE files'[k].ts <= seen'[files'[k].path]
    BY <1>5 DEF NeverAhead
  <2>1. CASE k = x
    BY <2>1, <1>2, <1>3, <1>5
  <2>2. CASE k # x
    <3>1. files[k].path \in Paths /\ files[k].ts \in Nat /\ files'[k] = files[k]
      BY <2>2, <1>5, StateTypes
    <3>2. files[k].ts <= seen[files[k].path]
      BY DEF CoreInv, NeverAhead
    <3>. QED
      BY <3>1, <3>2, <1>3
  <2>. QED
    BY <2>1, <2>2
<1>11. Floor'
  <2> SUFFICES ASSUME NEW p \in Paths, seen'[p] # Never, ~Current(p)'
               PROVE  /\ MaxFiles <= Len(files')
                      /\ \A k \in 1 .. MaxFiles : files'[k].ts >= seen'[p]
    BY DEF Floor
  <2>1. seen'[p] = seen[p]
    <3>1. CASE p = e.path
      <4>1. e.ts # seen'[p]
        BY <1>4, <1>5, <3>1 DEF Current
      <4>. QED
        BY <4>1, <3>1, <1>3
    <3>2. CASE p # e.path
      BY <3>2, <1>3
    <3>. QED
      BY <3>1, <3>2
  <2>2. ~Current(p)
    <3> SUFFICES ASSUME NEW k \in DOMAIN files, files[k].path = p, files[k].ts = seen[p]
                 PROVE  FALSE
      BY DEF Current
    <3>1. CASE k = x
      <4>1. p = e.path /\ e.ts > seen[p]
        BY <3>1, <1>1, <1>4 DEF x
      <4>. QED
        BY <4>1, <2>1, <1>2, <1>3
    <3>2. CASE k # x
      BY <3>2, <1>5, <2>1 DEF Current
    <3>. QED
      BY <3>1, <3>2
  <2>3. MaxFiles <= Len(files) /\ \A k \in 1 .. MaxFiles : files[k].ts >= seen[p]
    BY <2>1, <2>2 DEF CoreInv, Floor
  <2>4. \A k \in 1 .. MaxFiles : files'[k].ts >= seen[p]
    <3> TAKE k \in 1 .. MaxFiles
    <3>1. k \in DOMAIN files
      BY <2>3, StateTypes, HotStateAssumption
    <3>2. files'[k].ts \in Nat /\ files[k].ts \in Nat /\ seen[p] \in Int
      BY <3>1, <1>5, <1>2, StateTypes
    <3>3. files'[k].ts >= files[k].ts /\ files[k].ts >= seen[p]
      BY <3>1, <2>3, <1>6
    <3>. QED
      BY <3>2, <3>3
  <2>. QED
    BY <1>5, <2>1, <2>3, <2>4
<1>. QED
  BY <1>7, <1>8, <1>9, <1>10, <1>11 DEF CoreInv

LEMMA MergeUpdateList == ASSUME CoreInv, ListInv, MergeUpdate PROVE ListInv'
<1> DEFINE e == Head(batch)
           x == by_path[e.path]
<1>1. /\ Deliver(Head(batch)) /\ Merging /\ pc = "merge" /\ pc' = "merge" /\ i' = i
      /\ j' = j /\ view' = view /\ batch' = Tail(batch)
      /\ e.path \in DOMAIN by_path
      /\ e.ts > files[x].ts
      /\ files' = [files EXCEPT ![x] = e]
      /\ by_path' = by_path
      /\ delta' = [delta EXCEPT !.updated = @ \cup {e.path}]
  BY DEF Deliver, Merging, MergeUpdate, IsNewer
<1>2. /\ e \in Event /\ e.path \in Paths /\ e.ts \in Nat /\ Tail(batch) \in Seq(Event)
  BY <1>1, HeadOfBatch
<1> HIDE DEF e
<1>4. x \in DOMAIN files /\ files[x].path = e.path
  BY <1>1 DEF CoreInv, IndexNames
<1>5. /\ files' \in Seq(Event) /\ Len(files') = Len(files) /\ DOMAIN files' = DOMAIN files
      /\ \A k \in DOMAIN files : files'[k] = IF k = x THEN e ELSE files[k]
  BY <1>1, <1>2, <1>4, StateTypes, ExceptSeq
<1> HIDE DEF x
<1>6. \A k \in DOMAIN files : files'[k].path = files[k].path /\ files'[k].ts >= files[k].ts
  BY <1>1, <1>2, <1>4, <1>5, StateTypes
<1>7. PathsIn(files') = PathsIn(files)
  BY <1>5, <1>6 DEF PathsIn
<1>8. Distinct'
  BY <1>5, <1>6 DEF ListInv, Distinct, Abstract!DistinctPaths
<1>9. IndexInv'
  BY <1>1, <1>5, <1>6, <1>7 DEF ListInv, IndexInv
<1>10. Grows'
  <2>1. PathsIn(files) = PathsIn(view) \cup delta.added
    BY <1>1 DEF ListInv, Grows
  <2>2. delta'.added = delta.added
    BY <1>1 DEF CoreInv, TypeOK
  <2>3. PathsIn(view') = PathsIn(view)
    BY <1>1
  <2>. QED
    BY <2>1, <2>2, <2>3, <1>7 DEF Grows
<1>11. Steady'
  <2> SUFFICES ASSUME NEW a \in DOMAIN view, NEW b \in DOMAIN files,
                      view[a].path = files'[b].path
               PROVE  files'[b] = view[a] \/ files'[b].ts > view[a].ts
    BY <1>1, <1>5 DEF Steady, Abstract!KeepsUnlessNewer
  <2>1. files[b] = view[a] \/ files[b].ts > view[a].ts
    BY <1>6 DEF ListInv, Steady, Abstract!KeepsUnlessNewer
  <2>2. CASE b = x
    <3>1. files'[b] = e /\ e.ts > files[b].ts
      BY <2>2, <1>1, <1>5 DEF x
    <3>2. files[b].ts \in Nat /\ view[a].ts \in Nat
      BY StateTypes
    <3>. QED
      BY <3>1, <3>2, <2>1, <1>2
  <2>3. CASE b # x
    BY <2>1, <2>3, <1>5
  <2>. QED
    BY <2>2, <2>3
<1>. QED
  BY <1>8, <1>9, <1>10, <1>11 DEF ListInv

\* When entry j is in place, everything up to i is in order.
LEMMA SortNextCore == ASSUME CoreInv, SortNext PROVE CoreInv'
<1>1. /\ pc = "sort" /\ pc' = "sort" /\ i <= Len(files) /\ ~OutOfPlace
      /\ i' = i + 1 /\ j' = i + 1 /\ files' = files /\ by_path' = by_path
      /\ batch' = batch /\ delta' = delta /\ view' = view /\ seen' = seen
  BY DEF SortNext
<1>2. i \in Nat /\ j \in 0 .. i /\ i >= 2 /\ j >= 1
  BY <1>1 DEF CoreInv, TypeOK, SortInv
<1>3. TypeOK'
  BY <1>1, <1>2 DEF CoreInv, TypeOK
<1>4. SortPrefix'
  <2> SUFFICES ASSUME NEW a \in DOMAIN files, NEW b \in DOMAIN files,
                      a < b, b <= i
               PROVE  files[a].ts >= files[b].ts
    <3>1. \A b \in DOMAIN files : b <= i + 1 /\ b # i + 1 => b <= i
      BY <1>2, StateTypes
    <3>. QED
      BY <1>1, <3>1 DEF SortPrefix
  <2>1. CASE b # j
    BY <2>1, <1>1 DEF CoreInv, SortPrefix
  <2>2. CASE b = j
    <3>0. a \in Nat /\ a >= 1 /\ j - 1 \in DOMAIN files /\ j \in DOMAIN files /\ j > 1
      BY <1>1, <1>2, <2>2, StateTypes
    <3>1. files[j].ts <= files[j - 1].ts
      BY <3>0, <1>1, StateTypes DEF OutOfPlace
    <3>2. a = j - 1 \/ files[a].ts >= files[j - 1].ts
      <4>1. a # j - 1 => a < j - 1 /\ j - 1 <= i /\ j - 1 # j
        BY <1>2, <2>2, <3>0
      <4>. QED
        BY <4>1, <3>0, <1>1 DEF CoreInv, SortPrefix
    <3>. QED
      BY <2>2, <3>0, <3>1, <3>2, StateTypes
  <2>. QED
    BY <2>1, <2>2
<1>5. IndexNames' /\ RestInv'
  BY <1>1 DEF IndexNames, RestInv
<1>6. SortInv' /\ NeverAhead'
  BY <1>1, <1>2 DEF CoreInv, SortInv, NeverAhead
<1>7. Floor'
  BY <1>1 DEF CoreInv, Floor, Current
<1>. QED
  BY <1>3, <1>4, <1>5, <1>6, <1>7 DEF CoreInv

LEMMA SortNextList == ASSUME ListInv, SortNext PROVE ListInv'
<1>1. UNCHANGED <<files, view, by_path, delta, pc>>
  BY DEF SortNext
<1>2. Distinct' /\ IndexInv' /\ Grows'
  BY <1>1 DEF ListInv, Distinct, Abstract!DistinctPaths, IndexInv, Grows, PathsIn
<1>3. Steady'
  BY <1>1 DEF ListInv, Steady, Abstract!KeepsUnlessNewer
<1>. QED
  BY <1>2, <1>3 DEF ListInv

\* A swap moves the one entry that may be out of order one place up and keeps the rest.
LEMMA SortSwapCore == ASSUME CoreInv, SortSwap PROVE CoreInv'
<1>1. /\ pc = "sort" /\ pc' = "sort" /\ i <= Len(files) /\ i' = i /\ j' = j - 1
      /\ j > 1 /\ files[j].ts > files[j - 1].ts
      /\ files' = [files EXCEPT ![j] = files[j - 1], ![j - 1] = files[j]]
      /\ by_path' = by_path /\ batch' = batch /\ delta' = delta /\ view' = view
      /\ seen' = seen
  BY DEF SortSwap, OutOfPlace
<1>2. /\ i \in Nat /\ j \in Nat /\ j <= i /\ i >= 2 /\ batch = <<>>
      /\ j \in DOMAIN files /\ j - 1 \in DOMAIN files
  BY <1>1, StateTypes DEF CoreInv, TypeOK, SortInv
<1>3. /\ files' \in Seq(Event) /\ Len(files') = Len(files) /\ DOMAIN files' = DOMAIN files
      /\ files'[j] = files[j - 1] /\ files'[j - 1] = files[j]
      /\ \A k \in DOMAIN files : k # j /\ k # j - 1 => files'[k] = files[k]
  <2> DEFINE f == [files EXCEPT ![j] = files[j - 1]]
  <2>1. files \in Seq(Event) /\ files[j] \in Event /\ files[j - 1] \in Event
    BY <1>2, StateTypes, ElementOfSeq
  <2>2. /\ f \in Seq(Event) /\ Len(f) = Len(files)
        /\ \A k \in 1 .. Len(files) : f[k] = IF k = j THEN files[j - 1] ELSE files[k]
    BY <2>1, <1>2, StateTypes, ExceptSeq
  <2>3. files' = [f EXCEPT ![j - 1] = files[j]]
    BY <1>1
  <2> HIDE DEF f
  <2>4. /\ files' \in Seq(Event) /\ Len(files') = Len(f)
        /\ \A k \in 1 .. Len(f) : files'[k] = IF k = j - 1 THEN files[j] ELSE f[k]
    BY <2>1, <2>2, <2>3, <1>2, StateTypes, ExceptSeq
  <2>. QED
    BY <2>2, <2>4, <1>2, StateTypes, LenProperties
<1> DEFINE sw(k) == IF k = j THEN j - 1 ELSE IF k = j - 1 THEN j ELSE k
<1>4. \A k \in DOMAIN files : sw(k) \in DOMAIN files /\ files'[k] = files[sw(k)]
                              /\ files'[sw(k)] = files[k] /\ sw(sw(k)) = k
  BY <1>2, <1>3
<1>5. TypeOK'
  BY <1>1, <1>2, <1>3 DEF CoreInv, TypeOK
<1>6. IndexNames' /\ RestInv' /\ SortInv'
  BY <1>1, <1>2, <1>3, StateTypes DEF IndexNames, RestInv, SortInv
<1>7. SortPrefix'
  <2> SUFFICES ASSUME NEW a \in DOMAIN files, NEW b \in DOMAIN files,
                      a < b, b <= i, b # j - 1
               PROVE  files'[a].ts >= files'[b].ts
    BY <1>1, <1>3 DEF SortPrefix
  <2>1. \A c, d \in DOMAIN files : c < d /\ d <= i /\ d # j => files[c].ts >= files[d].ts
    BY <1>1 DEF CoreInv, SortPrefix
  <2>2. CASE b = j
    <3>1. files'[b] = files[j - 1]
      BY <2>2, <1>3
    <3>2. CASE a = j - 1
      BY <3>1, <3>2, <1>1, <1>2, <1>3, StateTypes
    <3>3. CASE a # j - 1
      <4>1. a < j - 1 /\ files'[a] = files[a]
        BY <2>2, <3>3, <1>2, <1>3, StateTypes
      <4>2. j - 1 \in DOMAIN files /\ j - 1 <= i /\ j - 1 # j
        BY <1>2
      <4>3. files[a].ts >= files[j - 1].ts
        BY <4>1, <4>2, <2>1
      <4>. QED
        BY <3>1, <4>1, <4>3
    <3>. QED
      BY <3>2, <3>3
  <2>3. CASE b # j
    <3>1. files'[b] = files[b]
      BY <2>3, <1>3
    <3>2. sw(a) < b
      BY <2>3, <1>2, StateTypes
    <3>3. files[sw(a)].ts >= files[b].ts
      BY <2>1, <2>3, <3>2, <1>4
    <3>. QED
      BY <3>1, <3>3, <1>4
  <2>. QED
    BY <2>2, <2>3
<1>8. NeverAhead'
  BY <1>1, <1>3, <1>4 DEF CoreInv, NeverAhead
<1>9. Floor'
  <2> SUFFICES ASSUME NEW p \in Paths, seen[p] # Never, ~Current(p)'
               PROVE  /\ MaxFiles <= Len(files)
                      /\ \A k \in 1 .. MaxFiles : files'[k].ts >= seen[p]
    BY <1>1, <1>3 DEF Floor
  <2>1. ~Current(p)
    BY <1>1, <1>3, <1>4 DEF Current
  <2>2. MaxFiles <= Len(files) /\ \A k \in 1 .. MaxFiles : files[k].ts >= seen[p]
    BY <2>1 DEF CoreInv, Floor
  <2>3. ASSUME NEW k \in 1 .. MaxFiles PROVE files'[k].ts >= seen[p]
    <3>1. k \in DOMAIN files /\ files[k].ts >= seen[p] /\ files[k].ts \in Nat /\ seen[p] \in Int
      BY <2>2, StateTypes, HotStateAssumption
    <3>2. CASE k = j
      <4>1. j - 1 \in 1 .. MaxFiles
        BY <3>2, <1>1, <1>2, HotStateAssumption
      <4>. QED
        BY <4>1, <3>2, <2>2, <1>3
    <3>3. CASE k = j - 1
      <4>1. files'[k].ts > files[k].ts /\ files'[k].ts \in Nat
        BY <3>3, <1>1, <1>2, <1>3, StateTypes
      <4>. QED
        BY <4>1, <3>1
    <3>4. CASE k # j /\ k # j - 1
      BY <3>4, <3>1, <1>3
    <3>. QED
      BY <3>2, <3>3, <3>4
  <2>. QED
    BY <2>2, <2>3
<1>. QED
  BY <1>5, <1>6, <1>7, <1>8, <1>9 DEF CoreInv

LEMMA SortSwapList == ASSUME CoreInv, ListInv, SortSwap PROVE ListInv'
<1>1. /\ pc = "sort" /\ pc' = "sort" /\ i <= Len(files) /\ i' = i /\ j' = j - 1
      /\ j > 1 /\ files[j].ts > files[j - 1].ts
      /\ files' = [files EXCEPT ![j] = files[j - 1], ![j - 1] = files[j]]
      /\ by_path' = by_path /\ batch' = batch /\ delta' = delta /\ view' = view
      /\ seen' = seen
  BY DEF SortSwap, OutOfPlace
<1>2. /\ i \in Nat /\ j \in Nat /\ j <= i /\ i >= 2 /\ batch = <<>>
      /\ j \in DOMAIN files /\ j - 1 \in DOMAIN files
  BY <1>1, StateTypes DEF CoreInv, TypeOK, SortInv
<1>3. /\ files' \in Seq(Event) /\ Len(files') = Len(files) /\ DOMAIN files' = DOMAIN files
      /\ files'[j] = files[j - 1] /\ files'[j - 1] = files[j]
      /\ \A k \in DOMAIN files : k # j /\ k # j - 1 => files'[k] = files[k]
  <2> DEFINE f == [files EXCEPT ![j] = files[j - 1]]
  <2>1. files \in Seq(Event) /\ files[j] \in Event /\ files[j - 1] \in Event
    BY <1>2, StateTypes, ElementOfSeq
  <2>2. /\ f \in Seq(Event) /\ Len(f) = Len(files)
        /\ \A k \in 1 .. Len(files) : f[k] = IF k = j THEN files[j - 1] ELSE files[k]
    BY <2>1, <1>2, StateTypes, ExceptSeq
  <2>3. files' = [f EXCEPT ![j - 1] = files[j]]
    BY <1>1
  <2> HIDE DEF f
  <2>4. /\ files' \in Seq(Event) /\ Len(files') = Len(f)
        /\ \A k \in 1 .. Len(f) : files'[k] = IF k = j - 1 THEN files[j] ELSE f[k]
    BY <2>1, <2>2, <2>3, <1>2, StateTypes, ExceptSeq
  <2>. QED
    BY <2>2, <2>4, <1>2, StateTypes, LenProperties
<1> DEFINE sw(k) == IF k = j THEN j - 1 ELSE IF k = j - 1 THEN j ELSE k
<1>4. \A k \in DOMAIN files : sw(k) \in DOMAIN files /\ files'[k] = files[sw(k)]
                              /\ files'[sw(k)] = files[k] /\ sw(sw(k)) = k
  BY <1>2, <1>3
<1>5. PathsIn(files') = PathsIn(files)
  BY <1>3, <1>4 DEF PathsIn
<1>6. Distinct'
  <2> SUFFICES ASSUME NEW a \in DOMAIN files, NEW b \in DOMAIN files,
                      files'[a].path = files'[b].path
               PROVE  a = b
    BY <1>3 DEF Distinct, Abstract!DistinctPaths
  <2>1. sw(a) = sw(b)
    BY <1>4 DEF ListInv, Distinct, Abstract!DistinctPaths
  <2>. QED
    BY <2>1, <1>2
<1>7. IndexInv'
  BY <1>1 DEF IndexInv
<1>8. Grows'
  <2>1. PathsIn(view') = PathsIn(view)
    BY <1>1
  <2>. QED
    BY <2>1, <1>1, <1>5 DEF ListInv, Grows
<1>9. Steady'
  BY <1>1, <1>3, <1>4 DEF ListInv, Steady, Abstract!KeepsUnlessNewer
<1>. QED
  BY <1>6, <1>7, <1>8, <1>9 DEF ListInv

\* The list cut after MaxFiles entries: its entries, then its length.
LEMMA TrimmedEntries ==
  ASSUME CoreInv
  PROVE  /\ Trimmed \in Seq(Event)
         /\ Len(files) > MaxFiles => Len(Trimmed) = MaxFiles
         /\ ~(Len(files) > MaxFiles) => Trimmed = files
         /\ \A k \in 1 .. Len(Trimmed) : Trimmed[k] = files[k]
<1>1. MaxFiles \in Nat /\ files \in Seq(Event) /\ Len(files) \in Nat
  BY StateTypes, HotStateAssumption
<1>2. CASE Len(files) > MaxFiles
  <2>1. \A k \in 1 .. MaxFiles : files[k] \in Event
    BY <1>1, <1>2, ElementOfSeq
  <2>2. /\ SubSeq(files, 1, MaxFiles) \in Seq(Event)
        /\ Len(SubSeq(files, 1, MaxFiles)) = MaxFiles
        /\ \A k \in 1 .. MaxFiles : SubSeq(files, 1, MaxFiles)[k] = files[k]
    BY <1>1, <2>1, SubSeqProperties
  <2>3. Trimmed = SubSeq(files, 1, MaxFiles)
    BY <1>2 DEF Trimmed
  <2>. QED
    BY <1>2, <2>2, <2>3
<1>3. CASE ~(Len(files) > MaxFiles)
  BY <1>1, <1>3 DEF Trimmed
<1>. QED
  BY <1>2, <1>3

\* It is as long as the list, or MaxFiles.
LEMMA TrimmedLen ==
  ASSUME CoreInv
  PROVE  /\ MaxFiles \in Nat /\ Len(files) \in Nat /\ Len(Trimmed) \in Nat
         /\ Len(Trimmed) <= Len(files) /\ Len(Trimmed) <= MaxFiles
         /\ Len(Trimmed) = Len(files) \/ Len(Trimmed) = MaxFiles
<1>1. MaxFiles \in Nat /\ Len(files) \in Nat
  BY StateTypes, HotStateAssumption
<1>2. CASE Len(files) > MaxFiles
  BY <1>1, <1>2, TrimmedEntries
<1>3. CASE ~(Len(files) > MaxFiles)
  BY <1>1, <1>3, TrimmedEntries
<1>. QED
  BY <1>2, <1>3

\* With distinct paths the index is exact.
LEMMA IndexOfDistinct ==
  ASSUME NEW s \in Seq(Event), Abstract!DistinctPaths(s)
  PROVE  /\ DOMAIN IndexOf(s) = PathsIn(s)
         /\ \A k \in DOMAIN s : IndexOf(s)[s[k].path] = k
<1>1. \A k \in DOMAIN s : k \in Nat
  BY LenProperties
<1>2. ASSUME NEW k \in DOMAIN s PROVE IndexOf(s)[s[k].path] = k
  <2> DEFINE P(x) == s[x].path = s[k].path /\ \A m \in DOMAIN s : s[m].path = s[k].path => m <= x
  <2>1. P(k)
    BY <1>1 DEF Abstract!DistinctPaths
  <2>2. \A x \in DOMAIN s : P(x) => x = k
    BY DEF Abstract!DistinctPaths
  <2>3. (CHOOSE x \in DOMAIN s : P(x)) = k
    BY <2>1, <2>2
  <2>4. s[k].path \in PathsIn(s)
    BY DEF PathsIn
  <2>. QED
    BY <2>3, <2>4 DEF IndexOf
<1>. QED
  BY <1>2 DEF IndexOf

\* Without, it names the last entry of each path.
LEMMA IndexOfNames ==
  ASSUME NEW s \in Seq(Event)
  PROVE  \A p \in DOMAIN IndexOf(s) : IndexOf(s)[p] \in DOMAIN s /\ s[IndexOf(s)[p]].path = p
<1> SUFFICES ASSUME NEW p \in PathsIn(s)
             PROVE  IndexOf(s)[p] \in DOMAIN s /\ s[IndexOf(s)[p]].path = p
  BY DEF IndexOf
<1> DEFINE K == {k \in DOMAIN s : s[k].path = p}
           P(x) == s[x].path = p /\ \A m \in DOMAIN s : s[m].path = p => m <= x
<1>1. DOMAIN s = 1 .. Len(s) /\ Len(s) \in Nat
  BY LenProperties
<1>2. K \in SUBSET Nat /\ K # {} /\ \A x \in K : x <= Len(s)
  BY <1>1 DEF PathsIn
<1>3. Max(K) \in K /\ \A x \in K : x <= Max(K)
  <2> HIDE DEF K
  <2>. QED
    BY <1>1, <1>2, MaxOf
<1>4. \E x \in DOMAIN s : P(x)
  <2>1. Max(K) \in DOMAIN s /\ P(Max(K))
    BY <1>3
  <2>. QED
    BY <2>1
<1>5. IndexOf(s)[p] = CHOOSE x \in DOMAIN s : P(x)
  BY DEF IndexOf
<1> HIDE DEF P
<1>6. IndexOf(s)[p] \in DOMAIN s /\ P(IndexOf(s)[p])
  BY <1>4, <1>5
<1>. QED
  BY <1>6 DEF P

\* Everything Finish needs to know about the list it cuts.
LEMMA FinishFacts ==
  ASSUME CoreInv, Finish
  PROVE  /\ Abstract!Descending(files)
         /\ Trimmed \in Seq(Event)
         /\ \A k \in DOMAIN Trimmed : /\ k \in DOMAIN files /\ k \in 1 .. MaxFiles
                                     /\ Trimmed[k] = files[k]
         /\ \A k \in DOMAIN files : k \notin DOMAIN Trimmed => k > MaxFiles
<1>1. pc = "sort" /\ i > Len(files)
  BY DEF Finish
<1>2. i \in Nat /\ j = i
  BY <1>1 DEF CoreInv, TypeOK, SortInv
<1>3. Abstract!Descending(files)
  <2> SUFFICES ASSUME NEW a \in DOMAIN files, NEW b \in DOMAIN files, a < b
               PROVE  files[a].ts >= files[b].ts
    BY DEF Abstract!Descending
  <2>1. b <= i /\ b # j
    BY <1>1, <1>2, StateTypes
  <2>. QED
    BY <1>1, <2>1 DEF CoreInv, SortPrefix
<1>4. DOMAIN Trimmed = 1 .. Len(Trimmed) /\ DOMAIN files = 1 .. Len(files)
  BY TrimmedEntries, StateTypes, LenProperties
<1>5. ASSUME NEW k \in DOMAIN Trimmed
      PROVE  k \in DOMAIN files /\ k \in 1 .. MaxFiles
  <2>1. k \in 1 .. Len(Trimmed)
    BY <1>4
  <2>2. k \in 1 .. Len(files) /\ k \in 1 .. MaxFiles
    BY <2>1, TrimmedLen
  <2>. QED
    BY <1>4, <2>2
<1>6. ASSUME NEW k \in DOMAIN files, k \notin DOMAIN Trimmed
      PROVE  k > MaxFiles
  <2>1. k \in 1 .. Len(files) /\ k \notin 1 .. Len(Trimmed)
    BY <1>4, <1>6
  <2>. QED
    BY <2>1, TrimmedLen
<1>7. \A k \in DOMAIN Trimmed : Trimmed[k] = files[k]
  BY <1>4, TrimmedEntries
<1>. QED
  BY <1>3, <1>5, <1>6, <1>7, TrimmedEntries

LEMMA FinishDistinct == ASSUME CoreInv, Distinct, Finish PROVE Abstract!DistinctPaths(Trimmed)
BY FinishFacts DEF Distinct, Abstract!DistinctPaths

\* A kept entry carries its path's latest timestamp: a resurrected one would be older
\* than all of the first MaxFiles entries, itself included.
LEMMA FinishCarriesLatest ==
  ASSUME CoreInv, Distinct, Finish, NEW k \in DOMAIN Trimmed
  PROVE  Trimmed[k].ts = seen[Trimmed[k].path]
<1> DEFINE p == files[k].path
<1>1. /\ k \in DOMAIN files /\ Trimmed[k] = files[k] /\ k \in 1 .. MaxFiles
      /\ p \in Paths /\ files[k].ts \in Nat /\ seen[p] \in Int
  BY FinishFacts, StateTypes
<1>2. files[k].ts <= seen[p]
  BY <1>1 DEF CoreInv, NeverAhead
<1> SUFFICES ASSUME files[k].ts # seen[p] PROVE FALSE
  BY <1>1
<1>3. seen[p] # Never
  BY <1>1, <1>2 DEF Never
<1>4. ~Current(p)
  BY <1>1 DEF Current, Distinct, Abstract!DistinctPaths
<1>5. files[k].ts >= seen[p]
  BY <1>1, <1>3, <1>4 DEF CoreInv, Floor
<1>. QED
  BY <1>1, <1>2, <1>5

\* A delivered path whose latest event is not listed lost to MaxFiles entries.
LEMMA FinishFloor ==
  ASSUME CoreInv, Finish, NEW p \in Paths, seen[p] # Never,
         ~ \E k \in DOMAIN Trimmed : Trimmed[k].path = p /\ Trimmed[k].ts = seen[p]
  PROVE  /\ Len(Trimmed) = MaxFiles
         /\ \A k \in 1 .. MaxFiles : Trimmed[k].ts >= seen[p]
<1>1. CASE Current(p)
  <2>1. PICK m \in DOMAIN files : files[m].path = p /\ files[m].ts = seen[p]
    BY <1>1 DEF Current
  <2>2. m > MaxFiles
    BY <2>1, FinishFacts
  <2>3. m \in 1 .. Len(files)
    BY <2>1, StateTypes
  <2>4. Len(Trimmed) = MaxFiles
    BY <2>2, <2>3, TrimmedLen, TrimmedEntries
  <2>5. \A k \in 1 .. MaxFiles : k \in 1 .. Len(files) /\ k < m
    BY <2>2, <2>3, TrimmedLen
  <2>6. \A k \in 1 .. MaxFiles : files[k].ts >= files[m].ts
    BY <2>1, <2>5, FinishFacts, StateTypes DEF Abstract!Descending
  <2>7. \A k \in 1 .. MaxFiles : Trimmed[k] = files[k]
    BY <2>4, TrimmedEntries
  <2>. QED
    BY <2>1, <2>4, <2>6, <2>7
<1>2. CASE ~Current(p)
  <2>1. MaxFiles <= Len(files) /\ \A k \in 1 .. MaxFiles : files[k].ts >= seen[p]
    BY <1>2 DEF CoreInv, Floor
  <2>2. Len(Trimmed) = MaxFiles
    BY <2>1, TrimmedLen
  <2>. QED
    BY <2>1, <2>2, TrimmedEntries
<1>. QED
  BY <1>1, <1>2

\* The sorted and trimmed list is a best-N list of what was delivered.
LEMMA FinishTopList == ASSUME CoreInv, Distinct, Finish PROVE Abstract!IsTopList(Trimmed, seen)
<1>1. Abstract!Descending(Trimmed)
  BY FinishFacts DEF Abstract!Descending
<1>2. Abstract!CarriesLatest(Trimmed, seen)
  BY FinishCarriesLatest DEF Abstract!CarriesLatest
<1>3. Abstract!NothingBetterLeftOut(Trimmed, seen)
  <2> SUFFICES ASSUME NEW p \in Paths, p \notin Abstract!PathsIn(Trimmed), seen[p] # Never
               PROVE  /\ Len(Trimmed) = MaxFiles
                      /\ \A k \in DOMAIN Trimmed : Trimmed[k].ts >= seen[p]
    BY DEF Abstract!NothingBetterLeftOut, Abstract!Never, Never
  <2>1. ~ \E k \in DOMAIN Trimmed : Trimmed[k].path = p /\ Trimmed[k].ts = seen[p]
    BY DEF Abstract!PathsIn
  <2>. QED
    BY <2>1, FinishFloor, FinishFacts
<1>. QED
  BY <1>1, <1>2, <1>3, FinishFacts, FinishDistinct, TrimmedLen DEF Abstract!IsTopList

\* The trim removes the paths it reports and no other.
LEMMA FinishPaths ==
  ASSUME CoreInv, Distinct, Finish
  PROVE  PathsIn(Trimmed) = PathsIn(files) \ PastLimit
<1>1. \A k \in DOMAIN files : k \in DOMAIN Trimmed <=> ~(k > MaxFiles)
  <2> TAKE k \in DOMAIN files
  <2>1. k \in DOMAIN Trimmed => k \in 1 .. MaxFiles
    BY FinishFacts
  <2>2. k \notin DOMAIN Trimmed => k > MaxFiles
    BY FinishFacts
  <2>. QED
    BY <2>1, <2>2, TrimmedLen
<1>2. \A k \in DOMAIN files : files[k].path \in PastLimit <=> k > MaxFiles
  BY DEF PastLimit, Distinct, Abstract!DistinctPaths
<1>. QED
  BY <1>1, <1>2, FinishFacts DEF PathsIn

\* After the trim list, index and view agree again.
LEMMA FinishCore == ASSUME CoreInv, Finish PROVE CoreInv'
<1>1. /\ files' = Trimmed /\ by_path' = IndexOf(Trimmed) /\ view' = Trimmed
      /\ delta' = [delta EXCEPT !.removed = PastLimit] /\ pc' = "idle" /\ i' = 0 /\ j' = 0
      /\ batch' = batch /\ seen' = seen /\ pc = "sort"
  BY DEF Finish
<1>2. TypeOK'
  <2>1. PastLimit \subseteq Paths
    BY StateTypes DEF PastLimit
  <2>2. delta' \in [added : SUBSET Paths, updated : SUBSET Paths, removed : SUBSET Paths]
    BY <1>1, <2>1 DEF CoreInv, TypeOK
  <2>3. files' \in Seq(Event) /\ view' \in Seq(Event)
    BY <1>1, FinishFacts
  <2>4. i' \in Nat /\ j' \in 0 .. i'
    BY <1>1
  <2>5. batch' \in Seq(Event) /\ seen' \in [Paths -> Timestamps \cup {Never}]
    BY <1>1 DEF CoreInv, TypeOK
  <2>. QED
    BY <1>1, <2>2, <2>3, <2>4, <2>5 DEF TypeOK
<1>3. IndexNames'
  <2>1. \A p \in DOMAIN IndexOf(Trimmed) : /\ IndexOf(Trimmed)[p] \in DOMAIN Trimmed
                                           /\ Trimmed[IndexOf(Trimmed)[p]].path = p
    BY FinishFacts, IndexOfNames
  <2>. QED
    BY <1>1, <2>1 DEF IndexNames
<1>4. SortInv' /\ SortPrefix'
  BY <1>1 DEF SortInv, SortPrefix
<1>5. RestInv'
  <2>1. Abstract!Descending(Trimmed)
    BY FinishFacts DEF Abstract!Descending
  <2>. QED
    BY <1>1, <2>1, TrimmedLen DEF CoreInv, SortInv, RestInv
<1>6. NeverAhead'
  BY <1>1, FinishFacts DEF CoreInv, NeverAhead
<1>7. Floor'
  BY <1>1, FinishFloor, FinishFacts DEF Floor, Current
<1>. QED
  BY <1>2, <1>3, <1>4, <1>5, <1>6, <1>7 DEF CoreInv

LEMMA FinishList == ASSUME CoreInv, ListInv, Finish PROVE ListInv'
<1>1. files' = Trimmed /\ by_path' = IndexOf(Trimmed) /\ view' = Trimmed /\ pc' = "idle"
  BY DEF Finish
<1>2. Abstract!DistinctPaths(Trimmed)
  BY FinishDistinct DEF ListInv
<1>3. Distinct'
  BY <1>1, <1>2 DEF Distinct
<1>4. IndexInv'
  <2>1. /\ DOMAIN IndexOf(Trimmed) = PathsIn(Trimmed)
        /\ \A k \in DOMAIN Trimmed : IndexOf(Trimmed)[Trimmed[k].path] = k
    BY <1>2, FinishFacts, IndexOfDistinct
  <2>2. PathsIn(files)' = PathsIn(Trimmed)
    BY <1>1 DEF PathsIn
  <2>. QED
    BY <1>1, <2>1, <2>2 DEF IndexInv
<1>5. Grows'
  BY <1>1 DEF Grows
<1>6. Steady'
  <2> SUFFICES ASSUME NEW a \in DOMAIN Trimmed, NEW b \in DOMAIN Trimmed,
                      Trimmed[a].path = Trimmed[b].path
               PROVE  Trimmed[a] = Trimmed[b]
    BY <1>1 DEF Steady, Abstract!KeepsUnlessNewer
  <2>. QED
    BY <1>2 DEF Abstract!DistinctPaths
<1>. QED
  BY <1>3, <1>4, <1>5, <1>6 DEF ListInv

\* Every step of a call keeps CoreInv, whatever the list it started from.
LEMMA ApplyCore == ASSUME CoreInv, ApplyStep PROVE CoreInv'
BY MergeNewCore, MergeUpdateCore, MergeStaleCore, BeginSortCore, SortSwapCore, SortNextCore,
   FinishCore DEF ApplyStep

LEMMA ApplyList == ASSUME CoreInv, ListInv, ApplyStep PROVE ListInv'
BY MergeNewList, MergeUpdateList, MergeStaleList, BeginSortList, SortSwapList, SortNextList,
   FinishList DEF ApplyStep

LEMMA CoreStutters == ASSUME CoreInv, UNCHANGED hotVars PROVE CoreInv'
BY DEF hotVars, CoreInv, TypeOK, IndexNames, SortInv, RestInv, Abstract!Descending, SortPrefix,
       NeverAhead, Floor, Current

LEMMA ListStutters == ASSUME ListInv, UNCHANGED hotVars PROVE ListInv'
BY DEF hotVars, ListInv, Distinct, Abstract!DistinctPaths, IndexInv, Grows, Steady,
       Abstract!KeepsUnlessNewer, PathsIn

-----------------------------------------------------------------------------
\* The inductive invariant holds of every behaviour of apply_events.
THEOREM Invariance == Spec => []IInv
<1>1. IInv /\ [Next]_hotVars => IInv'
  <2> SUFFICES ASSUME IInv, [Next]_hotVars PROVE IInv'
    OBVIOUS
  <2>1. CoreInv /\ ListInv
    BY DEF IInv
  <2>2. CASE \E b \in Batches : Receive(b)
    BY <2>1, <2>2, ReceiveCore, ReceiveList DEF IInv
  <2>3. CASE ApplyStep
    BY <2>1, <2>3, ApplyCore, ApplyList DEF IInv
  <2>4. CASE UNCHANGED hotVars
    BY <2>1, <2>4, CoreStutters, ListStutters DEF IInv
  <2>. QED
    BY <2>2, <2>3, <2>4 DEF Next
<1>. QED
  BY InitInv, <1>1, PTL DEF Spec

\* Every variable keeps its type and the sort's counters stay inside the list.
THEOREM TypeCorrect == Spec => []TypeOK
<1>1. IInv => TypeOK
  BY DEF IInv, CoreInv
<1>. QED
  BY <1>1, Invariance, PTL

\* Whenever the lock is free by_path sends every listed path to its own entry and knows
\* no other path (state.rs:188-195).
THEOREM IndexIsExact == Spec => []IndexExact
<1>1. IInv => IndexExact
  BY DEF IInv, ListInv, IndexInv, IndexExact
<1>. QED
  BY <1>1, Invariance, PTL

\* The outer loop's invariant of the insertion sort (state.rs:103-112).
THEOREM SortKeepsPrefix == Spec => []SortPrefix
<1>1. IInv => SortPrefix
  BY DEF IInv, CoreInv
<1>. QED
  BY <1>1, Invariance, PTL

\* Between calls the list is the one the last trim left.
LEMMA InvTopList == IInv => ViewIsTopList
<1> SUFFICES ASSUME CoreInv, ListInv, pc = "idle" PROVE Abstract!IsTopList(view, seen)
  BY DEF ViewIsTopList, IInv
<1>1. /\ files = view /\ Abstract!Descending(view) /\ Len(view) <= MaxFiles
      /\ Abstract!DistinctPaths(view)
  BY DEF CoreInv, ListInv, RestInv, Distinct
<1>2. Abstract!CarriesLatest(view, seen)
  <2> SUFFICES ASSUME NEW k \in DOMAIN files, files[k].ts # seen[files[k].path]
               PROVE  FALSE
    BY <1>1 DEF Abstract!CarriesLatest
  <2> DEFINE p == files[k].path
  <2>1. /\ p \in Paths /\ files[k].ts \in Nat /\ seen[p] \in Int /\ files[k].ts <= seen[p]
    BY StateTypes DEF CoreInv, NeverAhead
  <2>2. seen[p] # Never
    BY <2>1 DEF Never
  <2>3. ~Current(p)
    BY DEF Current, ListInv, Distinct, Abstract!DistinctPaths
  <2>4. k \in 1 .. MaxFiles
    BY <1>1, StateTypes, HotStateAssumption
  <2>5. files[k].ts >= seen[p]
    BY <2>1, <2>2, <2>3, <2>4 DEF CoreInv, Floor
  <2>. QED
    BY <2>1, <2>5
<1>3. Abstract!NothingBetterLeftOut(view, seen)
  <2> SUFFICES ASSUME NEW p \in Paths, p \notin Abstract!PathsIn(files), seen[p] # Never
               PROVE  /\ Len(files) = MaxFiles
                      /\ \A k \in DOMAIN files : files[k].ts >= seen[p]
    BY <1>1 DEF Abstract!NothingBetterLeftOut, Abstract!Never, Never, Abstract!PathsIn
  <2>1. ~Current(p)
    BY DEF Abstract!PathsIn, Current
  <2>2. MaxFiles <= Len(files) /\ \A k \in 1 .. MaxFiles : files[k].ts >= seen[p]
    BY <2>1 DEF CoreInv, Floor
  <2>3. Len(files) = MaxFiles
    <3>1. MaxFiles <= Len(files) /\ Len(files) <= MaxFiles
      BY <1>1, <2>2
    <3>. QED
      BY <3>1, TrimmedLen
  <2>. QED
    BY <2>2, <2>3, StateTypes
<1>. QED
  BY <1>1, <1>2, <1>3 DEF Abstract!IsTopList

\* What readers see is at every moment the best-MaxFiles list of everything delivered:
\* no number of merges, evictions and returns of an evicted path leaves an outdated
\* timestamp, a duplicate, a wrong order or a wrongly dropped file behind.
THEOREM ViewTopList == Spec => []ViewIsTopList
<1>. QED
  BY InvTopList, Invariance, PTL

\* A delta replayed on the old paths gives the new paths (state.rs:66-67).
THEOREM DeltasReplay == Spec => DeltaReplays
<1>1. IInv /\ [Next]_hotVars => [pc = "sort" /\ pc' = "idle" =>
         PathsIn(view') = (PathsIn(view) \cup delta'.added) \ delta'.removed]_hotVars
  <2> SUFFICES ASSUME IInv, Next, pc = "sort", pc' = "idle"
               PROVE  PathsIn(view') = (PathsIn(view) \cup delta'.added) \ delta'.removed
    OBVIOUS
  <2>1. Finish
    BY DEF Next, ApplyStep, Receive, MergeNew, MergeUpdate, MergeStale, Merging, BeginSort,
           SortSwap, SortNext
  <2>2. /\ view' = Trimmed
        /\ delta'.added = delta.added /\ delta'.removed = PastLimit
    BY <2>1 DEF Finish, IInv, CoreInv, TypeOK
  <2>3. PathsIn(files) = PathsIn(view) \cup delta.added
    BY DEF IInv, ListInv, Grows
  <2>. QED
    BY <2>1, <2>2, <2>3, FinishPaths DEF IInv, ListInv
<1>. QED
  BY <1>1, Invariance, PTL DEF Spec, DeltaReplays

\* Only Finish changes what readers see.
LEMMA ViewChanges == ASSUME [Next]_hotVars PROVE Finish \/ view' = view
BY DEF Next, ApplyStep, Receive, MergeNew, MergeUpdate, MergeStale, Deliver, BeginSort,
       SortSwap, SortNext, hotVars

ViewDistinct == Abstract!DistinctPaths(view)

\* Readers never see a path twice.
LEMMA ViewStaysDistinct == Spec => []ViewDistinct
<1>1. Init => ViewDistinct
  BY DEF Init, ViewDistinct, Abstract!DistinctPaths
<1>2. ViewDistinct /\ IInv /\ [Next]_hotVars => ViewDistinct'
  <2> SUFFICES ASSUME ViewDistinct, IInv, [Next]_hotVars PROVE ViewDistinct'
    OBVIOUS
  <2>1. CASE Finish
    <3>1. view' = Trimmed
      BY <2>1 DEF Finish
    <3>. QED
      BY <2>1, <3>1, FinishDistinct DEF ViewDistinct, IInv, ListInv
  <2>2. CASE view' = view
    BY <2>2 DEF ViewDistinct, Abstract!DistinctPaths
  <2>. QED
    BY <2>1, <2>2, ViewChanges
<1>. QED
  BY <1>1, <1>2, Invariance, PTL DEF Spec

\* Whatever a step shows readers, no entry gave way to one that is not newer.
LEMMA StepKeepsUnlessNewer ==
  ASSUME IInv, ViewDistinct, [Next]_hotVars PROVE Abstract!KeepsUnlessNewer(view, view')
<1>1. CASE Finish
  <2>1. view' = Trimmed
    BY <1>1 DEF Finish
  <2>2. \A k \in DOMAIN Trimmed : k \in DOMAIN files /\ Trimmed[k] = files[k]
    BY <1>1, FinishFacts DEF IInv
  <2>. QED
    BY <2>1, <2>2 DEF IInv, ListInv, Steady, Abstract!KeepsUnlessNewer
<1>2. CASE view' = view
  BY <1>2 DEF ViewDistinct, Abstract!DistinctPaths, Abstract!KeepsUnlessNewer
<1>. QED
  BY <1>1, <1>2, ViewChanges

\* A listed entry changes only when a strictly newer event of its path arrived, so that
\* sources may hand over what they handed over before (xbel.rs:51-52).
THEOREM OnlyNewerReplacesEntries == Spec => OnlyNewerReplaces
<1>1. IInv /\ ViewDistinct /\ [Next]_hotVars => [Abstract!KeepsUnlessNewer(view, view')]_hotVars
  BY StepKeepsUnlessNewer
<1>. QED
  BY <1>1, Invariance, ViewStaysDistinct, PTL DEF Spec, OnlyNewerReplaces

\* A step that merges an event delivers it; every other step but Finish leaves both the
\* delivered timestamps and the readers' view alone.
LEMMA StepRefines ==
  ASSUME IInv, ViewDistinct, [Next]_hotVars
  PROVE  [Abstract!Next]_(Abstract!lwVars)
<1> USE DEF Abstract!lwVars
<1>1. CASE MergeNew \/ MergeUpdate \/ MergeStale
  <2>1. Merging /\ Deliver(Head(batch))
    BY <1>1 DEF MergeNew, MergeUpdate, MergeStale
  <2>2. /\ Head(batch).path \in Paths /\ Head(batch).ts \in Timestamps
    BY <2>1, HeadOfBatch DEF Event, IInv
  <2>3. Abstract!Deliver(Head(batch).path, Head(batch).ts)
    BY <2>1 DEF Deliver, Abstract!Deliver
  <2>. QED
    BY <2>2, <2>3 DEF Abstract!Next
<1>2. CASE Finish
  <2>1. view' = Trimmed /\ seen' = seen
    BY <1>2 DEF Finish
  <2>2. Abstract!IsTopList(view', seen)
    BY <1>2, <2>1, FinishTopList DEF IInv, ListInv
  <2>3. Abstract!KeepsUnlessNewer(view, view')
    BY StepKeepsUnlessNewer
  <2>4. Abstract!Publish
    BY <2>1, <2>2, <2>3 DEF Abstract!Publish
  <2>. QED
    BY <2>4 DEF Abstract!Next
<1>3. CASE UNCHANGED <<seen, view>>
  BY <1>3
<1>. QED
  BY <1>1, <1>2, <1>3 DEF Next, ApplyStep, Receive, BeginSort, SortSwap, SortNext, hotVars

\* state.rs implements the promise of LatestWins: seen is what was delivered, view is
\* what the readers are shown.
THEOREM Refinement == Spec => ImplementsLatestWins
<1>1. Init => Abstract!Init
  BY DEF Init, Abstract!Init, Never, Abstract!Never
<1>2. IInv /\ ViewDistinct /\ [Next]_hotVars => [Abstract!Next]_(Abstract!lwVars)
  BY StepRefines
<1>. QED
  BY <1>1, <1>2, Invariance, ViewStaysDistinct, PTL DEF Spec, ImplementsLatestWins, Abstract!Spec
-----------------------------------------------------------------------------
(* Restarts *)

RestartInv == CoreInv /\ rows \in Seq(Event) /\ pending \in Seq(Event)

\* The latest row of a path is one of its rows, and no other is newer.
LEMMA LatestRowIs ==
  ASSUME rows \in Seq(Event), NEW p \in Paths
  PROVE  /\ LatestRow(p) \in Timestamps \cup {Never}
         /\ \A k \in DOMAIN rows : rows[k].path = p => rows[k].ts <= LatestRow(p)
         /\ LatestRow(p) # Never =>
              \E k \in DOMAIN rows : rows[k].path = p /\ rows[k].ts = LatestRow(p)
<1> DEFINE K == {m \in DOMAIN rows : rows[m].path = p}
           stamps == {rows[k].ts : k \in K}
           f == [k \in 1 .. Len(rows) |-> rows[k].ts]
<1>1. /\ DOMAIN rows = 1 .. Len(rows) /\ Len(rows) \in Nat
      /\ \A k \in DOMAIN rows : rows[k] \in Event
  BY ElementOfSeq, LenProperties
<1>2. \A k \in DOMAIN rows : rows[k].ts \in Timestamps /\ rows[k].ts \in Nat
  BY <1>1, HotStateAssumption DEF Event
<1>3. PICK N \in Nat : \A k \in 1 .. Len(rows) : rows[k].ts <= N
  <2>1. f \in [1 .. Len(rows) -> Nat]
    BY <1>1, <1>2
  <2>2. \E N \in Nat : \A k \in 1 .. Len(rows) : f[k] <= N
    <3> HIDE DEF f
    <3>. QED
      BY <1>1, <2>1, BoundOf
  <2>. QED
    BY <2>2
<1>4. CASE K = {}
  <2>1. LatestRow(p) = Never
    BY <1>4 DEF LatestRow
  <2>. QED
    BY <1>4, <2>1
<1>5. CASE K # {}
  <2>1. stamps \in SUBSET Nat /\ stamps # {} /\ \A t \in stamps : t <= N
    BY <1>1, <1>2, <1>3, <1>5
  <2>2. \E t \in stamps : \A u \in stamps : u <= t
    <3> HIDE DEF stamps
    <3>1. Max(stamps) \in stamps /\ \A u \in stamps : u <= Max(stamps)
      BY <2>1, MaxOf
    <3>. QED
      BY <3>1
  <2>3. LatestRow(p) = CHOOSE t \in stamps : \A u \in stamps : u <= t
    BY <2>1 DEF LatestRow
  <2>4. LatestRow(p) \in stamps /\ \A u \in stamps : u <= LatestRow(p)
    BY <2>2, <2>3
  <2>. QED
    BY <1>2, <2>4
<1>. QED
  BY <1>4, <1>5

\* In an order of the rows, each of them has a place.
LEMMA EveryRowPlaced ==
  ASSUME NEW n \in Nat, NEW o \in SetToSeqs(1 .. n)
  PROVE  o \in [1 .. n -> 1 .. n] /\ \A k \in 1 .. n : \E m \in 1 .. n : o[m] = k
<1>1. IsFiniteSet(1 .. n) /\ Cardinality(1 .. n) = n
  BY FS_Interval
<1>2. o \in [1 .. n -> 1 .. n] /\ \A a, b \in 1 .. n : a # b => o[a] # o[b]
  BY <1>1 DEF SetToSeqs
<1>3. o \in Injection(1 .. n, 1 .. n)
  BY <1>2 DEF Injection, IsInjective
<1>4. o \in Surjection(1 .. n, 1 .. n)
  BY <1>1, <1>3, FS_Injection
<1>. QED
  BY <1>2, <1>4 DEF Surjection

\* What the query returns: the rows in an order of falling timestamps, cut after max_files.
LEMMA QueriedRows ==
  ASSUME rows \in Seq(Event), NEW s \in NewestRows
  PROVE  LET n == Len(rows) IN
         /\ s \in Seq(Event) /\ Len(s) = Smaller(MaxFiles, n)
         /\ \E o \in [1 .. n -> 1 .. n] :
              /\ \A k \in 1 .. Len(s) : s[k] = rows[o[k]]
              /\ \A a, b \in 1 .. n : a < b => rows[o[a]].ts >= rows[o[b]].ts
              /\ \A k \in 1 .. n : \E m \in 1 .. n : o[m] = k
<1> DEFINE n == Len(rows)
           cut == Smaller(MaxFiles, n)
<1>1. n \in Nat /\ DOMAIN rows = 1 .. n /\ \A k \in 1 .. n : rows[k] \in Event
  BY ElementOfSeq, LenProperties
<1>2. PICK o \in SetToSeqs(1 .. n) :
        /\ s = SubSeq([k \in DOMAIN o |-> rows[o[k]]], 1, cut)
        /\ \A a, b \in DOMAIN o : a < b => rows[o[a]].ts >= rows[o[b]].ts
  BY <1>1 DEF NewestRows
<1>3. o \in [1 .. n -> 1 .. n] /\ \A k \in 1 .. n : \E m \in 1 .. n : o[m] = k
  <2> HIDE DEF n
  <2>. QED
    BY <1>1, EveryRowPlaced
<1> DEFINE all == [k \in DOMAIN o |-> rows[o[k]]]
<1> HIDE DEF n
<1>4. all \in [1 .. n -> Event] /\ \A k \in 1 .. n : all[k] = rows[o[k]]
  BY <1>1, <1>3
<1>5. cut \in 0 .. n
  BY <1>1, HotStateAssumption DEF Smaller
<1>6. s = SubSeq(all, 1, cut)
  BY <1>2
<1> HIDE DEF all, cut
<1>7. all \in Seq(Event) /\ Len(all) = n
  BY <1>1, <1>4
<1>8. \A k \in 1 .. cut : all[k] \in Event
  BY <1>1, <1>4, <1>5
<1>9. /\ s \in Seq(Event) /\ Len(s) = cut
      /\ \A k \in 1 .. cut : s[k] = all[k]
  <2>1. 1 \in Int /\ cut \in Int /\ 1 .. cut \subseteq 1 .. Len(all)
    BY <1>1, <1>5, <1>7
  <2>. QED
    BY <1>1, <1>5, <1>6, <1>7, <1>8, <2>1, SubSeqProperties
<1>10. \A k \in 1 .. Len(s) : s[k] = rows[o[k]]
  BY <1>1, <1>4, <1>5, <1>9
<1>. QED
  BY <1>2, <1>3, <1>9, <1>10 DEF n, cut

\* The list of the next process: nothing in it is newer than the table says, and a path
\* whose latest row did not get into it lost to max_files rows as new.
LEMMA HydrateCore ==
  ASSUME rows \in Seq(Event), HydrateFromDb
  PROVE  CoreInv'
<1> DEFINE n == Len(rows)
<1>1. /\ files' \in NewestRows /\ by_path' = IndexOf(files') /\ view' = files'
      /\ batch' = <<>> /\ delta' = NoDelta /\ pc' = "idle" /\ i' = 0 /\ j' = 0
      /\ seen' = [p \in Paths |-> LatestRow(p)]
  BY DEF HydrateFromDb
<1>2. PICK o \in [1 .. n -> 1 .. n] :
        /\ files' \in Seq(Event) /\ Len(files') = Smaller(MaxFiles, n)
        /\ \A k \in 1 .. Len(files') : files'[k] = rows[o[k]]
        /\ \A a, b \in 1 .. n : a < b => rows[o[a]].ts >= rows[o[b]].ts
        /\ \A k \in 1 .. n : \E m \in 1 .. n : o[m] = k
  BY <1>1, QueriedRows
<1>3. /\ n \in Nat /\ DOMAIN rows = 1 .. n /\ MaxFiles \in Nat
      /\ \A k \in 1 .. n : rows[k].path \in Paths /\ rows[k].ts \in Nat
  BY EntryTypes, HotStateAssumption
<1> HIDE DEF n
<1>4. /\ Len(files') \in Nat /\ DOMAIN files' = 1 .. Len(files')
      /\ Len(files') <= MaxFiles /\ Len(files') <= n
      /\ Len(files') = MaxFiles \/ Len(files') = n
  BY <1>2, <1>3, EntryTypes DEF Smaller
<1>5. TypeOK'
  <2>1. seen' \in [Paths -> Timestamps \cup {Never}]
    BY <1>1, LatestRowIs
  <2>2. i' \in Nat /\ j' \in 0 .. i' /\ batch' \in Seq(Event)
    BY <1>1
  <2>. QED
    BY <1>1, <1>2, <2>1, <2>2 DEF TypeOK, NoDelta
<1>6. IndexNames'
  BY <1>1, <1>2, IndexOfNames DEF IndexNames
<1>7. SortInv' /\ SortPrefix'
  BY <1>1 DEF SortInv, SortPrefix
<1>8. RestInv'
  <2>1. Abstract!Descending(files')
    <3> SUFFICES ASSUME NEW a \in 1 .. Len(files'), NEW b \in 1 .. Len(files'), a < b
                 PROVE  files'[a].ts >= files'[b].ts
      BY <1>4 DEF Abstract!Descending
    <3>1. a \in 1 .. n /\ b \in 1 .. n
      <4>1. n \in Nat /\ Len(files') \in Nat /\ Len(files') <= n
        BY <1>3, <1>4
      <4>. QED
        BY <4>1
    <3>2. rows[o[a]].ts >= rows[o[b]].ts
      BY <1>2, <3>1
    <3>. QED
      BY <1>2, <3>2
  <2>. QED
    BY <1>1, <1>4, <2>1 DEF RestInv, Abstract!Descending
<1>9. NeverAhead'
  <2> SUFFICES ASSUME NEW k \in 1 .. Len(files') PROVE files'[k].ts <= seen'[files'[k].path]
    BY <1>4 DEF NeverAhead
  <2>1. k \in 1 .. n /\ o[k] \in 1 .. n /\ files'[k] = rows[o[k]]
    BY <1>2, <1>3, <1>4
  <2>2. files'[k].path \in Paths /\ files'[k].ts <= LatestRow(files'[k].path)
    BY <1>3, <2>1, LatestRowIs
  <2>. QED
    BY <1>1, <2>2
<1>10. Floor'
  <2> SUFFICES ASSUME NEW p \in Paths, seen'[p] # Never, ~Current(p)'
               PROVE  /\ MaxFiles <= Len(files')
                      /\ \A k \in 1 .. MaxFiles : files'[k].ts >= seen'[p]
    BY DEF Floor
  <2>1. seen'[p] = LatestRow(p)
    BY <1>1
  <2>2. PICK r \in 1 .. n : rows[r].path = p /\ rows[r].ts = LatestRow(p)
    BY <1>3, <2>1, LatestRowIs
  <2>3. PICK m \in 1 .. n : o[m] = r
    BY <1>2
  <2>4. m \notin 1 .. Len(files')
    <3> SUFFICES ASSUME m \in 1 .. Len(files') PROVE FALSE
      OBVIOUS
    <3>1. m \in DOMAIN files' /\ files'[m].path = p /\ files'[m].ts = seen'[p]
      BY <1>2, <1>4, <2>1, <2>2, <2>3
    <3>. QED
      BY <3>1 DEF Current
  <2>5. Len(files') = MaxFiles
    BY <1>3, <1>4, <2>4
  <2>6. \A k \in 1 .. MaxFiles : k \in 1 .. n /\ k < m
    BY <1>3, <1>4, <2>4, <2>5
  <2>7. ASSUME NEW k \in 1 .. MaxFiles PROVE files'[k].ts >= seen'[p]
    <3>1. rows[o[k]].ts >= rows[o[m]].ts
      BY <1>2, <2>6
    <3>. QED
      BY <1>2, <2>1, <2>2, <2>3, <2>5, <3>1
  <2>. QED
    BY <1>3, <2>5, <2>7
<1>. QED
  BY <1>5, <1>6, <1>7, <1>8, <1>9, <1>10 DEF CoreInv

\* Neither a call nor a crash in the midst of one, nor rows that came twice, break CoreInv.
LEMMA RestartInvariance == RSpec => []RestartInv
<1>1. RInit => RestartInv
  BY InitInv DEF RInit, RestartInv, IInv
<1>2. RestartInv /\ [RNext]_restartVars => RestartInv'
  <2> SUFFICES ASSUME RestartInv, [RNext]_restartVars PROVE RestartInv'
    OBVIOUS
  <2>1. CoreInv /\ rows \in Seq(Event) /\ pending \in Seq(Event)
    BY DEF RestartInv
  <2>2. ASSUME NEW b \in Batches, PushAndReceive(b) PROVE RestartInv'
    <3>1. Receive(b) /\ pending' = pending \o b /\ rows' = rows
      BY <2>2 DEF PushAndReceive
    <3>2. pending \o b \in Seq(Event)
      BY <2>1, HotStateAssumption
    <3>. QED
      BY <2>1, <3>1, <3>2, ReceiveCore DEF RestartInv
  <2>3. CASE ApplyStep /\ UNCHANGED <<rows, pending>>
    BY <2>1, <2>3, ApplyCore DEF RestartInv
  <2>4. CASE Flush
    <3>1. rows' = rows \o pending /\ pending' = <<>> /\ UNCHANGED hotVars
      BY <2>4 DEF Flush
    <3>2. rows \o pending \in Seq(Event) /\ <<>> \in Seq(Event)
      BY <2>1
    <3>. QED
      BY <2>1, <3>1, <3>2, CoreStutters DEF RestartInv
  <2>5. CASE Restart
    <3>1. HydrateFromDb /\ pending' = <<>> /\ rows' = rows
      BY <2>5 DEF Restart
    <3>2. <<>> \in Seq(Event)
      OBVIOUS
    <3>. QED
      BY <2>1, <3>1, <3>2, HydrateCore DEF RestartInv
  <2>6. CASE UNCHANGED restartVars
    BY <2>1, <2>6, CoreStutters DEF RestartInv, restartVars
  <2>. QED
    BY <2>2, <2>3, <2>4, <2>5, <2>6 DEF RNext
<1>. QED
  BY <1>1, <1>2, PTL DEF RSpec

\* The first entry of a path is its newest; were it older than the latest event of the path,
\* so would be the whole list, itself included.
LEMMA CoreNewestFirst == CoreInv => NewestFirstAfterRestart
<1> SUFFICES ASSUME CoreInv, pc = "idle"
             PROVE  /\ Abstract!Descending(view) /\ Len(view) <= MaxFiles
                    /\ \A k \in DOMAIN view :
                         (\A m \in 1 .. k - 1 : view[m].path # view[k].path)
                           => view[k].ts = seen[view[k].path]
  BY DEF NewestFirstAfterRestart
<1>1. files = view /\ Abstract!Descending(files) /\ Len(files) <= MaxFiles
  BY DEF CoreInv, RestInv
<1>2. ASSUME NEW k \in DOMAIN files, \A m \in 1 .. k - 1 : files[m].path # files[k].path
      PROVE  files[k].ts = seen[files[k].path]
  <2> DEFINE p == files[k].path
  <2>1. /\ p \in Paths /\ files[k].ts \in Nat /\ seen[p] \in Int /\ files[k].ts <= seen[p]
        /\ Len(files) \in Nat /\ DOMAIN files = 1 .. Len(files) /\ MaxFiles \in Nat
    BY StateTypes, HotStateAssumption DEF CoreInv, NeverAhead
  <2>2. seen[p] # Never
    BY <2>1 DEF Never
  <2>3. CASE Current(p)
    <3>1. PICK m \in DOMAIN files : files[m].path = p /\ files[m].ts = seen[p]
      BY <2>3 DEF Current
    <3>2. m \notin 1 .. k - 1
      BY <1>2, <3>1
    <3>3. m = k \/ k < m
      BY <2>1, <3>2
    <3>4. files[k].ts >= files[m].ts
      BY <1>1, <2>1, <3>1, <3>3, StateTypes DEF Abstract!Descending
    <3>. QED
      BY <2>1, <3>1, <3>4
  <2>4. CASE ~Current(p)
    <3>1. k \in 1 .. MaxFiles
      BY <1>1, <2>1
    <3>2. files[k].ts >= seen[p]
      BY <2>1, <2>2, <2>4, <3>1 DEF CoreInv, Floor
    <3>. QED
      BY <2>1, <3>2
  <2>. QED
    BY <2>3, <2>4
<1>. QED
  BY <1>1, <1>2

\* However often the process dies and starts again, with whatever was flushed, once or
\* several times, between calls the list is in order, not too long, and the first entry it
\* shows of a path is the latest event known of it (db.rs's SELECT, state.rs:188-195).
THEOREM NewestFirst == RSpec => []NewestFirstAfterRestart
<1>. QED
  BY CoreNewestFirst, RestartInvariance, PTL DEF RestartInv
=============================================================================
