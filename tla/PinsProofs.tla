----------------------------- MODULE PinsProofs -----------------------------
(***************************************************************************)
(* Safety of the Pit Stop shelf for any paths, any number of connections   *)
(* and any mix of commands, failures and restarts.                         *)
(*                                                                         *)
(* The invariant says who holds which lock at which step, and what a task  *)
(* that is between its two writes has already made true of the table: a    *)
(* client keeps the database's guard there, so nobody else can undo it.    *)
(***************************************************************************)
EXTENDS Pins, FiniteSetTheorems, SequenceTheorems, TLAPS

\* A task holds the state exactly at "mem", a client the database from its statement on,
\* and the panel never keeps the database.
Locks ==
  /\ \A t \in Tasks : stOwner = t <=> pc[t] = "mem"
  /\ \A c \in Conns : dbOwner = c <=> pc[c] \in {"take", "mem"}
  /\ dbOwner # Panel
  /\ pc[Panel] # "take"

\* A running command has its pin, and its kind of task is on record.
Commands ==
  /\ \A t \in Tasks : pc[t] # "idle" => arg[t] \in Pin /\ op[t] # "none"
  /\ \A c \in Conns : pc[c] # "idle" => op[c] # "reorder" /\ "client" \in writers
  /\ pc[Panel] # "idle" => "panel" \in writers
  /\ pc[Panel] = "db" => op[Panel] # "reorder"

\* path is the table's key.
Table ==
  /\ IsFiniteSet(rows)
  /\ \A r, q \in rows : r.path = q.path => r = q

\* What a client wrote is still there while it holds the guard.
HeldWrite ==
  \A c \in Conns : pc[c] \in {"take", "mem"} =>
    /\ op[c] = "pin" => arg[c] \in rows
    /\ op[c] = "unpin" => arg[c].path \notin PathsOf(rows)

\* With clients alone, a client between its writes is behind on its own path only.
Others(S, x) == {p \in S : p.path # x}

ClientMatch ==
  "panel" \notin writers =>
    /\ dbOwner = Free => ToSet(pins) = rows
    /\ \A c \in Conns : pc[c] \in {"take", "mem"} =>
         Others(ToSet(pins), arg[c].path) = Others(rows, arg[c].path)

\* With the panel alone, between its writes it is ahead on its own path only.
Differ == (Pinned \ PathsOf(rows)) \cup (PathsOf(rows) \ Pinned)

PanelMatch ==
  "client" \notin writers =>
    /\ pc[Panel] # "db" => Differ \subseteq unsaved
    /\ pc[Panel] = "db" =>
         /\ Differ \subseteq unsaved \cup {arg[Panel].path}
         /\ op[Panel] = "pin" <=> arg[Panel].path \in Pinned

IInv == /\ PinsTypeOK /\ Locks /\ Commands /\ UniquePins
        /\ Table /\ HeldWrite /\ ClientMatch /\ PanelMatch

UniqueIn(s) == \A a, b \in DOMAIN s : s[a].path = s[b].path => a = b

-----------------------------------------------------------------------------
(* The list *)

\* The part of a list between two places.
LEMMA PartOf ==
  ASSUME NEW S, NEW s \in Seq(S), NEW m \in Int, NEW n \in Int,
         1 <= m, m <= n + 1, n <= Len(s)
  PROVE  /\ SubSeq(s, m, n) \in Seq(S)
         /\ Len(SubSeq(s, m, n)) = n - m + 1
         /\ \A a \in 1 .. n - m + 1 : SubSeq(s, m, n)[a] = s[m + a - 1]
<1>1. Len(s) \in Nat /\ \A a \in 1 .. Len(s) : s[a] \in S
  BY ElementOfSeq, LenProperties
<1>2. \A a \in m .. n : s[a] \in S
  BY <1>1
<1> QED BY <1>2, SubSeqProperties

\* Two lists, one behind the other.
LEMMA Glued ==
  ASSUME NEW S, NEW s \in Seq(S), NEW t \in Seq(S)
  PROVE  /\ s \o t \in Seq(S)
         /\ Len(s \o t) = Len(s) + Len(t)
         /\ \A n \in 1 .. Len(s) : (s \o t)[n] = s[n]
         /\ \A n \in Len(s) + 1 .. Len(s) + Len(t) : (s \o t)[n] = t[n - Len(s)]
<1>1. Len(s) \in Nat /\ Len(t) \in Nat
  BY LenProperties
<1>2. s \o t \in Seq(S) /\ Len(s \o t) = Len(s) + Len(t)
  BY ConcatProperties
<1>3. ASSUME NEW n \in 1 .. Len(s) PROVE (s \o t)[n] = s[n]
  BY <1>1, <1>3, ConcatProperties
<1>4. ASSUME NEW n \in Len(s) + 1 .. Len(s) + Len(t) PROVE (s \o t)[n] = t[n - Len(s)]
  BY <1>1, <1>4, ConcatProperties
<1> QED BY <1>2, <1>3, <1>4

\* What removing the element at k leaves.
LEMMA RemoveAtFacts ==
  ASSUME NEW S, NEW s \in Seq(S), NEW k \in 1 .. Len(s)
  PROVE  /\ RemoveAt(s, k) \in Seq(S)
         /\ Len(RemoveAt(s, k)) = Len(s) - 1
         /\ \A n \in 1 .. k - 1 : RemoveAt(s, k)[n] = s[n]
         /\ \A n \in k .. Len(s) - 1 : RemoveAt(s, k)[n] = s[n + 1]
<1> DEFINE front == SubSeq(s, 1, k - 1)
           back == SubSeq(s, k + 1, Len(s))
<1>1. Len(s) \in Nat /\ k \in Int
  BY LenProperties
<1>2. front \in Seq(S) /\ Len(front) = k - 1 /\ \A a \in 1 .. k - 1 : front[a] = s[a]
  BY <1>1, PartOf
<1>3. /\ back \in Seq(S) /\ Len(back) = Len(s) - k
      /\ \A a \in 1 .. Len(s) - k : back[a] = s[k + a]
  BY <1>1, PartOf
<1>4. RemoveAt(s, k) = front \o back
  BY DEF RemoveAt
<1> HIDE DEF front, back
<1>5. /\ front \o back \in Seq(S)
      /\ Len(front \o back) = Len(s) - 1
      /\ \A n \in 1 .. k - 1 : (front \o back)[n] = s[n]
  <2>1. /\ front \o back \in Seq(S)
        /\ Len(front \o back) = Len(front) + Len(back)
        /\ \A n \in 1 .. Len(front) : (front \o back)[n] = front[n]
    BY <1>2, <1>3, Glued
  <2> QED BY <1>1, <1>2, <1>3, <2>1
<1>6. ASSUME NEW n \in k .. Len(s) - 1 PROVE (front \o back)[n] = s[n + 1]
  <2>1. (front \o back)[n] = back[n - (k - 1)]
    BY <1>1, <1>2, <1>3, <1>6, Glued
  <2>2. n - (k - 1) \in 1 .. Len(s) - k /\ k + (n - (k - 1)) = n + 1
    BY <1>1
  <2> QED BY <1>3, <2>1, <2>2
<1> QED BY <1>4, <1>5, <1>6

\* What inserting e at k gives.
LEMMA InsertAtFacts ==
  ASSUME NEW S, NEW s \in Seq(S), NEW k \in 1 .. Len(s) + 1, NEW e \in S
  PROVE  /\ InsertAt(s, k, e) \in Seq(S)
         /\ Len(InsertAt(s, k, e)) = Len(s) + 1
         /\ \A n \in 1 .. k - 1 : InsertAt(s, k, e)[n] = s[n]
         /\ InsertAt(s, k, e)[k] = e
         /\ \A n \in k + 1 .. Len(s) + 1 : InsertAt(s, k, e)[n] = s[n - 1]
<1> DEFINE front == SubSeq(s, 1, k - 1)
           mid == front \o <<e>>
           back == SubSeq(s, k, Len(s))
<1>1. Len(s) \in Nat /\ k \in Int
  BY LenProperties
<1>2. front \in Seq(S) /\ Len(front) = k - 1 /\ \A a \in 1 .. k - 1 : front[a] = s[a]
  BY <1>1, PartOf
<1>3. /\ back \in Seq(S) /\ Len(back) = Len(s) - k + 1
      /\ \A a \in 1 .. Len(s) - k + 1 : back[a] = s[k + a - 1]
  BY <1>1, PartOf
<1>4. <<e>> \in Seq(S) /\ Len(<<e>>) = 1 /\ <<e>>[1] = e
  OBVIOUS
<1>5. InsertAt(s, k, e) = mid \o back
  BY DEF InsertAt
<1> HIDE DEF front, back
<1>6. /\ mid \in Seq(S) /\ Len(mid) = k
      /\ \A a \in 1 .. k - 1 : mid[a] = s[a]
  BY <1>1, <1>2, <1>4, Glued
<1>7. mid[k] = e
  <2>1. k \in Len(front) + 1 .. Len(front) + Len(<<e>>) /\ k - Len(front) = 1
    BY <1>1, <1>2, <1>4
  <2> QED BY <1>2, <1>4, <2>1, Glued
<1> HIDE DEF mid
<1>8. /\ mid \o back \in Seq(S)
      /\ Len(mid \o back) = Len(s) + 1
      /\ \A n \in 1 .. k - 1 : (mid \o back)[n] = s[n]
      /\ (mid \o back)[k] = e
  BY <1>1, <1>3, <1>6, <1>7, Glued
<1>9. ASSUME NEW n \in k + 1 .. Len(s) + 1 PROVE (mid \o back)[n] = s[n - 1]
  <2>1. (mid \o back)[n] = back[n - k]
    BY <1>1, <1>3, <1>6, <1>9, Glued
  <2>2. n - k \in 1 .. Len(s) - k + 1 /\ k + (n - k) - 1 = n - 1
    BY <1>1
  <2> QED BY <1>3, <2>1, <2>2
<1> QED BY <1>5, <1>8, <1>9

\* Taking one pin out of a list without repetitions takes its path out.
LEMMA Removed ==
  ASSUME NEW s \in Seq(Pin), UniqueIn(s), NEW k \in 1 .. Len(s)
  PROVE  /\ RemoveAt(s, k) \in Seq(Pin)
         /\ UniqueIn(RemoveAt(s, k))
         /\ ToSet(RemoveAt(s, k)) = Others(ToSet(s), s[k].path)
<1> DEFINE r == RemoveAt(s, k)
<1>1. /\ Len(s) \in Nat /\ DOMAIN s = 1 .. Len(s)
      /\ r \in Seq(Pin) /\ Len(r) = Len(s) - 1 /\ DOMAIN r = 1 .. Len(s) - 1
  BY RemoveAtFacts, LenProperties
<1>2. ASSUME NEW a \in DOMAIN r
      PROVE  \E m \in DOMAIN s : /\ r[a] = s[m]
                                 /\ (a < k /\ m = a) \/ (a >= k /\ m = a + 1)
  <2>1. CASE a < k
    <3>1. a \in 1 .. k - 1 /\ a \in DOMAIN s
      BY <1>1, <2>1
    <3>2. r[a] = s[a]
      BY <3>1, RemoveAtFacts
    <3> QED BY <2>1, <3>1, <3>2
  <2>2. CASE a >= k
    <3>1. a \in k .. Len(s) - 1 /\ a + 1 \in DOMAIN s
      BY <1>1, <2>2
    <3>2. r[a] = s[a + 1]
      BY <3>1, RemoveAtFacts
    <3> QED BY <2>2, <3>1, <3>2
  <2> QED BY <1>1, <2>1, <2>2
<1>3. ASSUME NEW m \in DOMAIN s, m # k
      PROVE  \E a \in DOMAIN r : r[a] = s[m]
  <2>1. CASE m < k
    <3>1. m \in 1 .. k - 1 /\ m \in DOMAIN r
      BY <1>1, <2>1
    <3>2. r[m] = s[m]
      BY <3>1, RemoveAtFacts
    <3> QED BY <3>1, <3>2
  <2>2. CASE m > k
    <3>1. m - 1 \in k .. Len(s) - 1 /\ m - 1 \in DOMAIN r /\ (m - 1) + 1 = m
      BY <1>1, <2>2
    <3>2. r[m - 1] = s[m]
      BY <3>1, RemoveAtFacts
    <3> QED BY <3>1, <3>2
  <2> QED BY <1>1, <1>3, <2>1, <2>2
<1> HIDE DEF r
<1>4. UniqueIn(r)
  <2> SUFFICES ASSUME NEW a \in DOMAIN r, NEW b \in DOMAIN r, r[a].path = r[b].path
               PROVE  a = b
    BY DEF UniqueIn
  <2>1. PICK m \in DOMAIN s : /\ r[a] = s[m]
                              /\ (a < k /\ m = a) \/ (a >= k /\ m = a + 1)
    BY <1>2
  <2>2. PICK n \in DOMAIN s : /\ r[b] = s[n]
                              /\ (b < k /\ n = b) \/ (b >= k /\ n = b + 1)
    BY <1>2
  <2>3. m = n
    BY <2>1, <2>2 DEF UniqueIn
  <2> QED BY <1>1, <2>1, <2>2, <2>3
<1>5. ASSUME NEW p \in ToSet(r) PROVE p \in Others(ToSet(s), s[k].path)
  <2>1. PICK a \in DOMAIN r : p = r[a]
    BY DEF ToSet
  <2>2. PICK m \in DOMAIN s : /\ r[a] = s[m]
                              /\ (a < k /\ m = a) \/ (a >= k /\ m = a + 1)
    BY <1>2
  <2>3. m # k /\ k \in DOMAIN s
    BY <1>1, <2>2
  <2>4. s[m].path # s[k].path
    BY <2>3 DEF UniqueIn
  <2> QED BY <2>1, <2>2, <2>4 DEF ToSet, Others
<1>6. ASSUME NEW p \in Others(ToSet(s), s[k].path) PROVE p \in ToSet(r)
  <2>1. PICK m \in DOMAIN s : p = s[m]
    BY DEF ToSet, Others
  <2>2. m # k
    BY <2>1 DEF Others
  <2> QED BY <1>3, <2>1, <2>2 DEF ToSet
<1>7. ToSet(r) = Others(ToSet(s), s[k].path)
  BY <1>5, <1>6
<1> QED BY <1>1, <1>4, <1>7 DEF r

\* Putting in one pin of a new path keeps the list without repetitions.
LEMMA Inserted ==
  ASSUME NEW s \in Seq(Pin), UniqueIn(s), NEW p \in Pin, p.path \notin PathsOf(ToSet(s)),
         NEW k \in 1 .. Len(s) + 1
  PROVE  /\ InsertAt(s, k, p) \in Seq(Pin)
         /\ UniqueIn(InsertAt(s, k, p))
         /\ ToSet(InsertAt(s, k, p)) = ToSet(s) \cup {p}
<1> DEFINE r == InsertAt(s, k, p)
<1>1. /\ Len(s) \in Nat /\ DOMAIN s = 1 .. Len(s)
      /\ r \in Seq(Pin) /\ Len(r) = Len(s) + 1 /\ DOMAIN r = 1 .. Len(s) + 1
      /\ r[k] = p
  BY InsertAtFacts, LenProperties
<1>2. ASSUME NEW a \in DOMAIN r, a # k
      PROVE  \E m \in DOMAIN s : /\ r[a] = s[m]
                                 /\ (a < k /\ m = a) \/ (a > k /\ m = a - 1)
  <2>1. CASE a < k
    <3>1. a \in 1 .. k - 1 /\ a \in DOMAIN s
      BY <1>1, <2>1
    <3>2. r[a] = s[a]
      BY <3>1, InsertAtFacts
    <3> QED BY <2>1, <3>1, <3>2
  <2>2. CASE a > k
    <3>1. a \in k + 1 .. Len(s) + 1 /\ a - 1 \in DOMAIN s
      BY <1>1, <2>2
    <3>2. r[a] = s[a - 1]
      BY <3>1, InsertAtFacts
    <3> QED BY <2>2, <3>1, <3>2
  <2> QED BY <1>1, <1>2, <2>1, <2>2
<1>3. ASSUME NEW m \in DOMAIN s
      PROVE  \E a \in DOMAIN r : r[a] = s[m]
  <2>1. CASE m < k
    <3>1. m \in 1 .. k - 1 /\ m \in DOMAIN r
      BY <1>1, <2>1
    <3>2. r[m] = s[m]
      BY <3>1, InsertAtFacts
    <3> QED BY <3>1, <3>2
  <2>2. CASE m >= k
    <3>1. m + 1 \in k + 1 .. Len(s) + 1 /\ m + 1 \in DOMAIN r /\ (m + 1) - 1 = m
      BY <1>1, <2>2
    <3>2. r[m + 1] = s[m]
      BY <3>1, InsertAtFacts
    <3> QED BY <3>1, <3>2
  <2> QED BY <1>1, <2>1, <2>2
<1>4. k \in DOMAIN r
  BY <1>1
<1> HIDE DEF r
<1>5. \A m \in DOMAIN s : s[m].path # p.path
  BY DEF PathsOf, ToSet
<1>6. UniqueIn(r)
  <2> SUFFICES ASSUME NEW a \in DOMAIN r, NEW b \in DOMAIN r, r[a].path = r[b].path
               PROVE  a = b
    BY DEF UniqueIn
  <2>1. CASE a = k /\ b # k
    BY <1>1, <1>2, <1>5, <2>1
  <2>2. CASE a # k /\ b = k
    BY <1>1, <1>2, <1>5, <2>2
  <2>3. CASE a # k /\ b # k
    <3>1. PICK m \in DOMAIN s : /\ r[a] = s[m]
                                /\ (a < k /\ m = a) \/ (a > k /\ m = a - 1)
      BY <1>2, <2>3
    <3>2. PICK n \in DOMAIN s : /\ r[b] = s[n]
                                /\ (b < k /\ n = b) \/ (b > k /\ n = b - 1)
      BY <1>2, <2>3
    <3>3. m = n
      BY <3>1, <3>2 DEF UniqueIn
    <3> QED BY <1>1, <3>1, <3>2, <3>3
  <2> QED BY <2>1, <2>2, <2>3
<1>7. ToSet(r) = ToSet(s) \cup {p}
  BY <1>1, <1>2, <1>3, <1>4 DEF ToSet
<1> QED BY <1>1, <1>6, <1>7 DEF r

\* retain drops the pin of x and nothing else.
LEMMA WithoutFacts ==
  ASSUME pins \in Seq(Pin), UniquePins, NEW x
  PROVE  /\ Without(x) \in Seq(Pin)
         /\ UniqueIn(Without(x))
         /\ ToSet(Without(x)) = Others(ToSet(pins), x)
<1>1. CASE x \notin Pinned
  <2>1. Without(x) = pins
    BY <1>1 DEF Without
  <2>2. \A p \in ToSet(pins) : p.path # x
    BY <1>1 DEF Pinned, PathsOf
  <2> QED BY <2>1, <2>2 DEF Others, UniqueIn, UniquePins
<1>2. CASE x \in Pinned
  <2>1. PICK k \in DOMAIN pins : pins[k].path = x
    BY <1>2 DEF Pinned, PathsOf, ToSet
  <2>2. PositionOf(x) = k
    BY <2>1 DEF PositionOf, UniquePins
  <2>3. Without(x) = RemoveAt(pins, k)
    BY <1>2, <2>2 DEF Without
  <2>4. UniqueIn(pins)
    BY DEF UniqueIn, UniquePins
  <2>5. k \in 1 .. Len(pins)
    BY <2>1, LenProperties
  <2> QED BY <2>1, <2>3, <2>4, <2>5, Removed
<1> QED BY <1>1, <1>2

\* A pushed pin of a new path is added, and the list stays without repetition.
LEMMA AppendFacts ==
  ASSUME NEW s \in Seq(Pin), UniqueIn(s), NEW p \in Pin, p.path \notin PathsOf(ToSet(s))
  PROVE  /\ Append(s, p) \in Seq(Pin)
         /\ UniqueIn(Append(s, p))
         /\ ToSet(Append(s, p)) = ToSet(s) \cup {p}
<1>1. /\ Append(s, p) \in Seq(Pin)
      /\ Len(Append(s, p)) = Len(s) + 1
      /\ \A n \in 1 .. Len(s) : Append(s, p)[n] = s[n]
      /\ Append(s, p)[Len(s) + 1] = p
  BY AppendProperties
<1>2. \A n \in 1 .. Len(s) : s[n].path # p.path
  BY LenProperties DEF PathsOf, ToSet
<1>3. UniqueIn(Append(s, p))
  BY <1>1, <1>2, LenProperties DEF UniqueIn
<1>4. ToSet(Append(s, p)) = ToSet(s) \cup {p}
  BY <1>1, LenProperties DEF ToSet
<1> QED BY <1>1, <1>3, <1>4

\* A drag shows the same paths, once each, in other places.
LEMMA ReorderedFacts ==
  ASSUME pins \in Seq(Pin), UniquePins, NEW from \in DOMAIN pins, NEW to \in DOMAIN pins
  PROVE  /\ Reordered(from, to) \in Seq(Pin)
         /\ UniqueIn(Reordered(from, to))
         /\ PathsOf(ToSet(Reordered(from, to))) = Pinned
<1> DEFINE r == RemoveAt(pins, from)
           m == InsertAt(r, to, pins[from])
<1>1. /\ Len(pins) \in Nat /\ from \in 1 .. Len(pins) /\ to \in 1 .. Len(pins)
      /\ pins[from] \in Pin
  BY LenProperties, ElementOfSeq
<1>2. UniqueIn(pins)
  BY DEF UniqueIn, UniquePins
<1>3. /\ r \in Seq(Pin) /\ UniqueIn(r)
      /\ ToSet(r) = Others(ToSet(pins), pins[from].path)
  BY <1>1, <1>2, Removed
<1>4. Len(r) = Len(pins) - 1
  BY <1>1, RemoveAtFacts
<1>5. to \in 1 .. Len(r) + 1
  BY <1>1, <1>4
<1>6. pins[from].path \notin PathsOf(ToSet(r))
  BY <1>3 DEF PathsOf, Others
<1> HIDE DEF r
<1>7. m \in Seq(Pin) /\ UniqueIn(m) /\ ToSet(m) = ToSet(r) \cup {pins[from]}
  BY <1>1, <1>3, <1>5, <1>6, Inserted
<1>8. Reordered(from, to) = [k \in DOMAIN m |-> [m[k] EXCEPT !.pos = k - 1]]
  BY DEF Reordered, r
<1> HIDE DEF m
<1>9. Len(m) \in Nat /\ DOMAIN m = 1 .. Len(m) /\ \A k \in 1 .. Len(m) : m[k] \in Pin
  BY <1>7, LenProperties, ElementOfSeq
<1>10. \A k \in DOMAIN m : /\ Reordered(from, to)[k] \in Pin
                           /\ Reordered(from, to)[k].path = m[k].path
  <2> TAKE k \in DOMAIN m
  <2>1. Reordered(from, to)[k] = [m[k] EXCEPT !.pos = k - 1]
    BY <1>8
  <2>2. k - 1 \in Nat
    BY <1>9
  <2> QED BY <1>9, <2>1, <2>2 DEF Pin
<1>11. DOMAIN Reordered(from, to) = 1 .. Len(m)
  BY <1>8, <1>9
<1>12. Reordered(from, to) = [k \in 1 .. Len(m) |-> [m[k] EXCEPT !.pos = k - 1]]
  BY <1>8, <1>9
<1>13. Reordered(from, to) \in [1 .. Len(m) -> Pin]
  BY <1>9, <1>10, <1>12
<1>14. Reordered(from, to) \in Seq(Pin)
  BY <1>9, <1>13
<1>15. UniqueIn(Reordered(from, to))
  BY <1>7, <1>9, <1>10, <1>11 DEF UniqueIn
<1>16. PathsOf(ToSet(Reordered(from, to))) = PathsOf(ToSet(m))
  BY <1>9, <1>10, <1>11 DEF PathsOf, ToSet
<1>17. PathsOf(ToSet(m)) = Pinned
  <2>1. pins[from] \in ToSet(pins)
    BY DEF ToSet
  <2> QED BY <1>3, <1>7, <2>1 DEF Pinned, PathsOf, Others
<1> QED BY <1>14, <1>15, <1>16, <1>17

\* What a start reads from the table is the table, each row once.
LEMMA LoadedFacts ==
  ASSUME Table, rows \subseteq Pin, NEW s \in ByPosition
  PROVE  /\ s \in Seq(Pin)
         /\ UniqueIn(s)
         /\ ToSet(s) = rows
<1> DEFINE D == 1 .. Cardinality(rows)
<1>1. Cardinality(rows) \in Nat /\ IsFiniteSet(rows)
  BY FS_CardinalityType DEF Table
<1>2. s \in [D -> rows] /\ \A a, b \in D : a # b => s[a] # s[b]
  BY DEF ByPosition, SetToSeqs
<1>3. s \in Seq(Pin)
  BY <1>1, <1>2
<1>4. UniqueIn(s)
  BY <1>2 DEF UniqueIn, Table
<1>5. s \in Injection(D, rows)
  BY <1>2 DEF Injection, IsInjective
<1>6. Cardinality(D) = Cardinality(rows)
  BY <1>1, FS_Interval
<1>7. s \in Surjection(D, rows)
  BY <1>1, <1>5, <1>6, FS_Injection
<1>8. ToSet(s) = rows
  BY <1>2, <1>7 DEF Surjection, ToSet
<1> QED BY <1>3, <1>4, <1>8

-----------------------------------------------------------------------------
(* The steps *)

\* What the type invariant says of one task.
LEMMA TaskTypes ==
  ASSUME PinsTypeOK
  PROVE  /\ pins \in Seq(Pin) /\ rows \subseteq Pin /\ Len(pins) \in Nat
         /\ pc \in [Tasks -> {"idle", "mem", "db", "take"}]
         /\ op \in [Tasks -> {"none", "pin", "unpin", "reorder"}]
         /\ arg \in [Tasks -> Pin \cup {NoPin}]
         /\ Panel \in Tasks /\ Conns \subseteq Tasks
         /\ Panel \notin Conns /\ Free \notin Tasks
BY LenProperties, PinsAssumption DEF PinsTypeOK, Tasks

\* Nothing pinned anywhere, nobody running: the invariant holds.
LEMMA InitInv == Init => IInv
<1> SUFFICES ASSUME Init PROVE IInv
  OBVIOUS
<1> USE PinsAssumption DEF Init, ForAll, Tasks
<1>1. PinsTypeOK
  BY DEF PinsTypeOK
<1>2. Locks /\ Commands /\ UniquePins /\ HeldWrite
  BY DEF Locks, Commands, UniquePins, HeldWrite
<1>3. Table
  BY FS_EmptySet DEF Table
<1>4. ClientMatch
  BY DEF ClientMatch, ToSet
<1>5. PanelMatch
  BY DEF PanelMatch, Differ, Pinned, PathsOf, ToSet
<1> QED BY <1>1, <1>2, <1>3, <1>4, <1>5 DEF IInv

\* Panel, the start of an action: it takes the state and nothing else.
LEMMA GuiLockInv ==
  ASSUME IInv, NEW o \in GuiOps, NEW x \in Paths, GuiLock(o, x)
  PROVE  IInv'
<1> USE DEF GuiLock, Goto, IInv
<1> USE TaskTypes
<1>1. PinsTypeOK'
  <2>1. [path |-> x, pos |-> Len(pins)] \in Pin
    BY DEF Pin
  <2> QED BY <2>1, PinsAssumption DEF PinsTypeOK
<1>2. Locks'
  BY DEF Locks
<1>3. Commands'
  <2>1. [path |-> x, pos |-> Len(pins)] \in Pin
    BY DEF Pin
  <2> QED BY <2>1, PinsAssumption DEF Commands
<1>4. UniquePins' /\ Table'
  BY DEF UniquePins, Table
<1>5. HeldWrite'
  BY DEF HeldWrite, PathsOf
<1>6. ClientMatch'
  BY DEF ClientMatch
<1>7. PanelMatch'
  BY DEF PanelMatch, Differ, Pinned, PathsOf
<1> QED BY <1>1, <1>2, <1>3, <1>4, <1>5, <1>6, <1>7

\* The running command's pin is a pin.
LEMMA ArgTypes ==
  ASSUME IInv, NEW t \in Tasks, pc[t] # "idle"
  PROVE  arg[t] \in Pin /\ arg[t].path \in Paths /\ arg[t].pos \in Nat /\ op[t] # "none"
BY DEF IInv, Commands, Pin

\* Panel, pin of a new path: from here to the statement the shelf is ahead on this path.
LEMMA GuiPinInv == ASSUME IInv, GuiPin PROVE IInv'
<1> USE TaskTypes DEF GuiPin, Goto, IInv
<1>1. arg[Panel] \in Pin
  BY ArgTypes
<1>2. UniqueIn(pins)
  BY DEF UniquePins, UniqueIn
<1>3. pins' \in Seq(Pin) /\ UniqueIn(pins') /\ ToSet(pins') = ToSet(pins) \cup {arg[Panel]}
  BY <1>1, <1>2, AppendFacts DEF Pinned
<1>4. PinsTypeOK'
  BY <1>3 DEF PinsTypeOK
<1>5. Locks'
  BY DEF Locks
<1>6. Commands'
  BY DEF Commands
<1>7. UniquePins' /\ Table'
  BY <1>3 DEF UniquePins, UniqueIn, Table
<1>8. HeldWrite'
  BY DEF HeldWrite, PathsOf
<1>9. ClientMatch'
  BY DEF ClientMatch, Commands
<1>10. PanelMatch'
  BY <1>3 DEF PanelMatch, Differ, Pinned, PathsOf
<1> QED BY <1>4, <1>5, <1>6, <1>7, <1>8, <1>9, <1>10

\* Panel, pin of a path on the shelf: nothing but the locks changes.
LEMMA GuiPinAgainInv == ASSUME IInv, GuiPinAgain PROVE IInv'
<1> USE TaskTypes DEF GuiPinAgain, Return, IInv
<1>1. stOwner' = Free /\ dbOwner' = dbOwner
  BY DEF Locks
<1>2. PinsTypeOK'
  BY <1>1 DEF PinsTypeOK
<1>3. Locks'
  BY <1>1 DEF Locks
<1>4. Commands'
  BY DEF Commands
<1>5. UniquePins' /\ Table'
  BY DEF UniquePins, Table
<1>6. HeldWrite'
  BY DEF HeldWrite, PathsOf
<1>7. ClientMatch'
  BY DEF ClientMatch, Commands
<1>8. PanelMatch'
  BY DEF PanelMatch, Differ, Pinned, PathsOf
<1> QED BY <1>2, <1>3, <1>4, <1>5, <1>6, <1>7, <1>8

\* Panel, unpin: from here to the statement the shelf is ahead on this path.
LEMMA GuiUnpinInv == ASSUME IInv, GuiUnpin PROVE IInv'
<1> USE TaskTypes DEF GuiUnpin, Goto, IInv
<1> DEFINE x == arg[Panel].path
<1>1. arg[Panel] \in Pin
  BY ArgTypes
<1>2. pins' \in Seq(Pin) /\ UniqueIn(pins') /\ ToSet(pins') = Others(ToSet(pins), x)
  BY WithoutFacts
<1>3. PinsTypeOK'
  BY <1>2 DEF PinsTypeOK
<1>4. Locks'
  BY DEF Locks
<1>5. Commands'
  BY DEF Commands
<1>6. UniquePins' /\ Table'
  BY <1>2 DEF UniquePins, UniqueIn, Table
<1>7. HeldWrite'
  BY DEF HeldWrite, PathsOf
<1>8. ClientMatch'
  BY DEF ClientMatch, Commands
<1>9. PanelMatch'
  <2>1. x \notin Pinned' /\ Pinned' \subseteq Pinned /\ Pinned \ {x} \subseteq Pinned'
    BY <1>2 DEF Pinned, PathsOf, Others
  <2>2. Differ' \subseteq Differ \cup {x}
    BY <2>1 DEF Differ
  <2> QED BY <2>1, <2>2 DEF PanelMatch
<1> QED BY <1>3, <1>4, <1>5, <1>6, <1>7, <1>8, <1>9

\* Panel, drag: the same paths are on the shelf.
LEMMA GuiReorderInv == ASSUME IInv, GuiReorder PROVE IInv'
<1> USE TaskTypes DEF GuiReorder, Return, IInv
<1>1. pins' \in Seq(Pin) /\ UniqueIn(pins') /\ Pinned' = Pinned
  BY ReorderedFacts DEF UniquePins, UniqueIn, Pinned
<1>2. stOwner' = Free /\ dbOwner' = dbOwner
  BY DEF Locks
<1>3. PinsTypeOK'
  BY <1>1, <1>2 DEF PinsTypeOK
<1>4. Locks'
  BY <1>2 DEF Locks
<1>5. Commands'
  BY DEF Commands
<1>6. UniquePins' /\ Table'
  BY <1>1 DEF UniquePins, UniqueIn, Table
<1>7. HeldWrite'
  BY DEF HeldWrite, PathsOf
<1>8. ClientMatch'
  BY DEF ClientMatch, Commands
<1>9. PanelMatch'
  BY <1>1 DEF PanelMatch, Differ, PathsOf
<1> QED BY <1>3, <1>4, <1>5, <1>6, <1>7, <1>8, <1>9

\* The two statements keep the path the table's key.
LEMMA StatementFacts ==
  ASSUME Table, rows \subseteq Pin, NEW p \in Pin, NEW x
  PROVE  /\ Upserted(p) = Others(rows, p.path) \cup {p} /\ Deleted(x) = Others(rows, x)
         /\ Upserted(p) \subseteq Pin /\ Deleted(x) \subseteq Pin
         /\ IsFiniteSet(Upserted(p)) /\ IsFiniteSet(Deleted(x))
         /\ \A r, q \in Upserted(p) : r.path = q.path => r = q
         /\ \A r, q \in Deleted(x) : r.path = q.path => r = q
<1>1. Upserted(p) = Others(rows, p.path) \cup {p} /\ Deleted(x) = Others(rows, x)
  BY DEF Upserted, Deleted, Others
<1>2. \A y : Others(rows, y) \subseteq rows
  BY DEF Others
<1>3. \A y : IsFiniteSet(Others(rows, y))
  BY <1>2, FS_Subset DEF Table
<1>4. IsFiniteSet(Upserted(p)) /\ IsFiniteSet(Deleted(x))
  BY <1>1, <1>3, FS_AddElement
<1>5. /\ \A r, q \in Upserted(p) : r.path = q.path => r = q
      /\ \A r, q \in Deleted(x) : r.path = q.path => r = q
  BY <1>1 DEF Others, Table
<1>6. Upserted(p) \subseteq Pin /\ Deleted(x) \subseteq Pin
  BY <1>1, <1>2
<1> QED BY <1>1, <1>4, <1>5, <1>6

\* Panel, the statement: it closes the difference, or the path is on record as failed.
LEMMA GuiPersistInv == ASSUME IInv, GuiPersist PROVE IInv'
<1> USE TaskTypes DEF GuiPersist, Return, IInv
<1> DEFINE p == arg[Panel]
<1>1. p \in Pin /\ p.path \in Paths /\ op[Panel] \in {"pin", "unpin"}
  BY ArgTypes DEF Commands
<1>2. stOwner' = stOwner /\ dbOwner' = Free /\ stOwner # Panel
  BY DEF Locks
<1>3. /\ rows' \subseteq Pin /\ IsFiniteSet(rows')
      /\ \A r, q \in rows' : r.path = q.path => r = q
  <2>1. rows' \in {rows, Upserted(p), Deleted(p.path)}
    BY DEF GuiStored
  <2>2. /\ Upserted(p) \subseteq Pin /\ Deleted(p.path) \subseteq Pin
        /\ IsFiniteSet(Upserted(p)) /\ IsFiniteSet(Deleted(p.path))
        /\ \A r, q \in Upserted(p) : r.path = q.path => r = q
        /\ \A r, q \in Deleted(p.path) : r.path = q.path => r = q
    BY <1>1, StatementFacts
  <2> HIDE DEF p
  <2> QED BY <2>1, <2>2 DEF Table
<1>4. PinsTypeOK'
  BY <1>1, <1>2, <1>3 DEF PinsTypeOK
<1>5. Locks'
  BY <1>2 DEF Locks
<1>6. Commands'
  BY DEF Commands
<1>7. UniquePins' /\ Table'
  BY <1>3 DEF UniquePins, Table
<1>8. HeldWrite'
  BY DEF HeldWrite, Locks
<1>9. ClientMatch'
  BY DEF ClientMatch, Commands
<1>10. PanelMatch'
  <2> SUFFICES ASSUME "client" \notin writers PROVE Differ' \subseteq unsaved'
    BY DEF PanelMatch
  <2>1. /\ Differ \subseteq unsaved \cup {p.path}
        /\ op[Panel] = "pin" <=> p.path \in Pinned
    BY DEF PanelMatch
  <2>2. Pinned' = Pinned
    BY DEF Pinned
  <2>3. CASE rows' = GuiStored /\ unsaved' = unsaved \ {p.path}
    <3>1. CASE op[Panel] = "pin"
      <4>1. rows' = Others(rows, p.path) \cup {p}
        BY <1>1, <2>3, <3>1, StatementFacts DEF GuiStored
      <4>2. PathsOf(rows') = PathsOf(rows) \cup {p.path}
        BY <4>1 DEF PathsOf, Others
      <4>3. Differ' = Differ \ {p.path}
        BY <2>1, <2>2, <3>1, <4>2 DEF Differ, PathsOf
      <4> QED BY <2>1, <2>3, <4>3
    <3>2. CASE op[Panel] = "unpin"
      <4>1. rows' = Others(rows, p.path)
        BY <1>1, <2>3, <3>2, StatementFacts DEF GuiStored
      <4>2. PathsOf(rows') = PathsOf(rows) \ {p.path}
        BY <4>1 DEF PathsOf, Others
      <4>3. Differ' = Differ \ {p.path}
        BY <2>1, <2>2, <3>2, <4>2 DEF Differ, PathsOf
      <4> QED BY <2>1, <2>3, <4>3
    <3> QED BY <1>1, <3>1, <3>2
  <2>4. CASE rows' = rows /\ unsaved' = unsaved \cup {p.path}
    BY <2>1, <2>2, <2>4 DEF Differ, PathsOf
  <2> QED BY <2>3, <2>4
<1> QED BY <1>4, <1>5, <1>6, <1>7, <1>8, <1>9, <1>10

\* Client, the start of a command.
LEMMA IpcBeginInv ==
  ASSUME IInv, NEW c \in Conns, NEW o \in IpcOps, NEW x \in Paths, IpcBegin(c, o, x)
  PROVE  IInv'
<1> USE TaskTypes DEF IpcBegin, Goto, IInv
<1>1. [path |-> x, pos |-> Len(pins)] \in Pin
  BY DEF Pin
<1>2. PinsTypeOK'
  BY <1>1, PinsAssumption DEF PinsTypeOK
<1>3. Locks'
  BY DEF Locks
<1>4. Commands'
  BY <1>1, PinsAssumption DEF Commands
<1>5. UniquePins' /\ Table'
  BY DEF UniquePins, Table
<1>6. HeldWrite'
  BY DEF HeldWrite, PathsOf
<1>7. ClientMatch'
  BY DEF ClientMatch, Others
<1>8. PanelMatch'
  BY DEF PanelMatch
<1> QED BY <1>2, <1>3, <1>4, <1>5, <1>6, <1>7, <1>8

\* A client's statement: the table is ahead on this path only, and the guard is kept.
LEMMA IpcWriteInv ==
  ASSUME IInv, NEW c \in Conns, IpcUpsert(c) \/ IpcDelete(c)
  PROVE  IInv'
<1> USE TaskTypes DEF IpcUpsert, IpcDelete, Goto, IInv
<1> DEFINE p == arg[c]
<1>1. p \in Pin /\ p.path \in Paths
  BY ArgTypes
<1>2. \/ op[c] = "pin" /\ rows' = Upserted(p)
      \/ op[c] = "unpin" /\ rows' = Deleted(p.path)
  OBVIOUS
<1>3. /\ rows' \subseteq Pin /\ IsFiniteSet(rows')
      /\ \A r, q \in rows' : r.path = q.path => r = q
      /\ Others(rows', p.path) = Others(rows, p.path)
      /\ op[c] = "pin" => p \in rows'
      /\ op[c] = "unpin" => p.path \notin PathsOf(rows')
  <2>1. /\ Upserted(p) \subseteq Pin /\ Deleted(p.path) \subseteq Pin
        /\ IsFiniteSet(Upserted(p)) /\ IsFiniteSet(Deleted(p.path))
        /\ \A r, q \in Upserted(p) : r.path = q.path => r = q
        /\ \A r, q \in Deleted(p.path) : r.path = q.path => r = q
    BY <1>1, StatementFacts
  <2>2. /\ Upserted(p) = Others(rows, p.path) \cup {p}
        /\ Deleted(p.path) = Others(rows, p.path)
    BY <1>1, StatementFacts
  <2> HIDE DEF p
  <2>3. /\ Others(Upserted(p), p.path) = Others(rows, p.path)
        /\ Others(Deleted(p.path), p.path) = Others(rows, p.path)
        /\ p \in Upserted(p) /\ p.path \notin PathsOf(Deleted(p.path))
    BY <2>2 DEF Others, PathsOf
  <2>4. op[c] = "pin" => op[c] # "unpin"
    OBVIOUS
  <2> QED BY <1>2, <2>1, <2>3, <2>4
<1>4. PinsTypeOK'
  BY <1>1, <1>3 DEF PinsTypeOK
<1>5. \A d \in Conns : pc[d] \notin {"take", "mem"}
  BY DEF Locks
<1>6. \A d \in Conns : pc'[d] \in {"take", "mem"} => d = c
  BY <1>5
<1>7. Locks'
  BY DEF Locks
<1>8. Commands'
  BY DEF Commands
<1>9. UniquePins' /\ Table'
  BY <1>3 DEF UniquePins, Table
<1>10. HeldWrite'
  BY <1>3, <1>6 DEF HeldWrite, PathsOf
<1>11. ClientMatch'
  <2> SUFFICES ASSUME "panel" \notin writers
               PROVE  Others(ToSet(pins), p.path) = Others(rows', p.path)
    BY <1>6 DEF ClientMatch
  <2> QED BY <1>3 DEF ClientMatch
<1>12. PanelMatch'
  BY DEF PanelMatch, Commands
<1> QED BY <1>4, <1>7, <1>8, <1>9, <1>10, <1>11, <1>12

\* A refused client changes nothing.
LEMMA IpcRefuseInv == ASSUME IInv, NEW c \in Conns, IpcRefuse(c) PROVE IInv'
<1> USE TaskTypes DEF IpcRefuse, Return, IInv
<1>1. stOwner' = stOwner /\ dbOwner' = dbOwner /\ stOwner # c
  BY DEF Locks
<1>2. PinsTypeOK'
  BY <1>1 DEF PinsTypeOK
<1>3. Locks'
  BY <1>1 DEF Locks
<1>4. Commands'
  BY DEF Commands
<1>5. UniquePins' /\ Table'
  BY DEF UniquePins, Table
<1>6. HeldWrite'
  BY DEF HeldWrite, PathsOf
<1>7. ClientMatch'
  BY <1>1 DEF ClientMatch, Others
<1>8. PanelMatch'
  BY DEF PanelMatch, Commands
<1> QED BY <1>2, <1>3, <1>4, <1>5, <1>6, <1>7, <1>8

\* A client takes the state with the database in hand.
LEMMA IpcTakeInv == ASSUME IInv, NEW c \in Conns, IpcTake(c) PROVE IInv'
<1> USE TaskTypes DEF IpcTake, Goto, IInv
<1>1. PinsTypeOK'
  BY DEF PinsTypeOK
<1>2. Locks'
  BY DEF Locks
<1>3. Commands'
  BY DEF Commands
<1>4. UniquePins' /\ Table'
  BY DEF UniquePins, Table
<1>5. HeldWrite'
  BY DEF HeldWrite, PathsOf
<1>6. ClientMatch'
  BY DEF ClientMatch, Others
<1>7. PanelMatch'
  BY DEF PanelMatch, Commands
<1> QED BY <1>1, <1>2, <1>3, <1>4, <1>5, <1>6, <1>7

\* What a client leaves on the shelf.
LEMMA ShelfFacts ==
  ASSUME IInv, NEW c \in Conns, pc[c] # "idle"
  PROVE  /\ IpcShelf(c) \in Seq(Pin) /\ UniqueIn(IpcShelf(c))
         /\ op[c] = "pin" =>
              ToSet(IpcShelf(c)) = Others(ToSet(pins), arg[c].path) \cup {arg[c]}
         /\ op[c] # "pin" => ToSet(IpcShelf(c)) = Others(ToSet(pins), arg[c].path)
<1> DEFINE w == Without(arg[c].path)
<1>1. arg[c] \in Pin
  BY ArgTypes, TaskTypes DEF IInv
<1>2. w \in Seq(Pin) /\ UniqueIn(w) /\ ToSet(w) = Others(ToSet(pins), arg[c].path)
  BY WithoutFacts, TaskTypes DEF IInv
<1> HIDE DEF w
<1>3. arg[c].path \notin PathsOf(ToSet(w))
  BY <1>2 DEF PathsOf, Others
<1>4. /\ Append(w, arg[c]) \in Seq(Pin) /\ UniqueIn(Append(w, arg[c]))
      /\ ToSet(Append(w, arg[c])) = Others(ToSet(pins), arg[c].path) \cup {arg[c]}
  BY <1>1, <1>2, <1>3, AppendFacts
<1>5. CASE op[c] = "pin"
  BY <1>4, <1>5 DEF IpcShelf, w
<1>6. CASE op[c] # "pin"
  BY <1>2, <1>6 DEF IpcShelf, w
<1> QED BY <1>5, <1>6

\* A client's change of the shelf: it makes up for the table's lead.
LEMMA IpcPublishInv == ASSUME IInv, NEW c \in Conns, IpcPublish(c) PROVE IInv'
<1> USE TaskTypes DEF IpcPublish, Return, IInv
<1>1. pins' \in Seq(Pin) /\ UniqueIn(pins')
  BY ShelfFacts
<1>2. stOwner' = Free /\ dbOwner' = Free
  BY DEF Locks
<1>3. \A d \in Conns : pc[d] \in {"take", "mem"} => d = c
  BY DEF Locks
<1>4. PinsTypeOK'
  BY <1>1, <1>2 DEF PinsTypeOK
<1>5. Locks'
  BY <1>2, <1>3 DEF Locks
<1>6. Commands'
  BY DEF Commands
<1>7. UniquePins' /\ Table'
  BY <1>1 DEF UniquePins, UniqueIn, Table
<1>8. \A d \in Conns : pc'[d] \notin {"take", "mem"}
  BY <1>3
<1>9. HeldWrite'
  BY <1>8 DEF HeldWrite
<1>10. ClientMatch'
  <2> SUFFICES ASSUME "panel" \notin writers PROVE ToSet(pins') = rows
    BY <1>8 DEF ClientMatch
  <2>1. Others(ToSet(pins), arg[c].path) = Others(rows, arg[c].path)
    BY DEF ClientMatch
  <2>2. op[c] \in {"pin", "unpin"}
    BY DEF Commands
  <2>3. CASE op[c] = "pin"
    <3>1. arg[c] \in rows
      BY <2>3 DEF HeldWrite
    <3>2. rows = Others(rows, arg[c].path) \cup {arg[c]}
      BY <3>1 DEF Others, Table
    <3> QED BY <2>1, <2>3, <3>2, ShelfFacts
  <2>4. CASE op[c] = "unpin"
    <3>1. arg[c].path \notin PathsOf(rows)
      BY <2>4 DEF HeldWrite
    <3>2. rows = Others(rows, arg[c].path)
      BY <3>1 DEF Others, PathsOf
    <3> QED BY <2>1, <2>4, <3>2, ShelfFacts
  <2> QED BY <2>2, <2>3, <2>4
<1>11. PanelMatch'
  BY DEF PanelMatch, Commands
<1> QED BY <1>4, <1>5, <1>6, <1>7, <1>9, <1>10, <1>11

\* The next process loads the table.
LEMMA RestartInv == ASSUME IInv, Restart PROVE IInv'
<1> USE DEF Restart, ForAll, IInv
<1>1. pins' \in Seq(Pin) /\ UniqueIn(pins') /\ ToSet(pins') = rows
  BY LoadedFacts DEF PinsTypeOK
<1>2. PinsTypeOK'
  BY <1>1, PinsAssumption DEF PinsTypeOK, Tasks
<1>3. Locks' /\ Commands' /\ HeldWrite'
  BY PinsAssumption DEF Locks, Commands, HeldWrite, Tasks
<1>4. UniquePins' /\ Table'
  BY <1>1 DEF UniquePins, UniqueIn, Table
<1>5. ClientMatch'
  BY <1>1, PinsAssumption DEF ClientMatch, Tasks
<1>6. PanelMatch'
  BY <1>1, PinsAssumption DEF PanelMatch, Differ, Pinned, PathsOf, Tasks
<1> QED BY <1>2, <1>3, <1>4, <1>5, <1>6

-----------------------------------------------------------------------------
(* The theorems *)

\* A step that changes nothing.
LEMMA StutterInv == ASSUME IInv, UNCHANGED pinVars PROVE IInv'
BY DEF pinVars, IInv, PinsTypeOK, Locks, Commands, UniquePins, Table, HeldWrite, ClientMatch,
       PanelMatch, Differ, Pinned, PathsOf, Others

\* Every step keeps the invariant.
LEMMA StepInv == IInv /\ [Next]_pinVars => IInv'
<1> SUFFICES ASSUME IInv, [Next]_pinVars PROVE IInv'
  OBVIOUS
<1>1. CASE \E o \in GuiOps, x \in Paths : GuiLock(o, x)
  BY <1>1, GuiLockInv
<1>2. CASE GuiStep
  BY <1>2, GuiPinInv, GuiPinAgainInv, GuiUnpinInv, GuiReorderInv, GuiPersistInv DEF GuiStep
<1>3. CASE \E c \in Conns, o \in IpcOps, x \in Paths : IpcBegin(c, o, x)
  BY <1>3, IpcBeginInv
<1>4. CASE \E c \in Conns : IpcStep(c)
  BY <1>4, IpcWriteInv, IpcRefuseInv, IpcTakeInv, IpcPublishInv DEF IpcStep
<1>5. CASE Restart
  BY <1>5, RestartInv
<1>6. CASE UNCHANGED pinVars
  BY <1>6, StutterInv
<1> QED BY <1>1, <1>2, <1>3, <1>4, <1>5, <1>6 DEF Next

\* The inductive invariant holds of every behaviour of the shelf's two kinds of tasks.
THEOREM PinsInvariance == Spec => []IInv
BY InitInv, StepInv, PTL DEF Spec

\* Every variable keeps its type, for any paths, connections and commands.
THEOREM PinsTypeCorrect == Spec => []PinsTypeOK
<1>1. IInv => PinsTypeOK
  BY DEF IInv
<1> QED BY <1>1, PinsInvariance, PTL

\* No interleaving of panel, clients, failures and restarts puts a path on the shelf twice
\* (dispatch.rs:68-84, ipc.rs:213-217).
THEOREM ShelfUnique == Spec => []UniquePins
<1>1. IInv => UniquePins
  BY DEF IInv
<1> QED BY <1>1, PinsInvariance, PTL

\* If only clients ask for changes, shelf and table are the same whenever no client is
\* between its two writes (ipc.rs:210-217, 228-231).
THEOREM ClientsAgree == Spec => []ShelfMatchesTable
<1>1. IInv => ShelfMatchesTable
  BY DEF IInv, ClientMatch, ShelfMatchesTable
<1> QED BY <1>1, PinsInvariance, PTL

\* If only the panel does, they differ between its actions only about a path whose last
\* statement failed (dispatch.rs:87-90, 99-102).
THEOREM PanelAgrees == Spec => []OnlyFailedDiffer
<1>1. IInv => OnlyFailedDiffer
  BY DEF IInv, PanelMatch, Differ, OnlyFailedDiffer
<1> QED BY <1>1, PinsInvariance, PTL

\* The step in which client c's command ends after its two writes.
Done(c) == pc[c] = "mem" /\ pc'[c] = "idle"

\* Only the client itself or the end of the process ends its command.
LEMMA DoneByPublish ==
  ASSUME IInv, [Next]_pinVars, NEW c \in Conns, Done(c)
  PROVE  IpcPublish(c) \/ Restart
<1> USE TaskTypes DEF IInv, Done
<1>1. CASE \E o \in GuiOps, x \in Paths : GuiLock(o, x)
  BY <1>1 DEF GuiLock, Goto
<1>2. CASE GuiStep
  BY <1>2 DEF GuiStep, GuiPin, GuiPinAgain, GuiUnpin, GuiReorder, GuiPersist, Goto, Return
<1>3. CASE \E d \in Conns, o \in IpcOps, x \in Paths : IpcBegin(d, o, x)
  BY <1>3 DEF IpcBegin, Goto
<1>4. ASSUME NEW d \in Conns, IpcStep(d) PROVE IpcPublish(c)
  BY <1>4 DEF IpcStep, IpcUpsert, IpcDelete, IpcRefuse, IpcTake, IpcPublish, Goto, Return
<1>5. CASE UNCHANGED pinVars
  BY <1>5 DEF pinVars
<1> QED BY <1>1, <1>2, <1>3, <1>4, <1>5 DEF Next

\* A client that is told "pinned" or "unpinned" is told what is so in memory and on disk
\* at that moment, whatever the panel and the other clients do (ipc.rs:210-221, 228-238).
THEOREM ReplyHolds == Spec => ReplyHoldsOnBoth
<1>1. ASSUME IInv, [Next]_pinVars, NEW c \in Conns, Done(c)
      PROVE  LET shelf == ToSet(pins') IN
             /\ op[c] = "pin" => arg[c] \in shelf /\ arg[c] \in rows'
             /\ op[c] = "unpin" => arg[c].path \notin PathsOf(shelf) \cup PathsOf(rows')
  <2>1. /\ op[c] = "pin" => arg[c] \in rows
        /\ op[c] = "unpin" => arg[c].path \notin PathsOf(rows)
    BY <1>1 DEF IInv, HeldWrite, Done
  <2>2. CASE IpcPublish(c)
    <3>1. rows' = rows /\ pins' = IpcShelf(c) /\ pc[c] # "idle"
      BY <2>2 DEF IpcPublish
    <3>2. op[c] = "pin" => arg[c] \in ToSet(pins')
      BY <1>1, <3>1, ShelfFacts
    <3>3. op[c] = "unpin" => arg[c].path \notin PathsOf(ToSet(pins'))
      <4>1. op[c] = "unpin" => ToSet(pins') = Others(ToSet(pins), arg[c].path)
        BY <1>1, <3>1, ShelfFacts
      <4> QED BY <4>1 DEF PathsOf, Others
    <3> QED BY <2>1, <3>1, <3>2, <3>3
  <2>3. CASE Restart
    <3>1. rows' = rows /\ ToSet(pins') = rows
      BY <1>1, <2>3, LoadedFacts DEF Restart, IInv, PinsTypeOK
    <3> QED BY <2>1, <3>1
  <2> QED BY <1>1, <2>2, <2>3, DoneByPublish
<1>2. IInv /\ [Next]_pinVars =>
        [\A c \in Conns :
           pc[c] = "mem" /\ pc'[c] = "idle" =>
             LET shelf == ToSet(pins') IN
             /\ op[c] = "pin" => arg[c] \in shelf /\ arg[c] \in rows'
             /\ op[c] = "unpin" => arg[c].path \notin PathsOf(shelf) \cup PathsOf(rows')]_pinVars
  BY <1>1 DEF Done
<1> QED BY <1>2, PinsInvariance, PTL DEF Spec, ReplyHoldsOnBoth
=============================================================================
