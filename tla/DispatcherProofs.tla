--------------------------- MODULE DispatcherProofs ---------------------------
(***************************************************************************)
(* What the popover and the file list show is what was asked last, for any *)
(* number of files and queries and channels of any capacity. Requests and  *)
(* answers go through five places one after the other, the actions of the  *)
(* frame, the channel, the dispatcher's vector, its results and the second *)
(* channel, and none overtakes another: so the last request among them is  *)
(* the one the widget is waiting for.                                      *)
(***************************************************************************)
EXTENDS MCDispatcher, TLAPS

Requests == {Loop!Summarize(f) : f \in Files}
Searches == {Loop!Search(q) : q \in Queries \cup {NoQuery}}
Answer == Files \cup {NoFile}

\* The last element of the sequence s that is in S is x; there is none.
LastIn(s, S, x) == \E i \in DOMAIN s : /\ s[i] = x /\ x \in S
                                       /\ \A j \in DOMAIN s : j > i => s[j] \notin S
NoneIn(s, S) == \A i \in DOMAIN s : s[i] \notin S

\* Likewise in a sequence of sequences.
LastOfAll(ss, S, x) == \E i \in DOMAIN ss : /\ LastIn(ss[i], S, x)
                                            /\ \A j \in DOMAIN ss : j > i => NoneIn(ss[j], S)
NoneOfAll(ss, S) == \A i \in DOMAIN ss : NoneIn(ss[i], S)

-----------------------------------------------------------------------------
(* Queues *)

LEMMA EmptyHasNone == \A S : NoneIn(<<>>, S) /\ NoneOfAll(<<>>, S)
  BY DEF NoneIn, NoneOfAll

\* A sequence has a last element in S, or none.
LEMMA AppendedLast ==
  ASSUME NEW T, NEW s \in Seq(T), NEW e, NEW S
  PROVE  /\ e \in S => LastIn(Append(s, e), S, e)
         /\ e \notin S => /\ NoneIn(s, S) => NoneIn(Append(s, e), S)
                          /\ \A x : LastIn(s, S, x) => LastIn(Append(s, e), S, x)
  <1> DEFINE t == Append(s, e)
             n == Len(s)
  <1>1. /\ n \in Nat /\ DOMAIN s = 1 .. n /\ DOMAIN t = 1 .. n + 1
        /\ \A i \in 1 .. n : t[i] = s[i]
        /\ t[n + 1] = e
    <2>1. Len(t) = n + 1
      OBVIOUS
    <2> QED
      BY <2>1
  <1> HIDE DEF t, n
  <1>2. e \in S => LastIn(t, S, e)
    <2>1. n + 1 \in DOMAIN t /\ \A j \in DOMAIN t : ~(j > n + 1)
      BY <1>1
    <2> QED
      BY <1>1, <2>1 DEF LastIn
  <1>3. ASSUME e \notin S, NoneIn(s, S)
        PROVE  NoneIn(t, S)
    BY <1>1, <1>3 DEF NoneIn
  <1>4. ASSUME e \notin S, NEW x, LastIn(s, S, x)
        PROVE  LastIn(t, S, x)
    <2>1. PICK i \in 1 .. n : s[i] = x /\ x \in S /\ \A j \in 1 .. n : j > i => s[j] \notin S
      BY <1>1, <1>4 DEF LastIn
    <2>2. i \in DOMAIN t /\ t[i] = x
      BY <1>1, <2>1
    <2>3. \A j \in DOMAIN t : j > i => t[j] \notin S
      BY <1>1, <1>4, <2>1
    <2> QED
      BY <2>1, <2>2, <2>3 DEF LastIn
  <1> QED
    BY <1>2, <1>3, <1>4 DEF t

LEMMA AppendedAll ==
  ASSUME NEW T, NEW ss \in Seq(T), NEW v, NEW S
  PROVE  /\ \A x : LastIn(v, S, x) => LastOfAll(Append(ss, v), S, x)
         /\ NoneIn(v, S) => /\ NoneOfAll(ss, S) => NoneOfAll(Append(ss, v), S)
                            /\ \A x : LastOfAll(ss, S, x) => LastOfAll(Append(ss, v), S, x)
  <1> DEFINE t == Append(ss, v)
             n == Len(ss)
  <1>1. /\ n \in Nat /\ DOMAIN ss = 1 .. n /\ DOMAIN t = 1 .. n + 1
        /\ \A i \in 1 .. n : t[i] = ss[i]
        /\ t[n + 1] = v
    <2>1. Len(t) = n + 1
      OBVIOUS
    <2> QED
      BY <2>1
  <1> HIDE DEF t, n
  <1>2. ASSUME NEW x, LastIn(v, S, x)
        PROVE  LastOfAll(t, S, x)
    <2>1. n + 1 \in DOMAIN t /\ \A j \in DOMAIN t : ~(j > n + 1)
      BY <1>1
    <2> QED
      BY <1>1, <1>2, <2>1 DEF LastOfAll
  <1>3. ASSUME NoneIn(v, S), NoneOfAll(ss, S)
        PROVE  NoneOfAll(t, S)
    BY <1>1, <1>3 DEF NoneOfAll
  <1>4. ASSUME NoneIn(v, S), NEW x, LastOfAll(ss, S, x)
        PROVE  LastOfAll(t, S, x)
    <2>1. PICK i \in 1 .. n : LastIn(ss[i], S, x) /\ \A j \in 1 .. n : j > i => NoneIn(ss[j], S)
      BY <1>1, <1>4 DEF LastOfAll
    <2>2. i \in DOMAIN t /\ t[i] = ss[i]
      BY <1>1, <2>1
    <2>3. \A j \in DOMAIN t : j > i => NoneIn(t[j], S)
      BY <1>1, <1>4, <2>1
    <2> QED
      BY <2>1, <2>2, <2>3 DEF LastOfAll
  <1> QED
    BY <1>2, <1>3, <1>4 DEF t

\* Taking the first element away.
LEMMA TailLast ==
  ASSUME NEW T, NEW s \in Seq(T), s # <<>>, NEW S
  PROVE  /\ NoneIn(s, S) => Head(s) \notin S /\ NoneIn(Tail(s), S)
         /\ \A x : LastIn(s, S, x) => \/ LastIn(Tail(s), S, x)
                                      \/ Head(s) = x /\ NoneIn(Tail(s), S)
  <1> DEFINE t == Tail(s)
             n == Len(s)
  <1>1. /\ n \in Nat \ {0} /\ DOMAIN s = 1 .. n /\ DOMAIN t = 1 .. n - 1
        /\ \A i \in 1 .. n - 1 : t[i] = s[i + 1]
        /\ Head(s) = s[1]
    <2>1. Len(t) = n - 1 /\ n \in Nat \ {0}
      OBVIOUS
    <2> QED
      BY <2>1
  <1> HIDE DEF t, n
  <1>2. \A i \in 1 .. n : i = 1 \/ (i - 1 \in 1 .. n - 1 /\ t[i - 1] = s[i])
    BY <1>1
  <1>3. \A i \in 1 .. n - 1 : i + 1 \in 1 .. n
    BY <1>1
  <1>4. ASSUME NoneIn(s, S)
        PROVE  s[1] \notin S /\ NoneIn(t, S)
    BY <1>1, <1>3, <1>4 DEF NoneIn
  <1>5. ASSUME NEW x, LastIn(s, S, x)
        PROVE  LastIn(t, S, x) \/ (s[1] = x /\ NoneIn(t, S))
    <2>1. PICK i \in 1 .. n : s[i] = x /\ x \in S /\ \A j \in 1 .. n : j > i => s[j] \notin S
      BY <1>1, <1>5 DEF LastIn
    <2>2. CASE i = 1
      BY <1>1, <1>3, <2>1, <2>2 DEF NoneIn
    <2>3. CASE i # 1
      <3>1. i - 1 \in DOMAIN t /\ t[i - 1] = x
        BY <1>1, <1>2, <2>1, <2>3
      <3>2. \A j \in DOMAIN t : j > i - 1 => t[j] \notin S
        BY <1>1, <1>3, <2>1
      <3> QED
        BY <2>1, <3>1, <3>2 DEF LastIn
    <2> QED
      BY <2>2, <2>3
  <1> QED
    BY <1>1, <1>4, <1>5 DEF t

LEMMA TailAll ==
  ASSUME NEW T, NEW ss \in Seq(T), ss # <<>>, NEW S
  PROVE  /\ NoneOfAll(ss, S) => NoneIn(Head(ss), S) /\ NoneOfAll(Tail(ss), S)
         /\ \A x : LastOfAll(ss, S, x) => \/ LastOfAll(Tail(ss), S, x)
                                          \/ LastIn(Head(ss), S, x) /\ NoneOfAll(Tail(ss), S)
  <1> DEFINE t == Tail(ss)
             n == Len(ss)
  <1>1. /\ n \in Nat \ {0} /\ DOMAIN ss = 1 .. n /\ DOMAIN t = 1 .. n - 1
        /\ \A i \in 1 .. n - 1 : t[i] = ss[i + 1]
        /\ Head(ss) = ss[1]
    <2>1. Len(t) = n - 1 /\ n \in Nat \ {0}
      OBVIOUS
    <2> QED
      BY <2>1
  <1> HIDE DEF t, n
  <1>2. \A i \in 1 .. n : i = 1 \/ (i - 1 \in 1 .. n - 1 /\ t[i - 1] = ss[i])
    BY <1>1
  <1>3. \A i \in 1 .. n - 1 : i + 1 \in 1 .. n
    BY <1>1
  <1>4. ASSUME NoneOfAll(ss, S)
        PROVE  NoneIn(ss[1], S) /\ NoneOfAll(t, S)
    <2>1. \A i \in 1 .. n : NoneIn(ss[i], S)
      BY <1>1, <1>4, Zenon DEF NoneOfAll
    <2>2. 1 \in 1 .. n
      BY <1>1
    <2>3. \A i \in 1 .. n - 1 : NoneIn(t[i], S)
      BY <1>1, <1>3, <2>1, Zenon
    <2> QED
      BY <1>1, <2>1, <2>2, <2>3, Zenon DEF NoneOfAll
  <1>5. ASSUME NEW x, LastOfAll(ss, S, x)
        PROVE  LastOfAll(t, S, x) \/ (LastIn(ss[1], S, x) /\ NoneOfAll(t, S))
    <2>1. PICK i \in 1 .. n : LastIn(ss[i], S, x) /\ \A j \in 1 .. n : j > i => NoneIn(ss[j], S)
      BY <1>1, <1>5 DEF LastOfAll
    <2>2. CASE i = 1
      BY <1>1, <1>3, <2>1, <2>2 DEF NoneOfAll
    <2>3. CASE i # 1
      <3>1. i - 1 \in DOMAIN t /\ t[i - 1] = ss[i]
        BY <1>1, <1>2, <2>1, <2>3
      <3>2. \A j \in DOMAIN t : j > i - 1 => NoneIn(t[j], S)
        BY <1>1, <1>3, <2>1
      <3> QED
        BY <2>1, <3>1, <3>2 DEF LastOfAll
    <2> QED
      BY <2>2, <2>3
  <1> QED
    BY <1>1, <1>4, <1>5 DEF t

-----------------------------------------------------------------------------
(* The invariant *)

\* The summary of the popover's file is the last one to come, wherever it is, or has come.
Came == \/ LastOfAll(results, Files, widgets.path)
        \/ NoneOfAll(results, Files) /\ widgets.content = widgets.path
Answered == LastIn(done, Files, widgets.path) \/ (NoneIn(done, Files) /\ Came)
Taken == \/ LastIn(todo, Requests, Loop!Summarize(widgets.path))
         \/ NoneIn(todo, Requests) /\ Answered
Sent == \/ LastOfAll(actions, Requests, Loop!Summarize(widgets.path))
        \/ NoneOfAll(actions, Requests) /\ Taken
Asked == \/ LastIn(out, Requests, Loop!Summarize(widgets.path))
         \/ NoneIn(out, Requests) /\ Sent

SummaryInv == widgets.path # NoFile /\ ~unanswered => Asked

\* The search of the bar's query is the last one to be carried out, or was.
Found == search_results = widgets.bar \/ failedSearch
TakenUp == \/ LastIn(todo, Searches, Loop!Search(widgets.bar))
           \/ NoneIn(todo, Searches) /\ Found
SentOff == \/ LastOfAll(actions, Searches, Loop!Search(widgets.bar))
           \/ NoneOfAll(actions, Searches) /\ TakenUp

BarInv == \/ LastIn(out, Searches, Loop!Search(widgets.bar))
          \/ NoneIn(out, Searches) /\ (lostSearch \/ SentOff)

LoopInv == Loop!LoopTypeOK /\ SummaryInv /\ BarInv

-----------------------------------------------------------------------------
(* A frame *)

Widgets == [path : Answer, content : Answer, bar : Queries \cup {NoQuery}]

\* What a frame fr, begun with the widgets w, has come to: its last request is for the file
\* the popover is open for, unless that and what it shows are as before; its last search
\* is what the bar says.
FrameGood(fr, w) ==
  /\ fr.w \in Widgets /\ fr.acts \in Seq(Loop!Action)
  /\ \/ LastIn(fr.acts, Requests, Loop!Summarize(fr.w.path))
     \/ fr.w.path = NoFile
     \/ /\ NoneIn(fr.acts, Requests)
        /\ fr.w.path = w.path /\ fr.w.content = w.content
  /\ \/ LastIn(fr.acts, Searches, Loop!Search(fr.w.bar))
     \/ NoneIn(fr.acts, Searches) /\ fr.w.bar = w.bar

LEMMA Kinds ==
  /\ \A f \in Files : Loop!Summarize(f) \in Requests /\ Loop!Summarize(f) \notin Searches
                      /\ Loop!Summarize(f) \in Loop!Action
  /\ \A q \in Queries \cup {NoQuery} :
       /\ Loop!Search(q) \in Searches /\ Loop!Search(q) \notin Requests
       /\ Loop!Search(q) \in Loop!Action
  /\ \A a \in Loop!Action : /\ a \in Requests \/ a \in Searches
                            /\ a.ask = "summary" <=> a \in Requests
                            /\ a.ask = "search" <=> a \in Searches
                            /\ a \in Requests => a.of \in Files /\ a = Loop!Summarize(a.of)
                            /\ a \in Searches => a.of \in Queries \cup {NoQuery}
                                                 /\ a = Loop!Search(a.of)
  <1>1. \A f : Loop!Summarize(f).ask = "summary" /\ Loop!Summarize(f).of = f
    BY DEF Loop!Summarize
  <1>2. \A q : Loop!Search(q).ask = "search" /\ Loop!Search(q).of = q
    BY DEF Loop!Search
  <1>3. Loop!Action = Requests \cup Searches
    BY DEF Loop!Action, Loop!ClearSearch, Requests, Searches
  <1>4. \A f \in Files : Loop!Summarize(f) \in Requests
    BY DEF Requests
  <1>5. \A q \in Queries \cup {NoQuery} : Loop!Search(q) \in Searches
    BY DEF Searches
  <1>6. \A a \in Requests : a.ask = "summary" /\ a.of \in Files /\ a = Loop!Summarize(a.of)
    BY <1>1 DEF Requests
  <1>7. \A a \in Searches : /\ a.ask = "search" /\ a.of \in Queries \cup {NoQuery}
                            /\ a = Loop!Search(a.of)
    BY <1>2 DEF Searches
  <1>8. "summary" # "search"
    OBVIOUS
  <1> QED
    BY <1>3, <1>4, <1>5, <1>6, <1>7, <1>8

LEMMA FrameParts == \A w, acts : Loop!Frame(w, acts).w = w /\ Loop!Frame(w, acts).acts = acts
  BY DEF Loop!Frame

LEMMA AskedGood ==
  ASSUME NEW w, NEW fr, FrameGood(fr, w), NEW f \in Files
  PROVE  FrameGood(Loop!Asked(fr, f), w)
  <1> DEFINE new == Loop!Asked(fr, f)
             v == [fr.w EXCEPT !.path = f, !.content = NoFile]
             e == Loop!Summarize(f)
  <1>1. new.w = v /\ new.acts = Append(fr.acts, e)
    BY FrameParts DEF Loop!Asked
  <1>2. fr.w \in Widgets /\ fr.acts \in Seq(Loop!Action)
    BY DEF FrameGood
  <1>3. v \in Widgets /\ v.path = f /\ v.bar = fr.w.bar
    BY <1>2 DEF Widgets, Answer
  <1>4. e \in Requests /\ e \notin Searches /\ e \in Loop!Action
    BY Kinds
  <1> HIDE DEF v, e, new
  <1>5. LastIn(new.acts, Requests, e) /\ new.acts \in Seq(Loop!Action)
    BY <1>1, <1>2, <1>4, AppendedLast
  <1>6. \/ LastIn(new.acts, Searches, Loop!Search(fr.w.bar))
        \/ NoneIn(new.acts, Searches) /\ fr.w.bar = w.bar
    BY <1>1, <1>2, <1>4, AppendedLast DEF FrameGood
  <1> QED
    BY <1>1, <1>3, <1>5, <1>6 DEF FrameGood, e, new

LEMMA SearchedGood ==
  ASSUME NEW w, NEW fr, FrameGood(fr, w), NEW q \in Queries \cup {NoQuery}
  PROVE  FrameGood(Loop!Searched(fr, q), w)
  <1> DEFINE new == Loop!Searched(fr, q)
             v == [fr.w EXCEPT !.bar = q]
             e == Loop!Search(q)
  <1>1. new.w = v /\ new.acts = Append(fr.acts, e)
    BY FrameParts DEF Loop!Searched
  <1>2. fr.w \in Widgets /\ fr.acts \in Seq(Loop!Action)
    BY DEF FrameGood
  <1>3. v \in Widgets /\ v.path = fr.w.path /\ v.content = fr.w.content /\ v.bar = q
    BY <1>2 DEF Widgets
  <1>4. e \notin Requests /\ e \in Searches /\ e \in Loop!Action
    BY Kinds
  <1> HIDE DEF v, e, new
  <1>5. LastIn(new.acts, Searches, e) /\ new.acts \in Seq(Loop!Action)
    BY <1>1, <1>2, <1>4, AppendedLast
  <1>6. \/ LastIn(new.acts, Requests, Loop!Summarize(fr.w.path))
        \/ fr.w.path = NoFile
        \/ NoneIn(new.acts, Requests) /\ fr.w.path = w.path /\ fr.w.content = w.content
    BY <1>1, <1>2, <1>4, AppendedLast DEF FrameGood
  <1> QED
    BY <1>1, <1>3, <1>5, <1>6 DEF FrameGood, e, new

LEMMA ClosedGood ==
  ASSUME NEW w, NEW fr, FrameGood(fr, w)
  PROVE  FrameGood(Loop!Closed(fr), w)
  <1> DEFINE v == [fr.w EXCEPT !.path = NoFile, !.content = NoFile]
  <1>1. Loop!Closed(fr).w = v /\ Loop!Closed(fr).acts = fr.acts
    BY FrameParts DEF Loop!Closed
  <1>2. v \in Widgets /\ v.path = NoFile /\ v.bar = fr.w.bar
    BY DEF FrameGood, Widgets, Answer
  <1> HIDE DEF v
  <1> QED
    BY <1>1, <1>2 DEF FrameGood

\* Whatever the user does in a frame.
LEMMA DrawnGood ==
  ASSUME NEW w, NEW start, FrameGood(start, w),
         NEW fr \in UNION {Loop!Clicked(g) : g \in Loop!Keyed(start)}
  PROVE  FrameGood(fr, w)
  <1>1. PICK g \in Loop!Keyed(start) : fr \in Loop!Clicked(g)
    OBVIOUS
  <1>2. FrameGood(g, w)
    <2>1. FrameGood(Loop!Escaped(start), w)
      BY SearchedGood, ClosedGood DEF Loop!Escaped
    <2>2. \A f \in Files : FrameGood(Loop!Asked(start, f), w)
      BY AskedGood
    <2>3. g = start \/ g = Loop!Escaped(start) \/ \E f \in Files : g = Loop!Asked(start, f)
      BY <1>1 DEF Loop!Keyed
    <2> QED
      BY <2>1, <2>2, <2>3
  <1>3. fr = g \/ fr = Loop!Closed(g) \/ \E q \in Queries \cup {NoQuery} : fr = Loop!Searched(g, q)
    BY <1>1 DEF Loop!Clicked
  <1> QED
    BY <1>2, <1>3, ClosedGood, SearchedGood

\* The summaries that have come are shown, the last one at last.
LEMMA DrainedGood ==
  ASSUME Loop!LoopTypeOK
  PROVE  LET d == Loop!Drained IN
         /\ FrameGood(d, d.w)
         /\ d.acts = <<>> /\ d.w.path = widgets.path /\ d.w.bar = widgets.bar
         /\ widgets.path \in Files /\ Came => d.w.content = widgets.path
  <1> DEFINE d == Loop!Drained
             came == CHOOSE f \in Files : Loop!CameLast(f)
             shown == [widgets EXCEPT !.content = came]
             some == \E f \in Files : Loop!CameLast(f)
  <1>1. widgets \in Widgets /\ results \in Seq(Seq(Answer))
    BY DEF Loop!LoopTypeOK, Widgets, Answer
  <1>2. d.w = (IF some THEN shown ELSE widgets) /\ d.acts = <<>>
    BY FrameParts DEF Loop!Drained
  <1>3. some => came \in Files /\ Loop!CameLast(came)
    BY Zenon
  <1> HIDE DEF came, some, d
  <1>4. some => shown \in Widgets /\ shown.path = widgets.path /\ shown.bar = widgets.bar
                /\ shown.content = came
    BY <1>1, <1>3 DEF Widgets, Answer
  <1> HIDE DEF shown
  <1>5. d.w \in Widgets /\ d.w.path = widgets.path /\ d.w.bar = widgets.bar
    BY <1>1, <1>2, <1>4
  <1>6. FrameGood(d, d.w)
    <2>1. NoneIn(<<>>, Requests) /\ NoneIn(<<>>, Searches)
      BY EmptyHasNone
    <2> QED
      BY <1>2, <1>5, <2>1 DEF FrameGood
  <1>7. DOMAIN results = 1 .. Len(results) /\ Len(results) \in Nat
        /\ \A i \in DOMAIN results : /\ DOMAIN results[i] \subseteq Nat
                                     /\ \A j \in DOMAIN results[i] : results[i][j] \in Answer
    <2>1. \A i \in DOMAIN results : results[i] \in Seq(Answer)
      BY <1>1
    <2> QED
      BY <1>1, <2>1
  <1>8. NoFile \notin Files
    BY LoopAssumption
  <1>9. ASSUME NEW f, f = widgets.path, f \in Files, Came
        PROVE  d.w.content = f
    <2>1. CASE LastOfAll(results, Files, f)
      <3>1. PICK i \in DOMAIN results :
              /\ LastIn(results[i], Files, f)
              /\ \A m \in DOMAIN results : m > i => NoneIn(results[m], Files)
        BY <2>1 DEF LastOfAll
      <3>2. PICK j \in DOMAIN results[i] :
              results[i][j] = f /\ \A n \in DOMAIN results[i] : n > j => results[i][n] \notin Files
        BY <3>1 DEF LastIn
      <3>3. \A n \in DOMAIN results[i] : n > j => results[i][n] = NoFile
        BY <1>7, <3>2 DEF Answer
      <3>4. \A m \in DOMAIN results : m > i => \A n \in DOMAIN results[m] : results[m][n] = NoFile
        BY <1>7, <3>1 DEF NoneIn, Answer
      <3>5. \A m \in DOMAIN results : m > i => ToSet(results[m]) \subseteq {NoFile}
        BY <3>4 DEF ToSet
      <3>6. Loop!CameLast(f)
        BY <3>2, <3>3, <3>5 DEF Loop!CameLast, Loop!ToSet, ToSet
      <3>7. some
        BY <1>9, <3>6 DEF some
      <3>8. came \in Files /\ Loop!CameLast(came)
        BY <1>3, <3>7
      <3>9. PICK k \in DOMAIN results : \E l \in DOMAIN results[k] :
              /\ results[k][l] = came
              /\ \A n \in DOMAIN results[k] : n > l => results[k][n] = NoFile
              /\ \A m \in DOMAIN results : m > k => Loop!ToSet(results[m]) \subseteq {NoFile}
        BY <3>8 DEF Loop!CameLast
      <3>10. PICK l \in DOMAIN results[k] :
               /\ results[k][l] = came
               /\ \A n \in DOMAIN results[k] : n > l => results[k][n] = NoFile
               /\ \A m \in DOMAIN results :
                    m > k => \A n \in DOMAIN results[m] : results[m][n] = NoFile
        BY <3>9 DEF Loop!ToSet
      <3>11. ~(k > i) /\ ~(i > k)
        BY <1>8, <1>9, <3>2, <3>4, <3>8, <3>10
      <3>12. i = k
        BY <1>7, <3>11
      <3>13. ~(l > j) /\ ~(j > l)
        BY <1>8, <1>9, <3>2, <3>3, <3>8, <3>10, <3>12
      <3>14. j = l
        BY <1>7, <3>12, <3>13
      <3>15. came = f
        BY <3>2, <3>10, <3>12, <3>14
      <3> QED
        BY <1>2, <1>4, <3>7, <3>15
    <2>2. CASE NoneOfAll(results, Files) /\ widgets.content = f
      <3>1. ~some
        BY <2>2 DEF some, Loop!CameLast, NoneOfAll, NoneIn
      <3> QED
        BY <1>2, <2>2, <3>1
    <2> QED
      BY <1>9, <2>1, <2>2 DEF Came
  <1> QED
    BY <1>2, <1>5, <1>6, <1>9 DEF d

-----------------------------------------------------------------------------
(* The steps *)

LEMMA Typed ==
  ASSUME Loop!LoopTypeOK
  PROVE  /\ out \in Seq(Loop!Action) /\ todo \in Seq(Loop!Action)
         /\ actions \in Seq(Seq(Loop!Action))
         /\ done \in Seq(Answer) /\ results \in Seq(Seq(Answer)) /\ widgets \in Widgets
         /\ ~busy => todo = <<>> /\ done = <<>>
  BY DEF Loop!LoopTypeOK, Answer, Widgets

LEMMA LoopStart == Loop!Init => LoopInv
  <1> SUFFICES ASSUME Loop!Init
               PROVE  LoopInv
    OBVIOUS
  <1>1. Loop!LoopTypeOK
    <2>1. widgets \in Widgets
      BY DEF Loop!Init, Widgets, Answer
    <2>2. /\ out = <<>> /\ actions = <<>> /\ results = <<>> /\ todo = <<>> /\ done = <<>>
          /\ busy = FALSE /\ search_results = NoQuery
          /\ unanswered = FALSE /\ lostSearch = FALSE /\ failedSearch = FALSE
      BY DEF Loop!Init
    <2>3. \A S : <<>> \in Seq(S)
      OBVIOUS
    <2>4. Len(actions) <= Capacity /\ Len(results) <= Capacity
      <3>1. Len(<<>>) = 0
        OBVIOUS
      <3> QED
        BY <2>2, <3>1, LoopAssumption
    <2> QED
      BY <2>1, <2>2, <2>3, <2>4 DEF Loop!LoopTypeOK, Widgets, Answer
  <1>2. SummaryInv
    BY DEF Loop!Init, SummaryInv
  <1>3. BarInv
    BY EmptyHasNone DEF Loop!Init, BarInv, SentOff, TakenUp, Found
  <1> QED
    BY <1>1, <1>2, <1>3 DEF LoopInv

\* A request of the new frame is the last of all; without one, all is as it was.
LEMMA DrawStep ==
  ASSUME LoopInv, Loop!DrawFrame
  PROVE  LoopInv'
  <1> DEFINE d == Loop!Drained
  <1>1. PICK fr \in UNION {Loop!Clicked(g) : g \in Loop!Keyed(d)} :
          widgets' = fr.w /\ out' = fr.acts
    BY DEF Loop!DrawFrame, Loop!Draw
  <1>2. /\ out = <<>> /\ results' = <<>>
        /\ unanswered' = (unanswered /\ widgets'.path = widgets.path /\ Loop!FilesAsked(out') = {})
        /\ UNCHANGED <<actions, busy, todo, done, search_results, lostSearch, failedSearch>>
    BY DEF Loop!DrawFrame, Loop!Draw
  <1>3. /\ FrameGood(d, d.w)
        /\ d.w.path = widgets.path /\ d.w.bar = widgets.bar
        /\ widgets.path \in Files /\ Came => d.w.content = widgets.path
    BY DrainedGood DEF LoopInv
  <1> HIDE DEF d
  <1>4. FrameGood(fr, d.w)
    BY <1>3, DrawnGood
  <1>5. Loop!LoopTypeOK'
    <2>1. widgets' \in Widgets /\ out' \in Seq(Loop!Action)
      BY <1>1, <1>4 DEF FrameGood
    <2>2. unanswered' \in BOOLEAN
      BY <1>2
    <2>3. results' \in Seq(Seq(Answer)) /\ Len(results') = 0
      BY <1>2
    <2> QED
      BY <1>2, <2>1, <2>2, <2>3, LoopAssumption DEF LoopInv, Loop!LoopTypeOK, Widgets, Answer
  <1>6. SummaryInv'
    <2> SUFFICES ASSUME widgets'.path # NoFile, ~unanswered'
                 PROVE  Asked'
      BY DEF SummaryInv
    <2>1. CASE LastIn(out', Requests, Loop!Summarize(widgets'.path))
      BY <2>1 DEF Asked
    <2>2. CASE /\ NoneIn(out', Requests)
               /\ widgets'.path = widgets.path /\ widgets'.content = d.w.content
      <3>1. Loop!FilesAsked(out') = {}
        <4>1. out' \in Seq(Loop!Action)
          BY <1>1, <1>4 DEF FrameGood
        <4>2. \A i \in DOMAIN out' : out'[i] \in Loop!Action
          BY <4>1
        <4>3. \A i \in DOMAIN out' : out'[i].ask # "summary"
          BY <2>2, <4>2, Kinds DEF NoneIn
        <4> QED
          BY <4>3 DEF Loop!FilesAsked, Loop!ToSet
      <3>2. ~unanswered /\ widgets.path # NoFile
        BY <1>2, <2>2, <3>1
      <3>3. Asked /\ widgets.path \in Files
        BY <2>2, <3>2, Typed DEF LoopInv, SummaryInv, Widgets, Answer
      <3>4. Sent
        BY <1>2, <3>3 DEF Asked, LastIn
      <3>5. Came => Came'
        <4> SUFFICES ASSUME Came
                     PROVE  NoneOfAll(results', Files) /\ widgets'.content = widgets'.path
          BY DEF Came
        <4>1. d.w.content = widgets.path
          BY <1>3, <3>3
        <4> QED
          BY <1>2, <2>2, <4>1, EmptyHasNone
      <3>6. UNCHANGED <<actions, todo, done>>
        BY <1>2
      <3>7. Sent => Sent'
        BY <2>2, <3>5, <3>6 DEF Sent, Taken, Answered
      <3> QED
        BY <2>2, <3>4, <3>7 DEF Asked
    <2> QED
      BY <1>1, <1>3, <1>4, <2>1, <2>2 DEF FrameGood
  <1>7. BarInv'
    <2>1. CASE LastIn(out', Searches, Loop!Search(widgets'.bar))
      BY <2>1 DEF BarInv
    <2>2. CASE NoneIn(out', Searches) /\ widgets'.bar = widgets.bar
      <3>1. lostSearch \/ SentOff
        BY <1>2 DEF LoopInv, BarInv, LastIn
      <3>2. UNCHANGED <<actions, todo, search_results, failedSearch, lostSearch>>
        BY <1>2
      <3>3. SentOff' <=> SentOff
        BY <2>2, <3>2 DEF SentOff, TakenUp, Found
      <3> QED
        BY <2>2, <3>1, <3>2, <3>3 DEF BarInv
    <2> QED
      BY <1>1, <1>3, <1>4, <2>1, <2>2 DEF FrameGood
  <1> QED
    BY <1>5, <1>6, <1>7 DEF LoopInv

\* A frame's actions go into the channel together or are lost together.
LEMMA SendStep ==
  ASSUME LoopInv, Loop!Send
  PROVE  LoopInv'
  <1>1. /\ out' = <<>>
        /\ UNCHANGED <<widgets, busy, todo, done, results, search_results, failedSearch>>
    BY DEF Loop!Send
  <1>2. /\ out \in Seq(Loop!Action) /\ actions \in Seq(Seq(Loop!Action)) /\ Len(actions) <= Capacity
    BY DEF LoopInv, Loop!LoopTypeOK
  <1>3. \A i \in DOMAIN out : out[i] \in Loop!Action
    BY <1>2
  <1>4. NoneIn(out', Requests) /\ NoneIn(out', Searches)
    BY <1>1, EmptyHasNone
  <1>5. \A q : LastIn(out, Searches, Loop!Search(q)) => Loop!HasSearch(out)
    BY <1>3, Kinds DEF LastIn, Loop!HasSearch, Loop!ToSet
  <1>6. NoneIn(out, Searches) => ~Loop!HasSearch(out)
    BY <1>3, Kinds DEF NoneIn, Loop!HasSearch, Loop!ToSet
  <1>7. \A f \in Files : LastIn(out, Requests, Loop!Summarize(f)) => f \in Loop!FilesAsked(out)
    <2> SUFFICES ASSUME NEW f \in Files, LastIn(out, Requests, Loop!Summarize(f))
                 PROVE  f \in Loop!FilesAsked(out)
      OBVIOUS
    <2>1. PICK i \in DOMAIN out : out[i] = Loop!Summarize(f)
      BY DEF LastIn
    <2>2. Loop!Summarize(f).ask = "summary" /\ Loop!Summarize(f).of = f
      BY DEF Loop!Summarize
    <2> QED
      BY <2>1, <2>2 DEF Loop!FilesAsked, Loop!ToSet
  <1>8. CASE Len(actions) < Capacity
    <2>1. /\ actions' = Append(actions, out) /\ UNCHANGED unanswered
          /\ lostSearch' = (lostSearch /\ ~Loop!HasSearch(out))
      BY <1>8 DEF Loop!Send
    <2>2. Loop!LoopTypeOK'
      <3>1. actions' \in Seq(Seq(Loop!Action)) /\ Len(actions') = Len(actions) + 1
        BY <1>2, <2>1
      <3>2. Len(actions') <= Capacity
        BY <1>2, <1>8, <3>1, LoopAssumption
      <3> QED
        BY <1>1, <2>1, <3>1, <3>2 DEF LoopInv, Loop!LoopTypeOK
    <2>3. SummaryInv'
      <3> SUFFICES ASSUME widgets.path # NoFile, ~unanswered
                   PROVE  Sent'
        BY <1>1, <1>4, <2>1 DEF SummaryInv, Asked
      <3>1. Asked
        BY DEF LoopInv, SummaryInv
      <3>2. Taken' <=> Taken
        BY <1>1 DEF Taken, Answered, Came
      <3>3. CASE LastIn(out, Requests, Loop!Summarize(widgets.path))
        <4>1. LastOfAll(actions', Requests, Loop!Summarize(widgets.path))
          BY <1>2, <2>1, <3>3, AppendedAll
        <4> QED
          BY <1>1, <4>1 DEF Sent
      <3>4. CASE NoneIn(out, Requests) /\ Sent
        <4>1. /\ NoneOfAll(actions, Requests) => NoneOfAll(actions', Requests)
              /\ \A x : LastOfAll(actions, Requests, x) => LastOfAll(actions', Requests, x)
          BY <1>2, <2>1, <3>4, AppendedAll
        <4> QED
          BY <1>1, <3>2, <3>4, <4>1 DEF Sent
      <3> QED
        BY <3>1, <3>3, <3>4 DEF Asked
    <2>4. BarInv'
      <3>1. TakenUp' <=> TakenUp
        BY <1>1 DEF TakenUp, Found
      <3>2. BarInv
        BY DEF LoopInv
      <3>3. CASE LastIn(out, Searches, Loop!Search(widgets.bar))
        <4>1. LastOfAll(actions', Searches, Loop!Search(widgets.bar))
          BY <1>2, <2>1, <3>3, AppendedAll
        <4> QED
          BY <1>1, <1>4, <4>1 DEF BarInv, SentOff
      <3>4. CASE NoneIn(out, Searches) /\ (lostSearch \/ SentOff)
        <4>1. /\ NoneOfAll(actions, Searches) => NoneOfAll(actions', Searches)
              /\ \A x : LastOfAll(actions, Searches, x) => LastOfAll(actions', Searches, x)
          BY <1>2, <2>1, <3>4, AppendedAll
        <4>2. SentOff => SentOff'
          BY <1>1, <3>1, <4>1 DEF SentOff
        <4>3. lostSearch => lostSearch'
          BY <1>6, <2>1, <3>4
        <4> QED
          BY <1>4, <3>4, <4>2, <4>3 DEF BarInv
      <3> QED
        BY <3>2, <3>3, <3>4 DEF BarInv
    <2> QED
      BY <2>2, <2>3, <2>4 DEF LoopInv
  <1>9. CASE ~(Len(actions) < Capacity)
    <2>1. /\ UNCHANGED actions
          /\ lostSearch' = (lostSearch \/ Loop!HasSearch(out))
          /\ unanswered' = (unanswered \/ widgets.path \in Loop!FilesAsked(out))
      BY <1>9 DEF Loop!Send
    <2>2. Loop!LoopTypeOK'
      <3>1. unanswered' \in BOOLEAN /\ lostSearch' \in BOOLEAN
        BY <2>1, Zenon DEF LoopInv, Loop!LoopTypeOK, Loop!HasSearch
      <3>2. out' \in Seq(Loop!Action)
        BY <1>1
      <3> QED
        BY <1>1, <2>1, <3>1, <3>2 DEF LoopInv, Loop!LoopTypeOK
    <2>3. SummaryInv'
      <3> SUFFICES ASSUME widgets.path # NoFile, ~unanswered'
                   PROVE  Sent'
        BY <1>1, <1>4 DEF SummaryInv, Asked
      <3>1. ~unanswered /\ widgets.path \notin Loop!FilesAsked(out)
        BY <2>1
      <3>2. Asked /\ widgets.path \in Files
        BY <3>1, Typed DEF LoopInv, SummaryInv, Widgets, Answer
      <3>3. Sent
        BY <1>7, <3>1, <3>2 DEF Asked
      <3> QED
        BY <1>1, <2>1, <3>3 DEF Sent, Taken, Answered, Came
    <2>4. BarInv'
      <3>1. lostSearch' \/ SentOff
        BY <1>5, <2>1 DEF LoopInv, BarInv
      <3>2. SentOff' <=> SentOff
        BY <1>1, <2>1 DEF SentOff, TakenUp, Found
      <3> QED
        BY <1>1, <1>4, <3>1, <3>2 DEF BarInv
    <2> QED
      BY <2>2, <2>3, <2>4 DEF LoopInv
  <1> QED
    BY <1>8, <1>9

\* Taking up a frame's actions leaves the order of the requests.
LEMMA ReceiveStep ==
  ASSUME LoopInv, Loop!Receive
  PROVE  LoopInv'
  <1>1. /\ ~busy /\ actions # <<>>
        /\ busy' = TRUE /\ todo' = Head(actions) /\ actions' = Tail(actions)
        /\ UNCHANGED <<widgets, out, done, results, search_results,
                       unanswered, lostSearch, failedSearch>>
    BY DEF Loop!Receive
  <1>2. /\ actions \in Seq(Seq(Loop!Action)) /\ Len(actions) <= Capacity
        /\ todo = <<>> /\ done = <<>>
    BY <1>1 DEF LoopInv, Loop!LoopTypeOK
  <1>3. /\ todo' \in Seq(Loop!Action) /\ actions' \in Seq(Seq(Loop!Action))
        /\ Len(actions') <= Capacity
    <2>1. Head(actions) \in Seq(Loop!Action) /\ Tail(actions) \in Seq(Seq(Loop!Action))
      BY <1>1, <1>2
    <2>2. Len(Tail(actions)) = Len(actions) - 1 /\ Len(actions) \in Nat
      BY <1>1, <1>2
    <2> QED
      BY <1>1, <1>2, <2>1, <2>2, LoopAssumption
  <1>4. Loop!LoopTypeOK'
    BY <1>1, <1>3 DEF LoopInv, Loop!LoopTypeOK
  <1>5. SummaryInv'
    <2> SUFFICES ASSUME widgets.path # NoFile, ~unanswered, Sent
                 PROVE  Sent'
      BY <1>1 DEF LoopInv, SummaryInv, Asked
    <2>1. Answered' <=> Answered
      BY <1>1 DEF Answered, Came
    <2>2. CASE LastOfAll(actions, Requests, Loop!Summarize(widgets.path))
      <3>1. \/ LastOfAll(actions', Requests, Loop!Summarize(widgets.path))
            \/ /\ LastIn(todo', Requests, Loop!Summarize(widgets.path))
               /\ NoneOfAll(actions', Requests)
        BY <1>1, <1>2, <2>2, TailAll
      <3> QED
        BY <1>1, <3>1 DEF Sent, Taken
    <2>3. CASE NoneOfAll(actions, Requests) /\ Taken
      <3>1. NoneOfAll(actions', Requests) /\ NoneIn(todo', Requests)
        BY <1>1, <1>2, <2>3, TailAll
      <3>2. Answered
        BY <1>2, <2>3 DEF Taken, LastIn
      <3> QED
        BY <2>1, <3>1, <3>2 DEF Sent, Taken
    <2> QED
      BY <2>2, <2>3 DEF Sent
  <1>6. BarInv'
    <2> SUFFICES ASSUME SentOff
                 PROVE  SentOff'
      BY <1>1 DEF LoopInv, BarInv
    <2>1. Found' <=> Found
      BY <1>1 DEF Found
    <2>2. CASE LastOfAll(actions, Searches, Loop!Search(widgets.bar))
      <3>1. \/ LastOfAll(actions', Searches, Loop!Search(widgets.bar))
            \/ /\ LastIn(todo', Searches, Loop!Search(widgets.bar))
               /\ NoneOfAll(actions', Searches)
        BY <1>1, <1>2, <2>2, TailAll
      <3> QED
        BY <1>1, <3>1 DEF SentOff, TakenUp
    <2>3. CASE NoneOfAll(actions, Searches) /\ TakenUp
      <3>1. NoneOfAll(actions', Searches) /\ NoneIn(todo', Searches)
        BY <1>1, <1>2, <2>3, TailAll
      <3>2. Found
        BY <1>2, <2>3 DEF TakenUp, LastIn
      <3> QED
        BY <2>1, <3>1, <3>2 DEF SentOff, TakenUp
    <2> QED
      BY <2>2, <2>3 DEF SentOff
  <1> QED
    BY <1>4, <1>5, <1>6 DEF LoopInv

\* What the first action of the dispatcher's vector is.
LEMMA FirstAction ==
  ASSUME LoopInv, todo # <<>>, NEW a, a = Head(todo)
  PROVE  /\ todo \in Seq(Loop!Action) /\ Tail(todo) \in Seq(Loop!Action) /\ a \in Loop!Action
         /\ busy /\ done \in Seq(Answer)
  BY DEF LoopInv, Loop!LoopTypeOK, Answer

\* The answer to a request follows those to earlier ones.
LEMMA DoSummarizeStep ==
  ASSUME LoopInv, Loop!DoSummarize
  PROVE  LoopInv'
  <1> DEFINE a == Head(todo)
  <1>1. /\ todo # <<>> /\ a.ask = "summary" /\ todo' = Tail(todo)
        /\ \/ done' = Append(done, a.of) /\ UNCHANGED unanswered
           \/ /\ done' = Append(done, NoFile)
              /\ unanswered' = (unanswered \/ a.of = widgets.path)
        /\ UNCHANGED <<widgets, out, actions, busy, results, search_results,
                       lostSearch, failedSearch>>
    BY DEF Loop!DoSummarize
  <1>2. /\ todo \in Seq(Loop!Action) /\ Tail(todo) \in Seq(Loop!Action) /\ a \in Loop!Action
        /\ busy /\ done \in Seq(Answer)
    BY <1>1, FirstAction
  <1>3. \A S : /\ NoneIn(todo, S) => a \notin S /\ NoneIn(todo', S)
               /\ \A x : LastIn(todo, S, x) => \/ LastIn(todo', S, x)
                                               \/ a = x /\ NoneIn(todo', S)
    BY <1>1, <1>2, TailLast
  <1> HIDE DEF a
  <1>4. a \in Requests /\ a \notin Searches /\ a.of \in Files /\ a = Loop!Summarize(a.of)
    <2>1. a \in Requests /\ a.of \in Files /\ a = Loop!Summarize(a.of)
      BY <1>1, <1>2, Kinds
    <2>2. Loop!Summarize(a.of) \notin Searches
      BY <2>1, Kinds
    <2> QED
      BY <2>1, <2>2
  <1>5. \A f : Loop!Summarize(f) = a => f = a.of
    BY DEF Loop!Summarize
  <1>6. NoFile \in Answer /\ a.of \in Answer /\ NoFile \notin Files
    BY <1>4, LoopAssumption DEF Answer
  <1>7. Loop!LoopTypeOK'
    <2>1. done' \in Seq(Answer)
      <3>1. \A x \in Answer : Append(done, x) \in Seq(Answer)
        BY <1>2
      <3> QED
        BY <1>1, <1>6, <3>1
    <2>2. unanswered' \in BOOLEAN
      BY <1>1 DEF LoopInv, Loop!LoopTypeOK
    <2> QED
      BY <1>1, <1>2, <2>1, <2>2 DEF LoopInv, Loop!LoopTypeOK, Answer
  <1>8. SummaryInv'
    <2> SUFFICES ASSUME widgets.path # NoFile, ~unanswered'
                 PROVE  Asked'
      BY <1>1 DEF SummaryInv
    <2>1. Asked
      <3>1. ~unanswered
        BY <1>1
      <3> QED
        BY <3>1 DEF LoopInv, SummaryInv
    <2>2. Came' <=> Came
      BY <1>1 DEF Came
    <2>3. Taken => Taken'
      <3>1. CASE LastIn(todo, Requests, Loop!Summarize(widgets.path))
        <4>1. CASE LastIn(todo', Requests, Loop!Summarize(widgets.path))
          BY <1>1, <4>1 DEF Taken
        <4>2. CASE a = Loop!Summarize(widgets.path) /\ NoneIn(todo', Requests)
          <5>1. a.of = widgets.path
            BY <1>5, <4>2
          <5>2. done' = Append(done, widgets.path)
            BY <1>1, <5>1
          <5>3. LastIn(done', Files, widgets.path)
            BY <1>2, <1>4, <5>1, <5>2, AppendedLast
          <5> QED
            BY <1>1, <4>2, <5>3 DEF Taken, Answered
        <4> QED
          BY <1>3, <3>1, <4>1, <4>2
      <3>2. CASE NoneIn(todo, Requests)
        BY <1>3, <1>4, <3>2
      <3> QED
        BY <3>1, <3>2 DEF Taken
    <2>4. Sent => Sent'
      BY <1>1, <2>3 DEF Sent
    <2> QED
      BY <1>1, <2>1, <2>4 DEF Asked
  <1>9. BarInv'
    <2>1. TakenUp => TakenUp'
      <3>1. NoneIn(todo, Searches) => NoneIn(todo', Searches)
        BY <1>3
      <3>2. \A x : LastIn(todo, Searches, x) => LastIn(todo', Searches, x)
        BY <1>3, <1>4 DEF LastIn
      <3> QED
        BY <1>1, <3>1, <3>2 DEF TakenUp, Found
    <2>2. SentOff => SentOff'
      BY <1>1, <2>1 DEF SentOff
    <2> QED
      BY <1>1, <2>2 DEF LoopInv, BarInv
  <1> QED
    BY <1>7, <1>8, <1>9 DEF LoopInv

\* The last search carried out is the one whose results are shown, unless it failed.
LEMMA DoSearchStep ==
  ASSUME LoopInv, Loop!DoSearch
  PROVE  LoopInv'
  <1> DEFINE a == Head(todo)
  <1>1. /\ todo # <<>> /\ a.ask = "search" /\ todo' = Tail(todo)
        /\ \/ search_results' = a.of /\ failedSearch' = FALSE
           \/ a.of # NoQuery /\ failedSearch' = TRUE /\ UNCHANGED search_results
        /\ UNCHANGED <<widgets, out, actions, busy, done, results, unanswered, lostSearch>>
    BY DEF Loop!DoSearch
  <1>2. /\ todo \in Seq(Loop!Action) /\ Tail(todo) \in Seq(Loop!Action) /\ a \in Loop!Action
        /\ busy /\ done \in Seq(Answer)
    BY <1>1, FirstAction
  <1>3. \A S : /\ NoneIn(todo, S) => a \notin S /\ NoneIn(todo', S)
               /\ \A x : LastIn(todo, S, x) => \/ LastIn(todo', S, x)
                                               \/ a = x /\ NoneIn(todo', S)
    BY <1>1, <1>2, TailLast
  <1> HIDE DEF a
  <1>4. a \notin Requests /\ a \in Searches /\ a.of \in Queries \cup {NoQuery}
    <2>1. a \in Searches /\ a.of \in Queries \cup {NoQuery} /\ a = Loop!Search(a.of)
      BY <1>1, <1>2, Kinds
    <2>2. Loop!Search(a.of) \notin Requests
      BY <2>1, Kinds
    <2> QED
      BY <2>1, <2>2
  <1>5. \A q : Loop!Search(q) = a => q = a.of
    BY DEF Loop!Search
  <1>6. Loop!LoopTypeOK'
    <2>1. search_results' \in Queries \cup {NoQuery} /\ failedSearch' \in BOOLEAN
      BY <1>1, <1>4 DEF LoopInv, Loop!LoopTypeOK
    <2> QED
      BY <1>1, <1>2, <2>1 DEF LoopInv, Loop!LoopTypeOK
  <1>7. SummaryInv'
    <2>1. Answered' <=> Answered
      BY <1>1 DEF Answered, Came
    <2>2. Taken => Taken'
      <3>1. NoneIn(todo, Requests) => NoneIn(todo', Requests)
        BY <1>3
      <3>2. \A x : LastIn(todo, Requests, x) => LastIn(todo', Requests, x)
        BY <1>3, <1>4 DEF LastIn
      <3> QED
        BY <1>1, <2>1, <3>1, <3>2 DEF Taken
    <2>3. Sent => Sent'
      BY <1>1, <2>2 DEF Sent
    <2> QED
      BY <1>1, <2>3 DEF LoopInv, SummaryInv, Asked
  <1>8. BarInv'
    <2>1. TakenUp => TakenUp'
      <3>1. CASE LastIn(todo, Searches, Loop!Search(widgets.bar))
        <4>1. CASE LastIn(todo', Searches, Loop!Search(widgets.bar))
          BY <1>1, <4>1 DEF TakenUp
        <4>2. CASE a = Loop!Search(widgets.bar) /\ NoneIn(todo', Searches)
          <5>1. a.of = widgets.bar
            BY <1>5, <4>2
          <5> QED
            BY <1>1, <4>2, <5>1 DEF TakenUp, Found
        <4> QED
          BY <1>3, <3>1, <4>1, <4>2
      <3>2. CASE NoneIn(todo, Searches)
        BY <1>3, <1>4, <3>2
      <3> QED
        BY <3>1, <3>2 DEF TakenUp
    <2>2. SentOff => SentOff'
      BY <1>1, <2>1 DEF SentOff
    <2> QED
      BY <1>1, <2>2 DEF LoopInv, BarInv
  <1> QED
    BY <1>6, <1>7, <1>8 DEF LoopInv

\* The answers of a vector go into the second channel together, in their order.
LEMMA ReplyStep ==
  ASSUME LoopInv, Loop!Reply
  PROVE  LoopInv'
  <1>1. /\ busy /\ todo = <<>>
        /\ \/ done = <<>> /\ UNCHANGED results
           \/ done # <<>> /\ Len(results) < Capacity /\ results' = Append(results, done)
        /\ busy' = FALSE /\ done' = <<>>
        /\ UNCHANGED <<widgets, out, actions, todo, search_results,
                       unanswered, lostSearch, failedSearch>>
    BY DEF Loop!Reply
  <1>2. /\ done \in Seq(Answer) /\ results \in Seq(Seq(Answer))
        /\ Len(results) <= Capacity /\ Len(results) \in Nat
    BY DEF LoopInv, Loop!LoopTypeOK, Answer
  <1>3. results' \in Seq(Seq(Answer)) /\ Len(results') <= Capacity
    <2>1. CASE results' = Append(results, done) /\ Len(results) < Capacity
      <3>1. Append(results, done) \in Seq(Seq(Answer))
        BY <1>2
      <3>2. Len(Append(results, done)) = Len(results) + 1
        BY <1>2
      <3> QED
        BY <1>2, <2>1, <3>1, <3>2, LoopAssumption
    <2> QED
      BY <1>1, <1>2, <2>1
  <1>4. Loop!LoopTypeOK'
    <2>1. done' \in Seq(Answer)
      BY <1>1
    <2> QED
      BY <1>1, <1>3, <2>1 DEF LoopInv, Loop!LoopTypeOK, Answer
  <1>5. Answered => Answered'
    <2> SUFFICES ASSUME Answered
                 PROVE  Came'
      BY <1>1, EmptyHasNone DEF Answered
    <2>1. CASE done = <<>> /\ UNCHANGED results
      BY <1>1, <2>1 DEF Answered, Came, LastIn
    <2>2. CASE results' = Append(results, done)
      <3>1. \A f : LastIn(done, Files, f) => LastOfAll(results', Files, f)
        BY <1>2, <2>2, AppendedAll
      <3>2. NoneIn(done, Files) =>
              /\ NoneOfAll(results, Files) => NoneOfAll(results', Files)
              /\ \A f : LastOfAll(results, Files, f) => LastOfAll(results', Files, f)
        BY <1>2, <2>2, AppendedAll
      <3> QED
        BY <1>1, <3>1, <3>2 DEF Answered, Came
    <2> QED
      BY <1>1, <2>1, <2>2
  <1>6. SummaryInv'
    <2>1. Taken => Taken'
      BY <1>1, <1>5 DEF Taken
    <2>2. Sent => Sent'
      BY <1>1, <2>1 DEF Sent
    <2> QED
      BY <1>1, <2>2 DEF LoopInv, SummaryInv, Asked
  <1>7. BarInv'
    BY <1>1 DEF LoopInv, BarInv, SentOff, TakenUp, Found
  <1> QED
    BY <1>4, <1>6, <1>7 DEF LoopInv

LEMMA LoopStep == LoopInv /\ [Loop!Next]_panelVars => LoopInv'
  <1> SUFFICES ASSUME LoopInv, [Loop!Next]_panelVars
               PROVE  LoopInv'
    OBVIOUS
  <1>1. CASE Loop!DrawFrame
    BY <1>1, DrawStep
  <1>2. CASE Loop!Send
    BY <1>2, SendStep
  <1>3. CASE Loop!Receive
    BY <1>3, ReceiveStep
  <1>4. CASE Loop!DoSummarize
    BY <1>4, DoSummarizeStep
  <1>5. CASE Loop!DoSearch
    BY <1>5, DoSearchStep
  <1>6. CASE Loop!Reply
    BY <1>6, ReplyStep
  <1>7. CASE UNCHANGED panelVars
    <2>1. Asked' <=> Asked
      BY <1>7 DEF panelVars, Asked, Sent, Taken, Answered, Came
    <2>2. SentOff' <=> SentOff
      BY <1>7 DEF panelVars, SentOff, TakenUp, Found
    <2> QED
      BY <1>7, <2>1, <2>2 DEF panelVars, LoopInv, Loop!LoopTypeOK, SummaryInv, BarInv
  <1> QED
    BY <1>1, <1>2, <1>3, <1>4, <1>5, <1>6, <1>7 DEF Loop!Next, Loop!Dispatch

-----------------------------------------------------------------------------
(* What it implies *)

LEMMA LastIsThere ==
  \A s, S, x : LastIn(s, S, x) => x \in Loop!ToSet(s)
  BY DEF LastIn, Loop!ToSet

LEMMA LastOfAllIsThere ==
  \A ss, S, x : LastOfAll(ss, S, x) => x \in UNION {Loop!ToSet(v) : v \in Loop!ToSet(ss)}
  <1> SUFFICES ASSUME NEW ss, NEW S, NEW x, LastOfAll(ss, S, x)
               PROVE  x \in UNION {Loop!ToSet(v) : v \in Loop!ToSet(ss)}
    OBVIOUS
  <1>1. PICK i \in DOMAIN ss : LastIn(ss[i], S, x)
    BY DEF LastOfAll
  <1>2. x \in Loop!ToSet(ss[i])
    BY <1>1, LastIsThere
  <1>3. ss[i] \in Loop!ToSet(ss)
    BY DEF Loop!ToSet
  <1> QED
    BY <1>2, <1>3

LEMMA IsInFlight ==
  ASSUME NEW a, NEW S,
         LastIn(out, S, a) \/ LastOfAll(actions, S, a) \/ LastIn(todo, S, a)
  PROVE  a \in Loop!InFlight
  <1>1. \/ a \in Loop!ToSet(out)
        \/ a \in UNION {Loop!ToSet(v) : v \in Loop!ToSet(actions)}
        \/ a \in Loop!ToSet(todo)
    BY LastIsThere, LastOfAllIsThere
  <1> QED
    BY <1>1 DEF Loop!InFlight

LEMMA LoopSuffices == LoopInv => Loop!LoopTypeOK /\ Loop!SummaryIsOfPath /\ Loop!ResultsAreOfBar
  <1> SUFFICES ASSUME LoopInv
               PROVE  Loop!SummaryIsOfPath /\ Loop!ResultsAreOfBar
    BY DEF LoopInv
  <1>1. Loop!SummaryIsOfPath
    <2> SUFFICES ASSUME widgets.path # NoFile, ~unanswered
                 PROVE  \/ widgets.content = widgets.path
                        \/ Loop!Summarize(widgets.path) \in Loop!InFlight
                        \/ widgets.path \in Loop!Answers
      BY DEF Loop!SummaryIsOfPath
    <2>1. Asked
      BY DEF LoopInv, SummaryInv
    <2>2. CASE \/ LastIn(out, Requests, Loop!Summarize(widgets.path))
               \/ LastOfAll(actions, Requests, Loop!Summarize(widgets.path))
               \/ LastIn(todo, Requests, Loop!Summarize(widgets.path))
      BY <2>2, IsInFlight
    <2>3. CASE LastIn(done, Files, widgets.path) \/ LastOfAll(results, Files, widgets.path)
      BY <2>3, LastIsThere, LastOfAllIsThere DEF Loop!Answers
    <2> QED
      BY <2>1, <2>2, <2>3 DEF Asked, Sent, Taken, Answered, Came
  <1>2. Loop!ResultsAreOfBar
    <2>1. Loop!Search(widgets.bar).ask = "search"
      BY DEF Loop!Search
    <2>2. CASE \/ LastIn(out, Searches, Loop!Search(widgets.bar))
               \/ LastOfAll(actions, Searches, Loop!Search(widgets.bar))
               \/ LastIn(todo, Searches, Loop!Search(widgets.bar))
      <3>1. Loop!Search(widgets.bar) \in Loop!InFlight
        BY <2>2, IsInFlight
      <3> QED
        BY <2>1, <3>1 DEF Loop!ResultsAreOfBar
    <2>3. CASE Found \/ lostSearch
      BY <2>3 DEF Found, Loop!ResultsAreOfBar
    <2> QED
      BY <2>2, <2>3 DEF LoopInv, BarInv, SentOff, TakenUp
  <1> QED
    BY <1>1, <1>2

LEMMA LoopInvariant == MCSpec => []LoopInv
  <1>1. MCInit => LoopInv
    BY LoopStart DEF MCInit
  <1>2. LoopInv /\ [MCNext]_<<part, pinVars, panelVars>> => LoopInv'
    <2>1. [MCNext]_<<part, pinVars, panelVars>> => [Loop!Next]_panelVars
      BY DEF MCNext, PinsNext, LoopNext
    <2> QED
      BY <2>1, LoopStep
  <1> QED
    BY <1>1, <1>2, PTL DEF MCSpec

-----------------------------------------------------------------------------
(* The theorems *)

\* Frames and dispatcher: every variable holds a value of its type, neither channel holds
\* more than it has room for, and a dispatcher that waits has nothing in hand.
THEOREM PanelTypeCorrect == MCSpec => []LoopTypeOK
  <1>1. LoopInv => LoopTypeOK
    BY LoopSuffices DEF LoopTypeOK
  <1> QED
    BY <1>1, LoopInvariant, PTL

\* The popover shows the summary of the file it is open for, or that one is still to come,
\* was lost or failed (main.rs:387-393, where the answer's own path is not looked at).
THEOREM PopoverShowsItsFile == MCSpec => []SummaryIsOfPath
  <1>1. LoopInv => SummaryIsOfPath
    BY LoopSuffices DEF SummaryIsOfPath
  <1> QED
    BY <1>1, LoopInvariant, PTL

\* The file list shows the results of what the search bar says, or that search is still to
\* be carried out, was lost or failed (main.rs:438, dispatch.rs:149-168).
THEOREM ListShowsTheSearch == MCSpec => []ResultsAreOfBar
  <1>1. LoopInv => ResultsAreOfBar
    BY LoopSuffices DEF ResultsAreOfBar
  <1> QED
    BY <1>1, LoopInvariant, PTL
==============================================================================
