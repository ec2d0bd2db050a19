------------------------------ MODULE PanelLoop ------------------------------
(***************************************************************************)
(* The panel's frames and its dispatcher (hotbar-panel/src/main.rs,        *)
(* app.rs, dispatch.rs), joined by two bounded channels.                   *)
(*                                                                         *)
(* A frame takes all results that have come, lets the user act on the      *)
(* widgets, and offers the actions to the dispatcher without waiting: a    *)
(* frame that finds the channel full loses them. The dispatcher carries    *)
(* out one frame's actions after the other and returns their results       *)
(* together, waiting for room.                                             *)
(*                                                                         *)
(* Modelled are the actions whose outcome a widget shows: a summary and a  *)
(* search. Those about pins are in Pins, the others change no state. A     *)
(* summary is its path, a list of search results its query. The cache of   *)
(* summaries is left out: an answer may come from it or from inference.    *)
(***************************************************************************)
EXTENDS Integers, SequencesExt

CONSTANTS Files,    \* paths of which a summary may be asked
          Queries,
          Capacity, \* of each of the two channels (64)
          NoFile,   \* stands for no path, and for a result that is only a toast
          NoQuery   \* stands for no search

Summarize(f) == [ask |-> "summary", of |-> f]
Search(q) == [ask |-> "search", of |-> q]
ClearSearch == Search(NoQuery)

Action == {Summarize(f) : f \in Files} \cup {Search(q) : q \in Queries} \cup {ClearSearch}

VARIABLES widgets,         \* path and content of the popover, open if it has a path; bar,
                           \* the query the search bar dispatched last
          out,             \* actions of the frame being drawn
          actions,         \* channel of vectors of actions
          busy,            \* whether the dispatcher has taken a vector
          todo, done,      \* its actions left and the results so far
          results,         \* channel of vectors of results
          search_results,  \* the query whose results replace the file list
          unanswered,      \* history: the popover's summary failed or was never asked for
          lostSearch,      \* history: the last search of the bar did not fit in the channel
          failedSearch     \* history: the last search carried out failed

loopVars == <<widgets, out, actions, busy, todo, done, results, search_results,
              unanswered, lostSearch, failedSearch>>

Init == /\ widgets = [path |-> NoFile, content |-> NoFile, bar |-> NoQuery]
        /\ out = <<>> /\ actions = <<>> /\ results = <<>>
        /\ busy = FALSE /\ todo = <<>> /\ done = <<>> /\ search_results = NoQuery
        /\ unanswered = FALSE /\ lostSearch = FALSE /\ failedSearch = FALSE

-----------------------------------------------------------------------------
(* A frame: what the drawing of the widgets w makes of them and of the actions to send *)

Frame(w, acts) == [w |-> w, acts |-> acts]

\* The last of the summaries that have come is that of file f.
CameLast(f) ==
  \E i \in DOMAIN results : \E j \in DOMAIN results[i] :
    /\ results[i][j] = f
    /\ \A n \in DOMAIN results[i] : n > j => results[i][n] = NoFile
    /\ \A m \in DOMAIN results : m > i => ToSet(results[m]) \subseteq {NoFile}

\* set_summary for each summary that has come, whichever path the popover is open for.
Drained ==
  Frame(IF \E f \in Files : CameLast(f)
        THEN [widgets EXCEPT !.content = CHOOSE f \in Files : CameLast(f)] ELSE widgets, <<>>)

\* Mutant: no request while the popover is loading.
AskedUnlessLoading(fr, f) ==
  Frame([fr.w EXCEPT !.path = f, !.content = NoFile],
        IF fr.w.path # NoFile /\ fr.w.content = NoFile
        THEN fr.acts ELSE Append(fr.acts, Summarize(f)))

\* start_loading
Asked(fr, f) == Frame([fr.w EXCEPT !.path = f, !.content = NoFile],
                      Append(fr.acts, Summarize(f)))

Searched(fr, q) == Frame([fr.w EXCEPT !.bar = q], Append(fr.acts, Search(q)))

Closed(fr) == Frame([fr.w EXCEPT !.path = NoFile, !.content = NoFile], fr.acts)

\* Mutant: the search is cleared in the bar only.
EscapedForgets(fr) == CASE fr.w.bar # NoQuery -> Frame([fr.w EXCEPT !.bar = NoQuery], fr.acts)
                        [] fr.w.path # NoFile -> Closed(fr)
                        [] OTHER -> fr

\* Escape clears the search first, then closes the popover.
Escaped(fr) == CASE fr.w.bar # NoQuery -> Searched(fr, NoQuery)
                 [] fr.w.path # NoFile -> Closed(fr)
                 [] OTHER -> fr

\* handle_key_action
Keyed(fr) == {fr, Escaped(fr)} \cup {Asked(fr, f) : f \in Files}

HasSearch(acts) == \E a \in ToSet(acts) : a.ask = "search"
FilesAsked(acts) == {a.of : a \in {b \in ToSet(acts) : b.ask = "summary"}}

\* The search bar dispatches a text that is not the last one, unless Escape has just emptied
\* it, or its button empties it; then the popover is drawn with a button of its own.
Clicked(fr) ==
  {fr, Closed(fr)}
    \cup {Searched(fr, q) : q \in {q \in Queries \cup {NoQuery} :
                                     q # fr.w.bar /\ ~HasSearch(fr.acts)}}

Draw(frames) ==
  /\ out = <<>>
  /\ results' = <<>>
  /\ \E fr \in frames : widgets' = fr.w /\ out' = fr.acts
  /\ unanswered' = (unanswered /\ widgets'.path = widgets.path /\ FilesAsked(out') = {})
  /\ UNCHANGED <<actions, busy, todo, done, search_results, lostSearch, failedSearch>>

DrawFrame == Draw(UNION {Clicked(fr) : fr \in Keyed(Drained)})

\* Mutant: the channel has no bound.
SendAlways ==
  /\ out # <<>>
  /\ out' = <<>>
  /\ actions' = Append(actions, out)
  /\ lostSearch' = (lostSearch /\ ~HasSearch(out))
  /\ UNCHANGED <<widgets, busy, todo, done, results, search_results,
                 unanswered, failedSearch>>

\* try_send
Send ==
  /\ out # <<>>
  /\ out' = <<>>
  /\ IF Len(actions) < Capacity
     THEN /\ actions' = Append(actions, out)
          /\ lostSearch' = (lostSearch /\ ~HasSearch(out))
          /\ UNCHANGED unanswered
     ELSE /\ lostSearch' = (lostSearch \/ HasSearch(out))
          /\ unanswered' = (unanswered \/ widgets.path \in FilesAsked(out))
          /\ UNCHANGED actions
  /\ UNCHANGED <<widgets, busy, todo, done, results, search_results, failedSearch>>

-----------------------------------------------------------------------------
(* The dispatcher *)

Receive ==
  /\ ~busy /\ actions # <<>>
  /\ busy' = TRUE /\ todo' = Head(actions) /\ actions' = Tail(actions)
  /\ UNCHANGED <<widgets, out, done, results, search_results,
                 unanswered, lostSearch, failedSearch>>

\* A summary that was found or inferred; one that failed is a toast.
DoSummarize ==
  /\ todo # <<>> /\ Head(todo).ask = "summary"
  /\ todo' = Tail(todo)
  /\ \/ done' = Append(done, Head(todo).of) /\ UNCHANGED unanswered
     \/ /\ done' = Append(done, NoFile)
        /\ unanswered' = (unanswered \/ Head(todo).of = widgets.path)
  /\ UNCHANGED <<widgets, out, actions, busy, results, search_results,
                 lostSearch, failedSearch>>

\* A search that fails leaves the results of the last one; clearing does not fail.
DoSearch ==
  /\ todo # <<>> /\ Head(todo).ask = "search"
  /\ todo' = Tail(todo)
  /\ \/ search_results' = Head(todo).of /\ failedSearch' = FALSE
     \/ Head(todo).of # NoQuery /\ failedSearch' = TRUE /\ UNCHANGED search_results
  /\ UNCHANGED <<widgets, out, actions, busy, done, results, unanswered, lostSearch>>

\* Mutant: results that do not fit are thrown away.
ReplyOrDrop ==
  /\ busy /\ todo = <<>>
  /\ results' = IF done = <<>> \/ Len(results) >= Capacity THEN results
                ELSE Append(results, done)
  /\ busy' = FALSE /\ done' = <<>>
  /\ UNCHANGED <<widgets, out, actions, todo, search_results,
                 unanswered, lostSearch, failedSearch>>

\* send().await, unless there is nothing to tell.
Reply ==
  /\ busy /\ todo = <<>>
  /\ \/ done = <<>> /\ UNCHANGED results
     \/ done # <<>> /\ Len(results) < Capacity /\ results' = Append(results, done)
  /\ busy' = FALSE /\ done' = <<>>
  /\ UNCHANGED <<widgets, out, actions, todo, search_results,
                 unanswered, lostSearch, failedSearch>>

Dispatch == Receive \/ DoSummarize \/ DoSearch \/ Reply

Next == DrawFrame \/ Send \/ Dispatch

\* The compositor asks for frame after frame, of which a user need not make any use; the
\* dispatcher's task runs, and an inference ends or times out.
Fairness == WF_loopVars(Draw({Drained}) \/ Send) /\ WF_loopVars(Dispatch)

Spec == Init /\ [][Next]_loopVars /\ Fairness

-----------------------------------------------------------------------------
(* Properties *)

\* What was asked and not yet shown, in any place between the two channels.
InFlight == ToSet(out) \cup (UNION {ToSet(v) : v \in ToSet(actions)}) \cup ToSet(todo)
Answers == ToSet(done) \cup (UNION {ToSet(v) : v \in ToSet(results)})

\* Every variable holds a value of its type, the channels hold what fits.
LoopTypeOK ==
  /\ widgets \in [path : Files \cup {NoFile}, content : Files \cup {NoFile},
                  bar : Queries \cup {NoQuery}]
  /\ out \in Seq(Action) /\ actions \in Seq(Seq(Action)) /\ Len(actions) <= Capacity
  /\ busy \in BOOLEAN /\ todo \in Seq(Action) /\ done \in Seq(Files \cup {NoFile})
  /\ ~busy => todo = <<>> /\ done = <<>>
  /\ results \in Seq(Seq(Files \cup {NoFile})) /\ Len(results) <= Capacity
  /\ search_results \in Queries \cup {NoQuery} /\ unanswered \in BOOLEAN
  /\ lostSearch \in BOOLEAN /\ failedSearch \in BOOLEAN

\* The popover shows the summary of the file it is open for, although answers carry no path
\* it looks at (main.rs:387-393), or that summary is still to come: an answer to an earlier
\* request, shown under the wrong name, is always replaced, however often the popover was
\* closed and opened. What remains is a request that failed or was lost.
SummaryIsOfPath ==
  widgets.path # NoFile =>
    \/ widgets.content = widgets.path
    \/ Summarize(widgets.path) \in InFlight
    \/ widgets.path \in Answers
    \/ unanswered

\* The list shown is the one the search bar says, or the bar's last word is on its way, was
\* lost with a full channel (main.rs:438) or failed (dispatch.rs:159-161): then, and only
\* then, results of an old search stay for a bar that is empty.
ResultsAreOfBar ==
  \/ search_results = widgets.bar
  \/ \E a \in InFlight : a.ask = "search"
  \/ lostSearch
  \/ failedSearch

\* A popover left open for a file, not asked again, comes to show its summary and to keep
\* it, unless the request failed or was lost: frames and dispatcher never wait for one
\* another on two full channels, and no answer to another file is the last.
AnswerArrives ==
  \A f \in Files :
    <>[](widgets.path = f /\ Summarize(f) \notin ToSet(out))
      => <>[](widgets.content = f \/ unanswered)
=============================================================================
