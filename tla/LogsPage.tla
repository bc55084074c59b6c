------------------------------ MODULE LogsPage ------------------------------
(***************************************************************************)
(* The Logs page: one search at a time, either a history query or a live   *)
(* tail (a query for the seed, then an EventSource), and the list of saved *)
(* queries; behind them the tail of the service, whose cursor per source   *)
(* is shared by everybody who tails that source.                           *)
(*                                                                         *)
(* An event has a timestamp, which need be neither new nor its own: the    *)
(* lines of nginx carry whole seconds and are ingested later, in any       *)
(* order.  Its id is the timestamp and the beginning of the message, and   *)
(* events with the same id are one to the page.  A search is a source (a   *)
(* kind of log and a site) and what is typed (query and time range), and a *)
(* row remembers the search that fetched it.  A tail follows one source.   *)
(***************************************************************************)
EXTENDS AsyncHook, FiniteSets

CONSTANTS
    LgSourceList,    \* the log sources <<kind, site>> in the order of the menu
    LgQueries,       \* what can be typed
    LgDefault,       \* <<source, query>> of the first visit
    LgNames,         \* names of saved queries
    LgMaxRows,       \* MAX_LIVE_EVENTS
    LgMessages,      \* what the messages of events begin with
    LgMaxTime,       \* bound: timestamps
    LgMaxLog,        \* bound: events per source
    LgMaxMoves,      \* bound: new events, lost connections, other tails
    LgMaxCalls,      \* bound: requests about saved queries in flight
    LgMaxSaved,      \* bound: saved queries ever made
    LgMaxGestures,   \* bound: gestures of the user
    LgMaxSteps       \* bound: moves and gestures together

LgSources == Range(LgSourceList)

\* The menu has an entry for the first visit, the list has room, and the log has
\* events.
ASSUME LogsAssumption ==
    /\ LgSourceList \in Seq(LgSources)
    /\ LgDefault \in LgSources \X LgQueries
    /\ LgNames # {}
    /\ LgMaxRows \in Nat
    /\ LgMessages # {}
    /\ LgMaxTime \in Nat \ {0}
    /\ LgMaxLog \in Nat \ {0}

VARIABLES
    lgLog,           \* source -> the events the service holds, as they came
    lgCursor,        \* source -> tailCursor, the timestamp a tail went past
    lgSaved,         \* the saved queries on the service
    lgSavedIds,      \* ids given to them so far
    lgMeta,          \* "loading", "failed" or "ready"
    lgSearch,        \* source and query on show
    lgMode,          \* "history" or "live"
    lgRunning,       \* the button reads Stop
    lgWork,          \* fetch, tail, queue and seen set of the run
    lgRows,          \* the events on show, newest batch first
    lgError,         \* the last run failed
    lgRun,           \* history: the search of the last run
    lgTurned,        \* history: the source was changed since the last run
    lgShownSaved,    \* the saved queries on show
    lgMenu,          \* the row of the popover being renamed or confirmed
    lgCalls,         \* requests about saved queries in flight
    lgRaced,         \* history: the saved list on show may be an older one
    lgMoves,         \* moves so far
    lgGestures       \* gestures so far

lgVars == <<lgLog, lgCursor, lgSaved, lgSavedIds, lgMeta, lgSearch, lgMode, lgRunning, lgWork, lgRows, lgError,
            lgRun, lgTurned, lgShownSaved, lgMenu, lgCalls, lgRaced, lgMoves, lgGestures>>
lgPopover == <<lgSaved, lgSavedIds, lgShownSaved, lgMenu, lgCalls, lgRaced>>
lgList == <<lgRows, lgError>>
lgServer == <<lgLog, lgCursor>>

NoSearch == <<<<"none", "none">>, "none">>
NoTail == [state |-> "none"]
NoMenu == [rename |-> 0, confirm |-> 0]
Idle == [fetch |-> {}, tail |-> NoTail, queue |-> <<>>, seen |-> {}]
Row(search, id, live) == [search |-> search, id |-> id, live |-> live]
Top(rows) == SubSeq(rows, 1, IF Len(rows) < LgMaxRows THEN Len(rows) ELSE LgMaxRows)

\* An event; late: when it came, or changed, the cursor of its source was already
\* past it.
Event(ts, msg, late) == [ts |-> ts, msg |-> msg, late |-> late]

\* eventID, which the browser deduplicates by and sends back to resume.
EventId(e) == <<e.ts, e.msg>>
EventIds == (1 .. LgMaxTime) \X LgMessages

\* The events ks of a log in the order of ORDER BY ts: those of the same time in
\* any order.
OldestFirst(log, ks) ==
    {w \in [1 .. Cardinality(ks) -> ks] :
       Range(w) = ks /\ \A i, j \in DOMAIN w : i < j => log[w[i]].ts <= log[w[j]].ts}

\* A saved query keeps the kind of its source, not the site.
SavedQuery(id, name, search) == [id |-> id, name |-> name, kind |-> search[1][1], query |-> search[2]]
NoQuery == [id |-> 0]
SavedCall(op, id, q) == [op |-> op, id |-> id, q |-> q, raced |-> FALSE, ans |-> Waiting]

\* A request is raced when another was under way at some time of its own.
LgSent(calls, c) ==
    IF calls = <<>> THEN Send(calls, c)
    ELSE Send([i \in DOMAIN calls |-> [calls[i] EXCEPT !.raced = TRUE]], [c EXCEPT !.raced = TRUE])

\* What sends a request about saved queries, loads or closes them, and a change of
\* the query count for two gestures.
LgGestures(n) ==
    /\ lgGestures + n <= LgMaxGestures /\ lgGestures + n + lgMoves <= LgMaxSteps
    /\ lgGestures' = lgGestures + n
LgGesture == LgGestures(1)
LgPopoverGesture == LgGestures(2)
LgMove ==
    /\ lgMoves < LgMaxMoves /\ lgGestures + lgMoves < LgMaxSteps
    /\ lgMoves' = lgMoves + 1

\* A page opened for the first time, or with what localStorage kept of it; the
\* service may have been tailed before.
LgInit ==
    /\ lgLog = [s \in LgSources |-> <<Event(1, CHOOSE m \in LgMessages : TRUE, FALSE)>>]
    /\ lgCursor = [s \in LgSources |-> 0]
    /\ lgSaved = {SavedQuery(1, CHOOSE n \in LgNames : TRUE, LgDefault)}
    /\ lgSavedIds = 1
    /\ lgMeta = "loading"
    /\ lgSearch = NoSearch
    /\ lgMode \in {"history", "live"}
    /\ lgRunning = FALSE
    /\ lgWork = Idle
    /\ lgRows = <<>>
    /\ lgError = FALSE
    /\ lgRun = NoSearch
    /\ lgTurned = FALSE
    /\ lgShownSaved = {}
    /\ lgMenu = NoMenu
    /\ lgCalls = Send(<<>>, SavedCall("list", 0, NoQuery))
    /\ lgRaced = FALSE
    /\ lgMoves = 0
    /\ lgGestures = 0

(***************************************************************************)
(* Running and stopping.                                                   *)
(***************************************************************************)
\* cleanup: abort, close the stream, drop what waits for the next frame.
Cleanup(work) == Idle

\* What is left of running once the handlers of aborted queries have run: the
\* finally of a history query clears it, a live run returns early.
AfterAbort(running) == running /\ ~\E f \in lgWork.fetch : f.mode = "history"

\* The work runHistory and startLive begin with.
LgStarted(search, mode) ==
    [Cleanup(lgWork) EXCEPT !.fetch = @ \cup {[search |-> search, mode |-> mode, ans |-> Waiting]}]

RunSearch(search, mode) ==
    /\ lgWork' = LgStarted(search, mode)
    /\ lgRunning' = AfterAbort(TRUE)
    /\ lgRows' = <<>>
    /\ lgError' = FALSE
    /\ lgRun' = search
    /\ lgTurned' = FALSE

\* The metadata arrives: the search of the first visit is run at once, a search
\* restored from localStorage waits for Run.
LgMetaArrives ==
    /\ lgMeta = "loading"
    /\ lgMeta' = "ready"
    /\ \/ /\ lgMode = "history"
          /\ lgSearch' = LgDefault
          /\ RunSearch(LgDefault, "history")
       \/ /\ lgSearch' \in LgSources \X {LgDefault[2]}
          /\ UNCHANGED <<lgRunning, lgWork, lgList, lgRun, lgTurned>>
    /\ UNCHANGED <<lgServer, lgMode, lgPopover, lgMoves, lgGestures>>

LgMetaFails ==
    /\ lgMeta = "loading"
    /\ lgMeta' = "failed"
    /\ UNCHANGED <<lgServer, lgSearch, lgMode, lgRunning, lgWork, lgList, lgRun, lgTurned, lgPopover,
                   lgMoves, lgGestures>>

ButtonDoes(running) == IF running THEN "stop" ELSE "run"

\* The button, and Enter in the query.
PressButton ==
    /\ LgGesture
    /\ lgMeta = "ready"
    /\ IF ButtonDoes(lgRunning) = "run" THEN RunSearch(lgSearch, lgMode)
       ELSE /\ lgWork' = Cleanup(lgWork)
            /\ lgRunning' = FALSE
            /\ UNCHANGED <<lgList, lgRun, lgTurned>>
    /\ UNCHANGED <<lgServer, lgMeta, lgSearch, lgMode, lgPopover, lgMoves>>

\* The source menu: the run is abandoned, a live one with the button at Stop.
ChangeSource(s) ==
    /\ LgGesture
    /\ lgMeta = "ready" /\ s # lgSearch[1]
    /\ lgSearch' = <<s, lgSearch[2]>>
    /\ lgWork' = Cleanup(lgWork)
    /\ lgRunning' = AfterAbort(lgRunning)
    /\ lgTurned' = TRUE
    /\ UNCHANGED <<lgServer, lgMeta, lgMode, lgList, lgRun, lgPopover, lgMoves>>

\* Typing, a chip, the prompt, the time range: the run goes on.
ChangeQuery(q) ==
    /\ LgGestures(2)
    /\ lgMeta = "ready" /\ q # lgSearch[2]
    /\ lgSearch' = <<lgSearch[1], q>>
    /\ UNCHANGED <<lgServer, lgMeta, lgMode, lgRunning, lgWork, lgList, lgRun, lgTurned, lgPopover, lgMoves>>

\* History or Live Tail: the effect of the mode stops the run.
ToggleMode ==
    /\ LgGesture
    /\ lgMeta = "ready"
    /\ lgMode' = IF lgMode = "live" THEN "history" ELSE "live"
    /\ lgWork' = Cleanup(lgWork)
    /\ lgRunning' = FALSE
    /\ UNCHANGED <<lgServer, lgMeta, lgSearch, lgList, lgRun, lgTurned, lgPopover, lgMoves>>

(***************************************************************************)
(* The query: a history query, or the seed of a tail.                      *)
(***************************************************************************)

\* The events of the source, the newest first.
Listings(log) ==
    {[i \in DOMAIN w |-> EventId(log[w[Len(w) + 1 - i]])] : w \in OldestFirst(log, DOMAIN log)}

LgServeQuery(f) ==
    /\ f.ans = Waiting
    /\ \E ans \in {Failed} \cup {Value(ids) : ids \in Listings(lgLog[f.search[1]])} :
         lgWork' = [lgWork EXCEPT !.fetch = (@ \ {f}) \cup {[f EXCEPT !.ans = ans]}]
    /\ UNCHANGED <<lgServer, lgMeta, lgSearch, lgMode, lgRunning, lgList, lgRun, lgTurned, lgPopover,
                   lgMoves, lgGestures>>

NewTail(search) ==
    [state |-> "connecting", search |-> search, last |-> 0, wire |-> <<>>, base |-> 0, sure |-> TRUE]

\* A live run whose failure leaves the button at Stop.
RunningKept(f) == lgRunning

\* A history query is over either way; a seed only when it failed.
RunningAfter(f) == lgRunning /\ f.mode = "live" /\ f.ans # Failed

LgQueryArrives(f) ==
    /\ f.ans # Waiting
    /\ lgRunning' = RunningAfter(f)
    /\ lgError' = (f.ans = Failed)
    /\ lgRows' = IF f.ans = Failed THEN lgRows
                 ELSE [i \in DOMAIN f.ans[2] |-> Row(f.search, f.ans[2][i], FALSE)]
    /\ lgWork' = [lgWork EXCEPT !.fetch = @ \ {f},
                                !.tail = IF f.mode = "live" /\ f.ans # Failed THEN NewTail(f.search) ELSE @]
    /\ UNCHANGED <<lgServer, lgMeta, lgSearch, lgMode, lgRun, lgTurned, lgPopover, lgMoves, lgGestures>>

(***************************************************************************)
(* The tail.                                                               *)
(***************************************************************************)
lgTail == lgWork.tail
TailTo(tail) == lgWork' = [lgWork EXCEPT !.tail = tail]
lgPage == <<lgMeta, lgSearch, lgMode, lgRun, lgTurned>>

\* An event is stored: a line of nginx is ingested, with the second it was written
\* in, an audit entry or a job is recorded.
LgAppend(s) ==
    /\ LgMove
    /\ Len(lgLog[s]) < LgMaxLog
    /\ \E ts \in 1 .. LgMaxTime, msg \in LgMessages :
         lgLog' = [lgLog EXCEPT ![s] = Append(@, Event(ts, msg, ts <= lgCursor[s]))]
    /\ UNCHANGED <<lgCursor, lgPage, lgRunning, lgWork, lgList, lgPopover, lgGestures>>

\* The message of a job is its name, then its output or its error; the time that of
\* its creation.
LgJobGrows(s) ==
    /\ LgMove
    /\ s[1] = "job"
    /\ \E k \in DOMAIN lgLog[s], msg \in LgMessages :
         LET e == lgLog[s][k]
         IN  /\ msg # e.msg
             /\ lgLog' = [lgLog EXCEPT ![s][k] = Event(e.ts, msg, e.late \/ e.ts <= lgCursor[s])]
    /\ UNCHANGED <<lgCursor, lgPage, lgRunning, lgWork, lgList, lgPopover, lgGestures>>

\* Where the tail of a source may begin: after the time of the event the browser
\* saw last; for a new one where the last tail of that source stopped, or from now
\* on when there was none or that is more than tailReconnectGap ago.
CursorsOnConnect(log, cursor, last) ==
    IF last # 0 THEN {last}
    ELSE {cursor} \cup {now \in 0 .. LgMaxTime : \A k \in DOMAIN log : log[k].ts <= now}

LgConnect ==
    LET s == lgTail.search[1]
    IN  /\ lgTail.state = "connecting"
        /\ \E c \in CursorsOnConnect(lgLog[s], lgCursor[s], lgTail.last) :
             /\ lgCursor' = [lgCursor EXCEPT ![s] = c]
             /\ TailTo([lgTail EXCEPT !.state = "open", !.base = IF lgTail.last = 0 THEN c ELSE @])
        /\ UNCHANGED <<lgLog, lgPage, lgRunning, lgList, lgPopover, lgMoves, lgGestures>>

\* What ListSince finds: only what has a later time than the cursor.
Since(log, cursor) == {k \in DOMAIN log : log[k].ts > cursor}

\* Every second: what is newer than the cursor is written out, and the cursor is at
\* the newest of it.
LgTick ==
    LET s == lgTail.search[1]
        log == lgLog[s]
        new == Since(log, lgCursor[s])
    IN  /\ lgTail.state = "open"
        /\ new # {}
        /\ \E w \in OldestFirst(log, new) :
             /\ lgCursor' = [lgCursor EXCEPT ![s] = log[w[Len(w)]].ts]
             /\ TailTo([lgTail EXCEPT !.wire = lgTail.wire \o [i \in DOMAIN w |-> EventId(log[w[i]])]])
        /\ UNCHANGED <<lgLog, lgPage, lgRunning, lgList, lgPopover, lgMoves, lgGestures>>

\* Another tail of the source, of another tab or one whose browser just left,
\* connects or ticks: the cursor is theirs too.
LgOtherTail(s) ==
    /\ LgMove
    /\ \E c \in 0 .. LgMaxTime : lgCursor' = [lgCursor EXCEPT ![s] = c]
    /\ IF lgTail # NoTail /\ lgTail.search[1] = s THEN TailTo([lgTail EXCEPT !.sure = FALSE])
       ELSE UNCHANGED lgWork
    /\ UNCHANGED <<lgLog, lgPage, lgRunning, lgList, lgPopover, lgGestures>>

\* onmessage: into the queue, for the next animation frame.
LgMessage ==
    /\ lgTail.state = "open" /\ lgTail.wire # <<>>
    /\ lgWork' = [lgWork EXCEPT !.tail = [lgTail EXCEPT !.wire = Tail(lgTail.wire), !.last = Head(lgTail.wire)[1]],
                                !.queue = Append(@, Row(lgTail.search, Head(lgTail.wire), TRUE))]
    /\ UNCHANGED <<lgServer, lgPage, lgRunning, lgList, lgPopover, lgMoves, lgGestures>>

\* The connection breaks: the browser connects again, by itself.  What was on the
\* wire is written again, unless no event came before it or it has the time of the
\* last one that did.
LgBreaks ==
    /\ LgMove
    /\ lgTail.state = "open"
    /\ TailTo([lgTail EXCEPT !.state = "connecting", !.wire = <<>>, 
                               !.sure = /\ lgTail.sure /\ lgTail.last # 0
                                        /\ \A i \in DOMAIN lgTail.wire : lgTail.wire[i][1] # lgTail.last])
    /\ UNCHANGED <<lgServer, lgPage, lgRunning, lgList, lgPopover, lgGestures>>

\* onClosed: the service answered with an error and the browser gives up.
LgCloses ==
    /\ LgMove
    /\ lgTail.state = "connecting"
    /\ TailTo(NoTail)
    /\ lgRunning' = FALSE
    /\ UNCHANGED <<lgServer, lgPage, lgList, lgPopover, lgGestures>>

\* flushLiveQueue without the set of ids already shown.
AcceptAll(queue, seen) == queue

\* The events of the queue whose id was not accepted before, once each: the loop
\* over the queue.
Accepted(queue, seen) ==
    LET taken[n \in 0 .. Len(queue)] ==
          IF n = 0 THEN <<>>
          ELSE IF queue[n].id \in seen \cup {queue[j].id : j \in 1 .. n - 1} THEN taken[n - 1]
          ELSE Append(taken[n - 1], queue[n])
    IN  taken[Len(queue)]

\* flushLiveQueue and the microtask that follows it: nothing runs in between.
FlushLiveQueue ==
    /\ lgWork.queue # <<>>
    /\ lgRows' = Top(Accepted(lgWork.queue, lgWork.seen) \o lgRows)
    /\ lgWork' = [lgWork EXCEPT !.queue = <<>>,
                                !.seen = @ \cup {lgWork.queue[i].id : i \in DOMAIN lgWork.queue}]
    /\ UNCHANGED <<lgServer, lgPage, lgRunning, lgError, lgPopover, lgMoves, lgGestures>>

(***************************************************************************)
(* Saved queries: the popover.                                             *)
(***************************************************************************)
lgPane == <<lgServer, lgMeta, lgMode, lgRunning, lgWork, lgList, lgRun, lgTurned>>

LgSend(c) ==
    /\ Len(lgCalls) < LgMaxCalls
    /\ lgCalls' = LgSent(lgCalls, c)

\* The rows of the popover with their buttons, neither being renamed nor confirmed.
PlainRows == {r \in lgShownSaved : r.id \notin {lgMenu.rename, lgMenu.confirm}}

\* Save current as: a name no row on show has.
SaveAs(name) ==
    /\ LgPopoverGesture
    /\ lgMeta = "ready"
    /\ lgSavedIds + Cardinality({i \in DOMAIN lgCalls : lgCalls[i].op = "save"}) < LgMaxSaved
    /\ name \notin {r.name : r \in lgShownSaved}
    /\ LgSend(SavedCall("save", 0, SavedQuery(0, name, lgSearch)))
    /\ UNCHANGED <<lgPane, lgSearch, lgSaved, lgSavedIds, lgShownSaved, lgMenu, lgRaced, lgMoves>>

FirstOfKind(kind) == LgSourceList[SelectInSeq(LgSourceList, LAMBDA s : s[1] = kind)]

\* Load: the first source of the saved kind and the saved query; the run goes on.
LoadSaved(r) ==
    /\ LgPopoverGesture
    /\ lgMeta = "ready" /\ r \in PlainRows
    /\ lgSearch' = <<FirstOfKind(r.kind), r.query>>
    /\ UNCHANGED <<lgPane, lgSaved, lgSavedIds, lgShownSaved, lgMenu, lgCalls, lgRaced, lgMoves>>

\* Rename, or Delete for the first time: the row asks for a name, or again.
LgAskRow(field, r) ==
    /\ LgGesture
    /\ lgMeta = "ready" /\ r \in PlainRows
    /\ lgMenu' = [lgMenu EXCEPT ![field] = r.id]
    /\ UNCHANGED <<lgPane, lgSearch, lgSaved, lgSavedIds, lgShownSaved, lgCalls, lgRaced, lgMoves>>

\* commitRename, by Enter or because the field lost the focus: the row keeps its
\* field until the answer, so that both may happen.
CommitRename(name) ==
    /\ LgPopoverGesture
    /\ lgMenu.rename # 0 /\ lgMenu.rename \in {r.id : r \in lgShownSaved}
    /\ LgSend(SavedCall("rename", lgMenu.rename, [id |-> lgMenu.rename, name |-> name]))
    /\ UNCHANGED <<lgPane, lgSearch, lgSaved, lgSavedIds, lgShownSaved, lgMenu, lgRaced, lgMoves>>

\* Delete for the second time.
HandleDelete(r) ==
    /\ LgPopoverGesture
    /\ r \in lgShownSaved /\ lgMenu.confirm = r.id
    /\ LgSend(SavedCall("delete", r.id, r))
    /\ lgMenu' = [lgMenu EXCEPT !.confirm = 0]
    /\ UNCHANGED <<lgPane, lgSearch, lgSaved, lgSavedIds, lgShownSaved, lgRaced, lgMoves>>

\* Cancel, Escape, a click outside the popover.
CloseMenu ==
    /\ LgPopoverGesture
    /\ lgMenu # NoMenu
    /\ lgMenu' = NoMenu
    /\ UNCHANGED <<lgPane, lgSearch, lgSaved, lgSavedIds, lgShownSaved, lgCalls, lgRaced, lgMoves>>

\* The service: ids are given once; an unknown id is an error.
SavedAfter(c) ==
    CASE c.op = "list" -> lgSaved
      [] c.op = "save" -> lgSaved \cup {[c.q EXCEPT !.id = c.id]}
      [] c.op = "rename" -> {[r EXCEPT !.name = IF r.id = c.id THEN c.q.name ELSE @] : r \in lgSaved}
      [] c.op = "delete" -> {r \in lgSaved : r.id # c.id}

LgServeSaved(i) ==
    LET sent == lgCalls[i]
        c == IF sent.op = "save" THEN [sent EXCEPT !.id = lgSavedIds + 1] ELSE sent
        known == c.op \in {"list", "save"} \/ \E r \in lgSaved : r.id = c.id
    IN  /\ Unserved(lgCalls, i)
        /\ \/ /\ known
              /\ lgSaved' = SavedAfter(c)
              /\ lgSavedIds' = IF c.op = "save" THEN c.id ELSE lgSavedIds
              /\ lgCalls' = Answer(lgCalls, i, Value(lgSaved'))
           \/ /\ UNCHANGED <<lgSaved, lgSavedIds>>
              /\ lgCalls' = Answer(lgCalls, i, Failed)
        /\ UNCHANGED <<lgPane, lgSearch, lgShownSaved, lgMenu, lgRaced, lgMoves, lgGestures>>

\* The service did it and the answer is lost.
LgSavedLost(i) ==
    /\ LgMove
    /\ lgCalls[i].ans \notin {Waiting, Failed}
    /\ lgCalls' = Answer(lgCalls, i, Failed)
    /\ UNCHANGED <<lgPane, lgSearch, lgSaved, lgSavedIds, lgShownSaved, lgMenu, lgRaced, lgGestures>>

\* A list replaces the rows on show, whichever was asked for last; a delete
\* takes its row out of them.
ShownAfter(c) ==
    CASE c.op = "list" -> c.ans[2]
      [] c.op = "delete" -> {r \in lgShownSaved : r.id # c.id}
      [] OTHER -> lgShownSaved

\* The answer: after a save or a rename the list is asked for again.
LgSavedArrives(i) ==
    LET c == lgCalls[i]
        rest == Forget(lgCalls, i)
        again == c.op \in {"save", "rename"} /\ c.ans # Failed
    IN  /\ ~Unserved(lgCalls, i)
        /\ lgShownSaved' = IF c.ans = Failed THEN lgShownSaved ELSE ShownAfter(c)
        /\ lgCalls' = IF again THEN LgSent(rest, SavedCall("list", 0, NoQuery)) ELSE rest
        /\ lgRaced' = IF c.op = "list" /\ ~c.raced THEN c.ans = Failed
                      ELSE lgRaced \/ c.raced \/ c.ans = Failed
        /\ lgMenu' = IF c.op = "rename" THEN [lgMenu EXCEPT !.rename = 0] ELSE lgMenu
        /\ UNCHANGED <<lgPane, lgSearch, lgSaved, lgSavedIds, lgMoves, lgGestures>>


LgNext ==
    \/ LgMetaArrives \/ LgMetaFails \/ PressButton \/ ToggleMode
    \/ \E s \in LgSources : ChangeSource(s) \/ LgAppend(s) \/ LgJobGrows(s) \/ LgOtherTail(s)
    \/ \E q \in LgQueries : ChangeQuery(q)
    \/ \E f \in lgWork.fetch : LgServeQuery(f) \/ LgQueryArrives(f)
    \/ LgConnect \/ LgTick \/ LgMessage \/ LgBreaks \/ LgCloses \/ FlushLiveQueue
    \/ \E name \in LgNames : SaveAs(name) \/ CommitRename(name)
    \/ \E r \in lgShownSaved :
         LoadSaved(r) \/ LgAskRow("rename", r) \/ LgAskRow("confirm", r) \/ HandleDelete(r)
    \/ CloseMenu
    \/ \E i \in DOMAIN lgCalls : LgServeSaved(i) \/ LgSavedLost(i) \/ LgSavedArrives(i)

LgSpec == LgInit /\ [][LgNext]_lgVars

(***************************************************************************)
(* Properties.                                                             *)
(***************************************************************************)
\* EventStream: what the list area says.
EventStream ==
    IF lgRows # <<>> THEN "rows"
    ELSE IF lgError THEN "failed" ELSE IF lgRunning THEN "scanning" ELSE "empty"

LgWorking == lgWork.fetch # {} \/ lgTail # NoTail

\* Types.
LgTypeOK ==
    /\ \A s \in LgSources :
         /\ lgLog[s] \in Seq([ts : 1 .. LgMaxTime, msg : LgMessages, late : BOOLEAN])
         /\ Len(lgLog[s]) <= LgMaxLog /\ lgCursor[s] \in 0 .. LgMaxTime
    /\ lgSearch \in {NoSearch} \cup (LgSources \X LgQueries)
    /\ lgMode \in {"history", "live"}
    /\ lgRunning \in BOOLEAN /\ lgError \in BOOLEAN
    /\ \A i \in DOMAIN lgRows : lgRows[i].id \in EventIds
    /\ Len(lgRows) <= IF LgMaxRows > LgMaxLog THEN LgMaxRows ELSE LgMaxLog
    /\ lgWork.seen \subseteq EventIds
    /\ \A r \in lgSaved \cup lgShownSaved : r.id \in 1 .. lgSavedIds /\ r.name \in LgNames

\* The rows on show were all fetched by the search that was run last: nothing of
\* an earlier run arrives after Run was pressed again, whatever was stopped,
\* turned or typed in between (the epoch, the abort, the captured search).
RowsOfTheLastRun == \A i \in DOMAIN lgRows : lgRows[i].search = lgRun

\* The tail shows what has the same id once, over its reconnects and whatever other
\* tails do to the shared cursor (liveSeenRef).
TailRowsOnce ==
    \A i, j \in DOMAIN lgRows : i # j /\ lgRows[i].live /\ lgRows[j].live => lgRows[i].id # lgRows[j].id

\* What goes on in the background can be stopped: while a query or a stream is
\* open, the button reads Stop.
WorkCanBeStopped == LgWorking => lgRunning

\* The button reads Stop, and the list says that it is scanning, only while
\* something is under way; after a change of the source it may be nothing.
StopMeansWork == lgRunning \/ EventStream = "scanning" => LgWorking \/ lgTurned

\* A tail that nobody else's tail interfered with, and whose broken connections lost
\* nothing of the second of the last event seen, passes over an event for one reason
\* only: it came, or a job's grew, when the cursor was past its time.  Every other
\* event of a time the cursor went past since the tail began was taken, by its id, or
\* is on its way to the list.
NothingPassedOver ==
    lgTail # NoTail /\ lgTail.state = "open" /\ lgTail.sure =>
        LET s == lgTail.search[1]
        IN  \A k \in DOMAIN lgLog[s] :
              LET e == lgLog[s][k]
              IN  ~e.late /\ lgTail.base < e.ts /\ e.ts <= lgCursor[s] =>
                    \/ EventId(e) \in lgWork.seen
                    \/ \E i \in DOMAIN lgWork.queue : lgWork.queue[i].id = EventId(e)
                    \/ \E i \in DOMAIN lgTail.wire : lgTail.wire[i] = EventId(e)

\* The list of a tail: every id once, and no event that was stored in time missing.
TailExact == TailRowsOnce /\ NothingPassedOver

\* The button means what it says.
StopButton == WorkCanBeStopped /\ StopMeansWork

\* The saved queries on show are those of the service once nothing is under way,
\* unless requests overlapped or an answer was lost since the last list.
SavedCurrent == lgCalls = <<>> /\ ~lgRaced => lgShownSaved = lgSaved
=============================================================================
