---------------------------- MODULE WebsitesPage ----------------------------
(***************************************************************************)
(* The Websites page: the list with its row buttons, the edit form, the    *)
(* nginx configuration and SSL dialogs, the log of a certbot job; behind   *)
(* them the website service, which keeps a row in the database, a file in  *)
(* site.d and a link in active.d for each site.                            *)
(*                                                                         *)
(* A configuration is "form" (rendered from the row, certificate           *)
(* included), "hand" or "handssl" (written by hand, without or with a      *)
(* certificate), "bad" (nginx -t refuses it) or "none" (no file).  A       *)
(* request reads its row, then acts on what it read; a configuration is    *)
(* written before it is tested.                                            *)
(***************************************************************************)
EXTENDS AsyncHook, FiniteSets

CONSTANTS
    WsDomains,       \* domains that can be typed
    WsRows0,         \* the rows when the page is opened, by id
    WsMaxIds,        \* bound: rows ever made
    WsTexts,         \* configurations that can be typed
    WsMaxCalls,      \* bound: requests in flight other than the list
    WsMaxGestures    \* bound: gestures of the user

\* The page is opened on sites with a domain each, and "none" is no domain.
ASSUME WebsitesAssumption ==
    /\ "none" \notin WsDomains /\ WsTexts \subseteq {"form", "hand", "handssl", "bad"}
    /\ WsMaxIds \in Nat /\ WsMaxCalls \in Nat
    /\ WsRows0 \in Seq([dom : WsDomains, active : BOOLEAN, ssl : BOOLEAN]) /\ Len(WsRows0) <= WsMaxIds
    /\ \A i, j \in DOMAIN WsRows0 : WsRows0[i].dom = WsRows0[j].dom => i = j

VARIABLES
    wsServer,        \* rows and last id, conf, link: database, site.d, active.d
    wsSyncs,         \* rows a listing is about to write back with their SSL flag
    wsHook,          \* useAsync of the list
    wsDialog,        \* the dialog on show, or NoDialog
    wsDialogs,       \* dialogs opened so far
    wsCalls,         \* requests in flight other than the list
    wsGestures,      \* gestures so far
    wsSpoilt,        \* history: domains with an operation half done or out of turn
    wsUnseen         \* history: since the list was read, a request failed or wrote an old row

wsVars == <<wsServer, wsSyncs, wsHook, wsDialog, wsDialogs, wsCalls, wsGestures, wsSpoilt, wsUnseen>>

WsIds == 1 .. WsMaxIds
NoRow == [dom |-> "none", active |-> FALSE, ssl |-> FALSE]
NoDialog == [kind |-> "none"]
HasCert(text) == text \in {"form", "handssl"}
WithCert(text) == IF text \in {"none", "hand"} THEN "handssl" ELSE text

WsInit ==
    /\ wsServer = [rows |-> [i \in WsIds |-> IF i \in DOMAIN WsRows0 THEN WsRows0[i] ELSE NoRow],
                   conf |-> [d \in WsDomains |->
                               IF \E i \in DOMAIN WsRows0 : WsRows0[i].dom = d THEN "form" ELSE "none"],
                   link |-> {WsRows0[i].dom : i \in {j \in DOMAIN WsRows0 : WsRows0[j].active}},
                   ids |-> Len(WsRows0)]
    /\ wsSyncs = {}
    /\ wsHook = AsyncMount("list")
    /\ wsDialog = NoDialog
    /\ wsDialogs = 0
    /\ wsCalls = <<>>
    /\ wsGestures = 0
    /\ wsSpoilt = {}
    /\ wsUnseen = FALSE

WsGestures(n) == wsGestures + n <= WsMaxGestures /\ wsGestures' = wsGestures + n

(***************************************************************************)
(* The service.  srv is [rows, conf, link, ids]; an operation has a set of *)
(* outcomes [srv, ok, half], one per step that can fail.  half: what undoes *)
(* a failed step failed as well, its error ignored, or the statement that   *)
(* reads a row back failed after the row was written.                       *)
(***************************************************************************)
Done(srv) == [srv |-> srv, ok |-> TRUE, half |-> FALSE]
Fails(srv) == [srv |-> srv, ok |-> FALSE, half |-> FALSE]
Half(srv) == [srv |-> srv, ok |-> FALSE, half |-> TRUE]

\* UPDATE ... WHERE id: a whole row, and no row that was deleted meanwhile.
PutRow(srv, id, row) ==
    IF srv.rows[id] = NoRow THEN srv ELSE [srv EXCEPT !.rows[id] = row]
PutConf(srv, d, text) == [srv EXCEPT !.conf[d] = text]

\* EnableSite needs the file, DisableSite nothing.
Linked(srv, d, on) ==
    IF ~on THEN [srv EXCEPT !.link = @ \ {d}]
    ELSE IF srv.conf[d] = "none" THEN srv ELSE [srv EXCEPT !.link = @ \cup {d}]

\* Reload tests everything active.d links to.
Reloads(srv) == \A d \in srv.link : srv.conf[d] # "bad"

\* syncSSLFromConfig: the flag the configuration asks for, in a whole row.
SyncSSL(srv, id, row) ==
    IF srv.conf[row.dom] = "none" THEN srv
    ELSE IF HasCert(srv.conf[row.dom]) = row.ssl THEN srv
    ELSE PutRow(srv, id, [row EXCEPT !.ssl = HasCert(srv.conf[row.dom])])

\* Create undoes the steps it took, one by one; each may fail in its turn.
Undone(srv, d, id, steps) ==
    [srv EXCEPT !.rows[id] = IF "row" \in steps THEN NoRow ELSE @,
                !.conf[d] = IF "file" \in steps THEN "none" ELSE @,
                !.link = IF "link" \in steps THEN @ \ {d} ELSE @]
Undoings(srv, d, id, steps) ==
    {Fails(Undone(srv, d, id, steps))} \cup {Half(Undone(srv, d, id, some)) : some \in SUBSET steps \ {steps}}

\* Create: the row, the file, and for an active site the test, the link and the
\* reload.  An INSERT whose read-back fails leaves the row.
CreateOutcomes(srv, c) ==
    LET id == srv.ids + 1
        row == [dom |-> c.dom, active |-> c.active, ssl |-> FALSE]
        stored == [srv EXCEPT !.rows[id] = row, !.ids = id]
        made == PutConf(stored, c.dom, "form")
        linked == Linked(made, c.dom, TRUE)
    IN  {Fails(srv)} \cup Undoings(stored, c.dom, id, {"row"}) \cup
        IF ~c.active THEN {Done(made)}
        ELSE Undoings(made, c.dom, id, {"file", "row"}) \cup Undoings(linked, c.dom, id, {"link", "file", "row"}) \cup
             IF Reloads(linked) THEN {Done(linked)} ELSE {}

\* Update writes the row, then the file, then the link, and undoes nothing.
UpdateOutcomes(srv, c) ==
    LET written == PutRow(srv, c.id, [c.row EXCEPT !.dom = c.dom, !.active = c.active])
        rendered == PutConf(written, c.dom, "form")
    IN  {Fails(srv)} \cup
        IF srv.rows[c.id] = NoRow THEN {}
        ELSE {Fails(written), Fails(rendered), Done(Linked(rendered, c.dom, c.active))}

\* Delete stops at the step that fails.
DeleteOutcomes(srv, c) ==
    LET off == Linked(srv, c.row.dom, FALSE)
        bare == PutConf(off, c.row.dom, "none")
    IN  {Fails(srv), Fails(off)} \cup
        IF Reloads(off) THEN {Fails(bare), Done([bare EXCEPT !.rows[c.id] = NoRow])} ELSE {}

\* Toggle that leaves the link as it is when the reload fails.
ToggleKeepsLink(srv, c) ==
    LET d == c.row.dom
        flipped == Linked(srv, d, ~c.row.active)
    IN  {Fails(flipped), Done(PutRow(flipped, c.id, [c.row EXCEPT !.active = ~c.row.active]))}

\* Toggle: the link, the reload, the row; the link goes back if one fails, also
\* when the row was written and only reading it back failed.
ToggleOutcomes(srv, c) ==
    LET d == c.row.dom
        row == [c.row EXCEPT !.active = ~c.row.active]
        flipped == Linked(srv, d, row.active)
        back == Linked(flipped, d, c.row.active)
        kept == PutRow(flipped, c.id, row)
    IN  {Fails(srv)} \cup
        IF row.active /\ srv.conf[d] = "none" THEN {}
        ELSE {Fails(back), Half(flipped)} \cup
             IF Reloads(flipped) /\ srv.rows[c.id] # NoRow
             THEN {Done(SyncSSL(kept, c.id, row)), Half(kept), Half(PutRow(back, c.id, row))} ELSE {}

\* UpdateSiteConfig, when the test fails: the file it replaced comes back, if
\* there was one.
Restored(srv, c) == IF c.orig = "none" THEN srv ELSE PutConf(srv, c.row.dom, c.orig)

\* The rest of UpdateSiteConfig and UpdateNginxConfig after the file is written:
\* test, reload, SSL flag.  Writing the old file back may fail.
ConfigOutcomes(srv, c) ==
    {Fails(Restored(srv, c))} \cup
    IF c.text = "bad" THEN {Half(srv)}
    ELSE {Fails(srv)} \cup IF Reloads(srv) THEN {Done(SyncSSL(srv, c.id, c.row))} ELSE {}

\* UpdateManual: the same with the certificate's directives, then the flag.
ManualOutcomes(srv, c) ==
    LET text == WithCert(srv.conf[c.row.dom])
        put == PutConf(srv, c.row.dom, text)
    IN  {Fails(srv)} \cup
        IF text = "bad" THEN {}
        ELSE {Fails(put)} \cup
             IF Reloads(put) /\ srv.rows[c.id] # NoRow THEN {Done(PutRow(put, c.id, [c.row EXCEPT !.ssl = TRUE]))} ELSE {}

\* EnqueueCertbot repoints a placeholder certificate in the site's file, which
\* stays of its kind, and queues a job; JobRuns has the jobs.
WsOutcomes(srv, c) ==
    CASE c.op = "create" -> CreateOutcomes(srv, c)
      [] c.op = "update" -> UpdateOutcomes(srv, c)
      [] c.op = "remove" -> DeleteOutcomes(srv, c)
      [] c.op = "toggle" -> ToggleOutcomes(srv, c)
      [] c.op = "config" -> ConfigOutcomes(srv, c)
      [] c.op = "manual" -> ManualOutcomes(srv, c)
      [] c.op = "certbot" -> {Fails(srv), Done(srv)}

(***************************************************************************)
(* Requests of the page.                                                   *)
(***************************************************************************)
WsCall(op, id, dom, active, text) ==
    [op |-> op, id |-> id, dom |-> dom, active |-> active, text |-> text, no |-> wsDialogs,
     row |-> NoRow, orig |-> "none", at |-> "sent", raced |-> FALSE, ans |-> Waiting]

\* A request is raced when the list on show is not settled, or another request
\* is under way at some time of its own.
WsSend(c) ==
    LET others == wsCalls # <<>>
        late == others \/ wsUnseen \/ ~AsyncSettled(wsHook) \/ wsSyncs # {}
    IN  /\ Len(wsCalls) < WsMaxCalls
        /\ wsCalls' = Send([i \in DOMAIN wsCalls |-> [wsCalls[i] EXCEPT !.raced = TRUE]],
                           [c EXCEPT !.raced = late])
WsBusy(ops) == \E i \in DOMAIN wsCalls : wsCalls[i].op \in ops /\ wsCalls[i].no = wsDialogs

WsRows == IF AsyncShown(wsHook) THEN {i \in WsIds : wsHook.data[2][i] # NoRow} ELSE {}
WsShown(i) == wsHook.data[2][i]
\* A gesture on the page counts for two, one in a dialog for one.
WsOnPage == wsDialog = NoDialog /\ WsGestures(2)

\* The request's handler reads the row, or answers that there is none.
WsServeRead(i) ==
    LET c == wsCalls[i]
        row == wsServer.rows[c.id]
    IN  /\ c.at = "sent" /\ c.op # "create"
        /\ wsCalls' = IF row = NoRow THEN [wsCalls EXCEPT ![i].at = "done", ![i].ans = Failed]
                      ELSE [wsCalls EXCEPT ![i].at = IF c.op = "config" THEN "open" ELSE "read", ![i].row = row]
        /\ UNCHANGED <<wsServer, wsSyncs, wsHook, wsDialog, wsDialogs, wsGestures, wsSpoilt, wsUnseen>>

\* UpdateSiteConfig keeps what it found and writes the new text.
WsServeWrite(i) ==
    LET c == wsCalls[i]
        d == c.row.dom
    IN  /\ c.at = "open"
        /\ wsServer' = PutConf(wsServer, d, c.text)
        /\ wsCalls' = [wsCalls EXCEPT ![i].at = "read", ![i].orig = wsServer.conf[d]]
        /\ wsSpoilt' = wsSpoilt \cup
               IF \/ wsServer.conf[d] = "none"
                  \/ \E j \in DOMAIN wsCalls \ {i} :
                      wsCalls[j].op = "config" /\ wsCalls[j].at = "read" /\ wsCalls[j].row.dom = d
               THEN {d} ELSE {}
        /\ UNCHANGED <<wsSyncs, wsHook, wsDialog, wsDialogs, wsGestures, wsUnseen>>

\* What an outcome leaves behind: an Update or Delete that stopped half-way, an
\* operation not undone or not known to have been done, the link of a domain the
\* row no longer names, a domain with two rows, a row that changed since it was
\* read.
WsSpoils(c, o) ==
    LET now == wsServer.rows[c.id]
        stale == c.op # "create" /\ now # c.row
        doms == {c.row.dom, c.dom} \cap WsDomains
        shared == {d \in doms : \E j \in WsIds \ {c.id} : o.srv.rows[j].dom = d /\ c.op = "update"}
                  \cup {d \in doms : \E j \in WsIds : wsServer.rows[j].dom = d /\ c.op = "create"}
    IN  IF o.srv = wsServer /\ ~o.half THEN {}
        ELSE IF stale THEN (doms \cup {now.dom}) \cap WsDomains
        ELSE IF o.half \/ (c.op \in {"update", "remove"} /\ ~o.ok) THEN doms
        ELSE shared \cup IF c.op = "update" /\ c.dom # c.row.dom THEN {c.row.dom} ELSE {}

\* The rest of the handler, as far as it gets.
WsServe(i) ==
    LET c == wsCalls[i] IN
    /\ c.at = IF c.op = "create" THEN "sent" ELSE "read"
    /\ c.op = "create" => wsServer.ids < WsMaxIds
    /\ \E o \in WsOutcomes(wsServer, c) :
          /\ wsServer' = o.srv
          /\ wsSpoilt' = wsSpoilt \cup WsSpoils(c, o)
          /\ wsUnseen' = (wsUnseen \/ (c.op \in {"config", "manual"} /\ WsSpoils(c, o) # {}))
          /\ wsCalls' = [wsCalls EXCEPT ![i].at = "done", ![i].ans = IF o.ok THEN Value("ok") ELSE Failed]
    /\ UNCHANGED <<wsSyncs, wsHook, wsDialog, wsDialogs, wsGestures>>

\* The answer is lost on the way.
WsAnswerLost(i) ==
    /\ wsCalls[i].ans = Value("ok")
    /\ wsCalls' = Answer(wsCalls, i, Failed)
    /\ UNCHANGED <<wsServer, wsSyncs, wsHook, wsDialog, wsDialogs, wsGestures, wsSpoilt, wsUnseen>>

(***************************************************************************)
(* The list.  A listing corrects the SSL flags it finds wrong, one whole   *)
(* row after the other.                                                    *)
(***************************************************************************)
WsServeList(c) ==
    LET rows == wsServer.rows
        right(i) == SyncSSL(wsServer, i, rows[i]).rows[i]
    IN  /\ c.ans = Waiting
        /\ wsHook' = AsyncServe(wsHook, c, Value([i \in WsIds |-> IF rows[i] = NoRow THEN NoRow ELSE right(i)]))
        /\ wsSyncs' = wsSyncs \cup
               {[id |-> i, was |-> rows[i], row |-> right(i)] : i \in {j \in WsIds : rows[j] # NoRow /\ right(j) # rows[j]}}
        /\ wsUnseen' = FALSE
        /\ UNCHANGED <<wsServer, wsDialog, wsDialogs, wsCalls, wsGestures, wsSpoilt>>

WsWriteBack(s) ==
    LET now == wsServer.rows[s.id] IN
    /\ wsServer' = PutRow(wsServer, s.id, s.row)
    /\ wsSyncs' = wsSyncs \ {s}
    /\ wsUnseen' = (wsUnseen \/ now \notin {s.was, s.row})
    /\ wsSpoilt' = IF now \in {s.was, s.row} THEN wsSpoilt
                   ELSE wsSpoilt \cup ({s.row.dom, now.dom} \cap WsDomains)
    /\ UNCHANGED <<wsHook, wsDialog, wsDialogs, wsCalls, wsGestures>>

WsListLost(c) ==
    /\ c.ans # Failed
    /\ wsHook' = AsyncServe(wsHook, c, Failed)
    /\ UNCHANGED <<wsServer, wsSyncs, wsDialog, wsDialogs, wsCalls, wsGestures, wsSpoilt, wsUnseen>>

WsListArrives(c) ==
    /\ c.ans # Waiting
    /\ wsHook' = AsyncDeliver(wsHook, c)
    /\ UNCHANGED <<wsServer, wsSyncs, wsDialog, wsDialogs, wsCalls, wsGestures, wsSpoilt, wsUnseen>>

(***************************************************************************)
(* The row buttons.                                                        *)
(***************************************************************************)
\* onToggle: the request names the site only, not what the button offered.
OnToggle(id) ==
    /\ WsOnPage
    /\ WsSend(WsCall("toggle", id, "none", WsShown(id).active, "none"))
    /\ UNCHANGED <<wsServer, wsSyncs, wsHook, wsDialog, wsDialogs, wsSpoilt, wsUnseen>>

OnRemove(id) ==
    /\ WsOnPage
    /\ WsSend(WsCall("remove", id, "none", FALSE, "none"))
    /\ UNCHANGED <<wsServer, wsSyncs, wsHook, wsDialog, wsDialogs, wsSpoilt, wsUnseen>>

(***************************************************************************)
(* The dialogs, one at a time; a dialog opened again is a new one.         *)
(***************************************************************************)
WsOpen(dialog) ==
    /\ WsOnPage
    /\ wsDialog' = dialog
    /\ wsDialogs' = wsDialogs + 1
    /\ UNCHANGED <<wsServer, wsSyncs, wsHook, wsCalls, wsSpoilt, wsUnseen>>

WsNew ==
    /\ WsOnPage
    /\ \E d \in WsDomains : wsDialog' = [kind |-> "form", id |-> 0, dom |-> d, active |-> FALSE]
    /\ wsDialogs' = wsDialogs + 1
    /\ UNCHANGED <<wsServer, wsSyncs, wsHook, wsCalls, wsSpoilt, wsUnseen>>
WsEdit(id) == WsOpen([kind |-> "form", id |-> id, dom |-> WsShown(id).dom, active |-> WsShown(id).active])
WsOpenConfig(id) == WsOpen([kind |-> "config", id |-> id, hook |-> AsyncMount(id), text |-> "none"])
WsOpenSsl(id) ==
    WsOpen([kind |-> "ssl", id |-> id, hook |-> AsyncMount(id), es |-> "none", status |-> "none", job |-> "none"])

WsClose ==
    /\ wsDialog # NoDialog
    /\ wsDialog' = NoDialog
    /\ UNCHANGED <<wsServer, wsSyncs, wsHook, wsDialogs, wsCalls, wsGestures, wsSpoilt, wsUnseen>>

WsInDialog(kind) == wsDialog.kind = kind /\ WsGestures(1)
WsTyped(dialog) ==
    /\ wsDialog' = dialog
    /\ UNCHANGED <<wsServer, wsSyncs, wsHook, wsDialogs, wsCalls, wsSpoilt, wsUnseen>>
WsAsked(c) ==
    /\ WsSend(c)
    /\ UNCHANGED <<wsServer, wsSyncs, wsHook, wsDialog, wsDialogs, wsSpoilt, wsUnseen>>

\* setField.
SetDomain(d) == WsInDialog("form") /\ wsDialog.dom # d /\ WsTyped([wsDialog EXCEPT !.dom = d])
SetActive == WsInDialog("form") /\ WsTyped([wsDialog EXCEPT !.active = ~@])

\* Save of the form is disabled while its request is under way.
OnSubmit ==
    LET op == IF wsDialog.id = 0 THEN "create" ELSE "update" IN
    /\ WsInDialog("form")
    /\ ~WsBusy({op})
    /\ WsAsked(WsCall(op, wsDialog.id, wsDialog.dom, wsDialog.active, "none"))

\* The configuration dialog has its editor once the file was read.
WsEditorShown == wsDialog.kind = "config" /\ AsyncShown(wsDialog.hook)
SetConfig(text) == WsInDialog("config") /\ WsEditorShown /\ WsTyped([wsDialog EXCEPT !.text = text])
SubmitConfig ==
    /\ WsInDialog("config") /\ WsEditorShown /\ ~WsBusy({"config"})
    /\ WsAsked(WsCall("config", wsDialog.id, "none", FALSE, wsDialog.text))

\* nginxConfig and ssl.status: what the dialog shows first, of the file.
WsAnswerTo(dialog) ==
    LET row == wsServer.rows[dialog.id]
        text == IF row = NoRow THEN "none" ELSE wsServer.conf[row.dom]
    IN  IF row = NoRow \/ (dialog.kind = "config" /\ text = "none") THEN Failed
        ELSE Value(IF dialog.kind = "config" THEN text ELSE HasCert(text))

WsServeDialog(c) ==
    /\ c.ans = Waiting
    /\ \E res \in {Failed, WsAnswerTo(wsDialog)} : wsDialog' = [wsDialog EXCEPT !.hook = AsyncServe(@, c, res)]
    /\ UNCHANGED <<wsServer, wsSyncs, wsHook, wsDialogs, wsCalls, wsGestures, wsSpoilt, wsUnseen>>

\* The configuration goes into the editor when it arrives.
WsDialogArrives(c) ==
    /\ c.ans # Waiting
    /\ wsDialog' = IF wsDialog.kind = "config" /\ c.ans # Failed
                   THEN [wsDialog EXCEPT !.hook = AsyncDeliver(@, c), !.text = c.ans[2]]
                   ELSE [wsDialog EXCEPT !.hook = AsyncDeliver(@, c)]
    /\ UNCHANGED <<wsServer, wsSyncs, wsHook, wsDialogs, wsCalls, wsGestures, wsSpoilt, wsUnseen>>

\* The SSL dialog: while the log of a job is on show it covers the rest.
WsSslShown == wsDialog.kind = "ssl" /\ wsDialog.es = "none"
SaveManual ==
    /\ WsInDialog("ssl") /\ WsSslShown /\ AsyncShown(wsDialog.hook) /\ ~WsBusy({"manual"})
    /\ WsAsked(WsCall("manual", wsDialog.id, "none", FALSE, "none"))
RunCertbot ==
    /\ WsInDialog("ssl") /\ WsSslShown /\ ~WsBusy({"certbot"})
    /\ WsAsked(WsCall("certbot", wsDialog.id, "none", FALSE, "none"))

(***************************************************************************)
(* The log of a certbot job.  Its stream ends with the job's status; the   *)
(* service closes it then, or the connection breaks earlier.               *)
(***************************************************************************)
WsStreaming == wsDialog.kind = "ssl" /\ wsDialog.es # "none"
WsStream(dialog) ==
    /\ wsDialog' = dialog
    /\ UNCHANGED <<wsServer, wsSyncs, wsHook, wsDialogs, wsCalls, wsGestures, wsSpoilt, wsUnseen>>

JobEnds ==
    /\ WsStreaming /\ wsDialog.job = "running"
    /\ \E verdict \in {"ok", "failed"} : WsStream([wsDialog EXCEPT !.job = verdict])

\* onLine.
JobLine ==
    /\ WsStreaming /\ wsDialog.es = "open" /\ wsDialog.status = "connecting"
    /\ WsStream([wsDialog EXCEPT !.status = "running"])

\* The handler of done: the status, and the stream is closed.
JobDoneShown(dialog) == [dialog EXCEPT !.status = dialog.job, !.es = "closed"]

JobDone ==
    /\ WsStreaming /\ wsDialog.es = "open" /\ wsDialog.job # "running"
    /\ WsStream(JobDoneShown(wsDialog))

\* onerror, also when the service ends the stream.
JobDisconnected ==
    /\ WsStreaming /\ wsDialog.es = "open"
    /\ WsStream([wsDialog EXCEPT !.status = "error", !.es = "closed"])

\* Closing the log closes the stream; the job goes on.
CloseStream ==
    /\ WsStreaming
    /\ WsStream([wsDialog EXCEPT !.es = "none", !.status = "none", !.job = "none"])

(***************************************************************************)
(* Answers.                                                                *)
(***************************************************************************)
ReloadedNever(c) == wsHook

\* The list is read again after a button or the form, not after the dialogs of
\* the configuration and the certificate.
WsReloaded(c) ==
    IF c.op \in {"toggle", "remove", "create", "update"} /\ c.ans # Failed THEN AsyncReload(wsHook) ELSE wsHook

\* onSaved closes whatever form is open; the SSL dialog reads its status again
\* and opens the log, if it is still the one that asked.
DialogAfter(c) ==
    IF c.ans = Failed THEN wsDialog
    ELSE IF c.op \in {"create", "update"} /\ wsDialog.kind = "form" THEN NoDialog
    ELSE IF c.no # wsDialogs \/ wsDialog.kind # "ssl" THEN wsDialog
    ELSE IF c.op = "manual" THEN [wsDialog EXCEPT !.hook = AsyncReload(@)]
    ELSE IF c.op = "certbot"
         THEN [wsDialog EXCEPT !.hook = AsyncReload(@), !.es = "open", !.status = "connecting", !.job = "running"]
    ELSE wsDialog

WsCallArrives(i) ==
    LET c == wsCalls[i] IN
    /\ c.ans # Waiting
    /\ wsCalls' = Forget(wsCalls, i)
    /\ wsHook' = WsReloaded(c)
    /\ wsDialog' = DialogAfter(c)
    /\ wsUnseen' = (wsUnseen \/ c.ans = Failed)
    /\ UNCHANGED <<wsServer, wsSyncs, wsDialogs, wsGestures, wsSpoilt>>

WsNext ==
    \/ \E c \in wsHook.calls : WsServeList(c) \/ WsListLost(c) \/ WsListArrives(c)
    \/ \E s \in wsSyncs : WsWriteBack(s)
    \/ \E id \in WsRows : OnToggle(id) \/ OnRemove(id) \/ WsEdit(id) \/ WsOpenConfig(id) \/ WsOpenSsl(id)
    \/ WsNew \/ WsClose
    \/ \E d \in WsDomains : SetDomain(d)
    \/ SetActive \/ OnSubmit
    \/ \E text \in WsTexts : SetConfig(text)
    \/ SubmitConfig \/ SaveManual \/ RunCertbot
    \/ wsDialog.kind \in {"config", "ssl"} /\ \E c \in wsDialog.hook.calls : WsServeDialog(c) \/ WsDialogArrives(c)
    \/ JobEnds \/ JobLine \/ JobDone \/ JobDisconnected \/ CloseStream
    \/ \E i \in DOMAIN wsCalls :
         WsServeRead(i) \/ WsServeWrite(i) \/ WsServe(i) \/ WsAnswerLost(i) \/ WsCallArrives(i)

WsSpec == WsInit /\ [][WsNext]_wsVars

(***************************************************************************)
(* Properties.                                                             *)
(***************************************************************************)
\* Types, and what is in flight is bounded.
WsTypeOK ==
    /\ \A i \in WsIds : wsServer.rows[i] = NoRow \/
          (wsServer.rows[i].dom \in WsDomains /\ wsServer.rows[i].active \in BOOLEAN /\ wsServer.rows[i].ssl \in BOOLEAN)
    /\ \A d \in WsDomains : wsServer.conf[d] \in {"none", "form", "hand", "handssl", "bad"}
    /\ wsServer.link \subseteq WsDomains
    /\ wsServer.ids \in 0 .. WsMaxIds
    /\ Len(wsCalls) <= WsMaxCalls

\* A site is served exactly when its row says active: the row, the file and the
\* link agree, also after a toggle or a create that failed at some step and undid
\* the others, for every domain no operation was left half done on (an edit or a
\* delete that stopped, an undoing that failed too, a row written but not read
\* back), moved away from, shared by two rows, or acted on with a row that had
\* changed.
RowMatchesLink ==
    \A i \in WsIds :
        wsServer.rows[i] # NoRow /\ wsServer.rows[i].dom \notin wsSpoilt =>
            /\ wsServer.rows[i].active <=> wsServer.rows[i].dom \in wsServer.link
            /\ wsServer.conf[wsServer.rows[i].dom] # "none"

\* A configuration typed in that nginx refuses is in site.d only while the request
\* that wrote it tests it, unless two such requests overlapped, the file was gone
\* when it was written, or writing the old one back failed.
NoRefusedConfig ==
    \A d \in WsDomains :
        wsServer.conf[d] = "bad" =>
            \/ d \in wsSpoilt
            \/ \E i \in DOMAIN wsCalls : wsCalls[i].op = "config" /\ wsCalls[i].at = "read" /\ wsCalls[i].row.dom = d

\* The list on show is that of the service, but for the SSL badge, once nothing is
\* under way and nothing failed since it was read.
WsRowsCurrent ==
    AsyncShown(wsHook) /\ AsyncSettled(wsHook) /\ wsCalls = <<>> /\ wsSyncs = {} /\ ~wsUnseen =>
        \A i \in WsIds :
            /\ WsShown(i).dom = wsServer.rows[i].dom
            /\ WsShown(i).active = wsServer.rows[i].active

\* The pause button pauses and the play button plays: a toggle that goes through
\* leaves the site in the state the button offered, unless something else was
\* under way between the list and the toggle.
ToggleAsOffered ==
    [][\A i \in DOMAIN wsCalls :
          LET c == wsCalls[i] IN
          c.op = "toggle" /\ c.at = "read" /\ ~c.raced /\ Len(wsCalls') = Len(wsCalls) =>
              (wsCalls'[i].ans # Waiting /\ wsCalls'[i].ans # Failed => wsServer'.rows[c.id].active = ~c.active)]_wsVars

\* The verdict of a job stays on show until its log is closed: the end of the
\* stream does not turn it into a lost connection.
VerdictStands ==
    [][WsStreaming /\ wsDialog.status \in {"ok", "failed"} =>
          \/ wsDialog'.kind # "ssl" \/ wsDialog'.es = "none"
          \/ wsDialog'.status = wsDialog.status]_wsVars

\* What nginx is given is what the rows say, and nothing it refuses.
SitesMatchRows == RowMatchesLink /\ NoRefusedConfig
=============================================================================
