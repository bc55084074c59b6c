----------------------------- MODULE PanelProofs -----------------------------
(***************************************************************************)
(* What is proved of the file manager, the floating terminal and the       *)
(* session holds in the panel: a tab that is on a page does that page's    *)
(* steps, and only those.  Then, directly of the panel: the button of the  *)
(* Logs page, the installs of the Plugins page, the sites behind the       *)
(* Websites page, what the buttons of those two do, that the lists on show *)
(* are those of the service, the events of a tail, and the types of all.   *)
(***************************************************************************)
EXTENDS Panel, FilesPageProofs, TerminalPopupProofs, PanelSessionProofs, FiniteSetTheorems, WellFoundedInduction

\* Each page moves by its own actions, or not at all.
LEMMA PagesTakeTurns ==
  [PanelNext]_panelVars => /\ [FilesNext]_filesVars /\ [PiNext]_piVars /\ [LgNext]_lgVars
                           /\ [WsNext]_wsVars /\ [TpNext]_tpVars /\ [PsNext]_psVars
  <1> SUFFICES ASSUME [PanelNext]_panelVars
               PROVE  /\ [FilesNext]_filesVars /\ [PiNext]_piVars /\ [LgNext]_lgVars
                      /\ [WsNext]_wsVars /\ [TpNext]_tpVars /\ [PsNext]_psVars
    OBVIOUS
  <1>1. CASE page = "terminal" /\ TpNext /\ UNCHANGED <<filesVars, piVars, lgVars, wsVars, psVars>>
    BY <1>1
  <1>2. CASE page = "session" /\ PsNext /\ UNCHANGED <<filesVars, piVars, lgVars, wsVars, tpVars>>
    BY <1>2
  <1>3. CASE page = "files" /\ FilesNext /\ UNCHANGED <<piVars, lgVars, wsVars, tpVars, psVars>>
    BY <1>3
  <1>4. CASE page = "plugins" /\ PiNext /\ UNCHANGED <<filesVars, lgVars, wsVars, tpVars, psVars>>
    BY <1>4
  <1>5. CASE page = "logs" /\ LgNext /\ UNCHANGED <<filesVars, piVars, wsVars, tpVars, psVars>>
    BY <1>5
  <1>6. CASE page = "websites" /\ WsNext /\ UNCHANGED <<filesVars, piVars, lgVars, tpVars, psVars>>
    BY <1>6
  <1>7. CASE UNCHANGED panelVars
    BY <1>7 DEF panelVars
  <1> QED
    BY <1>1, <1>2, <1>3, <1>4, <1>5, <1>6, <1>7 DEF PanelNext, RouteView

\* In the panel the rows of the file manager are those of the directory named
\* above them, whatever order its requests are answered in.
THEOREM PanelListsThisDirectory == PanelSpec => []RowsOfThisDirectory
  <1>1. PanelInit => ListingInv
    BY ListingInit DEF PanelInit
  <1>2. ListingInv /\ [PanelNext]_panelVars => ListingInv'
    BY PagesTakeTurns, ListingNext
  <1>3. ListingInv => RowsOfThisDirectory
    BY DEF ListingInv
  <1> QED
    BY <1>1, <1>2, <1>3, PTL DEF PanelSpec

\* In the panel a pane of the floating terminal comes back to the shell it shows,
\* and no keystroke goes to a shell beside it, whatever the constants are.
THEOREM PanelPanesKeepTheirShell == PanelSpec => []OneShell
  <1>1. PanelInit => PopupInv
    BY PopupInit DEF PanelInit
  <1>2. PopupInv /\ [PanelNext]_panelVars => PopupInv'
    BY PagesTakeTurns, PopupNext
  <1>3. PopupInv => OneShell
    BY DEF PopupInv
  <1> QED
    BY <1>1, <1>2, <1>3, PTL DEF PanelSpec

\* In the panel a session whose logout was answered is not accepted any more, unless
\* the DELETE of its row failed, and but for a lookup that read the row before it was
\* deleted, whatever the constants are.
THEOREM PanelLogoutWorks == PanelSpec => []LoggedOutIsOut
  <1>1. PanelInit => TabTyped /\ OutInv
    BY TabTypedInit, OutInit DEF PanelInit
  <1>2. TabTyped /\ OutInv /\ [PanelNext]_panelVars => (TabTyped /\ OutInv)'
    BY PagesTakeTurns, TabTypedNext, OutNext
  <1>3. TabTyped /\ OutInv => LoggedOutIsOut
    BY OutMeansOut
  <1> QED
    BY <1>1, <1>2, <1>3, PTL DEF PanelSpec

\* In the panel: once its requests are answered the tab shows the lockscreen, the
\* Shell or the login screen, whichever the service would choose.
THEOREM PanelAgrees == PanelSpec => []PageAgrees
  <1>1. PanelInit => TabTyped /\ AgreeInv
    BY TabTypedInit, AgreeInit DEF PanelInit
  <1>2. TabTyped /\ AgreeInv /\ [PanelNext]_panelVars => (TabTyped /\ AgreeInv)'
    BY PagesTakeTurns, TabTypedNext, AgreeNext
  <1> QED
    BY <1>1, <1>2, ShownIsService, PTL DEF PanelSpec

\* In the panel a draft of the file manager that the page calls clean has been on
\* the disk, unless it was edited while an answer that writes it was on its way.
THEOREM PanelDraftsAreHonest == PanelSpec => []CleanMeansStored
  <1>1. PanelInit => EditInv
    BY EditInit DEF PanelInit
  <1>2. EditInv /\ [PanelNext]_panelVars => EditInv'
    BY PagesTakeTurns, EditNext
  <1> QED
    BY <1>1, <1>2, CleanIsStored, PTL DEF PanelSpec

\* In the panel no step of any page loses an edit of the file manager that no
\* answer was to write, and a save brings back no file, unless it had found it
\* before it was deleted or moved away and was about to write it.
THEOREM PanelEditsAreSafe == PanelSpec => EditsAreSafe
  <1>1. PanelInit => EditInv
    BY EditInit DEF PanelInit
  <1>2. EditInv /\ [PanelNext]_panelVars => EditInv'
    BY PagesTakeTurns, EditNext
  <1>3. ASSUME EditInv, [PanelNext]_panelVars
        PROVE  /\ [\A p \in DOMAIN filesDrafts :
                     filesDrafts[p].dirty /\ ~filesDrafts[p].raced
                         => \/ filesDrafts'[p].text = filesDrafts[p].text
                            \/ filesCalls' = filesCalls]_filesVars
               /\ [\A p \in FilesPaths :
                     filesDisk[p] = None /\ filesDisk'[p] # None
                       => \/ filesOthers' # filesOthers
                          \/ \E i \in DOMAIN filesCalls :
                               /\ filesCalls'[i] # filesCalls[i]
                               /\ \/ filesCalls[i].op \notin {"read", "save", "batchSave"}
                                  \/ filesCalls[i].there /\ \E item \in filesCalls[i].found : item[1] = p
                  ]_filesVars
    BY <1>3, PagesTakeTurns, StepIsSafe
  <1> QED
    BY <1>1, <1>2, <1>3, PTL DEF PanelSpec, EditsAreSafe, EditsSurvive, SaveCreatesNothing
-----------------------------------------------------------------------------
(* The Logs page: one query or one stream at a time, and the button knows. *)

WorkFields == {"fetch", "tail", "queue", "seen"}
TailFields == {"state", "search", "last", "wire", "base", "sure"}

TailShape(t) == t = NoTail \/ (DOMAIN t = TailFields /\ t.state \in {"connecting", "open"})

\* A query under way is the only one, and there is no stream beside it.
WorkShape(w) ==
    /\ DOMAIN w = WorkFields
    /\ TailShape(w.tail)
    /\ \A f, g \in w.fetch : f = g
    /\ w.fetch # {} => w.tail = NoTail

\* The inductive invariant: until the metadata is there nothing runs.
ButtonInv ==
    /\ WorkShape(lgWork)
    /\ lgRunning \in BOOLEAN
    /\ lgMeta # "ready" => lgWork = Idle /\ ~lgRunning
    /\ WorkCanBeStopped
    /\ lgRunning => LgWorking \/ lgTurned

LEMMA IdleIsWork == WorkShape(Idle) /\ Idle.fetch = {} /\ Idle.tail = NoTail
  BY DEF Idle, WorkShape, TailShape, WorkFields

LEMMA StreamIsNoTail ==
  ASSUME NEW t, t.state \in {"connecting", "open"} PROVE t # NoTail
  BY DEF NoTail

LEMMA NewTailShape ==
  ASSUME NEW search PROVE TailShape(NewTail(search)) /\ NewTail(search).state = "connecting"
  BY DEF NewTail, TailShape, TailFields

LEMMA StoppedStep ==
  ASSUME lgWork' = Idle, lgRunning' = FALSE PROVE ButtonInv'
  BY IdleIsWork DEF ButtonInv, WorkCanBeStopped, LgWorking, lgTail

\* Run, pressed at rest: what was aborted was no history query.
LEMMA RunStep ==
  ASSUME ButtonInv, ~lgRunning, NEW search, NEW mode, RunSearch(search, mode), lgMeta' = "ready"
  PROVE  ButtonInv'
  <1>1. lgWork.fetch = {}
    BY DEF ButtonInv, WorkCanBeStopped, LgWorking
  <1>2. PICK f : lgWork' = [Idle EXCEPT !.fetch = {} \cup {f}]
    BY DEF RunSearch, LgStarted, Cleanup, Idle
  <1>3. DOMAIN lgWork' = WorkFields /\ lgWork'.fetch = {f} /\ lgWork'.tail = NoTail
    BY <1>2 DEF Idle, WorkFields
  <1>4. WorkShape(lgWork)' /\ LgWorking'
    BY <1>3 DEF WorkShape, TailShape, LgWorking, lgTail
  <1>5. lgRunning' = TRUE
    BY <1>1 DEF RunSearch, AfterAbort
  <1> QED
    BY <1>4, <1>5 DEF ButtonInv, WorkCanBeStopped

\* A stream is open and stays one; the queue and the set of seen ids may move.
LEMMA StreamStep ==
  ASSUME ButtonInv, lgTail # NoTail, UNCHANGED <<lgRunning, lgMeta>>,
         DOMAIN lgWork' = WorkFields, lgWork'.fetch = lgWork.fetch,
         DOMAIN lgWork'.tail = TailFields, lgWork'.tail.state \in {"connecting", "open"}
  PROVE  ButtonInv'
  <1>1. lgWork.fetch = {} /\ lgRunning
    BY DEF ButtonInv, WorkShape, lgTail, WorkCanBeStopped, LgWorking
  <1>2. lgMeta' = "ready"
    BY IdleIsWork DEF ButtonInv, lgTail
  <1>3. lgWork'.tail # NoTail
    BY StreamIsNoTail
  <1> QED
    BY <1>1, <1>2, <1>3 DEF ButtonInv, WorkShape, TailShape, lgTail, WorkCanBeStopped, LgWorking

\* The page: metadata, button, source, mode.
LEMMA ButtonPageSteps ==
  ASSUME ButtonInv,
         LgMetaArrives \/ LgMetaFails \/ PressButton \/ ToggleMode \/ \E s \in LgSources : ChangeSource(s)
  PROVE  ButtonInv'
  <1>1. CASE LgMetaArrives
    <2>1. lgMeta # "ready" /\ lgMeta' = "ready" /\ ~lgRunning
      BY <1>1 DEF LgMetaArrives, ButtonInv
    <2>2. \/ RunSearch(LgDefault, "history")
          \/ UNCHANGED <<lgRunning, lgWork, lgTurned>>
      BY <1>1 DEF LgMetaArrives
    <2> QED
      BY <2>1, <2>2, RunStep DEF ButtonInv, WorkCanBeStopped, LgWorking, lgTail
  <1>2. CASE LgMetaFails
    BY <1>2 DEF LgMetaFails, ButtonInv, WorkCanBeStopped, LgWorking, lgTail
  <1>3. CASE PressButton
    <2>1. lgMeta' = "ready"
      BY <1>3 DEF PressButton
    <2>2. CASE lgRunning
      BY <1>3, <2>2, StoppedStep DEF PressButton, ButtonDoes, Cleanup
    <2>3. CASE ~lgRunning
      BY <1>3, <2>1, <2>3, RunStep DEF PressButton, ButtonDoes
    <2> QED
      BY <2>2, <2>3
  <1>4. CASE ToggleMode
    BY <1>4, StoppedStep DEF ToggleMode, Cleanup
  <1>5. ASSUME NEW s \in LgSources, ChangeSource(s) PROVE ButtonInv'
    <2>1. lgWork' = Idle /\ lgTurned' = TRUE /\ lgMeta = "ready" /\ lgMeta' = lgMeta
      BY <1>5 DEF ChangeSource, Cleanup
    <2>2. lgRunning' \in BOOLEAN
      BY <1>5 DEF ChangeSource, AfterAbort
    <2> QED
      BY <2>1, <2>2, IdleIsWork DEF ButtonInv, WorkCanBeStopped, LgWorking, lgTail
  <1> QED
    BY <1>1, <1>2, <1>3, <1>4, <1>5

\* The query is handled, and its answer arrives: a seed opens a stream.
LEMMA ButtonQuerySteps ==
  ASSUME ButtonInv, NEW f \in lgWork.fetch, LgServeQuery(f) \/ LgQueryArrives(f)
  PROVE  ButtonInv'
  <1>1. /\ DOMAIN lgWork = WorkFields /\ lgWork.fetch = {f} /\ lgWork.tail = NoTail
        /\ lgRunning = TRUE /\ lgMeta = "ready"
    BY IdleIsWork DEF ButtonInv, WorkShape, WorkCanBeStopped, LgWorking
  <1>2. CASE LgServeQuery(f)
    <2>1. PICK g : lgWork' = [lgWork EXCEPT !.fetch = (lgWork.fetch \ {f}) \cup {g}]
      BY <1>2 DEF LgServeQuery
    <2>2. DOMAIN lgWork' = WorkFields /\ lgWork'.fetch = {g} /\ lgWork'.tail = NoTail
      BY <1>1, <2>1 DEF WorkFields
    <2>3. UNCHANGED <<lgRunning, lgMeta>>
      BY <1>2 DEF LgServeQuery
    <2> QED
      BY <1>1, <2>2, <2>3 DEF ButtonInv, WorkShape, TailShape, WorkCanBeStopped, LgWorking
  <1>3. CASE LgQueryArrives(f)
    <2> DEFINE seeded == f.mode = "live" /\ f.ans # Failed
               t == IF seeded THEN NewTail(f.search) ELSE lgWork.tail
    <2>1. lgWork' = [lgWork EXCEPT !.fetch = lgWork.fetch \ {f}, !.tail = t]
      BY <1>3 DEF LgQueryArrives
    <2>2. lgRunning' = seeded /\ UNCHANGED lgMeta
      BY <1>1, <1>3 DEF LgQueryArrives, RunningAfter
    <2>3. TailShape(NewTail(f.search)) /\ NewTail(f.search) # NoTail
      BY NewTailShape, StreamIsNoTail
    <2>4. seeded \in BOOLEAN /\ TailShape(t) /\ (seeded <=> t # NoTail)
      BY <1>1, <2>3 DEF TailShape
    <2> HIDE DEF seeded, t
    <2>5. DOMAIN lgWork' = WorkFields /\ lgWork'.fetch = {} /\ lgWork'.tail = t
      BY <1>1, <2>1 DEF WorkFields
    <2> QED
      BY <1>1, <2>2, <2>4, <2>5 DEF ButtonInv, WorkShape, WorkCanBeStopped, LgWorking, lgTail
  <1> QED
    BY <1>2, <1>3

\* The stream: it connects, ticks, brings events, breaks and closes.
LEMMA ButtonTailSteps ==
  ASSUME ButtonInv,
         LgConnect \/ LgTick \/ LgMessage \/ LgBreaks \/ LgCloses \/ FlushLiveQueue \/ \E s \in LgSources : LgOtherTail(s)
  PROVE  ButtonInv'
  <1> DEFINE t == lgTail
  <1>1. DOMAIN lgWork = WorkFields /\ lgWork.tail = t /\ TailShape(t)
    BY DEF ButtonInv, WorkShape, lgTail
  <1>2. t.state \in {"connecting", "open"} => t # NoTail
    BY StreamIsNoTail
  <1>3. t # NoTail => DOMAIN t = TailFields /\ t.state \in {"connecting", "open"}
    BY <1>1 DEF TailShape
  <1>4. ASSUME NEW u, TailTo(u), t # NoTail, DOMAIN u = TailFields, u.state \in {"connecting", "open"},
               UNCHANGED <<lgRunning, lgMeta>>
        PROVE  ButtonInv'
    <2>1. DOMAIN lgWork' = WorkFields /\ lgWork'.tail = u /\ lgWork'.fetch = lgWork.fetch
      BY <1>1, <1>4 DEF TailTo, WorkFields
    <2> QED
      BY <1>4, <2>1, StreamStep
  <1>5. CASE LgConnect
    <2>1. PICK c : TailTo([t EXCEPT !.state = "open", !.base = IF t.last = 0 THEN c ELSE t.base])
      BY <1>5, Zenon DEF LgConnect
    <2>2. t # NoTail /\ UNCHANGED <<lgRunning, lgMeta>>
      BY <1>2, <1>5, Zenon DEF LgConnect, lgPage
    <2> DEFINE u == [t EXCEPT !.state = "open", !.base = IF t.last = 0 THEN c ELSE t.base]
    <2>3. DOMAIN u = TailFields /\ u.state = "open"
      BY <1>3, <2>2 DEF TailFields
    <2> QED
      BY <1>4, <2>1, <2>2, <2>3
  <1>6. CASE LgTick
    <2>1. PICK w : TailTo([t EXCEPT !.wire = w])
      BY <1>6 DEF LgTick
    <2>2. t # NoTail /\ UNCHANGED <<lgRunning, lgMeta>>
      BY <1>2, <1>6 DEF LgTick, lgPage
    <2> DEFINE u == [t EXCEPT !.wire = w]
    <2>3. DOMAIN u = TailFields /\ u.state = t.state
      BY <1>3, <2>2 DEF TailFields
    <2> QED
      BY <1>3, <1>4, <2>1, <2>2, <2>3
  <1>7. CASE LgBreaks
    <2>1. PICK sure : TailTo([t EXCEPT !.state = "connecting", !.wire = <<>>, !.sure = sure])
      BY <1>7, Zenon DEF LgBreaks
    <2>2. t # NoTail /\ UNCHANGED <<lgRunning, lgMeta>>
      BY <1>2, <1>7 DEF LgBreaks, lgPage
    <2> DEFINE u == [t EXCEPT !.state = "connecting", !.wire = <<>>, !.sure = sure]
    <2>3. DOMAIN u = TailFields /\ u.state = "connecting"
      BY <1>3, <2>2 DEF TailFields
    <2> QED
      BY <1>4, <2>1, <2>2, <2>3
  <1>8. ASSUME NEW s \in LgSources, LgOtherTail(s) PROVE ButtonInv'
    <2>1. UNCHANGED <<lgRunning, lgMeta, lgTurned>>
      BY <1>8 DEF LgOtherTail, lgPage
    <2>2. CASE UNCHANGED lgWork
      BY <2>1, <2>2 DEF ButtonInv, WorkCanBeStopped, LgWorking, lgTail
    <2>3. CASE ~UNCHANGED lgWork
      <3>1. t # NoTail /\ TailTo([t EXCEPT !.sure = FALSE])
        BY <1>8, <2>3 DEF LgOtherTail
      <3> DEFINE u == [t EXCEPT !.sure = FALSE]
      <3>2. DOMAIN u = TailFields /\ u.state = t.state
        BY <1>3, <3>1 DEF TailFields
      <3> QED
        BY <1>3, <1>4, <2>1, <3>1, <3>2
    <2> QED
      BY <2>2, <2>3
  <1>9. CASE LgMessage
    <2> DEFINE u == [t EXCEPT !.wire = Tail(t.wire), !.last = Head(t.wire)[1]]
    <2>1. PICK q : lgWork' = [lgWork EXCEPT !.tail = u, !.queue = q]
      BY <1>9, Zenon DEF LgMessage
    <2>2. t # NoTail /\ UNCHANGED <<lgRunning, lgMeta>>
      BY <1>2, <1>9 DEF LgMessage, lgPage
    <2>3. DOMAIN u = TailFields /\ u.state = t.state
      BY <1>3, <2>2 DEF TailFields
    <2> HIDE DEF u
    <2>4. DOMAIN lgWork' = WorkFields /\ lgWork'.tail = u /\ lgWork'.fetch = lgWork.fetch
      BY <1>1, <2>1 DEF WorkFields
    <2> QED
      BY <1>3, <2>2, <2>3, <2>4, StreamStep
  <1>10. CASE LgCloses
    <2>1. t # NoTail /\ TailTo(NoTail) /\ lgRunning' = FALSE /\ UNCHANGED lgMeta
      BY <1>2, <1>10 DEF LgCloses, lgPage
    <2>2. lgWork.fetch = {} /\ lgMeta = "ready"
      BY <2>1, IdleIsWork DEF ButtonInv, WorkShape, lgTail
    <2>3. DOMAIN lgWork' = WorkFields /\ lgWork'.tail = NoTail /\ lgWork'.fetch = {}
      BY <1>1, <2>1, <2>2 DEF TailTo, WorkFields
    <2> QED
      BY <2>1, <2>2, <2>3 DEF ButtonInv, WorkShape, TailShape, WorkCanBeStopped, LgWorking, lgTail
  <1>11. CASE FlushLiveQueue
    <2>1. lgWork.queue # <<>> /\ UNCHANGED <<lgRunning, lgMeta, lgTurned>>
      BY <1>11 DEF FlushLiveQueue, lgPage
    <2>2. PICK seen : lgWork' = [lgWork EXCEPT !.queue = <<>>, !.seen = seen]
      BY <1>11, Zenon DEF FlushLiveQueue
    <2>3. DOMAIN lgWork' = WorkFields /\ lgWork'.tail = lgWork.tail /\ lgWork'.fetch = lgWork.fetch
      BY <1>1, <2>2 DEF WorkFields
    <2>4. lgMeta = "ready"
      BY <2>1 DEF ButtonInv, Idle
    <2> QED
      BY <2>1, <2>3, <2>4 DEF ButtonInv, WorkShape, WorkCanBeStopped, LgWorking, lgTail
  <1> QED
    BY <1>5, <1>6, <1>7, <1>8, <1>9, <1>10, <1>11

LEMMA ButtonInit == LgInit => ButtonInv
  BY IdleIsWork DEF LgInit, ButtonInv, WorkCanBeStopped, LgWorking, lgTail

LEMMA ButtonNext == ButtonInv /\ [LgNext]_lgVars => ButtonInv'
  <1> SUFFICES ASSUME ButtonInv, [LgNext]_lgVars PROVE ButtonInv'
    OBVIOUS
  <1>1. CASE UNCHANGED <<lgWork, lgRunning, lgMeta, lgTurned>>
    BY <1>1 DEF ButtonInv, WorkCanBeStopped, LgWorking, lgTail
  <1>2. CASE LgMetaArrives \/ LgMetaFails \/ PressButton \/ ToggleMode \/ \E s \in LgSources : ChangeSource(s)
    BY <1>2, ButtonPageSteps
  <1>3. CASE \E f \in lgWork.fetch : LgServeQuery(f) \/ LgQueryArrives(f)
    BY <1>3, ButtonQuerySteps
  <1>4. CASE LgConnect \/ LgTick \/ LgMessage \/ LgBreaks \/ LgCloses \/ FlushLiveQueue \/ \E s \in LgSources : LgOtherTail(s)
    BY <1>4, ButtonTailSteps
  <1>5. ASSUME NEW x, LgAppend(x) \/ LgJobGrows(x) \/ ChangeQuery(x) \/ SaveAs(x) \/ CommitRename(x) \/ LoadSaved(x) \/ HandleDelete(x)
                      \/ LgServeSaved(x) \/ LgSavedLost(x) \/ LgSavedArrives(x)
        PROVE  ButtonInv'
    BY <1>1, <1>5 DEF LgAppend, LgJobGrows, ChangeQuery, SaveAs, CommitRename, LoadSaved, HandleDelete, LgServeSaved, LgSavedLost,
                      LgSavedArrives, lgPage, lgPane
  <1>6. ASSUME NEW field, NEW r, LgAskRow(field, r) PROVE ButtonInv'
    BY <1>1, <1>6 DEF LgAskRow, lgPane
  <1>7. CASE CloseMenu
    BY <1>1, <1>7 DEF CloseMenu, lgPane
  <1>8. CASE UNCHANGED lgVars
    BY <1>1, <1>8 DEF lgVars
  <1> QED
    BY <1>2, <1>3, <1>4, <1>5, <1>6, <1>7, <1>8 DEF LgNext

\* In the panel the button of the Logs page reads Stop while a query or a stream is
\* open, and only then unless the source was changed: whatever is aborted, fails,
\* breaks or arrives late, for any sources, queries and bounds.
THEOREM PanelStopButton == PanelSpec => []StopButton
  <1>1. PanelInit => ButtonInv
    BY ButtonInit DEF PanelInit
  <1>2. ButtonInv /\ [PanelNext]_panelVars => ButtonInv'
    BY PagesTakeTurns, ButtonNext
  <1>3. ButtonInv => StopButton
    BY DEF ButtonInv, StopButton, StopMeansWork, EventStream
  <1> QED
    BY <1>1, <1>2, <1>3, PTL DEF PanelSpec
-----------------------------------------------------------------------------
(* The Plugins page: what is installed was asked for and acknowledged.     *)

InstallFormFields == {"mode", "ref", "preview", "ack"}
PiCallFields == {"op", "v", "src", "token", "shown", "page", "modal", "raced", "ans"}

\* Tokens are issued once, and each names itself in its plan.
TokensOK(tokens, issued) ==
    /\ issued \in Nat
    /\ DOMAIN tokens \subseteq 1 .. issued
    /\ \A t \in DOMAIN tokens : tokens[t].token = t

\* A plan the service issued: while its token is good, it is the token's plan.
Genuine(plan, tokens, issued) ==
    /\ plan.token \in 1 .. issued
    /\ plan.token \in DOMAIN tokens => tokens[plan.token] = plan

\* The dialog: what is ticked beside a preview was ticked on that preview.
InstallFormOK(form, tokens, issued) ==
    \/ form = NoForm
    \/ /\ DOMAIN form = InstallFormFields
       /\ form.mode \in LocalModes \cup PiModes
       /\ form.preview # NoPlan => Genuine(form.preview, tokens, issued) /\ form.ack \in {NoPlan, form.preview}

\* A request: a resolve is answered with a genuine plan, a remote install carries
\* the token of the plan that was ticked.
PiCallOK(c, tokens, issued) ==
    /\ DOMAIN c = PiCallFields
    /\ c.op = "resolve" => c.v = "none" /\ (c.ans \in {Waiting, Failed} \/ Genuine(c.ans[2], tokens, issued))
    /\ c.op = "install" /\ c.v = "none" /\ c.token # 0
           => c.shown.token = c.token /\ Genuine(c.shown, tokens, issued)

PiCallsOK(calls, tokens, issued) ==
    /\ \E S : calls \in Seq(S)
    /\ \A i \in DOMAIN calls : PiCallOK(calls[i], tokens, issued)

\* An install went through as it was consented to, and its token is gone.
ConsentedTo(x, tokens, issued) ==
    /\ x.plan.src = x.asked
    /\ x.ack = x.plan
    /\ x.plan.pinned => x.art = x.plan.art
    /\ x.plan.token \in (1 .. issued) \ DOMAIN tokens

\* The inductive invariant.
ConsentInv ==
    /\ TokensOK(piTokens, piIssued)
    /\ InstallFormOK(piForm, piTokens, piIssued)
    /\ PiCallsOK(piCalls, piTokens, piIssued)
    /\ \A x \in piInstalled : ConsentedTo(x, piTokens, piIssued)
    /\ TokenUsedOnce

\* The service moved on: tokens were issued, used or forgotten.
Later(tokens, issued, after, more) ==
    /\ issued \in Nat /\ more \in Nat /\ issued <= more
    /\ \A t \in 1 .. issued : t \in DOMAIN after => t \in DOMAIN tokens /\ after[t] = tokens[t]

LEMMA GenuineStays ==
  ASSUME NEW tokens, NEW issued, NEW after, NEW more, Later(tokens, issued, after, more),
         NEW plan, Genuine(plan, tokens, issued)
  PROVE  Genuine(plan, after, more)
  <1>1. plan.token \in 1 .. issued /\ issued \in Nat /\ more \in Nat /\ issued <= more
    BY DEF Later, Genuine
  <1>2. plan.token \in 1 .. more
    BY <1>1
  <1>3. plan.token \in DOMAIN after => after[plan.token] = plan
    BY <1>1 DEF Later, Genuine
  <1> QED
    BY <1>2, <1>3 DEF Genuine

LEMMA CallStays ==
  ASSUME NEW tokens, NEW issued, NEW after, NEW more, Later(tokens, issued, after, more),
         NEW c, PiCallOK(c, tokens, issued)
  PROVE  PiCallOK(c, after, more)
  <1>1. Genuine(c.ans[2], tokens, issued) => Genuine(c.ans[2], after, more)
    BY GenuineStays
  <1>2. Genuine(c.shown, tokens, issued) => Genuine(c.shown, after, more)
    BY GenuineStays
  <1> QED
    BY <1>1, <1>2 DEF PiCallOK

LEMMA PlansStay ==
  ASSUME NEW tokens, NEW issued, NEW after, NEW more, Later(tokens, issued, after, more)
  PROVE  /\ \A form : InstallFormOK(form, tokens, issued) => InstallFormOK(form, after, more)
         /\ \A calls : PiCallsOK(calls, tokens, issued) => PiCallsOK(calls, after, more)
         /\ \A x : ConsentedTo(x, tokens, issued) => ConsentedTo(x, after, more)
  <1>1. ASSUME NEW form, InstallFormOK(form, tokens, issued) PROVE InstallFormOK(form, after, more)
    <2>1. Genuine(form.preview, tokens, issued) => Genuine(form.preview, after, more)
      BY GenuineStays
    <2> QED
      BY <1>1, <2>1 DEF InstallFormOK
  <1>2. ASSUME NEW calls, PiCallsOK(calls, tokens, issued) PROVE PiCallsOK(calls, after, more)
    BY <1>2, CallStays DEF PiCallsOK
  <1>3. ASSUME NEW x, ConsentedTo(x, tokens, issued) PROVE ConsentedTo(x, after, more)
    <2>1. /\ x.plan.token \in 1 .. issued /\ x.plan.token \notin DOMAIN tokens
          /\ issued \in Nat /\ more \in Nat /\ issued <= more
      BY <1>3 DEF ConsentedTo, Later
    <2>2. x.plan.token \in (1 .. more) \ DOMAIN after
      BY <2>1 DEF Later
    <2> QED
      BY <1>3, <2>2 DEF ConsentedTo
  <1> QED
    BY <1>1, <1>2, <1>3

\* What happens to one request.
LEMMA CallEdits ==
  ASSUME NEW tokens, NEW issued, NEW c, PiCallOK(c, tokens, issued)
  PROVE  /\ PiCallOK([c EXCEPT !.raced = TRUE], tokens, issued)
         /\ \A field \in {"page", "modal"} : PiCallOK([c EXCEPT ![field] = FALSE], tokens, issued)
         /\ \A ans : (c.op = "resolve" => ans \in {Waiting, Failed} \/ Genuine(ans[2], tokens, issued))
                       => PiCallOK([c EXCEPT !.ans = ans], tokens, issued)
  <1>1. ASSUME NEW d, DOMAIN d = PiCallFields, d.op = c.op, d.v = c.v, d.token = c.token, d.shown = c.shown,
               d.ans = c.ans \/ (c.op = "resolve" => d.ans \in {Waiting, Failed} \/ Genuine(d.ans[2], tokens, issued))
        PROVE  PiCallOK(d, tokens, issued)
    BY <1>1 DEF PiCallOK
  <1>2. DOMAIN c = PiCallFields
    BY DEF PiCallOK
  <1>3. PiCallOK([c EXCEPT !.raced = TRUE], tokens, issued)
    <2> DEFINE d == [c EXCEPT !.raced = TRUE]
    <2>1. DOMAIN d = PiCallFields /\ d.op = c.op /\ d.v = c.v /\ d.token = c.token /\ d.shown = c.shown /\ d.ans = c.ans
      BY <1>2 DEF PiCallFields
    <2> HIDE DEF d
    <2>2. PiCallOK(d, tokens, issued)
      BY <1>1, <2>1
    <2> QED
      BY <2>2 DEF d
  <1>4. ASSUME NEW field \in {"page", "modal"} PROVE PiCallOK([c EXCEPT ![field] = FALSE], tokens, issued)
    <2> DEFINE d == [c EXCEPT ![field] = FALSE]
    <2>1. DOMAIN d = PiCallFields /\ d.op = c.op /\ d.v = c.v /\ d.token = c.token /\ d.shown = c.shown /\ d.ans = c.ans
      BY <1>2 DEF PiCallFields
    <2> HIDE DEF d
    <2>2. PiCallOK(d, tokens, issued)
      BY <1>1, <2>1
    <2> QED
      BY <2>2 DEF d
  <1>5. ASSUME NEW ans, c.op = "resolve" => ans \in {Waiting, Failed} \/ Genuine(ans[2], tokens, issued)
        PROVE  PiCallOK([c EXCEPT !.ans = ans], tokens, issued)
    <2> DEFINE d == [c EXCEPT !.ans = ans]
    <2>1. DOMAIN d = PiCallFields /\ d.op = c.op /\ d.v = c.v /\ d.token = c.token /\ d.shown = c.shown /\ d.ans = ans
      BY <1>2 DEF PiCallFields
    <2> HIDE DEF d
    <2>2. PiCallOK(d, tokens, issued)
      BY <1>1, <1>5, <2>1
    <2> QED
      BY <2>2 DEF d
  <1> QED
    BY <1>3, <1>4, <1>5

\* What happens to the requests in flight.
LEMMA CallsMapped ==
  ASSUME NEW tokens, NEW issued, NEW calls, PiCallsOK(calls, tokens, issued),
         NEW new, new = [i \in DOMAIN calls |-> new[i]], \A i \in DOMAIN calls : PiCallOK(new[i], tokens, issued)
  PROVE  PiCallsOK(new, tokens, issued)
  <1>1. PICK S : calls \in Seq(S)
    BY DEF PiCallsOK
  <1>2. Len(calls) \in Nat /\ DOMAIN calls = 1 .. Len(calls)
    BY <1>1, LenProperties
  <1> DEFINE T == {new[i] : i \in DOMAIN calls}
  <1>3. new \in Seq(T)
    BY <1>2, IsASeq
  <1> HIDE DEF T
  <1>4. DOMAIN new = DOMAIN calls
    OBVIOUS
  <1> QED
    BY <1>3, <1>4 DEF PiCallsOK

LEMMA CallsSent ==
  ASSUME NEW tokens, NEW issued, NEW calls, PiCallsOK(calls, tokens, issued), NEW c, PiCallOK(c, tokens, issued)
  PROVE  PiCallsOK(Send(calls, c), tokens, issued)
  <1> DEFINE d == [c EXCEPT !.ans = Waiting]
  <1>1. PiCallOK(d, tokens, issued)
    BY CallEdits
  <1> HIDE DEF d
  <1>2. PICK S : calls \in Seq(S)
    BY DEF PiCallsOK
  <1>3. /\ Append(calls, d) \in Seq(S \cup {d})
        /\ Len(Append(calls, d)) = Len(calls) + 1
        /\ \A i \in 1 .. Len(calls) : Append(calls, d)[i] = calls[i]
        /\ Append(calls, d)[Len(calls) + 1] = d
    <2>1. calls \in Seq(S \cup {d}) /\ d \in S \cup {d}
      BY <1>2
    <2> QED
      BY <2>1, AppendProperties
  <1>4. /\ Len(calls) \in Nat /\ DOMAIN calls = 1 .. Len(calls)
        /\ DOMAIN Append(calls, d) = 1 .. Len(calls) + 1
    BY <1>2, <1>3, LenProperties
  <1>5. \A i \in 1 .. Len(calls) + 1 : i \in 1 .. Len(calls) \/ i = Len(calls) + 1
    BY <1>4
  <1>6. \A i \in DOMAIN Append(calls, d) : PiCallOK(Append(calls, d)[i], tokens, issued)
    BY <1>1, <1>3, <1>4, <1>5 DEF PiCallsOK
  <1>7. Send(calls, c) = Append(calls, d)
    BY DEF Send, d
  <1> QED
    BY <1>3, <1>6, <1>7 DEF PiCallsOK

LEMMA CallsForgotten ==
  ASSUME NEW tokens, NEW issued, NEW calls, PiCallsOK(calls, tokens, issued), NEW i \in DOMAIN calls
  PROVE  PiCallsOK(Forget(calls, i), tokens, issued)
  <1>1. PICK S : calls \in Seq(S)
    BY DEF PiCallsOK
  <1> QED
    BY <1>1, ForgetTakes DEF PiCallsOK

LEMMA CallsAnswered ==
  ASSUME NEW tokens, NEW issued, NEW calls, PiCallsOK(calls, tokens, issued), NEW i \in DOMAIN calls, NEW ans,
         calls[i].op = "resolve" => ans \in {Waiting, Failed} \/ Genuine(ans[2], tokens, issued)
  PROVE  PiCallsOK(Answer(calls, i, ans), tokens, issued)
  <1> DEFINE d == [calls[i] EXCEPT !.ans = ans]
             new == [calls EXCEPT ![i] = d]
  <1>1. PiCallOK(d, tokens, issued)
    <2>1. PiCallOK(calls[i], tokens, issued)
      BY DEF PiCallsOK
    <2> QED
      BY <2>1, CallEdits
  <1>2. Answer(calls, i, ans) = new
    BY DEF Answer
  <1> HIDE DEF d
  <1>3. new = [j \in DOMAIN calls |-> new[j]]
    BY DEF PiCallsOK
  <1>4. \A j \in DOMAIN calls : PiCallOK(new[j], tokens, issued)
    BY <1>1 DEF PiCallsOK
  <1> HIDE DEF new
  <1> QED
    BY <1>2, <1>3, <1>4, CallsMapped

LEMMA CallsOrphaned ==
  ASSUME NEW field \in {"page", "modal"}, PiCallsOK(piCalls, piTokens, piIssued)
  PROVE  PiCallsOK(PiOrphans(field), piTokens, piIssued) /\ DOMAIN PiOrphans(field) = DOMAIN piCalls
  <1> DEFINE new == PiOrphans(field)
  <1>1. new = [i \in DOMAIN piCalls |-> [piCalls[i] EXCEPT ![field] = FALSE]]
    BY DEF PiOrphans
  <1> HIDE DEF new
  <1>2. new = [i \in DOMAIN piCalls |-> new[i]] /\ DOMAIN new = DOMAIN piCalls
    BY <1>1
  <1>3. \A i \in DOMAIN piCalls : PiCallOK(new[i], piTokens, piIssued)
    BY <1>1, CallEdits DEF PiCallsOK
  <1>4. PiCallsOK(new, piTokens, piIssued)
    BY <1>2, <1>3, CallsMapped
  <1> QED
    BY <1>2, <1>4 DEF new

LEMMA CallsRaced ==
  ASSUME PiCallsOK(piCalls, piTokens, piIssued)
  PROVE  PiCallsOK([i \in DOMAIN piCalls |-> [piCalls[i] EXCEPT !.raced = TRUE]], piTokens, piIssued)
  <1> DEFINE new == [i \in DOMAIN piCalls |-> [piCalls[i] EXCEPT !.raced = TRUE]]
  <1>1. new = [i \in DOMAIN piCalls |-> new[i]]
    OBVIOUS
  <1>2. \A i \in DOMAIN piCalls : PiCallOK(new[i], piTokens, piIssued)
    BY CallEdits DEF PiCallsOK
  <1> HIDE DEF new
  <1>3. PiCallsOK(new, piTokens, piIssued)
    BY <1>1, <1>2, CallsMapped
  <1> QED
    BY <1>3 DEF new

\* The service's part stays: the dialog and the requests have to be right again.
LEMMA ConsentKept ==
  ASSUME ConsentInv, UNCHANGED <<piTokens, piIssued, piInstalled>>,
         InstallFormOK(piForm', piTokens, piIssued), PiCallsOK(piCalls', piTokens, piIssued)
  PROVE  ConsentInv'
  BY DEF ConsentInv, TokenUsedOnce

\* No plan that is on show, on its way or installed is touched.
LEMMA ServiceMoves ==
  ASSUME ConsentInv, TokensOK(piTokens', piIssued'), Later(piTokens, piIssued, piTokens', piIssued'),
         UNCHANGED <<piForm, piInstalled>>, PiCallsOK(piCalls', piTokens', piIssued')
  PROVE  ConsentInv'
  <1> DEFINE after == piTokens'
             more == piIssued'
  <1>1. Later(piTokens, piIssued, after, more)
    OBVIOUS
  <1> HIDE DEF after, more
  <1>2. InstallFormOK(piForm, after, more) /\ \A x \in piInstalled : ConsentedTo(x, after, more)
    BY <1>1, PlansStay DEF ConsentInv
  <1> QED
    BY <1>2 DEF ConsentInv, TokenUsedOnce, after, more

LEMMA ConsentSends ==
  ASSUME ConsentInv, NEW c, PiCallOK(c, piTokens, piIssued), PiSend(c)
  PROVE  PiCallsOK(piCalls', piTokens, piIssued)
  BY CallsRaced, CallsSent DEF PiSend, ConsentInv

\* Submit sends an install: of a remote source with the token that was ticked.
LEMMA SubmitSends ==
  ASSUME ConsentInv, NEW art, PiSubmit(art)
  PROVE  \E c : PiSend(c) /\ c.op = "install" /\ PiCallOK(c, piTokens, piIssued)
  <1>1. piForm # NoForm /\ ~installDisabled
    BY DEF PiSubmit
  <1>2. /\ DOMAIN piForm = InstallFormFields /\ piForm.mode \in LocalModes \cup PiModes
        /\ piForm.preview # NoPlan => Genuine(piForm.preview, piTokens, piIssued) /\ piForm.ack \in {NoPlan, piForm.preview}
    BY <1>1 DEF ConsentInv, InstallFormOK
  <1>3. CASE piForm.mode \in LocalModes
    <2> DEFINE c == PiCall("install", PiVersionOf[art], NoSource, 0, NoPlan)
    <2>1. PiSend(c)
      BY <1>3 DEF PiSubmit
    <2>2. PiCallOK(c, piTokens, piIssued) /\ c.op = "install"
      BY DEF PiCall, PiCallOK, PiCallFields
    <2> HIDE DEF c
    <2> QED
      BY <2>1, <2>2
  <1>4. CASE piForm.mode \notin LocalModes
    <2> DEFINE c == PiCall("install", "none", PiSource, piForm.preview.token, piForm.ack)
    <2>1. PiSend(c)
      BY <1>4 DEF PiSubmit
    <2>2. piForm.preview # NoPlan /\ piForm.ack # NoPlan
      BY <1>1, <1>2, <1>4 DEF installDisabled
    <2>3. piForm.ack = piForm.preview /\ Genuine(piForm.ack, piTokens, piIssued)
      BY <1>2, <2>2
    <2>4. PiCallOK(c, piTokens, piIssued) /\ c.op = "install"
      BY <2>3 DEF PiCall, PiCallOK, PiCallFields
    <2> HIDE DEF c
    <2> QED
      BY <2>1, <2>4
  <1> QED
    BY <1>3, <1>4

\* The dialog.
LEMMA ConsentDialogSteps ==
  ASSUME ConsentInv,
         \/ PiOpenInstall \/ PiCloseInstall \/ PiAcknowledge \/ PiResolve
         \/ \E mode \in LocalModes \cup PiModes : switchMode(mode)
         \/ \E ref \in UNION {PiRefs[m] : m \in PiModes} : PiEdit(ref)
         \/ \E art \in PiArtifacts : PiSubmit(art)
  PROVE  ConsentInv'
  <1>1. InstallFormOK(piForm, piTokens, piIssued) /\ PiCallsOK(piCalls, piTokens, piIssued)
    BY DEF ConsentInv
  <1>2. piForm # NoForm => DOMAIN piForm = InstallFormFields /\ piForm.mode \in LocalModes \cup PiModes
    BY <1>1 DEF InstallFormOK
  <1>3. ASSUME NEW form, PiFormChange(form), InstallFormOK(form, piTokens, piIssued) PROVE ConsentInv'
    BY <1>1, <1>3, ConsentKept DEF PiFormChange, piServer
  <1>4. CASE PiOpenInstall
    <2> DEFINE ref == [m \in PiModes |-> NoRef]
               form == [mode |-> "artifact", ref |-> ref, preview |-> NoPlan, ack |-> NoPlan]
    <2>1. piForm' = form /\ UNCHANGED <<piTokens, piIssued, piInstalled, piCalls>>
      BY <1>4 DEF PiOpenInstall, piServer
    <2> HIDE DEF ref
    <2>2. InstallFormOK(form, piTokens, piIssued)
      BY DEF InstallFormOK, InstallFormFields, LocalModes
    <2> QED
      BY <1>1, <2>1, <2>2, ConsentKept
  <1>5. CASE PiCloseInstall
    <2>1. piForm' = NoForm /\ piCalls' = PiOrphans("modal") /\ UNCHANGED <<piTokens, piIssued, piInstalled>>
      BY <1>5 DEF PiCloseInstall, piServer
    <2>2. InstallFormOK(NoForm, piTokens, piIssued)
      BY DEF InstallFormOK
    <2> QED
      BY <1>1, <2>1, <2>2, CallsOrphaned, ConsentKept
  <1>6. CASE PiAcknowledge
    <2> DEFINE ack == IF piForm.ack = NoPlan THEN piForm.preview ELSE NoPlan
               form == [piForm EXCEPT !.ack = ack]
    <2>1. PiFormChange(form) /\ piForm # NoForm
      BY <1>6 DEF PiAcknowledge, PiFormChange
    <2>2. ack \in {NoPlan, piForm.preview}
      OBVIOUS
    <2> HIDE DEF ack
    <2>3. DOMAIN form = InstallFormFields /\ form.mode = piForm.mode /\ form.preview = piForm.preview /\ form.ack = ack
      BY <1>2, <2>1 DEF InstallFormFields
    <2> HIDE DEF form
    <2>4. InstallFormOK(form, piTokens, piIssued)
      BY <1>1, <1>2, <2>1, <2>2, <2>3 DEF InstallFormOK
    <2> QED
      BY <1>3, <2>1, <2>4
  <1>7. ASSUME NEW mode \in LocalModes \cup PiModes, switchMode(mode) PROVE ConsentInv'
    <2>1. PICK kept : PiFormChange([mode |-> mode, ref |-> kept, preview |-> NoPlan, ack |-> NoPlan])
      BY <1>7 DEF switchMode
    <2> DEFINE form == [mode |-> mode, ref |-> kept, preview |-> NoPlan, ack |-> NoPlan]
    <2>2. InstallFormOK(form, piTokens, piIssued)
      BY DEF InstallFormOK, InstallFormFields
    <2> QED
      BY <1>3, <2>1, <2>2
  <1>8. ASSUME NEW ref, PiEdit(ref) PROVE ConsentInv'
    <2> DEFINE form == [piForm EXCEPT !.ref[piForm.mode] = ref, !.preview = NoPlan,
                                      !.ack = IF piForm.mode = "catalog" THEN NoPlan ELSE @]
    <2>1. PiFormChange(form) /\ piForm # NoForm
      BY <1>8, Zenon DEF PiEdit, PiFormChange
    <2>2. DOMAIN form = InstallFormFields /\ form.mode = piForm.mode /\ form.preview = NoPlan
      BY <1>2, <2>1 DEF InstallFormFields
    <2> HIDE DEF form
    <2>3. InstallFormOK(form, piTokens, piIssued)
      BY <1>2, <2>1, <2>2 DEF InstallFormOK
    <2> QED
      BY <1>3, <2>1, <2>3
  <1>9. CASE PiResolve
    <2> DEFINE c == PiCall("resolve", "none", PiSource, 0, NoPlan)
    <2>1. PiSend(c) /\ UNCHANGED <<piTokens, piIssued, piInstalled, piForm>>
      BY <1>9 DEF PiResolve, piServer
    <2>2. PiCallOK(c, piTokens, piIssued)
      BY DEF PiCall, PiCallOK, PiCallFields
    <2> HIDE DEF c
    <2> QED
      BY <1>1, <2>1, <2>2, ConsentSends, ConsentKept
  <1>10. ASSUME NEW art \in PiArtifacts, PiSubmit(art) PROVE ConsentInv'
    <2>1. PICK c : PiSend(c) /\ PiCallOK(c, piTokens, piIssued)
      BY <1>10, SubmitSends
    <2>2. UNCHANGED <<piTokens, piIssued, piInstalled, piForm>>
      BY <1>10 DEF PiSubmit, piServer
    <2> QED
      BY <1>1, <2>1, <2>2, ConsentSends, ConsentKept
  <1> QED
    BY <1>4, <1>5, <1>6, <1>7, <1>8, <1>9, <1>10

\* The rest of the page, other tabs, the world outside and a restart.
LEMMA ConsentPageSteps ==
  ASSUME ConsentInv,
         \/ \E view \in {"registry", "route"} : PiNavigate(view)
         \/ PiReload
         \/ \E c \in piHook.calls : PiServeList(c) \/ PiListArrives(c)
         \/ \E op \in {"enable", "switch", "disable", "uninstall"}, v \in PiVersions : PiRowAction(op, v) \/ PiOther(op, v)
         \/ \E ref \in DOMAIN PiUpstream0, art \in PiArtifacts : PiUpstreamMoves(ref, art)
         \/ PiRestart
  PROVE  ConsentInv'
  <1>1. InstallFormOK(piForm, piTokens, piIssued) /\ PiCallsOK(piCalls, piTokens, piIssued)
    BY DEF ConsentInv
  <1>2. ASSUME NEW view, PiNavigate(view) PROVE ConsentInv'
    BY <1>1, <1>2, CallsOrphaned, ConsentKept DEF PiNavigate, piServer
  <1>3. CASE PiReload
    BY <1>1, <1>3, ConsentKept DEF PiReload, piServer
  <1>4. ASSUME NEW c, PiServeList(c) \/ PiListArrives(c) PROVE ConsentInv'
    BY <1>1, <1>4, ConsentKept DEF PiServeList, PiListArrives, piServer
  <1>5. ASSUME NEW op \in {"enable", "switch", "disable", "uninstall"}, NEW v, PiRowAction(op, v) PROVE ConsentInv'
    <2> DEFINE c == PiCall(op, v, NoSource, 0, NoPlan)
    <2>1. PiSend(c) /\ UNCHANGED <<piTokens, piIssued, piInstalled, piForm>>
      BY <1>5 DEF PiRowAction, piServer
    <2>2. PiCallOK(c, piTokens, piIssued)
      BY DEF PiCall, PiCallOK, PiCallFields
    <2> HIDE DEF c
    <2> QED
      BY <1>1, <2>1, <2>2, ConsentSends, ConsentKept
  <1>6. ASSUME NEW op, NEW v, PiOther(op, v) PROVE ConsentInv'
    BY <1>1, <1>6, CallsRaced, ConsentKept DEF PiOther
  <1>7. ASSUME NEW ref, NEW art, PiUpstreamMoves(ref, art) PROVE ConsentInv'
    BY <1>1, <1>7, ConsentKept DEF PiUpstreamMoves
  <1>8. CASE PiRestart
    <2>1. piTokens' = <<>> /\ UNCHANGED <<piIssued, piForm, piInstalled, piCalls>> /\ piIssued \in Nat
      BY <1>8 DEF PiRestart, ConsentInv, TokensOK
    <2>2. DOMAIN piTokens' = {}
      BY <2>1
    <2>3. TokensOK(piTokens', piIssued') /\ Later(piTokens, piIssued, piTokens', piIssued')
      BY <2>1, <2>2 DEF TokensOK, Later
    <2>4. PiCallsOK(piCalls', piTokens', piIssued')
      BY <1>1, <2>1, <2>3, PlansStay
    <2> QED
      BY <2>1, <2>3, <2>4, ServiceMoves
  <1> QED
    BY <1>2, <1>3, <1>4, <1>5, <1>6, <1>7, <1>8

\* Resolve: a new token, a genuine plan.
LEMMA ConsentResolveStep ==
  ASSUME ConsentInv, NEW i \in DOMAIN piCalls, PiServeResolve(i)
  PROVE  ConsentInv'
  <1> DEFINE c == piCalls[i]
             token == piIssued + 1
  <1>1. PICK plan : /\ plan.token = token
                    /\ piTokens' = [t \in DOMAIN piTokens \cup {token} |-> IF t = token THEN plan ELSE piTokens[t]]
                    /\ piCalls' = Answer(piCalls, i, Value(plan))
    <2> DEFINE plan == [src |-> c.src, art |-> piUpstream[c.src[2]], pinned |-> c.src[2] \in PiPinned, token |-> token]
    <2>1. piTokens' = [t \in DOMAIN piTokens \cup {token} |-> IF t = token THEN plan ELSE piTokens[t]] /\ piCalls' = Answer(piCalls, i, Value(plan)) /\ plan.token = token
      BY DEF PiServeResolve, PiServed
    <2> QED
      BY <2>1
  <1>2. UNCHANGED <<piForm, piInstalled>> /\ piIssued' = token /\ c.op = "resolve"
    BY DEF PiServeResolve
  <1>3. /\ TokensOK(piTokens, piIssued) /\ PiCallsOK(piCalls, piTokens, piIssued)
        /\ piIssued \in Nat /\ token \in Nat /\ token \notin DOMAIN piTokens
    BY DEF ConsentInv, TokensOK
  <1>4. /\ DOMAIN piTokens' = {token} \cup DOMAIN piTokens
        /\ piTokens'[token] = plan
        /\ \A t \in DOMAIN piTokens : piTokens'[t] = piTokens[t]
    BY <1>1, <1>3
  <1>5. TokensOK(piTokens', piIssued')
    BY <1>1, <1>2, <1>3, <1>4 DEF TokensOK
  <1>6. Later(piTokens, piIssued, piTokens', piIssued')
    BY <1>2, <1>3, <1>4 DEF Later
  <1>7. Genuine(plan, piTokens', piIssued')
    BY <1>1, <1>2, <1>3, <1>4 DEF Genuine
  <1> DEFINE after == piTokens'
             more == piIssued'
  <1>8. PiCallsOK(piCalls, after, more)
    BY <1>3, <1>6, PlansStay
  <1>9. Value(plan)[2] = plan
    BY DEF Value
  <1> HIDE DEF after, more
  <1>10. PiCallsOK(Answer(piCalls, i, Value(plan)), after, more)
    BY <1>7, <1>8, <1>9, CallsAnswered DEF after, more
  <1> QED
    BY <1>1, <1>2, <1>5, <1>6, <1>10, ServiceMoves DEF after, more

\* An install consumes its token, whatever becomes of it.
LEMMA ConsentInstallStep ==
  ASSUME ConsentInv, NEW i \in DOMAIN piCalls, PiServeInstall(i)
  PROVE  ConsentInv'
  <1> DEFINE c == piCalls[i]
             after == piTokens'
             old == piTokens[c.token]
  <1>1. /\ TokensOK(piTokens, piIssued) /\ PiCallsOK(piCalls, piTokens, piIssued) /\ piIssued \in Nat
        /\ InstallFormOK(piForm, piTokens, piIssued)
        /\ PiCallOK(c, piTokens, piIssued) /\ c.op = "install" /\ c.v = "none"
    BY Zenon DEF ConsentInv, TokensOK, PiCallsOK, PiServeInstall
  <1>2. after = [u \in DOMAIN piTokens \ {c.token} |-> piTokens[u]] /\ UNCHANGED <<piIssued, piForm>>
    BY Zenon DEF PiServeInstall, Consume
  <1>3. DOMAIN after = DOMAIN piTokens \ {c.token} /\ \A t \in DOMAIN after : after[t] = piTokens[t]
    BY <1>2
  <1> HIDE DEF after
  <1>4. TokensOK(after, piIssued) /\ Later(piTokens, piIssued, after, piIssued)
    BY <1>1, <1>3 DEF TokensOK, Later
  <1>5. \E ans \in {Value(""), Failed} : piCalls' = Answer(piCalls, i, ans)
    BY Zenon DEF PiServeInstall, PiServed
  <1>6. PiCallsOK(piCalls', after, piIssued)
    <2>1. PiCallsOK(piCalls, after, piIssued)
      BY <1>1, <1>4, PlansStay
    <2> QED
      BY <1>1, <1>5, <2>1, CallsAnswered, Zenon
  <1>7. CASE UNCHANGED piInstalled
    BY <1>2, <1>4, <1>6, <1>7, ServiceMoves DEF after
  <1>8. CASE ~UNCHANGED piInstalled
    <2>1. PICK a, new : /\ c.token \in DOMAIN piTokens /\ sameSource(old.src, c.src) /\ a \in PiFetched(old)
                        /\ piInstalled' \subseteq piInstalled \cup {new}
                        /\ new.asked = c.src /\ new.ack = c.shown /\ new.plan = old /\ new.art = a
      <3> DEFINE fetched == IF c.token \in DOMAIN piTokens /\ sameSource(old.src, c.src) THEN PiFetched(old) ELSE {}
      <3>1. PICK a \in fetched :
              \E more : piInstalled' = piInstalled \cup
                   {[no |-> Cardinality(piInstalled), asked |-> c.src, ack |-> c.shown, plan |-> old, art |-> a] : x \in more}
        BY <1>8, Zenon DEF PiServeInstall
      <3>2. c.token \in DOMAIN piTokens /\ sameSource(old.src, c.src) /\ a \in PiFetched(old)
        BY <3>1
      <3> DEFINE new == [no |-> Cardinality(piInstalled), asked |-> c.src, ack |-> c.shown, plan |-> old, art |-> a]
      <3>3. piInstalled' \subseteq piInstalled \cup {new}
        BY <3>1
      <3>4. new.asked = c.src /\ new.ack = c.shown /\ new.plan = old /\ new.art = a
        OBVIOUS
      <3> HIDE DEF new
      <3> QED
        BY <3>2, <3>3, <3>4
    <2>2. c.token \in 1 .. piIssued /\ c.token # 0 /\ old.token = c.token
      BY <1>1, <2>1 DEF TokensOK
    <2>3. c.shown = old
      BY <1>1, <2>1, <2>2 DEF PiCallOK, Genuine
    <2>4. old.pinned => a = old.art
      BY <2>1 DEF PiFetched
    <2>5. ConsentedTo(new, after, piIssued)
      BY <1>3, <2>1, <2>2, <2>3, <2>4 DEF ConsentedTo, sameSource
    <2>6. \A x \in piInstalled : ConsentedTo(x, after, piIssued) /\ x.plan.token # new.plan.token
      <3>1. \A x \in piInstalled : ConsentedTo(x, piTokens, piIssued)
        BY DEF ConsentInv
      <3>2. \A x \in piInstalled : ConsentedTo(x, after, piIssued)
        BY <1>4, <3>1, PlansStay
      <3> QED
        BY <2>1, <2>2, <3>1, <3>2 DEF ConsentedTo
    <2>7. \A x \in piInstalled' : ConsentedTo(x, after, piIssued)
      BY <2>1, <2>5, <2>6
    <2>8. TokenUsedOnce'
      BY <2>1, <2>6 DEF TokenUsedOnce, ConsentInv
    <2>9. InstallFormOK(piForm, after, piIssued)
      BY <1>1, <1>4, PlansStay
    <2> QED
      BY <1>2, <1>4, <1>6, <2>7, <2>8, <2>9 DEF ConsentInv, after
  <1> QED
    BY <1>7, <1>8

\* The other requests, lost answers, and answers that arrive.
LEMMA ConsentAnswerSteps ==
  ASSUME ConsentInv, NEW i \in DOMAIN piCalls,
         PiServeRow(i) \/ PiCallLost(i) \/ PiCallFails(i) \/ PiResolveArrives(i) \/ PiCallArrives(i)
  PROVE  ConsentInv'
  <1> DEFINE c == piCalls[i]
  <1>1. /\ InstallFormOK(piForm, piTokens, piIssued) /\ PiCallsOK(piCalls, piTokens, piIssued)
        /\ PiCallOK(c, piTokens, piIssued)
    BY DEF ConsentInv, PiCallsOK
  <1>2. UNCHANGED <<piTokens, piIssued, piInstalled>>
    BY Zenon DEF PiServeRow, PiCallLost, PiCallFails, PiResolveArrives, PiCallArrives, piServer
  <1>3. CASE PiServeRow(i)
    <2>1. c.op # "resolve" /\ UNCHANGED piForm
      BY <1>1, <1>3, Zenon DEF PiServeRow, PiCallOK
    <2>2. PICK ans : piCalls' = Answer(piCalls, i, ans)
      BY <1>3, Zenon DEF PiServeRow, PiServed
    <2> QED
      BY <1>1, <1>2, <2>1, <2>2, CallsAnswered, ConsentKept
  <1>4. CASE PiCallLost(i)
    <2>1. piCalls' = Answer(piCalls, i, Failed) /\ UNCHANGED piForm
      BY <1>4 DEF PiCallLost, PiServed
    <2> QED
      BY <1>1, <1>2, <2>1, CallsAnswered, ConsentKept
  <1>5. CASE PiCallFails(i)
    <2>1. piCalls' = Forget(piCalls, i) /\ piForm' \in {piForm, [piForm EXCEPT !.preview = NoPlan]}
      BY <1>5 DEF PiCallFails
    <2>2. InstallFormOK([piForm EXCEPT !.preview = NoPlan], piTokens, piIssued)
      <3> DEFINE form == [piForm EXCEPT !.preview = NoPlan]
      <3>1. CASE piForm = NoForm
        BY <3>1 DEF InstallFormOK, NoForm
      <3>2. CASE piForm # NoForm
        <4>1. DOMAIN form = InstallFormFields /\ form.mode = piForm.mode /\ form.preview = NoPlan
          BY <1>1, <3>2 DEF InstallFormOK, InstallFormFields
        <4> HIDE DEF form
        <4>2. InstallFormOK(form, piTokens, piIssued)
          BY <1>1, <3>2, <4>1 DEF InstallFormOK
        <4> QED
          BY <4>2 DEF form
      <3> QED
        BY <3>1, <3>2
    <2> QED
      BY <1>1, <1>2, <2>1, <2>2, CallsForgotten, ConsentKept
  <1>6. CASE PiResolveArrives(i)
    <2>1. piCalls' = Forget(piCalls, i) /\ piForm' \in {piForm, PreviewShown(piForm, c.ans[2])}
      BY <1>6 DEF PiResolveArrives
    <2>2. Genuine(c.ans[2], piTokens, piIssued)
      BY <1>1, <1>6 DEF PiResolveArrives, PiCallOK
    <2>3. InstallFormOK(PreviewShown(piForm, c.ans[2]), piTokens, piIssued)
      <3> DEFINE plan == c.ans[2]
                 form == [piForm EXCEPT !.preview = plan, !.ack = NoPlan]
      <3>1. CASE piForm = NoForm
        BY <3>1 DEF InstallFormOK, NoForm, PreviewShown
      <3>2. CASE piForm # NoForm
        <4> HIDE DEF plan
        <4>1. /\ DOMAIN form = InstallFormFields /\ form.mode = piForm.mode
              /\ form.preview = plan /\ form.ack = NoPlan
          BY <1>1, <3>2 DEF InstallFormOK, InstallFormFields
        <4> HIDE DEF form
        <4>2. InstallFormOK(form, piTokens, piIssued)
          BY <1>1, <2>2, <3>2, <4>1 DEF InstallFormOK, plan
        <4> QED
          BY <4>2 DEF form, plan, PreviewShown
      <3> QED
        BY <3>1, <3>2
    <2> QED
      BY <1>1, <1>2, <2>1, <2>3, CallsForgotten, ConsentKept
  <1>7. CASE PiCallArrives(i)
    <2>1. piForm' \in {NoForm, piForm} /\ piCalls' \in {Forget(piCalls, i), Forget(PiOrphans("modal"), i)}
      BY <1>7, Zenon DEF PiCallArrives
    <2>2. InstallFormOK(NoForm, piTokens, piIssued)
      BY DEF InstallFormOK
    <2>3. PiCallsOK(Forget(PiOrphans("modal"), i), piTokens, piIssued)
      BY <1>1, CallsOrphaned, CallsForgotten
    <2> QED
      BY <1>1, <1>2, <2>1, <2>2, <2>3, CallsForgotten, ConsentKept
  <1> QED
    BY <1>3, <1>4, <1>5, <1>6, <1>7

LEMMA ConsentInit == PiInit => ConsentInv
  <1> SUFFICES ASSUME PiInit PROVE ConsentInv
    OBVIOUS
  <1>1. piTokens = <<>> /\ piIssued = 0 /\ piForm = NoForm /\ piCalls = <<>> /\ piInstalled = {}
    BY DEF PiInit
  <1>2. piCalls \in Seq({}) /\ DOMAIN piCalls = {} /\ DOMAIN piTokens = {}
    BY <1>1
  <1> QED
    BY <1>1, <1>2 DEF ConsentInv, TokensOK, InstallFormOK, PiCallsOK, TokenUsedOnce

LEMMA ConsentNext == ConsentInv /\ [PiNext]_piVars => ConsentInv'
  <1> SUFFICES ASSUME ConsentInv, [PiNext]_piVars PROVE ConsentInv'
    OBVIOUS
  <1>1. CASE UNCHANGED piVars
    BY <1>1 DEF piVars, ConsentInv, TokenUsedOnce
  <1>2. CASE PiNext
    BY <1>2, ConsentDialogSteps, ConsentPageSteps, ConsentResolveStep, ConsentInstallStep, ConsentAnswerSteps DEF PiNext
  <1> QED
    BY <1>1, <1>2

\* In the panel what a remote install put in the registry came from the source that
\* was asked for, its permissions were acknowledged on the plan that was installed,
\* and no resolve token went through twice: for any sources, archives, requests in
\* flight and dialogs, with sources that move and services that restart.
THEOREM PanelInstallsAsConsented == PanelSpec => []InstalledAsConsented
  <1>1. PanelInit => ConsentInv
    BY ConsentInit DEF PanelInit
  <1>2. ConsentInv /\ [PanelNext]_panelVars => ConsentInv'
    BY PagesTakeTurns, ConsentNext
  <1>3. ConsentInv => InstalledAsConsented
    BY DEF ConsentInv, ConsentedTo, InstalledAsConsented, InstalledAsAsked, InstalledAsAcknowledged
  <1> QED
    BY <1>1, <1>2, <1>3, PTL DEF PanelSpec
-----------------------------------------------------------------------------
(* The Websites page: row, file and link of a site agree.                  *)

ServerFields == {"rows", "conf", "link", "ids"}
RowFields == {"dom", "active", "ssl"}
WsCallFields == {"op", "id", "dom", "active", "text", "no", "row", "orig", "at", "raced", "ans"}
FormFields == {"kind", "id", "dom", "active"}
ConfigFields == {"kind", "id", "hook", "text"}
SslFields == {"kind", "id", "hook", "es", "status", "job"}

SiteRow(r) == DOMAIN r = RowFields /\ r.dom \in WsDomains

\* The server's records; ids are given in order.
ServerOK(srv) ==
    /\ DOMAIN srv = ServerFields
    /\ DOMAIN srv.rows = WsIds /\ DOMAIN srv.conf = WsDomains
    /\ srv.ids \in Nat
    /\ \A i \in WsIds : srv.rows[i] = NoRow \/ (SiteRow(srv.rows[i]) /\ i <= srv.ids)

\* Row, file and link of a domain agree, and the domain is one site's.
Agreed(srv, d) ==
    /\ \A i \in WsIds : srv.rows[i].dom = d => (srv.rows[i].active <=> d \in srv.link) /\ srv.conf[d] # "none"
    /\ \A i, j \in WsIds : srv.rows[i].dom = d /\ srv.rows[j].dom = d => i = j
    /\ d \in srv.link => \E i \in WsIds : srv.rows[i].dom = d

\* A request: what it names, and what it read.
WsCallOK(c) ==
    /\ DOMAIN c = WsCallFields
    /\ c.op \in {"create", "update", "remove", "toggle", "config", "manual", "certbot"}
    /\ IF c.op \in {"create", "update"} THEN c.dom \in WsDomains ELSE c.dom = "none"
    /\ c.op # "create" => c.id \in WsIds
    /\ c.op = "config" => c.text # "none"
    /\ c.at = "open" => c.op = "config"
    /\ c.at \in {"open", "read"} => SiteRow(c.row)
    /\ c.at # "done" => c.ans = Waiting

WsCallsOK(calls) ==
    /\ \E S : calls \in Seq(S)
    /\ \A i \in DOMAIN calls : WsCallOK(calls[i])

\* A request that has written its configuration to the file of d and tests it.
Testing(c, d) == c.op = "config" /\ c.at = "read" /\ c.row.dom = d

\* What the requests that test a configuration of d know of its file.
Tested(conf, calls, d) ==
    /\ \A i \in DOMAIN calls : Testing(calls[i], d) => calls[i].orig \notin {"none", "bad"}
    /\ \A i, j \in DOMAIN calls : Testing(calls[i], d) /\ Testing(calls[j], d) => i = j
    /\ conf[d] = "bad" => \E i \in DOMAIN calls : Testing(calls[i], d) /\ calls[i].text = "bad"

\* What a listing was answered with.
Listing(data) == \A i \in WsIds : data[2][i] = NoRow \/ SiteRow(data[2][i])

ListHookOK(hook) ==
    /\ DOMAIN hook = {"deps", "data", "failed", "calls"}
    /\ hook.data # NoData => Listing(hook.data)
    /\ \A c \in hook.calls : DOMAIN c = {"deps", "ans"} /\ (c.ans \notin {Waiting, Failed} => Listing(c.ans))

\* The hook of the configuration dialog: a configuration that was read is one.
TextHookOK(hook) ==
    /\ DOMAIN hook = {"deps", "data", "failed", "calls"}
    /\ \A c \in hook.calls : DOMAIN c = {"deps", "ans"} /\ (c.ans \notin {Waiting, Failed} => c.ans[2] # "none")

DialogOK(dialog) ==
    \/ dialog = NoDialog
    \/ dialog.kind = "form" /\ DOMAIN dialog = FormFields /\ dialog.id \in WsIds \cup {0} /\ dialog.dom \in WsDomains
    \/ /\ dialog.kind = "config" /\ DOMAIN dialog = ConfigFields /\ dialog.id \in WsIds
       /\ TextHookOK(dialog.hook) /\ (AsyncShown(dialog.hook) => dialog.text # "none")
    \/ dialog.kind = "ssl" /\ DOMAIN dialog = SslFields /\ dialog.id \in WsIds

WriteBackOK(s) ==
    /\ s.id \in WsIds /\ SiteRow(s.was) /\ SiteRow(s.row)
    /\ s.row.dom = s.was.dom /\ s.row.active = s.was.active

\* The inductive invariant.
SitesInv ==
    /\ ServerOK(wsServer)
    /\ \A d \in WsDomains \ wsSpoilt : Agreed(wsServer, d) /\ Tested(wsServer.conf, wsCalls, d)
    /\ WsCallsOK(wsCalls)
    /\ ListHookOK(wsHook)
    /\ DialogOK(wsDialog)
    /\ \A s \in wsSyncs : WriteBackOK(s)

\* The steps an operation is made of.
LEMMA PutRowGives ==
  ASSUME NEW s, DOMAIN s = ServerFields, DOMAIN s.rows = WsIds, NEW id, NEW row
  PROVE  LET u == PutRow(s, id, row)
         IN  /\ DOMAIN u = ServerFields /\ DOMAIN u.rows = WsIds
             /\ u.conf = s.conf /\ u.link = s.link /\ u.ids = s.ids
             /\ \A i \in WsIds : u.rows[i] = IF i = id /\ s.rows[id] # NoRow THEN row ELSE s.rows[i]
  BY DEF PutRow, ServerFields

LEMMA PutConfGives ==
  ASSUME NEW s, DOMAIN s = ServerFields, DOMAIN s.conf = WsDomains, NEW d, NEW text
  PROVE  LET u == PutConf(s, d, text)
         IN  /\ DOMAIN u = ServerFields /\ DOMAIN u.conf = WsDomains
             /\ u.rows = s.rows /\ u.link = s.link /\ u.ids = s.ids
             /\ \A e \in WsDomains : u.conf[e] = IF e = d THEN text ELSE s.conf[e]
  BY DEF PutConf, ServerFields

\* SyncSSL touches the flag of a row only.
LEMMA SyncSSLGives ==
  ASSUME NEW s, DOMAIN s = ServerFields, DOMAIN s.rows = WsIds, NEW id, NEW row, DOMAIN row = RowFields
  PROVE  LET u == SyncSSL(s, id, row)
         IN  /\ DOMAIN u = ServerFields /\ DOMAIN u.rows = WsIds
             /\ u.conf = s.conf /\ u.link = s.link /\ u.ids = s.ids
             /\ \A i \in WsIds :
                  \/ u.rows[i] = s.rows[i]
                  \/ /\ i = id /\ s.rows[id] # NoRow
                     /\ DOMAIN u.rows[i] = RowFields /\ u.rows[i].dom = row.dom /\ u.rows[i].active = row.active
  <1> DEFINE new == [row EXCEPT !.ssl = HasCert(s.conf[row.dom])]
  <1>1. DOMAIN new = RowFields /\ new.dom = row.dom /\ new.active = row.active
    BY DEF RowFields
  <1>2. SyncSSL(s, id, row) \in {s, PutRow(s, id, new)}
    BY DEF SyncSSL
  <1> HIDE DEF new
  <1> QED
    BY <1>1, <1>2, PutRowGives

LEMMA NoSite == NoRow.dom = "none" /\ NoRow.dom \notin WsDomains /\ \A r : SiteRow(r) => r # NoRow
  BY WebsitesAssumption DEF NoRow, SiteRow

\* Nothing that matters to d is different in u.
SameSite(s, u, d) ==
    /\ \A i \in WsIds : /\ u.rows[i].dom = d <=> s.rows[i].dom = d
                        /\ u.rows[i].dom = d => (u.rows[i].active <=> s.rows[i].active)
    /\ s.conf[d] # "none" => u.conf[d] # "none"
    /\ d \in u.link <=> d \in s.link

LEMMA SameSiteAgreed ==
  ASSUME NEW s, NEW u, NEW d, Agreed(s, d), SameSite(s, u, d) PROVE Agreed(u, d)
  BY DEF Agreed, SameSite

\* An outcome of c: a server again, and only c's domains are concerned.
Confined(s, c, u) ==
    /\ ServerOK(u)
    /\ \A d \in WsDomains \ {c.row.dom, c.dom, s.rows[c.id].dom} : SameSite(s, u, d)

LEMMA Stays == ASSUME NEW s, NEW c, ServerOK(s) PROVE Confined(s, c, s)
  BY DEF Confined, SameSite

\* Toggle: the link and the flag turn together, or the link goes back.
LEMMA ToggleAgrees ==
  ASSUME NEW s, ServerOK(s), NEW c, c.id \in WsIds, SiteRow(c.row), NEW o \in ToggleOutcomes(s, c)
  PROVE  /\ Confined(s, c, o.srv) /\ o.srv.conf = s.conf
         /\ ~o.half /\ s.rows[c.id] = c.row /\ Agreed(s, c.row.dom) => Agreed(o.srv, c.row.dom)
  <1> DEFINE d == c.row.dom
             row == [c.row EXCEPT !.active = ~c.row.active]
             on == row.active
             was == c.row.active
             flipped == Linked(s, d, on)
             back == Linked(flipped, d, was)
             kept == PutRow(flipped, c.id, row)
             other == PutRow(back, c.id, row)
             done == SyncSSL(kept, c.id, row)
  <1>1. /\ \/ o.srv = s \/ o.srv = back \/ (o.srv = done /\ s.rows[c.id] # NoRow)
           \/ o.half /\ o.srv \in {flipped, kept, other}
        /\ o.srv # s => ~(on /\ s.conf[d] = "none") \/ o.half
    BY DEF ToggleOutcomes, Fails, Done, Half
  <1>2. DOMAIN row = RowFields /\ row.dom = d /\ row.active = on /\ (on <=> ~was)
    BY DEF SiteRow, RowFields
  <1> HIDE DEF row, on, was
  <1>3. /\ DOMAIN flipped = ServerFields /\ flipped.rows = s.rows /\ flipped.conf = s.conf /\ flipped.ids = s.ids
        /\ flipped.link = IF ~on THEN s.link \ {d} ELSE IF s.conf[d] = "none" THEN s.link ELSE s.link \cup {d}
    BY DEF ServerOK, Linked, ServerFields
  <1> HIDE DEF flipped
  <1>4. /\ DOMAIN back = ServerFields /\ back.rows = s.rows /\ back.conf = s.conf /\ back.ids = s.ids
        /\ back.link = IF ~was THEN flipped.link \ {d}
                       ELSE IF s.conf[d] = "none" THEN flipped.link ELSE flipped.link \cup {d}
    BY <1>3 DEF Linked, ServerFields
  <1>5. /\ DOMAIN kept = ServerFields /\ DOMAIN kept.rows = WsIds
        /\ kept.conf = s.conf /\ kept.link = flipped.link /\ kept.ids = s.ids
        /\ \A i \in WsIds : kept.rows[i] = IF i = c.id /\ s.rows[c.id] # NoRow THEN row ELSE s.rows[i]
    BY <1>3, PutRowGives DEF ServerOK
  <1> HIDE DEF back
  <1>11. /\ DOMAIN other = ServerFields /\ DOMAIN other.rows = WsIds
         /\ other.conf = s.conf /\ other.link = back.link /\ other.ids = s.ids
         /\ \A i \in WsIds : other.rows[i] = IF i = c.id /\ s.rows[c.id] # NoRow THEN row ELSE s.rows[i]
    BY <1>4, PutRowGives DEF ServerOK
  <1> HIDE DEF kept, other
  <1>6. /\ DOMAIN done = ServerFields /\ DOMAIN done.rows = WsIds
        /\ done.conf = s.conf /\ done.link = flipped.link /\ done.ids = s.ids
        /\ \A i \in WsIds :
             \/ done.rows[i] = kept.rows[i]
             \/ /\ i = c.id /\ kept.rows[c.id] # NoRow
                /\ DOMAIN done.rows[i] = RowFields /\ done.rows[i].dom = d /\ done.rows[i].active = on
    BY <1>2, <1>5, SyncSSLGives
  <1> HIDE DEF done
  <1>7. d \in WsDomains
    BY DEF SiteRow
  <1>8. CASE o.srv = s
    BY <1>8, Stays
  <1>9. CASE o.srv = back
    <2>1. ServerOK(back)
      BY <1>4 DEF ServerOK
    <2>2. ASSUME NEW e \in WsDomains, e # d PROVE SameSite(s, back, e)
      BY <1>3, <1>4, <2>2 DEF SameSite
    <2>3. ASSUME ~o.half, s.rows[c.id] = c.row, Agreed(s, d), o.srv # s PROVE Agreed(back, d)
      <3>1. (was <=> d \in s.link) /\ s.conf[d] # "none"
        BY <2>3 DEF Agreed, was
      <3>2. d \in back.link <=> d \in s.link
        BY <1>2, <1>3, <1>4, <3>1
      <3>3. SameSite(s, back, d)
        BY <1>4, <3>2 DEF SameSite
      <3> QED
        BY <2>3, <3>3, SameSiteAgreed
    <2> QED
      BY <1>4, <1>9, <2>1, <2>2, <2>3 DEF Confined
  <1>10. CASE o.srv = done /\ o.srv # s /\ s.rows[c.id] # NoRow
    <2>2. \A i \in WsIds :
            \/ done.rows[i] = s.rows[i] /\ (i = c.id => s.rows[c.id] = NoRow)
            \/ /\ i = c.id /\ s.rows[c.id] # NoRow
               /\ DOMAIN done.rows[i] = RowFields /\ done.rows[i].dom = d /\ (done.rows[i].active <=> on)
      BY <1>2, <1>5, <1>6
    <2>3. ServerOK(done)
      BY <1>6, <1>7, <2>2 DEF ServerOK, SiteRow
    <2>4. ASSUME NEW e \in WsDomains, e # d, e # s.rows[c.id].dom PROVE SameSite(s, done, e)
      BY <1>3, <1>6, <2>2, <2>4 DEF SameSite
    <2>5. ASSUME s.rows[c.id] = c.row, Agreed(s, d) PROVE Agreed(done, d)
      <3>1. s.rows[c.id].dom = d /\ s.rows[c.id] # NoRow /\ s.conf[d] # "none" /\ (was <=> d \in s.link)
        BY <2>5, NoSite DEF Agreed, was
      <3>2. \A i \in WsIds : i # c.id => done.rows[i] = s.rows[i] /\ s.rows[i].dom # d
        BY <2>2, <2>5, <3>1 DEF Agreed
      <3>3. done.rows[c.id].dom = d /\ (done.rows[c.id].active <=> on)
        BY <2>2, <3>1
      <3>4. d \in done.link <=> on
        BY <1>2, <1>3, <1>6, <3>1
      <3> QED
        BY <1>6, <3>1, <3>2, <3>3, <3>4 DEF Agreed
    <2> QED
      BY <1>6, <1>10, <2>3, <2>4, <2>5 DEF Confined
  <1>12. CASE o.half /\ o.srv \in {flipped, kept, other}
    <2>1. SiteRow(row)
      BY <1>2, <1>7 DEF SiteRow
    <2>2. ASSUME NEW u \in {flipped, kept, other}
          PROVE  /\ DOMAIN u = ServerFields /\ DOMAIN u.rows = WsIds /\ u.conf = s.conf /\ u.ids = s.ids
                 /\ \A e \in WsDomains \ {d} : e \in u.link <=> e \in s.link
                 /\ \A i \in WsIds : u.rows[i] = s.rows[i] \/ (i = c.id /\ s.rows[i] # NoRow /\ u.rows[i] = row)
      BY <1>3, <1>4, <1>5, <1>11, <2>2 DEF ServerOK
    <2>3. ASSUME NEW u \in {flipped, kept, other}
          PROVE  ServerOK(u) /\ \A e \in WsDomains \ {d, s.rows[c.id].dom} : SameSite(s, u, e)
      <3>1. \A i \in WsIds : u.rows[i] = NoRow \/ (SiteRow(u.rows[i]) /\ i <= s.ids)
        BY <2>1, <2>2, <2>3 DEF ServerOK
      <3>2. ServerOK(u)
        BY <2>2, <2>3, <3>1 DEF ServerOK
      <3>3. \A e \in WsDomains \ {d, s.rows[c.id].dom} : SameSite(s, u, e)
        BY <1>2, <2>2, <2>3 DEF SameSite
      <3> QED
        BY <3>2, <3>3
    <2>4. o.srv.conf = s.conf
      BY <1>12, <2>2
    <2> QED
      BY <1>12, <2>3, <2>4 DEF Confined
  <1> QED
    BY <1>1, <1>8, <1>9, <1>10, <1>12

\* Delete: the row goes last, with its file and its link.
LEMMA DeleteAgrees ==
  ASSUME NEW s, ServerOK(s), NEW c, c.id \in WsIds, SiteRow(c.row), NEW o \in DeleteOutcomes(s, c)
  PROVE  /\ Confined(s, c, o.srv)
         /\ \A e \in WsDomains : o.srv.conf[e] \in {s.conf[e], "none"}
         /\ s.rows[c.id] = c.row /\ Agreed(s, c.row.dom) /\ o.ok => Agreed(o.srv, c.row.dom)
  <1> DEFINE d == c.row.dom
             off == Linked(s, d, FALSE)
             bare == PutConf(off, d, "none")
             gone == [bare EXCEPT !.rows[c.id] = NoRow]
  <1>1. o \in {[srv |-> s, ok |-> FALSE, half |-> FALSE], [srv |-> off, ok |-> FALSE, half |-> FALSE], [srv |-> bare, ok |-> FALSE, half |-> FALSE],
              [srv |-> gone, ok |-> TRUE, half |-> FALSE]}
    BY DEF DeleteOutcomes, Fails, Done
  <1>2. /\ DOMAIN off = ServerFields /\ off.rows = s.rows /\ off.conf = s.conf /\ off.ids = s.ids
        /\ off.link = s.link \ {d}
    BY DEF ServerOK, Linked, ServerFields
  <1> HIDE DEF off
  <1>3. /\ DOMAIN bare = ServerFields /\ DOMAIN bare.conf = WsDomains
        /\ bare.rows = s.rows /\ bare.link = s.link \ {d} /\ bare.ids = s.ids
        /\ \A e \in WsDomains : bare.conf[e] = IF e = d THEN "none" ELSE s.conf[e]
    BY <1>2, PutConfGives DEF ServerOK
  <1> HIDE DEF bare
  <1>4. /\ DOMAIN gone = ServerFields /\ DOMAIN gone.rows = WsIds
        /\ gone.conf = bare.conf /\ gone.link = s.link \ {d} /\ gone.ids = s.ids
        /\ \A i \in WsIds : gone.rows[i] = IF i = c.id THEN NoRow ELSE s.rows[i]
    BY <1>3 DEF ServerOK, ServerFields
  <1> HIDE DEF gone
  <1>5. o.srv \in {s, off, bare, gone} /\ (o.ok => o.srv = gone)
    BY <1>1
  <1>6. d \in WsDomains
    BY DEF SiteRow
  <1>7. ServerOK(off) /\ ServerOK(bare) /\ ServerOK(gone)
    BY <1>2, <1>3, <1>4 DEF ServerOK
  <1>8. ASSUME NEW e \in WsDomains, e # d
        PROVE  SameSite(s, off, e) /\ SameSite(s, bare, e) /\ (e # s.rows[c.id].dom => SameSite(s, gone, e))
    BY <1>2, <1>3, <1>4, <1>8, NoSite DEF SameSite
  <1>9. Confined(s, c, o.srv)
    BY <1>5, <1>7, <1>8, Stays DEF Confined
  <1>10. \A e \in WsDomains : o.srv.conf[e] \in {s.conf[e], "none"}
    BY <1>5, <1>2, <1>3, <1>4
  <1>11. ASSUME s.rows[c.id] = c.row, Agreed(s, d), o.ok PROVE Agreed(o.srv, d)
    <2>1. o.srv = gone
      BY <1>5, <1>11
    <2>2. \A i \in WsIds : gone.rows[i].dom # d
      BY <1>4, <1>6, <1>11, NoSite DEF Agreed
    <2> QED
      BY <1>4, <2>1, <2>2 DEF Agreed
  <1> QED
    BY <1>9, <1>10, <1>11

\* Update: the row, the file, the link.
LEMMA UpdateAgrees ==
  ASSUME NEW s, ServerOK(s), NEW c, c.id \in WsIds, c.dom \in WsDomains, SiteRow(c.row), NEW o \in UpdateOutcomes(s, c)
  PROVE  /\ Confined(s, c, o.srv)
         /\ \A e \in WsDomains : o.srv.conf[e] \in {s.conf[e], "form"}
         /\ o.ok /\ (\A i \in WsIds \ {c.id} : o.srv.rows[i].dom # c.dom) => Agreed(o.srv, c.dom)
  <1> DEFINE d == c.dom
             on == c.active
             row == [c.row EXCEPT !.dom = d, !.active = on]
             written == PutRow(s, c.id, row)
             rendered == PutConf(written, d, "form")
             done == Linked(rendered, d, on)
  <1>1. /\ o.srv \in {s, written, rendered, done}
        /\ o.ok => o.srv = done /\ s.rows[c.id] # NoRow
    BY DEF UpdateOutcomes, Fails, Done
  <1>2. DOMAIN row = RowFields /\ row.dom = d /\ row.active = on
    BY DEF SiteRow, RowFields
  <1> HIDE DEF row, on
  <1>3. /\ DOMAIN written = ServerFields /\ DOMAIN written.rows = WsIds
        /\ written.conf = s.conf /\ written.link = s.link /\ written.ids = s.ids
        /\ \A i \in WsIds : written.rows[i] = IF i = c.id /\ s.rows[c.id] # NoRow THEN row ELSE s.rows[i]
    BY PutRowGives DEF ServerOK
  <1> HIDE DEF written
  <1>4. /\ DOMAIN rendered = ServerFields /\ DOMAIN rendered.conf = WsDomains
        /\ rendered.rows = written.rows /\ rendered.link = s.link /\ rendered.ids = s.ids
        /\ \A e \in WsDomains : rendered.conf[e] = IF e = d THEN "form" ELSE s.conf[e]
    BY <1>3, PutConfGives DEF ServerOK
  <1> HIDE DEF rendered
  <1>5. /\ DOMAIN done = ServerFields /\ done.rows = written.rows /\ done.conf = rendered.conf /\ done.ids = s.ids
        /\ done.link = IF ~on THEN s.link \ {d} ELSE s.link \cup {d}
    BY <1>4 DEF Linked, ServerFields
  <1> HIDE DEF done
  <1>6. ServerOK(written) /\ ServerOK(rendered) /\ ServerOK(done)
    <2>1. SiteRow(row)
      BY <1>2 DEF SiteRow
    <2>2. \A i \in WsIds : written.rows[i] = NoRow \/ (SiteRow(written.rows[i]) /\ i <= s.ids)
      BY <1>3, <2>1 DEF ServerOK
    <2> QED
      BY <1>3, <1>4, <1>5, <2>2 DEF ServerOK
  <1>7. ASSUME NEW e \in WsDomains, e # d, e # s.rows[c.id].dom
        PROVE  SameSite(s, written, e) /\ SameSite(s, rendered, e) /\ SameSite(s, done, e)
    BY <1>2, <1>3, <1>4, <1>5, <1>7 DEF SameSite
  <1>8. Confined(s, c, o.srv)
    BY <1>1, <1>6, <1>7, Stays DEF Confined
  <1>9. \A e \in WsDomains : o.srv.conf[e] \in {s.conf[e], "form"}
    BY <1>1, <1>3, <1>4, <1>5
  <1>10. ASSUME o.ok, \A i \in WsIds \ {c.id} : o.srv.rows[i].dom # d PROVE Agreed(o.srv, d)
    <2>1. o.srv = done /\ s.rows[c.id] # NoRow
      BY <1>1, <1>10
    <2>2. done.rows[c.id] = row /\ done.conf[d] = "form" /\ (d \in done.link <=> on)
      BY <1>3, <1>4, <1>5, <2>1
    <2> QED
      BY <1>2, <1>10, <2>1, <2>2 DEF Agreed
  <1> QED
    BY <1>8, <1>9, <1>10

\* Manual certificate: the file, then the flag.
LEMMA ManualAgrees ==
  ASSUME NEW s, ServerOK(s), NEW c, c.id \in WsIds, SiteRow(c.row), NEW o \in ManualOutcomes(s, c)
  PROVE  /\ Confined(s, c, o.srv)
         /\ \A e \in WsDomains : o.srv.conf[e] = s.conf[e] \/ o.srv.conf[e] # "bad"
         /\ s.rows[c.id] = c.row /\ Agreed(s, c.row.dom) => Agreed(o.srv, c.row.dom)
  <1> DEFINE d == c.row.dom
             text == WithCert(s.conf[d])
             put == PutConf(s, d, text)
             row == [c.row EXCEPT !.ssl = TRUE]
             done == PutRow(put, c.id, row)
  <1>1. /\ o.srv \in {s, put, done}
        /\ o.srv # s => text # "bad"
    BY DEF ManualOutcomes, Fails, Done
  <1>2. DOMAIN row = RowFields /\ row.dom = d /\ row.active = c.row.active /\ d \in WsDomains
    BY DEF SiteRow, RowFields
  <1>3. text # "none" /\ (s.conf[d] # "none" => s.conf[d] # "none")
    BY DEF WithCert
  <1> HIDE DEF row, text
  <1>4. /\ DOMAIN put = ServerFields /\ DOMAIN put.conf = WsDomains
        /\ put.rows = s.rows /\ put.link = s.link /\ put.ids = s.ids
        /\ \A e \in WsDomains : put.conf[e] = IF e = d THEN text ELSE s.conf[e]
    BY PutConfGives DEF ServerOK
  <1> HIDE DEF put
  <1>5. /\ DOMAIN done = ServerFields /\ DOMAIN done.rows = WsIds
        /\ done.conf = put.conf /\ done.link = s.link /\ done.ids = s.ids
        /\ \A i \in WsIds : done.rows[i] = IF i = c.id /\ s.rows[c.id] # NoRow THEN row ELSE s.rows[i]
    BY <1>4, PutRowGives DEF ServerOK
  <1> HIDE DEF done
  <1>6. ServerOK(put) /\ ServerOK(done)
    <2>1. SiteRow(row)
      BY <1>2 DEF SiteRow
    <2>2. \A i \in WsIds : done.rows[i] = NoRow \/ (SiteRow(done.rows[i]) /\ i <= s.ids)
      BY <1>5, <2>1 DEF ServerOK
    <2> QED
      BY <1>4, <1>5, <2>2 DEF ServerOK
  <1>7. ASSUME NEW e \in WsDomains, e # d
        PROVE  SameSite(s, put, e) /\ (e # s.rows[c.id].dom => SameSite(s, done, e))
    BY <1>2, <1>4, <1>5, <1>7 DEF SameSite
  <1>8. SameSite(s, put, d)
    BY <1>2, <1>3, <1>4 DEF SameSite
  <1>9. s.rows[c.id] = c.row => SameSite(s, done, d)
    BY <1>2, <1>3, <1>4, <1>5 DEF SameSite
  <1>10. Confined(s, c, o.srv)
    BY <1>1, <1>6, <1>7, Stays DEF Confined
  <1>11. \A e \in WsDomains : o.srv.conf[e] = s.conf[e] \/ o.srv.conf[e] # "bad"
    BY <1>1, <1>4, <1>5
  <1> QED
    BY <1>1, <1>8, <1>9, <1>10, <1>11, SameSiteAgreed

\* A configuration that was written is tested: it stays, or the old one is back.
LEMMA ConfigAgrees ==
  ASSUME NEW s, ServerOK(s), NEW c, c.id \in WsIds, SiteRow(c.row), NEW o \in ConfigOutcomes(s, c)
  PROVE  /\ Confined(s, c, o.srv)
         /\ \A e \in WsDomains \ {c.row.dom} : o.srv.conf[e] = s.conf[e]
         /\ \/ c.orig # "none" /\ o.srv.conf[c.row.dom] = c.orig
            \/ c.orig = "none" \/ o.half \/ (c.text # "bad" /\ o.srv.conf[c.row.dom] = s.conf[c.row.dom])
         /\ s.rows[c.id] = c.row /\ Agreed(s, c.row.dom) => Agreed(o.srv, c.row.dom)
  <1> DEFINE d == c.row.dom
             put == PutConf(s, d, c.orig)
             done == SyncSSL(s, c.id, c.row)
  <1>1. \/ o.srv = s /\ (c.orig = "none" \/ c.text # "bad" \/ o.half)
        \/ o.srv = put /\ c.orig # "none"
        \/ o.srv = done /\ c.text # "bad"
    BY DEF ConfigOutcomes, Fails, Done, Half, Restored
  <1>2. d \in WsDomains /\ DOMAIN c.row = RowFields
    BY DEF SiteRow
  <1>3. /\ DOMAIN put = ServerFields /\ DOMAIN put.conf = WsDomains
        /\ put.rows = s.rows /\ put.link = s.link /\ put.ids = s.ids
        /\ \A e \in WsDomains : put.conf[e] = IF e = d THEN c.orig ELSE s.conf[e]
    BY PutConfGives DEF ServerOK
  <1>4. /\ DOMAIN done = ServerFields /\ DOMAIN done.rows = WsIds
        /\ done.conf = s.conf /\ done.link = s.link /\ done.ids = s.ids
        /\ \A i \in WsIds :
             \/ done.rows[i] = s.rows[i]
             \/ /\ i = c.id /\ s.rows[c.id] # NoRow
                /\ DOMAIN done.rows[i] = RowFields /\ done.rows[i].dom = d /\ done.rows[i].active = c.row.active
    BY <1>2, SyncSSLGives DEF ServerOK
  <1> HIDE DEF put, done
  <1>5. ServerOK(put) /\ ServerOK(done)
    <2>1. \A i \in WsIds : done.rows[i] = NoRow \/ (SiteRow(done.rows[i]) /\ i <= s.ids)
      BY <1>2, <1>4 DEF ServerOK, SiteRow
    <2> QED
      BY <1>3, <1>4, <2>1 DEF ServerOK
  <1>6. ASSUME NEW e \in WsDomains, e # d
        PROVE  SameSite(s, put, e) /\ (e # s.rows[c.id].dom => SameSite(s, done, e))
    BY <1>3, <1>4, <1>6 DEF SameSite
  <1>7. c.orig # "none" => SameSite(s, put, d)
    BY <1>2, <1>3 DEF SameSite
  <1>8. s.rows[c.id] = c.row => SameSite(s, done, d)
    BY <1>4 DEF SameSite
  <1>9. Confined(s, c, o.srv)
    BY <1>1, <1>5, <1>6, Stays DEF Confined
  <1>10. \A e \in WsDomains \ {d} : o.srv.conf[e] = s.conf[e]
    BY <1>1, <1>3, <1>4
  <1>11. \/ c.orig # "none" /\ o.srv.conf[d] = c.orig
         \/ c.orig = "none" \/ o.half \/ (c.text # "bad" /\ o.srv.conf[d] = s.conf[d])
    BY <1>1, <1>2, <1>3, <1>4
  <1> QED
    BY <1>1, <1>7, <1>8, <1>9, <1>10, <1>11, SameSiteAgreed

\* What a create may have made of s: at most the row id, the file and the link of d.
Fresh(s, d, row, t) ==
    /\ DOMAIN t = ServerFields /\ DOMAIN t.rows = WsIds /\ DOMAIN t.conf = WsDomains /\ t.ids = s.ids + 1
    /\ \A i \in WsIds : t.rows[i] = s.rows[i] \/ (i = t.ids /\ t.rows[i] \in {row, NoRow})
    /\ t.conf[d] \in {s.conf[d], "form", "none"}
    /\ \A e \in WsDomains \ {d} : t.conf[e] = s.conf[e] /\ (e \in t.link <=> e \in s.link)

\* How a create ends: it did nothing; it undid some of what it did, all of it unless
\* the outcome is half; or it is done.
LEMMA CreateEnds ==
  ASSUME NEW s, NEW c, NEW o \in CreateOutcomes(s, c)
  PROVE  LET d == c.dom
             id == s.ids + 1
             row == [dom |-> d, active |-> c.active, ssl |-> FALSE]
             stored == [s EXCEPT !.rows[id] = row, !.ids = id]
             made == PutConf(stored, d, "form")
             linked == Linked(made, d, TRUE)
         IN  \/ o.srv = s
             \/ c.active /\ o.srv = linked
             \/ ~c.active /\ o.srv = made
             \/ \E some : /\ o.srv = Undone(stored, d, id, some) /\ (~o.half => some = {"row"})
             \/ \E some : /\ o.srv = Undone(made, d, id, some) /\ (~o.half => some = {"file", "row"})
             \/ \E some : /\ o.srv = Undone(linked, d, id, some) /\ (~o.half => some = {"link", "file", "row"})
  <1> DEFINE d == c.dom
             id == s.ids + 1
             row == [dom |-> d, active |-> c.active, ssl |-> FALSE]
             stored == [s EXCEPT !.rows[id] = row, !.ids = id]
             made == PutConf(stored, d, "form")
             linked == Linked(made, d, TRUE)
  <1>1. ASSUME NEW t, NEW steps, o \in Undoings(t, d, id, steps)
        PROVE  \E some : o.srv = Undone(t, d, id, some) /\ (~o.half => some = steps)
    <2>1. o = Fails(Undone(t, d, id, steps)) \/ \E some : o = Half(Undone(t, d, id, some))
      BY <1>1, Zenon DEF Undoings
    <2> QED
      BY <2>1 DEF Fails, Half
  <1>2. \/ o = Fails(s) \/ o \in Undoings(stored, d, id, {"row"})
        \/ ~c.active /\ o = Done(made)
        \/ c.active /\ o = Done(linked)
        \/ o \in Undoings(made, d, id, {"file", "row"}) \/ o \in Undoings(linked, d, id, {"link", "file", "row"})
    BY Zenon DEF CreateOutcomes
  <1>3. Fails(s).srv = s /\ Done(made).srv = made /\ Done(linked).srv = linked
    BY DEF Fails, Done
  <1> HIDE DEF linked, made, stored, id, d
  <1>4. \/ o.srv = s
        \/ c.active /\ o.srv = linked
        \/ ~c.active /\ o.srv = made
        \/ \E some : o.srv = Undone(stored, d, id, some) /\ (~o.half => some = {"row"})
        \/ \E some : o.srv = Undone(made, d, id, some) /\ (~o.half => some = {"file", "row"})
        \/ \E some : o.srv = Undone(linked, d, id, some) /\ (~o.half => some = {"link", "file", "row"})
    BY <1>1, <1>2, <1>3, Zenon
  <1> QED
    BY <1>4, Zenon DEF linked, made, stored, id, d

\* Create: a row of a new id with its file and link, or nothing of it, unless
\* undoing failed too.
LEMMA CreateAgrees ==
  ASSUME NEW s, ServerOK(s), NEW c, c.dom \in WsDomains, s.ids < WsMaxIds, NEW o \in CreateOutcomes(s, c)
  PROVE  /\ ServerOK(o.srv)
         /\ \A e \in WsDomains \ {c.dom} : SameSite(s, o.srv, e)
         /\ \A e \in WsDomains : o.srv.conf[e] \in {s.conf[e], "form", "none"}
         /\ ~o.half /\ (\A i \in WsIds : s.rows[i].dom # c.dom) /\ Agreed(s, c.dom) => Agreed(o.srv, c.dom)
  <1> DEFINE d == c.dom
             on == c.active
             id == s.ids + 1
             row == [dom |-> d, active |-> on, ssl |-> FALSE]
             stored == [s EXCEPT !.rows[id] = row, !.ids = id]
             made == PutConf(stored, d, "form")
             linked == Linked(made, d, TRUE)
             undone(t, some) == Undone(t, d, id, some)
  <1>1. \/ o.srv = s
        \/ (on /\ o.srv = linked) \/ (~on /\ o.srv = made)
        \/ \E some : o.srv = undone(stored, some) /\ (~o.half => some = {"row"})
        \/ \E some : o.srv = undone(made, some) /\ (~o.half => some = {"file", "row"})
        \/ \E some : o.srv = undone(linked, some) /\ (~o.half => some = {"link", "file", "row"})
    BY CreateEnds, Zenon
  <1>2. /\ id \in WsIds /\ id \in Nat /\ s.rows[id] = NoRow
        /\ \A i \in WsIds : i # id => s.rows[i] = NoRow \/ (SiteRow(s.rows[i]) /\ i <= id)
    BY WebsitesAssumption DEF ServerOK, WsIds
  <1>3. DOMAIN row = RowFields /\ row.dom = d /\ row.active = on
    BY DEF RowFields
  <1> HIDE DEF row, id, on
  <1>4. /\ DOMAIN stored = ServerFields /\ DOMAIN stored.rows = WsIds
        /\ stored.conf = s.conf /\ stored.link = s.link /\ stored.ids = id
        /\ \A i \in WsIds : stored.rows[i] = IF i = id THEN row ELSE s.rows[i]
    BY DEF ServerOK, ServerFields
  <1> HIDE DEF stored
  <1>5. /\ DOMAIN made = ServerFields /\ DOMAIN made.conf = WsDomains
        /\ made.rows = stored.rows /\ made.link = s.link /\ made.ids = id
        /\ \A e \in WsDomains : made.conf[e] = IF e = d THEN "form" ELSE s.conf[e]
    BY <1>4, PutConfGives DEF ServerOK
  <1> HIDE DEF made
  <1>6. /\ DOMAIN linked = ServerFields /\ linked.rows = stored.rows /\ linked.conf = made.conf /\ linked.ids = id
        /\ linked.link = s.link \cup {d}
    BY <1>5 DEF Linked, ServerFields
  <1> HIDE DEF linked
  <1>7. SiteRow(row) /\ row # NoRow /\ NoRow.dom \notin WsDomains
    BY <1>3, NoSite DEF SiteRow
  <1>8. \A t \in {stored, made, linked} : Fresh(s, d, row, t)
    BY <1>4, <1>5, <1>6 DEF Fresh, ServerOK, id
  <1>9. ASSUME NEW t \in {stored, made, linked}, NEW some
        PROVE  /\ Fresh(s, d, row, undone(t, some))
               /\ "row" \in some => \A i \in WsIds : undone(t, some).rows[i] = s.rows[i]
               /\ undone(t, some).link = IF "link" \in some THEN t.link \ {d} ELSE t.link
    <2> DEFINE u == undone(t, some)
    <2>1. /\ DOMAIN t = ServerFields /\ DOMAIN t.rows = WsIds /\ DOMAIN t.conf = WsDomains
          /\ t.rows = stored.rows /\ t.ids = id
      BY <1>4, <1>5, <1>6, <1>9 DEF ServerOK
    <2>0. u = Undone(t, d, id, some)
      BY DEF undone
    <2> HIDE DEF u, undone
    <2>2. /\ DOMAIN u = ServerFields /\ DOMAIN u.rows = WsIds /\ DOMAIN u.conf = WsDomains /\ u.ids = t.ids
          /\ u.link = IF "link" \in some THEN t.link \ {d} ELSE t.link
          /\ \A i \in WsIds : u.rows[i] = IF i = id /\ "row" \in some THEN NoRow ELSE t.rows[i]
          /\ \A e \in WsDomains : u.conf[e] = IF e = d /\ "file" \in some THEN "none" ELSE t.conf[e]
      BY <2>0, <2>1 DEF Undone, ServerFields
    <2>3. Fresh(s, d, row, t)
      BY <1>8, <1>9
    <2>4. Fresh(s, d, row, u)
      <3>1. \A i \in WsIds : u.rows[i] = s.rows[i] \/ (i = u.ids /\ u.rows[i] \in {row, NoRow})
        BY <1>4, <2>1, <2>2
      <3>2. u.conf[d] \in {s.conf[d], "form", "none"} /\ u.ids = s.ids + 1
        BY <2>2, <2>3 DEF Fresh
      <3>3. \A e \in WsDomains \ {d} : u.conf[e] = s.conf[e] /\ (e \in u.link <=> e \in s.link)
        BY <2>2, <2>3 DEF Fresh
      <3> QED
        BY <2>2, <3>1, <3>2, <3>3 DEF Fresh
    <2>5. "row" \in some => \A i \in WsIds : u.rows[i] = s.rows[i]
      BY <1>2, <1>4, <2>1, <2>2
    <2> QED
      BY <2>2, <2>4, <2>5 DEF u
  <1> HIDE DEF undone
  <1>10. ASSUME NEW t, Fresh(s, d, row, t)
         PROVE  /\ ServerOK(t)
                /\ \A e \in WsDomains \ {d} : SameSite(s, t, e)
                /\ \A e \in WsDomains : t.conf[e] \in {s.conf[e], "form", "none"}
    <2>1. /\ \A i \in WsIds : t.rows[i] = s.rows[i] \/ (i = id /\ t.rows[i] \in {row, NoRow})
          /\ DOMAIN t = ServerFields /\ DOMAIN t.rows = WsIds /\ DOMAIN t.conf = WsDomains /\ t.ids = id
      BY <1>10 DEF Fresh, id
    <2>2. ASSUME NEW i \in WsIds PROVE t.rows[i] = NoRow \/ (SiteRow(t.rows[i]) /\ i <= id)
      <3>1. CASE i = id
        BY <1>2, <1>7, <2>1, <3>1
      <3>2. CASE i # id
        BY <1>2, <2>1, <3>2
      <3> QED
        BY <3>1, <3>2
    <2>3. ServerOK(t)
      BY <1>2, <2>1, <2>2 DEF ServerOK
    <2>4. ASSUME NEW e \in WsDomains, e # d PROVE SameSite(s, t, e)
      <3>1. \A i \in WsIds : t.rows[i] = s.rows[i] \/ (t.rows[i].dom # e /\ s.rows[i].dom # e)
        BY <1>2, <1>3, <1>7, <2>1, <2>4
      <3> QED
        BY <1>10, <2>4, <3>1 DEF Fresh, SameSite
    <2> QED
      BY <1>10, <2>3, <2>4 DEF Fresh
  <1>11. o.srv = s \/ Fresh(s, d, row, o.srv)
    BY <1>1, <1>8, <1>9
  <1>12. ASSUME ~o.half, \A i \in WsIds : s.rows[i].dom # d, Agreed(s, d) PROVE Agreed(o.srv, d)
    <2>1. d \notin s.link
      BY <1>12 DEF Agreed
    <2>2. CASE (on /\ o.srv = linked) \/ (~on /\ o.srv = made)
      <3>1. stored.rows[id].dom = d /\ stored.rows[id].active = on /\ \A i \in WsIds \ {id} : stored.rows[i].dom # d
        BY <1>2, <1>3, <1>4, <1>12
      <3>2. o.srv.rows = stored.rows /\ o.srv.conf[d] = "form" /\ (d \in o.srv.link <=> on)
        BY <1>5, <1>6, <2>1, <2>2
      <3> QED
        BY <1>2, <3>1, <3>2 DEF Agreed
    <2>3. ASSUME NEW t \in {stored, made, linked}, NEW some, o.srv = undone(t, some), "row" \in some,
                 d \in t.link => "link" \in some
          PROVE  Agreed(o.srv, d)
      <3>1. \A i \in WsIds : o.srv.rows[i].dom # d
        BY <1>9, <1>12, <2>3
      <3>2. d \notin o.srv.link
        BY <1>9, <2>3
      <3> QED
        BY <3>1, <3>2 DEF Agreed
    <2>4. CASE o.srv = s
      BY <1>12, <2>4
    <2>5. d \notin stored.link /\ d \notin made.link
      BY <1>4, <1>5, <2>1
    <2> QED
      BY <1>1, <1>12, <2>2, <2>3, <2>4, <2>5
  <1>13. CASE o.srv = s
    BY <1>12, <1>13 DEF SameSite
  <1>14. CASE Fresh(s, d, row, o.srv)
    BY <1>10, <1>12, <1>14
  <1> QED
    BY <1>11, <1>13, <1>14

\* The requests after a step: one of them moved on, one was sent, one is forgotten.
LEMMA TestedAfter ==
  ASSUME NEW q, WsCallsOK(q), NEW i \in DOMAIN q, NEW r, r = [j \in DOMAIN q |-> r[j]],
         \A j \in DOMAIN q \ {i} : r[j] = q[j], WsCallOK(r[i])
  PROVE  /\ WsCallsOK(r) /\ DOMAIN r = DOMAIN q
         /\ \A conf, d : Tested(conf, q, d) /\ ~Testing(q[i], d) /\ ~Testing(r[i], d) => Tested(conf, r, d)
  <1>1. PICK S : q \in Seq(S)
    BY DEF WsCallsOK
  <1>2. Len(q) \in Nat /\ DOMAIN q = 1 .. Len(q)
    BY <1>1, LenProperties
  <1> DEFINE T == {r[j] : j \in DOMAIN q}
  <1>3. r \in Seq(T)
    BY <1>2, IsASeq
  <1> HIDE DEF T
  <1>4. DOMAIN r = DOMAIN q
    OBVIOUS
  <1>5. WsCallsOK(r)
    BY <1>3, <1>4 DEF WsCallsOK
  <1>6. ASSUME NEW conf, NEW d, Tested(conf, q, d), ~Testing(q[i], d), ~Testing(r[i], d) PROVE Tested(conf, r, d)
    <2>1. \A j \in DOMAIN q : Testing(r[j], d) <=> Testing(q[j], d)
      BY <1>6
    <2>2. \A j \in DOMAIN q : Testing(q[j], d) => r[j] = q[j]
      BY <1>6
    <2> HIDE DEF Testing
    <2> QED
      BY <1>4, <1>6, <2>1, <2>2 DEF Tested
  <1> QED
    BY <1>4, <1>5, <1>6

LEMMA WsSent ==
  ASSUME SitesInv, NEW c, WsCallOK(c), c.at = "sent", WsSend(c)
  PROVE  /\ WsCallsOK(wsCalls')
         /\ \A d : Tested(wsServer.conf, wsCalls, d) => Tested(wsServer.conf, wsCalls', d)
         /\ LET n == Len(wsCalls) + 1
            IN  /\ Len(wsCalls) \in Nat /\ Len(wsCalls') = n /\ DOMAIN wsCalls' = DOMAIN wsCalls \cup {n}
                /\ \A f \in WsCallFields \ {"raced", "ans"} : wsCalls'[n][f] = c[f]
                /\ \A i \in DOMAIN wsCalls : \A f \in WsCallFields \ {"raced"} : wsCalls'[i][f] = wsCalls[i][f]
  <1> DEFINE late == wsCalls # <<>> \/ wsUnseen \/ ~AsyncSettled(wsHook) \/ wsSyncs # {}
             q == [i \in DOMAIN wsCalls |-> [wsCalls[i] EXCEPT !.raced = TRUE]]
             e == [c EXCEPT !.raced = late]
             new == [e EXCEPT !.ans = Waiting]
  <1>1. wsCalls' = Append(q, new)
    BY DEF WsSend, Send
  <1>2. DOMAIN new = WsCallFields /\ \A f \in WsCallFields \ {"raced", "ans"} : new[f] = c[f]
    BY Zenon DEF WsCallOK, WsCallFields
  <1>3. new.ans = Waiting
    BY DEF WsCallOK, WsCallFields
  <1> HIDE DEF new, e, late
  <1>4. WsCallOK(new) /\ \A d : ~Testing(new, d)
    BY <1>2, <1>3 DEF WsCallOK, Testing, WsCallFields
  <1>5. PICK S : wsCalls \in Seq(S)
    BY DEF SitesInv, WsCallsOK
  <1>6. Len(wsCalls) \in Nat /\ DOMAIN wsCalls = 1 .. Len(wsCalls)
    BY <1>5, LenProperties
  <1>7. \A i \in DOMAIN wsCalls : DOMAIN q[i] = WsCallFields /\ \A f \in WsCallFields \ {"raced"} : q[i][f] = wsCalls[i][f]
    BY DEF SitesInv, WsCallsOK, WsCallOK, WsCallFields
  <1>8. DOMAIN q = DOMAIN wsCalls /\ q = [i \in 1 .. Len(wsCalls) |-> q[i]]
    BY <1>6
  <1> HIDE DEF q
  <1>9. \A i \in DOMAIN wsCalls :
          /\ WsCallOK(q[i])
          /\ q[i].orig = wsCalls[i].orig /\ q[i].text = wsCalls[i].text
          /\ \A d : Testing(q[i], d) <=> Testing(wsCalls[i], d)
    BY <1>7 DEF SitesInv, WsCallsOK, WsCallOK, WsCallFields, Testing
  <1> DEFINE T == {q[i] : i \in 1 .. Len(wsCalls)} \cup {new}
  <1>10. q \in Seq(T) /\ new \in T
    BY <1>6, <1>8, IsASeq
  <1> HIDE DEF T
  <1>11. Len(q) = Len(wsCalls)
    BY <1>6, <1>8, <1>10, LenProperties
  <1>12. /\ wsCalls' \in Seq(T) /\ Len(wsCalls') = Len(wsCalls) + 1
         /\ \A i \in DOMAIN wsCalls : wsCalls'[i] = q[i]
         /\ wsCalls'[Len(wsCalls) + 1] = new
    BY <1>1, <1>6, <1>10, <1>11, AppendProperties
  <1>13. DOMAIN wsCalls' = DOMAIN wsCalls \cup {Len(wsCalls) + 1}
    BY <1>6, <1>12, LenProperties
  <1>14. WsCallsOK(wsCalls')
    BY <1>4, <1>9, <1>12, <1>13 DEF WsCallsOK
  <1>15. ASSUME NEW d, Tested(wsServer.conf, wsCalls, d) PROVE Tested(wsServer.conf, wsCalls', d)
    <2>1. \A i \in DOMAIN wsCalls' : Testing(wsCalls'[i], d) => i \in DOMAIN wsCalls /\ Testing(wsCalls[i], d)
      BY <1>4, <1>9, <1>12, <1>13
    <2>2. \A i \in DOMAIN wsCalls : /\ i \in DOMAIN wsCalls' /\ (Testing(wsCalls'[i], d) <=> Testing(wsCalls[i], d))
                                    /\ wsCalls'[i].orig = wsCalls[i].orig /\ wsCalls'[i].text = wsCalls[i].text
      BY <1>9, <1>12, <1>13
    <2> HIDE DEF Testing
    <2> QED
      BY <1>15, <2>1, <2>2 DEF Tested
  <1> QED
    BY <1>2, <1>6, <1>7, <1>12, <1>13, <1>14, <1>15

\* Two requests that are left were two before.
LEMMA ForgetKeepsApart ==
  ASSUME NEW S, NEW q \in Seq(S), NEW i \in DOMAIN q,
         NEW k \in DOMAIN Forget(q, i), NEW l \in DOMAIN Forget(q, i), k # l
  PROVE  \E j, m \in DOMAIN q \ {i} : j # m /\ Forget(q, i)[k] = q[j] /\ Forget(q, i)[l] = q[m]
  <1> DEFINE a == SubSeq(q, 1, i - 1)
             b == SubSeq(q, i + 1, Len(q))
             at(n) == IF n <= i - 1 THEN n ELSE n + 1
  <1>1. Len(q) \in Nat /\ DOMAIN q = 1 .. Len(q) /\ i \in 1 .. Len(q) /\ \A j \in 1 .. Len(q) : q[j] \in S
    BY LenProperties, ElementOfSeq
  <1>2. a \in Seq(S) /\ Len(a) = i - 1 /\ \A j \in 1 .. i - 1 : a[j] = q[j]
    <2>1. \A j \in 1 .. i - 1 : q[j] \in S
      BY <1>1
    <2> QED
      BY <1>1, <2>1, SubSeqProperties
  <1>3. b \in Seq(S) /\ Len(b) = Len(q) - i /\ \A j \in 1 .. Len(q) - i : b[j] = q[i + j]
    <2>1. \A j \in i + 1 .. Len(q) : q[j] \in S
      BY <1>1
    <2>2. /\ b \in Seq(S)
          /\ Len(b) = IF i + 1 <= Len(q) THEN Len(q) - (i + 1) + 1 ELSE 0
          /\ \A j \in 1 .. Len(q) - (i + 1) + 1 : b[j] = q[(i + 1) + j - 1]
      BY <1>1, <2>1, SubSeqProperties
    <2>3. Len(q) - (i + 1) + 1 = Len(q) - i /\ \A j \in 1 .. Len(q) - i : (i + 1) + j - 1 = i + j
      BY <1>1
    <2> QED
      BY <1>1, <2>2, <2>3
  <1> HIDE DEF a, b
  <1>4. Forget(q, i) = a \o b
    BY DEF Forget, RemoveAt, a, b
  <1>5. /\ a \o b \in Seq(S)
        /\ Len(a \o b) = Len(a) + Len(b)
        /\ \A n \in 1 .. Len(a) + Len(b) : (a \o b)[n] = IF n <= Len(a) THEN a[n] ELSE b[n - Len(a)]
    BY <1>2, <1>3, ConcatProperties
  <1>6. Len(a) + Len(b) = Len(q) - 1 /\ DOMAIN (a \o b) = 1 .. Len(q) - 1
    <2>1. Len(a) + Len(b) = Len(q) - 1
      BY <1>1, <1>2, <1>3
    <2>2. DOMAIN (a \o b) = 1 .. Len(a \o b)
      BY <1>5, LenProperties
    <2> QED
      BY <1>5, <2>1, <2>2
  <1>7. ASSUME NEW n \in 1 .. Len(q) - 1 PROVE at(n) \in DOMAIN q \ {i} /\ (a \o b)[n] = q[at(n)]
    <2>1. (a \o b)[n] = IF n <= i - 1 THEN a[n] ELSE b[n - (i - 1)]
      BY <1>2, <1>5, <1>6
    <2>2. CASE n <= i - 1
      <3>1. n \in 1 .. i - 1 /\ n \in DOMAIN q \ {i} /\ at(n) = n
        BY <1>1, <2>2
      <3> QED
        BY <1>2, <2>1, <2>2, <3>1
    <2>3. CASE ~(n <= i - 1)
      <3>1. /\ n - (i - 1) \in 1 .. Len(q) - i /\ i + (n - (i - 1)) = n + 1
            /\ n + 1 \in DOMAIN q \ {i} /\ at(n) = n + 1
        BY <1>1, <2>3
      <3>2. b[n - (i - 1)] = q[n + 1]
        BY <1>3, <3>1
      <3> QED
        BY <2>1, <2>3, <3>1, <3>2
    <2> QED
      BY <2>2, <2>3
  <1>8. k \in 1 .. Len(q) - 1 /\ l \in 1 .. Len(q) - 1
    BY <1>4, <1>6
  <1>9. at(k) # at(l)
    BY <1>1, <1>8
  <1> HIDE DEF at
  <1> QED
    BY <1>4, <1>7, <1>8, <1>9

LEMMA WsForgotten ==
  ASSUME SitesInv, NEW i \in DOMAIN wsCalls, wsCalls[i].at = "done"
  PROVE  /\ WsCallsOK(Forget(wsCalls, i))
         /\ \A d : Tested(wsServer.conf, wsCalls, d) => Tested(wsServer.conf, Forget(wsCalls, i), d)
  <1> DEFINE r == Forget(wsCalls, i)
  <1>1. PICK S : wsCalls \in Seq(S)
    BY DEF SitesInv, WsCallsOK
  <1>2. r \in Seq(S) /\ \A k \in DOMAIN r : \E j \in DOMAIN wsCalls \ {i} : r[k] = wsCalls[j]
    BY <1>1, ForgetTakes
  <1>3. \A j \in DOMAIN wsCalls \ {i} : \E k \in DOMAIN r : r[k] = wsCalls[j]
    BY <1>1, RemoveAtKeeps DEF Forget
  <1>4. \A k, l \in DOMAIN r : k # l =>
          \E j, m \in DOMAIN wsCalls \ {i} : j # m /\ r[k] = wsCalls[j] /\ r[l] = wsCalls[m]
    BY <1>1, ForgetKeepsApart
  <1> HIDE DEF r
  <1>5. WsCallsOK(r)
    BY <1>2 DEF SitesInv, WsCallsOK
  <1>6. ASSUME NEW d, Tested(wsServer.conf, wsCalls, d) PROVE Tested(wsServer.conf, r, d)
    <2>1. ~Testing(wsCalls[i], d)
      BY DEF Testing
    <2>2. \A k \in DOMAIN r : Testing(r[k], d) => r[k].orig \notin {"none", "bad"}
      BY <1>2, <1>6 DEF Tested
    <2>3. \A k, l \in DOMAIN r : Testing(r[k], d) /\ Testing(r[l], d) => k = l
      BY <1>4, <1>6 DEF Tested
    <2>4. wsServer.conf[d] = "bad" => \E k \in DOMAIN r : Testing(r[k], d) /\ r[k].text = "bad"
      BY <1>3, <1>6, <2>1 DEF Tested
    <2> QED
      BY <2>2, <2>3, <2>4 DEF Tested
  <1> QED
    BY <1>5, <1>6 DEF r

\* What the handler leaves of a domain it did not spoil.
LEMMA OutcomeAgrees ==
  ASSUME ServerOK(wsServer), NEW c, WsCallOK(c), c.op = "create" => wsServer.ids < WsMaxIds,
         c.op # "create" => c.at = "read",
         NEW o \in WsOutcomes(wsServer, c)
  PROVE  /\ ServerOK(o.srv)
         /\ \A d \in WsDomains \ WsSpoils(c, o) : Agreed(wsServer, d) => Agreed(o.srv, d)
         /\ c.op # "config" =>
              \A d \in WsDomains : o.srv.conf[d] = wsServer.conf[d] \/ o.srv.conf[d] # "bad"
  <1> DEFINE s == wsServer
             now == s.rows[c.id]
             doms == {c.row.dom, c.dom} \cap WsDomains
             spoilt == WsSpoils(c, o)
  <1>1. c.op # "create" => c.id \in WsIds /\ SiteRow(c.row)
    BY DEF WsCallOK
  <1>2. c.op \in {"create", "update"} => c.dom \in WsDomains
    BY DEF WsCallOK
  <1>3. c.op \notin {"create", "update"} => c.dom \notin WsDomains
    BY WebsitesAssumption DEF WsCallOK
  <1>4. o.srv # s /\ c.op # "create" /\ now # c.row => (doms \cup {now.dom}) \cap WsDomains \subseteq spoilt
    BY DEF WsSpoils
  <1>5. o.srv # s /\ c.op \in {"update", "remove"} /\ now = c.row /\ ~o.ok => doms \subseteq spoilt
    BY DEF WsSpoils
  <1>14. o.half => doms \subseteq spoilt
    BY DEF WsSpoils
  <1>6. CASE c.op = "create"
    <2>1. o \in CreateOutcomes(s, c)
      BY <1>6 DEF WsOutcomes
    <2>2. /\ ServerOK(o.srv)
          /\ \A e \in WsDomains \ {c.dom} : SameSite(s, o.srv, e)
          /\ \A e \in WsDomains : o.srv.conf[e] \in {s.conf[e], "form", "none"}
          /\ ~o.half /\ (\A i \in WsIds : s.rows[i].dom # c.dom) /\ Agreed(s, c.dom) => Agreed(o.srv, c.dom)
      BY <1>2, <1>6, <2>1, CreateAgrees
    <2>3. o.srv = s \/ (~o.half /\ \A i \in WsIds : s.rows[i].dom # c.dom) \/ c.dom \in spoilt
      BY <1>2, <1>6, <1>14 DEF WsSpoils
    <2> HIDE DEF spoilt
    <2>4. ASSUME NEW d \in WsDomains \ spoilt, Agreed(s, d) PROVE Agreed(o.srv, d)
      <3>1. CASE d = c.dom
        BY <2>2, <2>3, <2>4, <3>1
      <3>2. CASE d # c.dom
        BY <2>2, <2>4, <3>2, SameSiteAgreed
      <3> QED
        BY <3>1, <3>2
    <2> QED
      BY <2>2, <2>4 DEF spoilt
  <1>7. CASE c.op = "update"
    <2>1. o \in UpdateOutcomes(s, c)
      BY <1>7 DEF WsOutcomes
    <2>2. /\ Confined(s, c, o.srv)
          /\ \A e \in WsDomains : o.srv.conf[e] \in {s.conf[e], "form"}
          /\ o.ok /\ (\A i \in WsIds \ {c.id} : o.srv.rows[i].dom # c.dom) => Agreed(o.srv, c.dom)
      BY <1>1, <1>2, <1>7, <2>1, UpdateAgrees
    <2>3. \/ o.srv = s \/ now # c.row \/ ~o.ok
          \/ /\ (\A i \in WsIds \ {c.id} : o.srv.rows[i].dom # c.dom) \/ c.dom \in spoilt
             /\ c.dom = c.row.dom \/ c.row.dom \in spoilt
      <3>1. c.row.dom \in WsDomains
        BY <1>1, <1>7 DEF SiteRow
      <3> QED
        BY <1>2, <1>7, <3>1 DEF WsSpoils
    <2>4. c.row.dom \in WsDomains /\ c.row.dom \in doms /\ c.dom \in doms
      BY <1>1, <1>2, <1>7 DEF SiteRow
    <2> HIDE DEF spoilt, doms
    <2>5. ASSUME NEW d \in WsDomains \ spoilt, Agreed(s, d), o.srv # s PROVE Agreed(o.srv, d)
      <3>1. CASE d \in {c.row.dom, c.dom, now.dom}
        <4>1. now = c.row
          BY <1>4, <1>7, <2>4, <2>5, <3>1
        <4>2. o.ok /\ d = c.dom
          BY <1>5, <1>7, <2>3, <2>4, <2>5, <3>1, <4>1
        <4> QED
          BY <2>2, <2>3, <2>5, <4>1, <4>2
      <3>2. CASE d \notin {c.row.dom, c.dom, now.dom}
        BY <2>2, <2>5, <3>2, SameSiteAgreed DEF Confined
      <3> QED
        BY <3>1, <3>2
    <2> QED
      BY <2>2, <2>5 DEF Confined, spoilt
  <1>8. ASSUME c.op \in {"toggle", "remove", "config", "manual"}, Confined(s, c, o.srv),
               ~o.half /\ now = c.row /\ Agreed(s, c.row.dom) /\ (c.op = "remove" => o.ok) => Agreed(o.srv, c.row.dom)
        PROVE  ServerOK(o.srv) /\ \A d \in WsDomains \ spoilt : Agreed(s, d) => Agreed(o.srv, d)
    <2>1. c.row.dom \in doms /\ c.dom \notin WsDomains
      BY <1>1, <1>3, <1>8 DEF SiteRow
    <2> HIDE DEF spoilt, doms
    <2>2. ASSUME NEW d \in WsDomains \ spoilt, Agreed(s, d), o.srv # s PROVE Agreed(o.srv, d)
      <3>1. CASE d \in {c.row.dom, now.dom}
        <4>1. now = c.row
          BY <1>4, <1>8, <2>1, <2>2, <3>1
        <4> QED
          BY <1>5, <1>8, <1>14, <2>1, <2>2, <3>1, <4>1
      <3>2. CASE d \notin {c.row.dom, now.dom}
        BY <1>8, <2>1, <2>2, <3>2, SameSiteAgreed DEF Confined
      <3> QED
        BY <3>1, <3>2
    <2> QED
      BY <1>8, <2>2 DEF Confined
  <1>9. CASE c.op = "remove"
    BY <1>1, <1>8, <1>9, DeleteAgrees DEF WsOutcomes
  <1>10. CASE c.op = "toggle"
    BY <1>1, <1>8, <1>10, ToggleAgrees DEF WsOutcomes
  <1>11. CASE c.op = "config"
    BY <1>1, <1>8, <1>11, ConfigAgrees DEF WsOutcomes
  <1>12. CASE c.op = "manual"
    BY <1>1, <1>8, <1>12, ManualAgrees DEF WsOutcomes
  <1>13. CASE c.op = "certbot"
    BY <1>13 DEF WsOutcomes, Fails, Done
  <1> QED
    BY <1>6, <1>7, <1>9, <1>10, <1>11, <1>12, <1>13 DEF WsCallOK

\* The handler's last step: a configuration nginx refused is gone when its
\* request stops testing it.
LEMMA WsServeStep ==
  ASSUME SitesInv, NEW i \in DOMAIN wsCalls, WsServe(i) PROVE SitesInv'
  <1> DEFINE c == wsCalls[i]
             s == wsServer
  <1>1. /\ WsCallOK(c) /\ ServerOK(s) /\ WsCallsOK(wsCalls)
        /\ \A d \in WsDomains \ wsSpoilt : Agreed(s, d) /\ Tested(s.conf, wsCalls, d)
    BY DEF SitesInv, WsCallsOK
  <1>2. /\ c.at = IF c.op = "create" THEN "sent" ELSE "read"
        /\ c.op = "create" => s.ids < WsMaxIds
        /\ UNCHANGED <<wsSyncs, wsHook, wsDialog>>
    BY DEF WsServe
  <1>3. PICK o \in WsOutcomes(s, c) :
          /\ wsServer' = o.srv
          /\ wsSpoilt' = wsSpoilt \cup WsSpoils(c, o)
          /\ wsCalls' = [wsCalls EXCEPT ![i].at = "done", ![i].ans = IF o.ok THEN Value("ok") ELSE Failed]
    BY Zenon DEF WsServe
  <1>4. /\ ServerOK(o.srv)
        /\ \A d \in WsDomains \ WsSpoils(c, o) : Agreed(s, d) => Agreed(o.srv, d)
        /\ c.op # "config" => \A d \in WsDomains : o.srv.conf[d] = s.conf[d] \/ o.srv.conf[d] # "bad"
    BY <1>1, <1>2, <1>3, OutcomeAgrees
  <1>5. c.op = "config" =>
          /\ \A e \in WsDomains \ {c.row.dom} : o.srv.conf[e] = s.conf[e]
          /\ \/ c.orig # "none" /\ o.srv.conf[c.row.dom] = c.orig
             \/ c.orig = "none" \/ o.half \/ (c.text # "bad" /\ o.srv.conf[c.row.dom] = s.conf[c.row.dom])
          /\ o.half => c.row.dom \in WsSpoils(c, o)
    <2> SUFFICES ASSUME c.op = "config"
                 PROVE  /\ \A e \in WsDomains \ {c.row.dom} : o.srv.conf[e] = s.conf[e]
                        /\ \/ c.orig # "none" /\ o.srv.conf[c.row.dom] = c.orig
                           \/ c.orig = "none" \/ o.half \/ (c.text # "bad" /\ o.srv.conf[c.row.dom] = s.conf[c.row.dom])
                        /\ o.half => c.row.dom \in WsSpoils(c, o)
      OBVIOUS
    <2>1. c.id \in WsIds /\ SiteRow(c.row)
      BY <1>1, <1>2 DEF WsCallOK
    <2>3. o.half => c.row.dom \in WsSpoils(c, o)
      BY <2>1 DEF WsSpoils, SiteRow
    <2>2. o \in ConfigOutcomes(s, c)
      BY <1>3 DEF WsOutcomes
    <2> HIDE DEF c, s
    <2> QED
      BY <1>1, <2>1, <2>2, <2>3, ConfigAgrees
  <1>6. /\ wsCalls' = [j \in DOMAIN wsCalls |-> wsCalls'[j]]
        /\ \A j \in DOMAIN wsCalls \ {i} : wsCalls'[j] = wsCalls[j]
        /\ DOMAIN wsCalls'[i] = WsCallFields /\ wsCalls'[i].at = "done"
        /\ wsCalls'[i].op = c.op /\ wsCalls'[i].dom = c.dom /\ wsCalls'[i].id = c.id /\ wsCalls'[i].text = c.text
    <2> DEFINE ans == IF o.ok THEN Value("ok") ELSE Failed
    <2>1. wsCalls' = [wsCalls EXCEPT ![i].at = "done", ![i].ans = ans]
      BY <1>3
    <2> HIDE DEF ans
    <2> QED
      BY <1>1, <2>1 DEF WsCallOK, WsCallFields
  <1>7. WsCallOK(wsCalls'[i]) /\ \A d : ~Testing(wsCalls'[i], d)
    BY <1>1, <1>6 DEF WsCallOK, Testing
  <1>8. WsCallsOK(wsCalls') /\ DOMAIN wsCalls' = DOMAIN wsCalls
    <2> DEFINE r == wsCalls'
    <2> HIDE DEF r, c
    <2>1. /\ r = [j \in DOMAIN wsCalls |-> r[j]] /\ WsCallOK(r[i])
          /\ \A j \in DOMAIN wsCalls \ {i} : r[j] = wsCalls[j]
      BY <1>6, <1>7 DEF r
    <2>2. WsCallsOK(r) /\ DOMAIN r = DOMAIN wsCalls
      BY <1>1, <2>1, TestedAfter
    <2> QED
      BY <2>2 DEF r
  <1>9. ASSUME NEW d \in WsDomains \ (wsSpoilt \cup WsSpoils(c, o)) PROVE Tested(o.srv.conf, wsCalls', d)
    <2>1. Tested(s.conf, wsCalls, d)
      BY <1>1
    <2>2. \A j \in DOMAIN wsCalls : Testing(wsCalls'[j], d) => Testing(wsCalls[j], d) /\ wsCalls'[j] = wsCalls[j]
      BY <1>6, <1>7
    <2>3. \A j \in DOMAIN wsCalls : Testing(wsCalls[j], d) => j = i \/ (Testing(wsCalls'[j], d) /\ wsCalls'[j] = wsCalls[j])
      BY <1>6
    <2>4. ASSUME o.srv.conf[d] = "bad"
          PROVE  \E j \in DOMAIN wsCalls' : Testing(wsCalls'[j], d) /\ wsCalls'[j].text = "bad"
      <3>1. Testing(c, d) => c.orig \notin {"none", "bad"} /\ c.op = "config" /\ c.row.dom = d
        BY <2>1 DEF Tested, Testing
      <3>2. s.conf[d] = "bad" /\ (Testing(c, d) => c.text # "bad")
        <4>1. CASE Testing(c, d)
          BY <1>5, <2>4, <3>1, <4>1
        <4>2. CASE ~Testing(c, d)
          BY <1>2, <1>4, <1>5, <2>4, <4>2 DEF Testing
        <4> QED
          BY <4>1, <4>2
      <3>3. PICK j \in DOMAIN wsCalls : Testing(wsCalls[j], d) /\ wsCalls[j].text = "bad"
        BY <2>1, <3>2 DEF Tested
      <3> QED
        BY <1>8, <2>3, <3>2, <3>3
    <2> HIDE DEF Testing
    <2> QED
      BY <1>8, <2>1, <2>2, <2>4 DEF Tested
  <1> QED
    BY <1>1, <1>2, <1>3, <1>4, <1>8, <1>9 DEF SitesInv

\* The handler's earlier steps: it reads the row, and writes a configuration.
LEMMA WsReadSteps ==
  ASSUME SitesInv, NEW i \in DOMAIN wsCalls, WsServeRead(i) \/ WsServeWrite(i) \/ WsAnswerLost(i) PROVE SitesInv'
  <1> DEFINE c == wsCalls[i]
             s == wsServer
             r == wsCalls'
  <1>1. /\ WsCallOK(c) /\ ServerOK(s) /\ WsCallsOK(wsCalls)
        /\ \A d \in WsDomains \ wsSpoilt : Agreed(s, d) /\ Tested(s.conf, wsCalls, d)
    BY DEF SitesInv, WsCallsOK
  <1>2. ASSUME r = [j \in DOMAIN wsCalls |-> r[j]], \A j \in DOMAIN wsCalls \ {i} : r[j] = wsCalls[j], WsCallOK(r[i])
        PROVE  /\ WsCallsOK(r) /\ DOMAIN r = DOMAIN wsCalls
               /\ \A conf, d : Tested(conf, wsCalls, d) /\ ~Testing(c, d) /\ ~Testing(r[i], d) => Tested(conf, r, d)
    <2> HIDE DEF r
    <2> QED
      BY <1>1, <1>2, TestedAfter
  <1>3. CASE WsServeRead(i)
    <2> DEFINE row == s.rows[c.id]
               at == IF row = NoRow THEN "done" ELSE IF c.op = "config" THEN "open" ELSE "read"
    <2>1. /\ c.at = "sent" /\ c.op # "create"
          /\ r = IF row = NoRow THEN [wsCalls EXCEPT ![i].at = "done", ![i].ans = Failed]
                 ELSE [wsCalls EXCEPT ![i].at = IF c.op = "config" THEN "open" ELSE "read", ![i].row = row]
          /\ UNCHANGED <<wsServer, wsSyncs, wsHook, wsDialog, wsSpoilt>>
      BY <1>3 DEF WsServeRead
    <2>2. row = NoRow \/ SiteRow(row)
      BY <1>1, <2>1 DEF ServerOK, WsCallOK
    <2> HIDE DEF row
    <2>3. /\ r = [j \in DOMAIN wsCalls |-> r[j]]
          /\ \A j \in DOMAIN wsCalls \ {i} : r[j] = wsCalls[j]
          /\ DOMAIN r[i] = WsCallFields /\ r[i].at = at /\ (row # NoRow => r[i].row = row /\ r[i].ans = c.ans)
          /\ r[i].op = c.op /\ r[i].dom = c.dom /\ r[i].id = c.id /\ r[i].text = c.text
      BY <1>1, <2>1 DEF WsCallOK, WsCallFields
    <2> HIDE DEF r
    <2>4. c.ans = Waiting
      BY <1>1, <2>1 DEF WsCallOK
    <2>5. WsCallOK(r[i])
      BY <1>1, <2>1, <2>2, <2>3, <2>4 DEF WsCallOK
    <2>6. \A d : ~Testing(c, d) /\ ~Testing(r[i], d)
      BY <2>1, <2>3 DEF Testing
    <2>7. WsCallsOK(r) /\ \A d \in WsDomains \ wsSpoilt : Tested(s.conf, r, d)
      BY <1>1, <1>2, <2>3, <2>5, <2>6
    <2> QED
      BY <1>1, <2>1, <2>7 DEF SitesInv, r
  <1>4. CASE WsServeWrite(i)
    <2> DEFINE d == c.row.dom
               clash == \/ s.conf[d] = "none"
                        \/ \E j \in DOMAIN wsCalls \ {i} :
                             wsCalls[j].op = "config" /\ wsCalls[j].at = "read" /\ wsCalls[j].row.dom = d
    <2>1. /\ c.at = "open"
          /\ wsServer' = PutConf(s, d, c.text)
          /\ r = [wsCalls EXCEPT ![i].at = "read", ![i].orig = s.conf[d]]
          /\ wsSpoilt' = wsSpoilt \cup IF clash THEN {d} ELSE {}
          /\ UNCHANGED <<wsSyncs, wsHook, wsDialog>>
      BY <1>4 DEF WsServeWrite
    <2>2. c.op = "config" /\ c.text # "none" /\ SiteRow(c.row) /\ d \in WsDomains /\ c.ans = Waiting /\ c.id \in WsIds
      BY <1>1, <2>1 DEF WsCallOK, SiteRow
    <2> DEFINE srv == PutConf(s, d, c.text)
    <2>3. /\ DOMAIN srv = ServerFields /\ DOMAIN srv.conf = WsDomains
          /\ srv.rows = s.rows /\ srv.link = s.link /\ srv.ids = s.ids
          /\ \A e \in WsDomains : srv.conf[e] = IF e = d THEN c.text ELSE s.conf[e]
      BY <1>1, PutConfGives DEF ServerOK
    <2>4. wsServer' = srv
      BY <2>1
    <2> HIDE DEF srv
    <2>5. /\ r = [j \in DOMAIN wsCalls |-> r[j]]
          /\ \A j \in DOMAIN wsCalls \ {i} : r[j] = wsCalls[j]
          /\ DOMAIN r[i] = WsCallFields /\ r[i].at = "read" /\ r[i].orig = s.conf[d] /\ r[i].row = c.row
          /\ r[i].op = c.op /\ r[i].dom = c.dom /\ r[i].id = c.id /\ r[i].text = c.text /\ r[i].ans = c.ans
      BY <1>1, <2>1 DEF WsCallOK, WsCallFields
    <2> HIDE DEF r
    <2>6. WsCallOK(r[i])
      BY <1>1, <2>2, <2>5 DEF WsCallOK
    <2>7. ServerOK(srv)
      BY <1>1, <2>3 DEF ServerOK
    <2>8. \A e \in WsDomains : SameSite(s, srv, e)
      BY <2>2, <2>3 DEF SameSite
    <2>9. \A e \in WsDomains \ wsSpoilt : Agreed(srv, e)
      BY <1>1, <2>8, SameSiteAgreed
    <2>10. ASSUME NEW e \in WsDomains \ wsSpoilt, e # d PROVE Tested(srv.conf, r, e)
      <3>1. ~Testing(c, e) /\ ~Testing(r[i], e)
        BY <2>1, <2>5, <2>10 DEF Testing
      <3>2. Tested(s.conf, r, e)
        BY <1>1, <1>2, <2>5, <2>6, <3>1
      <3>3. srv.conf[e] = s.conf[e]
        BY <2>3, <2>10
      <3> QED
        BY <3>2, <3>3 DEF Tested
    <2>11. ASSUME d \notin wsSpoilt, ~clash PROVE Tested(srv.conf, r, d)
      <3>1. Tested(s.conf, wsCalls, d)
        BY <1>1, <2>2, <2>11
      <3>2. \A j \in DOMAIN wsCalls : ~Testing(wsCalls[j], d)
        BY <2>1, <2>11 DEF Testing
      <3>3. s.conf[d] \notin {"none", "bad"}
        BY <2>11, <3>1, <3>2 DEF Tested
      <3>4. \A j \in DOMAIN wsCalls : Testing(r[j], d) => j = i
        BY <2>5, <3>2
      <3>5. Testing(r[i], d) /\ DOMAIN r = DOMAIN wsCalls
        BY <2>2, <2>5 DEF Testing
      <3>6. srv.conf[d] = r[i].text
        BY <2>2, <2>3, <2>5
      <3> QED
        BY <2>5, <3>3, <3>4, <3>5, <3>6 DEF Tested
    <2>12. WsCallsOK(r)
      BY <1>2, <2>5, <2>6
    <2>13. \A e \in WsDomains \ wsSpoilt' : e \notin wsSpoilt /\ (e = d => ~clash)
      BY <2>1
    <2> HIDE DEF clash
    <2>14. \A e \in WsDomains \ wsSpoilt' : Tested(srv.conf, r, e)
      BY <2>10, <2>11, <2>13
    <2> QED
      BY <1>1, <2>1, <2>4, <2>7, <2>9, <2>12, <2>13, <2>14 DEF SitesInv, r
  <1>5. CASE WsAnswerLost(i)
    <2>1. /\ c.ans = Value("ok") /\ r = [wsCalls EXCEPT ![i].ans = Failed]
          /\ UNCHANGED <<wsServer, wsSyncs, wsHook, wsDialog, wsSpoilt>>
      BY <1>5 DEF WsAnswerLost, Answer
    <2>2. c.ans # Waiting
      BY <2>1 DEF Value, Waiting
    <2>3. c.at = "done"
      BY <1>1, <2>2 DEF WsCallOK
    <2>4. /\ r = [j \in DOMAIN wsCalls |-> r[j]]
          /\ \A j \in DOMAIN wsCalls \ {i} : r[j] = wsCalls[j]
          /\ DOMAIN r[i] = WsCallFields /\ r[i].at = "done"
          /\ r[i].op = c.op /\ r[i].dom = c.dom /\ r[i].id = c.id /\ r[i].text = c.text
      BY <1>1, <2>1, <2>3 DEF WsCallOK, WsCallFields
    <2> HIDE DEF r
    <2>5. WsCallOK(r[i]) /\ \A d : ~Testing(c, d) /\ ~Testing(r[i], d)
      BY <1>1, <2>3, <2>4 DEF WsCallOK, Testing
    <2>6. WsCallsOK(r) /\ \A d \in WsDomains \ wsSpoilt : Tested(s.conf, r, d)
      BY <1>1, <1>2, <2>4, <2>5
    <2> QED
      BY <1>1, <2>1, <2>6 DEF SitesInv, r
  <1> QED
    BY <1>3, <1>4, <1>5

\* The hooks of the list and of the dialogs.
LEMMA HookServed ==
  ASSUME NEW hook, DOMAIN hook = {"deps", "data", "failed", "calls"}, NEW c \in hook.calls, DOMAIN c = {"deps", "ans"},
         NEW res
  PROVE  LET u == AsyncServe(hook, c, res)
         IN  /\ DOMAIN u = {"deps", "data", "failed", "calls"} /\ u.data = hook.data /\ u.failed = hook.failed
             /\ \A x \in u.calls : x \in hook.calls \/ (DOMAIN x = {"deps", "ans"} /\ x.ans = res)
  BY DEF AsyncServe

LEMMA HookDelivered ==
  ASSUME NEW hook, DOMAIN hook = {"deps", "data", "failed", "calls"}, NEW c \in hook.calls
  PROVE  LET u == AsyncDeliver(hook, c)
         IN  /\ DOMAIN u = {"deps", "data", "failed", "calls"} /\ u.calls \subseteq hook.calls
             /\ c.ans = Failed => u.data = hook.data /\ u.failed
             /\ c.ans # Failed => u.data = c.ans /\ ~u.failed
  BY DEF AsyncDeliver

LEMMA HookRun ==
  ASSUME NEW hook, NEW deps
  PROVE  /\ DOMAIN AsyncMount(deps) = {"deps", "data", "failed", "calls"} /\ AsyncMount(deps).data = NoData
         /\ \A x \in AsyncMount(deps).calls : DOMAIN x = {"deps", "ans"} /\ x.ans = Waiting
         /\ DOMAIN AsyncReload(hook) = {"deps", "data", "failed", "calls"} /\ AsyncReload(hook).data = hook.data
         /\ \A x \in AsyncReload(hook).calls : DOMAIN x = {"deps", "ans"} /\ x.ans = Waiting
  BY DEF AsyncMount, AsyncReload, AsyncRun

\* The server, the requests and what they test are as before, or still right.
LEMMA SitesKept ==
  ASSUME SitesInv, UNCHANGED <<wsServer, wsSpoilt>>,
         WsCallsOK(wsCalls'), \A d : Tested(wsServer.conf, wsCalls, d) => Tested(wsServer.conf, wsCalls', d),
         ListHookOK(wsHook'), DialogOK(wsDialog'), \A s \in wsSyncs' : WriteBackOK(s)
  PROVE  SitesInv'
  BY DEF SitesInv

\* The list: a listing shows the rows, and remembers those to be written back.
LEMMA WsListSteps ==
  ASSUME SitesInv, NEW c \in wsHook.calls, WsServeList(c) \/ WsListLost(c) \/ WsListArrives(c) PROVE SitesInv'
  <1>1. ListHookOK(wsHook) /\ ServerOK(wsServer) /\ \A s \in wsSyncs : WriteBackOK(s)
    BY DEF SitesInv
  <1>2. DOMAIN wsHook = {"deps", "data", "failed", "calls"} /\ DOMAIN c = {"deps", "ans"}
    BY <1>1 DEF ListHookOK
  <1>3. ASSUME NEW res, res = Failed \/ Listing(res), wsHook' = AsyncServe(wsHook, c, res) PROVE ListHookOK(wsHook')
    <2>1. /\ DOMAIN wsHook' = {"deps", "data", "failed", "calls"} /\ wsHook'.data = wsHook.data
          /\ \A x \in wsHook'.calls : x \in wsHook.calls \/ (DOMAIN x = {"deps", "ans"} /\ x.ans = res)
      BY <1>2, <1>3, HookServed
    <2> QED
      BY <1>1, <1>3, <2>1 DEF ListHookOK
  <1>4. CASE WsListLost(c)
    <2>1. UNCHANGED <<wsServer, wsSyncs, wsDialog, wsCalls, wsSpoilt>> /\ wsHook' = AsyncServe(wsHook, c, Failed)
      BY <1>4 DEF WsListLost
    <2>2. ListHookOK(wsHook')
      BY <1>3, <2>1
    <2> QED
      BY <2>1, <2>2, SitesKept DEF SitesInv
  <1>5. CASE WsListArrives(c)
    <2>1. /\ UNCHANGED <<wsServer, wsSyncs, wsDialog, wsCalls, wsSpoilt>>
          /\ c.ans # Waiting /\ wsHook' = AsyncDeliver(wsHook, c)
      BY <1>5 DEF WsListArrives
    <2>2. /\ DOMAIN wsHook' = {"deps", "data", "failed", "calls"} /\ wsHook'.calls \subseteq wsHook.calls
          /\ c.ans = Failed => wsHook'.data = wsHook.data
          /\ c.ans # Failed => wsHook'.data = c.ans
      BY <1>2, <2>1, HookDelivered
    <2>3. ListHookOK(wsHook')
      BY <1>1, <2>1, <2>2 DEF ListHookOK
    <2> QED
      BY <2>1, <2>3, SitesKept DEF SitesInv
  <1>6. CASE WsServeList(c)
    <2> DEFINE rows == wsServer.rows
               right(i) == SyncSSL(wsServer, i, rows[i]).rows[i]
               shown == [i \in WsIds |-> IF rows[i] = NoRow THEN NoRow ELSE right(i)]
    <2>1. /\ UNCHANGED <<wsServer, wsDialog, wsCalls, wsSpoilt>>
          /\ wsHook' = AsyncServe(wsHook, c, Value(shown))
          /\ wsSyncs' = wsSyncs \cup
               {[id |-> i, was |-> rows[i], row |-> right(i)] : i \in {j \in WsIds : rows[j] # NoRow /\ right(j) # rows[j]}}
      BY <1>6 DEF WsServeList
    <2>2. ASSUME NEW i \in WsIds, rows[i] # NoRow
          PROVE  SiteRow(rows[i]) /\ SiteRow(right(i)) /\ right(i).dom = rows[i].dom /\ right(i).active = rows[i].active
      <3>1. SiteRow(rows[i]) /\ DOMAIN rows[i] = RowFields
        BY <1>1, <2>2 DEF ServerOK, SiteRow
      <3>2. \/ right(i) = rows[i]
            \/ DOMAIN right(i) = RowFields /\ right(i).dom = rows[i].dom /\ right(i).active = rows[i].active
        BY <1>1, <3>1, SyncSSLGives DEF ServerOK
      <3> HIDE DEF right
      <3> QED
        BY <3>1, <3>2 DEF SiteRow
    <2> HIDE DEF right
    <2>3. Listing(Value(shown))
      <3>1. Value(shown)[2] = shown
        BY DEF Value
      <3> QED
        BY <2>2, <3>1 DEF Listing
    <2> HIDE DEF shown
    <2>4. ListHookOK(wsHook')
      BY <1>3, <2>1, <2>3
    <2>5. ASSUME NEW s \in wsSyncs' PROVE WriteBackOK(s)
      <3>1. CASE s \in wsSyncs
        BY <1>1, <3>1
      <3>2. CASE s \notin wsSyncs
        <4>1. PICK i \in WsIds : rows[i] # NoRow /\ s = [id |-> i, was |-> rows[i], row |-> right(i)]
          BY <2>1, <2>5, <3>2
        <4> QED
          BY <2>2, <4>1 DEF WriteBackOK
      <3> QED
        BY <3>1, <3>2
    <2> QED
      BY <2>1, <2>4, <2>5, SitesKept DEF SitesInv
  <1> QED
    BY <1>4, <1>5, <1>6

\* A listing writes a row back: what the row says of domain and link it said before.
LEMMA WsWriteBackStep ==
  ASSUME SitesInv, NEW s \in wsSyncs, WsWriteBack(s) PROVE SitesInv'
  <1> DEFINE now == wsServer.rows[s.id]
             srv == PutRow(wsServer, s.id, s.row)
  <1>1. /\ ServerOK(wsServer) /\ WriteBackOK(s)
        /\ \A d \in WsDomains \ wsSpoilt : Agreed(wsServer, d) /\ Tested(wsServer.conf, wsCalls, d)
    BY DEF SitesInv
  <1>2. /\ wsServer' = srv /\ wsSyncs' \subseteq wsSyncs /\ UNCHANGED <<wsHook, wsDialog, wsCalls>>
        /\ wsSpoilt' = IF now \in {s.was, s.row} THEN wsSpoilt
                       ELSE wsSpoilt \cup ({s.row.dom, now.dom} \cap WsDomains)
    BY DEF WsWriteBack
  <1>3. /\ DOMAIN srv = ServerFields /\ DOMAIN srv.rows = WsIds
        /\ srv.conf = wsServer.conf /\ srv.link = wsServer.link /\ srv.ids = wsServer.ids
        /\ \A i \in WsIds : srv.rows[i] = IF i = s.id /\ now # NoRow THEN s.row ELSE wsServer.rows[i]
    BY <1>1, PutRowGives DEF ServerOK
  <1> HIDE DEF srv
  <1>4. ServerOK(srv)
    BY <1>1, <1>3 DEF ServerOK, WriteBackOK
  <1>5. ASSUME NEW d \in WsDomains \ wsSpoilt' PROVE SameSite(wsServer, srv, d)
    <2>1. CASE now \in {s.was, s.row}
      <3>1. now.dom = s.row.dom /\ (now.active <=> s.row.active)
        BY <1>1, <2>1 DEF WriteBackOK
      <3> QED
        BY <1>1, <1>3, <3>1 DEF SameSite, WriteBackOK
    <2>2. CASE now \notin {s.was, s.row}
      <3>1. d # s.row.dom /\ d # now.dom
        BY <1>2, <1>5, <2>2
      <3> QED
        BY <1>3, <3>1 DEF SameSite
    <2> QED
      BY <2>1, <2>2
  <1>6. ASSUME NEW d \in WsDomains \ wsSpoilt' PROVE Agreed(srv, d) /\ Tested(srv.conf, wsCalls, d)
    <2>1. d \in WsDomains \ wsSpoilt
      BY <1>2
    <2> QED
      BY <1>1, <1>3, <1>5, <2>1, SameSiteAgreed
  <1> QED
    BY <1>2, <1>4, <1>6 DEF SitesInv

\* A dialog appears or changes, beside everything else.
LEMMA DialogStep ==
  ASSUME SitesInv, UNCHANGED <<wsServer, wsSyncs, wsHook, wsCalls, wsSpoilt>>, DialogOK(wsDialog') PROVE SitesInv'
  BY SitesKept DEF SitesInv

\* A request is sent, beside everything else.
LEMMA AskedStep ==
  ASSUME SitesInv, NEW c, WsCallOK(c), c.at = "sent", WsSend(c), UNCHANGED <<wsServer, wsSyncs, wsHook, wsDialog, wsSpoilt>>
  PROVE  SitesInv'
  <1>1. /\ WsCallsOK(wsCalls')
        /\ \A d : Tested(wsServer.conf, wsCalls, d) => Tested(wsServer.conf, wsCalls', d)
    BY WsSent
  <1> QED
    BY <1>1, SitesKept DEF SitesInv

\* The row buttons.
LEMMA WsRowSteps ==
  ASSUME SitesInv, NEW id \in WsRows,
         OnToggle(id) \/ OnRemove(id) \/ WsEdit(id) \/ WsOpenConfig(id) \/ WsOpenSsl(id)
  PROVE  SitesInv'
  <1>1. id \in WsIds /\ SiteRow(WsShown(id))
    BY DEF WsRows, WsShown, AsyncShown, SitesInv, ListHookOK, Listing
  <1>2. CASE OnToggle(id)
    <2> DEFINE c == WsCall("toggle", id, "none", WsShown(id).active, "none")
    <2>1. WsCallOK(c) /\ c.at = "sent"
      BY <1>1 DEF WsCall, WsCallOK, WsCallFields
    <2>2. WsSend(c) /\ UNCHANGED <<wsServer, wsSyncs, wsHook, wsDialog, wsSpoilt>>
      BY <1>2 DEF OnToggle
    <2> HIDE DEF c
    <2> QED
      BY <2>1, <2>2, AskedStep
  <1>3. CASE OnRemove(id)
    <2> DEFINE c == WsCall("remove", id, "none", FALSE, "none")
    <2>1. WsCallOK(c) /\ c.at = "sent"
      BY <1>1 DEF WsCall, WsCallOK, WsCallFields
    <2>2. WsSend(c) /\ UNCHANGED <<wsServer, wsSyncs, wsHook, wsDialog, wsSpoilt>>
      BY <1>3 DEF OnRemove
    <2> HIDE DEF c
    <2> QED
      BY <2>1, <2>2, AskedStep
  <1>4. CASE WsEdit(id)
    <2>1. /\ wsDialog' = [kind |-> "form", id |-> id, dom |-> WsShown(id).dom, active |-> WsShown(id).active]
          /\ UNCHANGED <<wsServer, wsSyncs, wsHook, wsCalls, wsSpoilt>>
      BY <1>4 DEF WsEdit, WsOpen
    <2>2. DialogOK(wsDialog')
      BY <1>1, <2>1 DEF DialogOK, FormFields, SiteRow
    <2> QED
      BY <2>1, <2>2, DialogStep
  <1>5. CASE WsOpenConfig(id)
    <2> DEFINE hook == AsyncMount(id)
    <2>1. /\ wsDialog' = [kind |-> "config", id |-> id, hook |-> hook, text |-> "none"]
          /\ UNCHANGED <<wsServer, wsSyncs, wsHook, wsCalls, wsSpoilt>>
      BY <1>5 DEF WsOpenConfig, WsOpen
    <2>2. TextHookOK(hook) /\ ~AsyncShown(hook)
      BY HookRun DEF TextHookOK, AsyncShown
    <2> HIDE DEF hook
    <2>3. DialogOK(wsDialog')
      BY <1>1, <2>1, <2>2 DEF DialogOK, ConfigFields
    <2> QED
      BY <2>1, <2>3, DialogStep
  <1>6. CASE WsOpenSsl(id)
    <2> DEFINE hook == AsyncMount(id)
    <2>1. /\ wsDialog' = [kind |-> "ssl", id |-> id, hook |-> hook, es |-> "none", status |-> "none", job |-> "none"]
          /\ UNCHANGED <<wsServer, wsSyncs, wsHook, wsCalls, wsSpoilt>>
      BY <1>6 DEF WsOpenSsl, WsOpen
    <2> HIDE DEF hook
    <2>2. DialogOK(wsDialog')
      BY <1>1, <2>1 DEF DialogOK, SslFields
    <2> QED
      BY <2>1, <2>2, DialogStep
  <1> QED
    BY <1>2, <1>3, <1>4, <1>5, <1>6

\* The form and the dialogs of a configuration and a certificate.
LEMMA WsFormSteps ==
  ASSUME SitesInv,
         \/ WsNew \/ WsClose \/ SetActive \/ OnSubmit \/ SubmitConfig \/ SaveManual \/ RunCertbot
         \/ \E d \in WsDomains : SetDomain(d)
         \/ \E text \in WsTexts : SetConfig(text)
  PROVE  SitesInv'
  <1>1. DialogOK(wsDialog)
    BY DEF SitesInv
  <1>2. CASE WsNew
    <2>1. PICK d \in WsDomains : wsDialog' = [kind |-> "form", id |-> 0, dom |-> d, active |-> FALSE]
      BY <1>2 DEF WsNew
    <2>2. DialogOK(wsDialog')
      BY <2>1 DEF DialogOK, FormFields
    <2> QED
      BY <1>2, <2>2, DialogStep DEF WsNew
  <1>3. CASE WsClose
    <2>1. DialogOK(wsDialog')
      BY <1>3 DEF WsClose, DialogOK
    <2> QED
      BY <1>3, <2>1, DialogStep DEF WsClose
  <1>4. CASE SetActive
    <2>1. /\ wsDialog.kind = "form" /\ wsDialog' = [wsDialog EXCEPT !.active = ~wsDialog.active]
          /\ UNCHANGED <<wsServer, wsSyncs, wsHook, wsCalls, wsSpoilt>>
      BY <1>4 DEF SetActive, WsInDialog, WsTyped
    <2>2. DialogOK(wsDialog')
      BY <1>1, <2>1 DEF DialogOK, FormFields, NoDialog
    <2> QED
      BY <2>1, <2>2, DialogStep
  <1>5. ASSUME NEW d \in WsDomains, SetDomain(d) PROVE SitesInv'
    <2>1. /\ wsDialog.kind = "form" /\ wsDialog' = [wsDialog EXCEPT !.dom = d]
          /\ UNCHANGED <<wsServer, wsSyncs, wsHook, wsCalls, wsSpoilt>>
      BY <1>5 DEF SetDomain, WsInDialog, WsTyped
    <2>2. DialogOK(wsDialog')
      BY <1>1, <2>1 DEF DialogOK, FormFields, NoDialog
    <2> QED
      BY <2>1, <2>2, DialogStep
  <1>6. ASSUME NEW text \in WsTexts, SetConfig(text) PROVE SitesInv'
    <2>1. /\ wsDialog.kind = "config" /\ wsDialog' = [wsDialog EXCEPT !.text = text]
          /\ UNCHANGED <<wsServer, wsSyncs, wsHook, wsCalls, wsSpoilt>>
      BY <1>6 DEF SetConfig, WsInDialog, WsTyped
    <2>2. text # "none"
      BY WebsitesAssumption, Zenon
    <2>3. DialogOK(wsDialog')
      BY <1>1, <2>1, <2>2 DEF DialogOK, ConfigFields, NoDialog
    <2> QED
      BY <2>1, <2>3, DialogStep
  <1>7. CASE OnSubmit
    <2> DEFINE op == IF wsDialog.id = 0 THEN "create" ELSE "update"
               c == WsCall(op, wsDialog.id, wsDialog.dom, wsDialog.active, "none")
    <2>1. wsDialog.kind = "form"
      BY <1>7 DEF OnSubmit, WsInDialog
    <2>2. wsDialog.id \in WsIds \cup {0} /\ wsDialog.dom \in WsDomains
      BY <1>1, <2>1 DEF DialogOK, NoDialog
    <2>3. WsCallOK(c) /\ c.at = "sent"
      BY <2>2 DEF WsCall, WsCallOK, WsCallFields
    <2>4. WsSend(c) /\ UNCHANGED <<wsServer, wsSyncs, wsHook, wsDialog, wsSpoilt>>
      BY <1>7 DEF OnSubmit, WsAsked
    <2> HIDE DEF c
    <2> QED
      BY <2>3, <2>4, AskedStep
  <1>8. CASE SubmitConfig
    <2> DEFINE c == WsCall("config", wsDialog.id, "none", FALSE, wsDialog.text)
    <2>1. wsDialog.kind = "config" /\ AsyncShown(wsDialog.hook)
      BY <1>8 DEF SubmitConfig, WsInDialog, WsEditorShown
    <2>2. wsDialog.id \in WsIds /\ wsDialog.text # "none"
      BY <1>1, <2>1 DEF DialogOK, NoDialog
    <2>3. WsCallOK(c) /\ c.at = "sent"
      BY <2>2 DEF WsCall, WsCallOK, WsCallFields
    <2>4. WsSend(c) /\ UNCHANGED <<wsServer, wsSyncs, wsHook, wsDialog, wsSpoilt>>
      BY <1>8 DEF SubmitConfig, WsAsked
    <2> HIDE DEF c
    <2> QED
      BY <2>3, <2>4, AskedStep
  <1>9. CASE SaveManual
    <2> DEFINE c == WsCall("manual", wsDialog.id, "none", FALSE, "none")
    <2>1. wsDialog.kind = "ssl"
      BY <1>9 DEF SaveManual, WsInDialog
    <2>2. wsDialog.id \in WsIds
      BY <1>1, <2>1 DEF DialogOK, NoDialog
    <2>3. WsCallOK(c) /\ c.at = "sent"
      BY <2>2 DEF WsCall, WsCallOK, WsCallFields
    <2>4. WsSend(c) /\ UNCHANGED <<wsServer, wsSyncs, wsHook, wsDialog, wsSpoilt>>
      BY <1>9 DEF SaveManual, WsAsked
    <2> HIDE DEF c
    <2> QED
      BY <2>3, <2>4, AskedStep
  <1>10. CASE RunCertbot
    <2> DEFINE c == WsCall("certbot", wsDialog.id, "none", FALSE, "none")
    <2>1. wsDialog.kind = "ssl"
      BY <1>10 DEF RunCertbot, WsInDialog
    <2>2. wsDialog.id \in WsIds
      BY <1>1, <2>1 DEF DialogOK, NoDialog
    <2>3. WsCallOK(c) /\ c.at = "sent"
      BY <2>2 DEF WsCall, WsCallOK, WsCallFields
    <2>4. WsSend(c) /\ UNCHANGED <<wsServer, wsSyncs, wsHook, wsDialog, wsSpoilt>>
      BY <1>10 DEF RunCertbot, WsAsked
    <2> HIDE DEF c
    <2> QED
      BY <2>3, <2>4, AskedStep
  <1> QED
    BY <1>2, <1>3, <1>4, <1>5, <1>6, <1>7, <1>8, <1>9, <1>10

\* The dialog of a certificate: only what it is and of which site matters here.
LEMMA SslStays ==
  ASSUME DialogOK(wsDialog), wsDialog.kind = "ssl",
         NEW u, DOMAIN u = DOMAIN wsDialog, u.kind = wsDialog.kind, u.id = wsDialog.id
  PROVE  DialogOK(u)
  BY DEF DialogOK, NoDialog

\* What a dialog reads is answered, and arrives.
LEMMA WsDialogSteps ==
  ASSUME SitesInv, wsDialog.kind \in {"config", "ssl"}, NEW c \in wsDialog.hook.calls,
         WsServeDialog(c) \/ WsDialogArrives(c)
  PROVE  SitesInv'
  <1> DEFINE hook == wsDialog.hook
  <1>1. DialogOK(wsDialog)
    BY DEF SitesInv
  <1>2. CASE wsDialog.kind = "ssl"
    <2>1. PICK h : wsDialog' = [wsDialog EXCEPT !.hook = h]
      BY <1>2 DEF WsServeDialog, WsDialogArrives
    <2>2. DOMAIN wsDialog' = DOMAIN wsDialog /\ wsDialog'.kind = wsDialog.kind /\ wsDialog'.id = wsDialog.id
      BY <1>1, <1>2, <2>1 DEF DialogOK, SslFields, NoDialog
    <2>3. DialogOK(wsDialog')
      BY <1>1, <1>2, <2>2, SslStays
    <2> QED
      BY <2>3, DialogStep DEF WsServeDialog, WsDialogArrives
  <1>3. CASE wsDialog.kind = "config"
    <2>1. /\ DOMAIN wsDialog = ConfigFields /\ wsDialog.id \in WsIds
          /\ TextHookOK(hook) /\ (AsyncShown(hook) => wsDialog.text # "none")
      BY <1>1, <1>3 DEF DialogOK, NoDialog
    <2>2. DOMAIN hook = {"deps", "data", "failed", "calls"} /\ DOMAIN c = {"deps", "ans"}
      BY <2>1 DEF TextHookOK
    <2>3. CASE WsServeDialog(c)
      <3>1. PICK res \in {Failed, WsAnswerTo(wsDialog)} : wsDialog' = [wsDialog EXCEPT !.hook = AsyncServe(hook, c, res)]
        BY <2>3 DEF WsServeDialog
      <3>2. res # Failed => res[2] # "none"
        BY <1>3, <3>1 DEF WsAnswerTo, Value
      <3> DEFINE h == AsyncServe(hook, c, res)
      <3>3. /\ DOMAIN h = {"deps", "data", "failed", "calls"} /\ h.data = hook.data /\ h.failed = hook.failed
            /\ \A x \in h.calls : x \in hook.calls \/ (DOMAIN x = {"deps", "ans"} /\ x.ans = res)
        BY <2>2, HookServed
      <3> HIDE DEF h
      <3>4. TextHookOK(h) /\ (AsyncShown(h) <=> AsyncShown(hook))
        BY <2>1, <3>2, <3>3 DEF TextHookOK, AsyncShown
      <3>5. /\ DOMAIN wsDialog' = ConfigFields /\ wsDialog'.kind = "config" /\ wsDialog'.id = wsDialog.id
            /\ wsDialog'.hook = h /\ wsDialog'.text = wsDialog.text
        BY <1>3, <2>1, <3>1 DEF ConfigFields, h
      <3>6. DialogOK(wsDialog')
        BY <2>1, <3>4, <3>5 DEF DialogOK
      <3> QED
        BY <2>3, <3>6, DialogStep DEF WsServeDialog
    <2>4. CASE WsDialogArrives(c)
      <3> DEFINE h == AsyncDeliver(hook, c)
                 text == IF c.ans = Failed THEN wsDialog.text ELSE c.ans[2]
      <3>1. /\ c.ans # Waiting
            /\ wsDialog' = IF c.ans = Failed THEN [wsDialog EXCEPT !.hook = h]
                           ELSE [wsDialog EXCEPT !.hook = h, !.text = c.ans[2]]
        BY <1>3, <2>4 DEF WsDialogArrives
      <3>2. /\ DOMAIN h = {"deps", "data", "failed", "calls"} /\ h.calls \subseteq hook.calls
            /\ c.ans = Failed => h.failed
        BY <2>2, HookDelivered
      <3> HIDE DEF h
      <3>3. TextHookOK(h) /\ (AsyncShown(h) => text # "none")
        BY <2>1, <3>1, <3>2 DEF TextHookOK, AsyncShown
      <3>4. /\ DOMAIN wsDialog' = ConfigFields /\ wsDialog'.kind = "config" /\ wsDialog'.id = wsDialog.id
            /\ wsDialog'.hook = h /\ wsDialog'.text = text
        BY <1>3, <2>1, <3>1 DEF ConfigFields
      <3> HIDE DEF text
      <3>5. DialogOK(wsDialog')
        BY <2>1, <3>3, <3>4 DEF DialogOK
      <3> QED
        BY <2>4, <3>5, DialogStep DEF WsDialogArrives
    <2> QED
      BY <2>3, <2>4
  <1> QED
    BY <1>2, <1>3

\* The log of a certbot job.
LEMMA WsJobSteps ==
  ASSUME SitesInv, JobEnds \/ JobLine \/ JobDone \/ JobDisconnected \/ CloseStream PROVE SitesInv'
  <1>1. DialogOK(wsDialog) /\ wsDialog.kind = "ssl" /\ UNCHANGED <<wsServer, wsSyncs, wsHook, wsCalls, wsSpoilt>>
    BY DEF SitesInv, JobEnds, JobLine, JobDone, JobDisconnected, CloseStream, WsStreaming, WsStream
  <1>2. DOMAIN wsDialog = SslFields
    BY <1>1 DEF DialogOK, NoDialog
  <1>3. DOMAIN wsDialog' = DOMAIN wsDialog /\ wsDialog'.kind = wsDialog.kind /\ wsDialog'.id = wsDialog.id
    BY <1>2 DEF SslFields, JobEnds, JobLine, JobDone, JobDisconnected, CloseStream, WsStream, JobDoneShown
  <1>4. DialogOK(wsDialog')
    BY <1>1, <1>3, SslStays
  <1> QED
    BY <1>1, <1>4, DialogStep

\* An answer arrives at the page.
LEMMA WsArriveStep ==
  ASSUME SitesInv, NEW i \in DOMAIN wsCalls, WsCallArrives(i) PROVE SitesInv'
  <1> DEFINE c == wsCalls[i]
  <1>1. DialogOK(wsDialog) /\ ListHookOK(wsHook) /\ WsCallOK(c)
    BY DEF SitesInv, WsCallsOK
  <1>2. /\ c.ans # Waiting /\ wsCalls' = Forget(wsCalls, i)
        /\ wsHook' = WsReloaded(c) /\ wsDialog' = DialogAfter(c)
        /\ UNCHANGED <<wsServer, wsSyncs, wsSpoilt>>
    BY DEF WsCallArrives
  <1>3. c.at = "done"
    BY <1>1, <1>2 DEF WsCallOK
  <1> HIDE DEF c
  <1>4. /\ WsCallsOK(wsCalls')
        /\ \A d : Tested(wsServer.conf, wsCalls, d) => Tested(wsServer.conf, wsCalls', d)
    BY <1>2, <1>3, WsForgotten DEF c
  <1>5. ListHookOK(wsHook')
    <2>1. wsHook' = wsHook \/ wsHook' = AsyncReload(wsHook)
      BY <1>2 DEF WsReloaded
    <2>2. ListHookOK(AsyncReload(wsHook))
      BY <1>1, HookRun DEF ListHookOK
    <2> QED
      BY <1>1, <2>1, <2>2
  <1>6. DialogOK(wsDialog')
    <2>1. CASE wsDialog' = wsDialog
      BY <1>1, <2>1
    <2>2. CASE wsDialog' = NoDialog
      BY <2>2 DEF DialogOK
    <2>3. CASE wsDialog' \notin {wsDialog, NoDialog}
      <3>1. /\ wsDialog.kind = "ssl"
            /\ \/ wsDialog' = [wsDialog EXCEPT !.hook = AsyncReload(wsDialog.hook)]
               \/ wsDialog' = [wsDialog EXCEPT !.hook = AsyncReload(wsDialog.hook), !.es = "open",
                                               !.status = "connecting", !.job = "running"]
        BY <1>2, <2>3 DEF DialogAfter
      <3>2. DOMAIN wsDialog = SslFields
        BY <1>1, <3>1 DEF DialogOK, NoDialog
      <3>3. DOMAIN wsDialog' = DOMAIN wsDialog /\ wsDialog'.kind = wsDialog.kind /\ wsDialog'.id = wsDialog.id
        BY <3>1, <3>2 DEF SslFields
      <3> QED
        BY <1>1, <3>1, <3>3, SslStays
    <2> QED
      BY <2>1, <2>2, <2>3
  <1> QED
    BY <1>2, <1>4, <1>5, <1>6, SitesKept DEF SitesInv

LEMMA SitesInit == WsInit => SitesInv
  <1> SUFFICES ASSUME WsInit PROVE SitesInv
    OBVIOUS
  <1> DEFINE s == wsServer
             n == Len(WsRows0)
  <1>1. /\ n \in Nat /\ n <= WsMaxIds /\ WsMaxIds \in Nat /\ DOMAIN WsRows0 = 1 .. n
        /\ \A i \in 1 .. n : WsRows0[i] \in [dom : WsDomains, active : BOOLEAN, ssl : BOOLEAN]
    BY WebsitesAssumption, LenProperties, ElementOfSeq
  <1>2. /\ DOMAIN s = ServerFields /\ s.ids = n
        /\ DOMAIN s.rows = WsIds /\ \A i \in WsIds : s.rows[i] = IF i \in 1 .. n THEN WsRows0[i] ELSE NoRow
        /\ DOMAIN s.conf = WsDomains
        /\ \A d \in WsDomains : s.conf[d] = IF \E i \in 1 .. n : WsRows0[i].dom = d THEN "form" ELSE "none"
        /\ s.link = {WsRows0[i].dom : i \in {j \in 1 .. n : WsRows0[j].active}}
    BY <1>1 DEF WsInit, ServerFields
  <1> HIDE DEF s
  <1>3. \A i \in 1 .. n : SiteRow(WsRows0[i]) /\ i \in WsIds
    BY <1>1 DEF SiteRow, RowFields, WsIds
  <1>4. ServerOK(s)
    BY <1>1, <1>2, <1>3 DEF ServerOK
  <1>5. ASSUME NEW d \in WsDomains PROVE Agreed(s, d)
    <2>1. \A i \in WsIds : s.rows[i].dom = d => i \in 1 .. n /\ s.rows[i] = WsRows0[i]
      BY <1>2, NoSite
    <2>2. \A i, j \in 1 .. n : WsRows0[i].dom = WsRows0[j].dom => i = j
      BY <1>1, WebsitesAssumption
    <2>3. \A i \in WsIds : s.rows[i].dom = d => (s.rows[i].active <=> d \in s.link) /\ s.conf[d] # "none"
      BY <1>2, <2>1, <2>2
    <2>4. d \in s.link => \E i \in WsIds : s.rows[i].dom = d
      BY <1>2, <1>3
    <2> QED
      BY <2>1, <2>2, <2>3, <2>4 DEF Agreed
  <1>6. wsCalls = <<>> /\ wsSyncs = {} /\ wsDialog = NoDialog /\ wsHook = AsyncMount("list")
    BY DEF WsInit
  <1>7. WsCallsOK(wsCalls)
    BY <1>6, EmptySeq DEF WsCallsOK
  <1>8. \A d \in WsDomains : Tested(s.conf, wsCalls, d)
    BY <1>2, <1>6 DEF Tested
  <1>9. ListHookOK(wsHook)
    BY <1>6, HookRun DEF ListHookOK
  <1> QED
    BY <1>4, <1>5, <1>6, <1>7, <1>8, <1>9 DEF SitesInv, DialogOK, s

LEMMA SitesNext == SitesInv /\ [WsNext]_wsVars => SitesInv'
  <1> SUFFICES ASSUME SitesInv, [WsNext]_wsVars PROVE SitesInv'
    OBVIOUS
  <1>1. ASSUME NEW c \in wsHook.calls, WsServeList(c) \/ WsListLost(c) \/ WsListArrives(c) PROVE SitesInv'
    BY <1>1, WsListSteps
  <1>2. ASSUME NEW s \in wsSyncs, WsWriteBack(s) PROVE SitesInv'
    BY <1>2, WsWriteBackStep
  <1>3. ASSUME NEW id \in WsRows, OnToggle(id) \/ OnRemove(id) \/ WsEdit(id) \/ WsOpenConfig(id) \/ WsOpenSsl(id)
        PROVE  SitesInv'
    BY <1>3, WsRowSteps
  <1>4. CASE \/ WsNew \/ WsClose \/ SetActive \/ OnSubmit \/ SubmitConfig \/ SaveManual \/ RunCertbot
             \/ \E d \in WsDomains : SetDomain(d)
             \/ \E text \in WsTexts : SetConfig(text)
    BY <1>4, WsFormSteps
  <1>5. ASSUME wsDialog.kind \in {"config", "ssl"}, NEW c \in wsDialog.hook.calls, WsServeDialog(c) \/ WsDialogArrives(c)
        PROVE  SitesInv'
    BY <1>5, WsDialogSteps
  <1>6. CASE JobEnds \/ JobLine \/ JobDone \/ JobDisconnected \/ CloseStream
    BY <1>6, WsJobSteps
  <1>7. ASSUME NEW i \in DOMAIN wsCalls, WsServeRead(i) \/ WsServeWrite(i) \/ WsAnswerLost(i) PROVE SitesInv'
    BY <1>7, WsReadSteps
  <1>8. ASSUME NEW i \in DOMAIN wsCalls, WsServe(i) PROVE SitesInv'
    BY <1>8, WsServeStep
  <1>9. ASSUME NEW i \in DOMAIN wsCalls, WsCallArrives(i) PROVE SitesInv'
    BY <1>9, WsArriveStep
  <1>10. CASE UNCHANGED wsVars
    BY <1>10 DEF wsVars, SitesInv
  <1> QED
    BY <1>1, <1>2, <1>3, <1>4, <1>5, <1>6, <1>7, <1>8, <1>9, <1>10 DEF WsNext

\* In the panel a site is served exactly when its row says so, with a file of its
\* own, and nginx is left no configuration typed in that it refuses: a create, a
\* toggle or a configuration that fails at some step and undoes the others leaves
\* row, file and link as they were, whatever it overlaps with, for every domain that
\* no operation left half done (an edit or a delete that stopped, an undoing that
\* failed too, a row written but not read back), moved away from or shared, and that
\* none acted on with a row that had changed.
THEOREM PanelSitesMatchRows == PanelSpec => []SitesMatchRows
  <1>1. PanelInit => SitesInv
    BY SitesInit DEF PanelInit
  <1>2. SitesInv /\ [PanelNext]_panelVars => SitesInv'
    BY PagesTakeTurns, SitesNext
  <1>3. SitesInv => SitesMatchRows
    <2> SUFFICES ASSUME SitesInv PROVE RowMatchesLink /\ NoRefusedConfig
      BY DEF SitesMatchRows
    <2>1. RowMatchesLink
      BY DEF RowMatchesLink, SitesInv, ServerOK, SiteRow, Agreed
    <2>2. NoRefusedConfig
      BY DEF NoRefusedConfig, SitesInv, Tested, Testing
    <2> QED
      BY <2>1, <2>2
  <1> QED
    BY <1>1, <1>2, <1>3, PTL DEF PanelSpec
-----------------------------------------------------------------------------
(* The lists of the Plugins and the Websites page, and what their buttons do. *)

\* A hook waits for one answer at most.
HookAlone(hook) ==
    /\ DOMAIN hook = {"deps", "data", "failed", "calls"}
    /\ \A c \in hook.calls : DOMAIN c = {"deps", "ans"}
    /\ \A c, e \in hook.calls : c = e

PiOps == {"install", "enable", "switch", "disable", "uninstall", "resolve"}

OneEnabled(reg) ==
    /\ DOMAIN reg = PiVersions
    /\ \A v, w \in PiVersions : reg[v] = "enabled" /\ reg[w] = "enabled" => v = w

\* The registry may be another one than was read: the list will be read again, or
\* the page has been told.
PiPending == piUnseen \/ \E i \in DOMAIN piCalls : piCalls[i].op # "resolve" /\ piCalls[i].ans # Waiting

\* What is on show, or is about to be, is the registry.
PiListed ==
    /\ HookAlone(piHook)
    /\ \/ PiPending
       \/ /\ \A c \in piHook.calls : c.ans \in {Waiting, Failed, Value(piRegistry)}
          /\ piHook.calls = {} /\ ~piHook.failed => piHook.data \in {NoData, Value(piRegistry)}

\* A Disable that nothing came between is alone, and its version is enabled.
PiMeant ==
    \A i \in DOMAIN piCalls :
        piCalls[i].op = "disable" /\ ~piCalls[i].raced /\ piCalls[i].ans = Waiting =>
            /\ \A j \in DOMAIN piCalls : j = i
            /\ PiEnabled(piRegistry) = {piCalls[i].v}

\* The inductive invariant, beside ConsentInv.
RowsInv ==
    /\ OneEnabled(piRegistry)
    /\ \A i \in DOMAIN piCalls : piCalls[i].op \in PiOps
    /\ PiListed
    /\ PiMeant

LEMMA HookStays ==
  ASSUME NEW hook, HookAlone(hook), NEW c \in hook.calls, NEW res
  PROVE  /\ HookAlone(AsyncServe(hook, c, res)) /\ \E x : AsyncServe(hook, c, res).calls = {x} /\ x.ans = res
         /\ HookAlone(AsyncDeliver(hook, c)) /\ AsyncDeliver(hook, c).calls = {}
  <1>1. /\ DOMAIN hook = {"deps", "data", "failed", "calls"} /\ DOMAIN c = {"deps", "ans"} /\ hook.calls = {c}
    BY DEF HookAlone
  <1> DEFINE x == [c EXCEPT !.ans = res]
             u == AsyncServe(hook, c, res)
  <1>2. DOMAIN x = {"deps", "ans"} /\ x.ans = res
    BY <1>1
  <1>3. DOMAIN u = {"deps", "data", "failed", "calls"} /\ u.calls = {x}
    BY <1>1 DEF AsyncServe
  <1> HIDE DEF x
  <1>4. HookAlone(u) /\ u.calls = {x} /\ x.ans = res
    BY <1>2, <1>3 DEF HookAlone
  <1>5. HookAlone(AsyncDeliver(hook, c)) /\ AsyncDeliver(hook, c).calls = {}
    BY <1>1 DEF HookAlone, AsyncDeliver
  <1> QED
    BY <1>4, <1>5

LEMMA HookStarts ==
  ASSUME NEW hook, NEW deps
  PROVE  /\ HookAlone(AsyncMount(deps)) /\ \E x : AsyncMount(deps).calls = {x} /\ x.ans = Waiting
         /\ HookAlone(AsyncReload(hook)) /\ \E x : AsyncReload(hook).calls = {x} /\ x.ans = Waiting
  <1> DEFINE x(d) == [deps |-> d, ans |-> Waiting]
  <1>1. \A d : DOMAIN x(d) = {"deps", "ans"} /\ x(d).ans = Waiting
    OBVIOUS
  <1>2. /\ DOMAIN AsyncMount(deps) = {"deps", "data", "failed", "calls"} /\ AsyncMount(deps).calls = {x(deps)}
        /\ DOMAIN AsyncReload(hook) = {"deps", "data", "failed", "calls"} /\ AsyncReload(hook).calls = {x(hook.deps)}
    BY DEF AsyncMount, AsyncReload, AsyncRun
  <1> HIDE DEF x
  <1> QED
    BY <1>1, <1>2 DEF HookAlone

\* What an operation comes to: the rows as they were or all taken down, and the
\* version's own row in one of its states.
LEMMA OutcomesAre ==
  ASSUME NEW reg, NEW op \in PiOps \ {"resolve"}, NEW v, NEW out \in PiOutcomes(reg, op, v)
  PROVE  LET off == [w \in PiVersions |-> IF reg[w] = "enabled" THEN "installed" ELSE reg[w]]
             R(st, ok) == PiOutcome(reg, v, st, ok)
             F(st, ok) == PiOutcome(off, v, st, ok)
         IN  \/ out \in {[reg |-> reg, ok |-> FALSE], [reg |-> off, ok |-> TRUE], [reg |-> off, ok |-> FALSE]}
             \/ out \in {R("installed", TRUE), R("install_failed", FALSE), R("enable_failed", FALSE), R("uninstalled", TRUE)}
             \/ out \in {F("enabled", TRUE), F("enable_failed", FALSE)}
             \/ PiEnabled(reg) = {} /\ out = R("enabled", TRUE)
  <1>1. CASE op = "install"
    BY <1>1 DEF PiOutcomes
  <1>2. CASE op = "enable"
    BY <1>2 DEF PiOutcomes
  <1>3. CASE op = "disable"
    BY <1>3 DEF PiOutcomes
  <1>4. CASE op = "switch"
    BY <1>4 DEF PiOutcomes
  <1>5. CASE op = "uninstall"
    BY <1>5 DEF PiOutcomes
  <1> QED
    BY <1>1, <1>2, <1>3, <1>4, <1>5 DEF PiOps

\* The registry has one enabled version at most, whatever an operation comes to.
LEMMA OneStaysEnabled ==
  ASSUME NEW reg, OneEnabled(reg), NEW op \in PiOps \ {"resolve"}, NEW v, NEW out \in PiOutcomes(reg, op, v)
  PROVE  OneEnabled(out.reg)
  <1> DEFINE off == [w \in PiVersions |-> IF reg[w] = "enabled" THEN "installed" ELSE reg[w]]
  <1>1. DOMAIN reg = PiVersions /\ \A w, x \in PiVersions : reg[w] = "enabled" /\ reg[x] = "enabled" => w = x
    BY DEF OneEnabled
  <1>2. DOMAIN off = PiVersions /\ \A w \in PiVersions : off[w] # "enabled"
    OBVIOUS
  <1>3. OneEnabled(off)
    BY <1>2 DEF OneEnabled
  <1> HIDE DEF off
  <1>4. ASSUME NEW st, st # "enabled" PROVE OneEnabled([reg EXCEPT ![v] = st]) /\ OneEnabled([off EXCEPT ![v] = st])
    BY <1>1, <1>2, <1>4 DEF OneEnabled
  <1>5. OneEnabled([off EXCEPT ![v] = "enabled"])
    BY <1>2 DEF OneEnabled
  <1>6. PiEnabled(reg) = {} => OneEnabled([reg EXCEPT ![v] = "enabled"])
    BY <1>1 DEF OneEnabled, PiEnabled
  <1> DEFINE R(st, ok) == PiOutcome(reg, v, st, ok)
             F(st, ok) == PiOutcome(off, v, st, ok)
             with(st) == [reg EXCEPT ![v] = st]
             only(st) == [off EXCEPT ![v] = st]
  <1>7. \A st : /\ R(st, TRUE).reg = with(st) /\ R(st, FALSE).reg = with(st)
                /\ F(st, TRUE).reg = only(st) /\ F(st, FALSE).reg = only(st)
    BY DEF PiOutcome
  <1>8. \/ out \in {[reg |-> reg, ok |-> FALSE], [reg |-> off, ok |-> TRUE], [reg |-> off, ok |-> FALSE]}
        \/ out \in {R("installed", TRUE), R("install_failed", FALSE), R("enable_failed", FALSE), R("uninstalled", TRUE)}
        \/ out \in {F("enabled", TRUE), F("enable_failed", FALSE)}
        \/ PiEnabled(reg) = {} /\ out = R("enabled", TRUE)
    BY OutcomesAre DEF off
  <1> HIDE DEF R, F
  <1>9. CASE out \in {[reg |-> reg, ok |-> FALSE], [reg |-> off, ok |-> TRUE], [reg |-> off, ok |-> FALSE]}
    BY <1>3, <1>9
  <1>10. CASE out \in {R("installed", TRUE), R("install_failed", FALSE), R("enable_failed", FALSE), R("uninstalled", TRUE)}
    <2>1. OneEnabled(with("installed")) /\ OneEnabled(with("install_failed"))
      BY <1>4
    <2>2. OneEnabled(with("enable_failed")) /\ OneEnabled(with("uninstalled"))
      BY <1>4
    <2> HIDE DEF with
    <2> QED
      BY <1>7, <1>10, <2>1, <2>2
  <1>11. CASE out \in {F("enabled", TRUE), F("enable_failed", FALSE)}
    <2>1. OneEnabled(only("enable_failed")) /\ OneEnabled(only("enabled"))
      BY <1>4, <1>5
    <2> HIDE DEF only
    <2> QED
      BY <1>7, <1>11, <2>1
  <1>12. CASE PiEnabled(reg) = {} /\ out = R("enabled", TRUE)
    BY <1>6, <1>7, <1>12
  <1> QED
    BY <1>8, <1>9, <1>10, <1>11, <1>12

\* A request is sent: the others are raced and go on.
LEMMA PiSent ==
  ASSUME PiCallsOK(piCalls, piTokens, piIssued), NEW c, PiCallOK(c, piTokens, piIssued), PiSend(c)
  PROVE  LET n == Len(piCalls) + 1
         IN  /\ DOMAIN piCalls' = DOMAIN piCalls \cup {n} /\ n \notin DOMAIN piCalls
             /\ \A i \in DOMAIN piCalls : /\ piCalls'[i].raced
                                          /\ piCalls'[i].op = piCalls[i].op /\ piCalls'[i].v = piCalls[i].v
                                          /\ piCalls'[i].src = piCalls[i].src /\ piCalls'[i].ans = piCalls[i].ans
             /\ piCalls'[n].op = c.op /\ piCalls'[n].v = c.v /\ piCalls'[n].src = c.src /\ piCalls'[n].raced = c.raced
             /\ n \in Nat /\ Len(piCalls') = n /\ n <= PiMaxCalls
  <1> DEFINE q == [i \in DOMAIN piCalls |-> [piCalls[i] EXCEPT !.raced = TRUE]]
             new == [c EXCEPT !.ans = Waiting]
  <1>1. piCalls' = Append(q, new)
    BY DEF PiSend, Send
  <1>2. new.op = c.op /\ new.v = c.v /\ new.src = c.src /\ new.raced = c.raced
    BY DEF PiCallOK, PiCallFields
  <1> HIDE DEF new
  <1>3. PICK S : piCalls \in Seq(S)
    BY DEF PiCallsOK
  <1>4. Len(piCalls) \in Nat /\ DOMAIN piCalls = 1 .. Len(piCalls)
    BY <1>3, LenProperties
  <1>5. \A i \in DOMAIN piCalls : /\ q[i].raced /\ q[i].op = piCalls[i].op /\ q[i].v = piCalls[i].v
                                 /\ q[i].src = piCalls[i].src /\ q[i].ans = piCalls[i].ans
    BY DEF PiCallsOK, PiCallOK, PiCallFields
  <1>6. q = [i \in 1 .. Len(piCalls) |-> q[i]]
    BY <1>4
  <1> HIDE DEF q
  <1> DEFINE T == {q[i] : i \in 1 .. Len(piCalls)} \cup {new}
  <1>7. q \in Seq(T) /\ new \in T
    BY <1>4, <1>6, IsASeq
  <1> HIDE DEF T
  <1>8. Len(q) = Len(piCalls)
    BY <1>4, <1>6, <1>7, LenProperties
  <1>9. /\ piCalls' \in Seq(T) /\ Len(piCalls') = Len(piCalls) + 1
        /\ \A i \in DOMAIN piCalls : piCalls'[i] = q[i]
        /\ piCalls'[Len(piCalls) + 1] = new
    BY <1>1, <1>4, <1>7, <1>8, AppendProperties
  <1>10. DOMAIN piCalls' = DOMAIN piCalls \cup {Len(piCalls) + 1} /\ Len(piCalls) + 1 \notin DOMAIN piCalls
    BY <1>4, <1>9, LenProperties
  <1>11. Len(piCalls) + 1 \in Nat /\ Len(piCalls) + 1 <= PiMaxCalls
    BY <1>4, PluginsAssumption DEF PiSend
  <1> QED
    BY <1>2, <1>5, <1>9, <1>10, <1>11

\* The requests change, each for itself; the registry does not.
LEMMA RowsCallsKept ==
  ASSUME RowsInv, piRegistry' = piRegistry, DOMAIN piCalls' = DOMAIN piCalls,
         \A i \in DOMAIN piCalls :
             /\ piCalls'[i].op = piCalls[i].op /\ piCalls'[i].v = piCalls[i].v
             /\ piCalls[i].raced => piCalls'[i].raced
             /\ piCalls[i].ans # Waiting => piCalls'[i].ans # Waiting
  PROVE  /\ OneEnabled(piRegistry') /\ \A i \in DOMAIN piCalls' : piCalls'[i].op \in PiOps
         /\ PiMeant'
         /\ PiPending /\ (piUnseen => piUnseen') => PiPending'
  <1>1. OneEnabled(piRegistry') /\ \A i \in DOMAIN piCalls' : piCalls'[i].op \in PiOps
    BY DEF RowsInv
  <1>2. ASSUME NEW i \in DOMAIN piCalls', piCalls'[i].op = "disable", ~piCalls'[i].raced, piCalls'[i].ans = Waiting
        PROVE  (\A j \in DOMAIN piCalls' : j = i) /\ PiEnabled(piRegistry') = {piCalls'[i].v}
    <2>1. (\A j \in DOMAIN piCalls : j = i) /\ PiEnabled(piRegistry) = {piCalls[i].v}
      BY <1>2 DEF RowsInv, PiMeant
    <2> QED
      BY <1>2, <2>1
  <1>3. PiMeant'
    BY <1>2 DEF PiMeant
  <1>4. PiPending /\ (piUnseen => piUnseen') => PiPending'
    BY DEF PiPending
  <1> QED
    BY <1>1, <1>3, <1>4

\* The hook and its list stay beside calls that only change for themselves.
LEMMA RowsHookKept ==
  ASSUME RowsInv, UNCHANGED <<piRegistry, piHook>>, PiPending => PiPending'
  PROVE  PiListed'
  BY DEF RowsInv, PiListed

\* An operation on the registry is answered: nothing but a Disable is meant, and
\* that one was alone.
LEMMA RowsAnswered ==
  ASSUME RowsInv, ConsentInv, NEW i \in DOMAIN piCalls, piCalls[i].op # "resolve",
         NEW ans, ans # Waiting, piCalls' = Answer(piCalls, i, ans),
         OneEnabled(piRegistry'), UNCHANGED <<piHook, piUnseen>>
  PROVE  RowsInv'
  <1>1. /\ DOMAIN piCalls' = DOMAIN piCalls
        /\ \A j \in DOMAIN piCalls \ {i} : piCalls'[j] = piCalls[j]
        /\ piCalls'[i].op = piCalls[i].op /\ piCalls'[i].ans = ans
    BY DEF Answer, ConsentInv, PiCallsOK, PiCallOK, PiCallFields
  <1>2. PiPending'
    BY <1>1 DEF PiPending
  <1>3. PiListed'
    BY <1>2 DEF PiListed, RowsInv
  <1>4. \A j \in DOMAIN piCalls' : ~(piCalls'[j].op = "disable" /\ ~piCalls'[j].raced /\ piCalls'[j].ans = Waiting)
    BY <1>1 DEF RowsInv, PiMeant
  <1>5. PiMeant'
    BY <1>4 DEF PiMeant
  <1> QED
    BY <1>1, <1>3, <1>5 DEF RowsInv

\* A request is gone.
LEMMA RowsForgotten ==
  ASSUME RowsInv, ConsentInv, NEW i \in DOMAIN piCalls, piRegistry' = piRegistry,
         NEW calls, DOMAIN calls = DOMAIN piCalls, \E S : calls \in Seq(S),
         \A j \in DOMAIN piCalls : /\ calls[j].op = piCalls[j].op /\ calls[j].v = piCalls[j].v
                                   /\ calls[j].raced = piCalls[j].raced /\ calls[j].ans = piCalls[j].ans,
         piCalls' = Forget(calls, i)
  PROVE  /\ OneEnabled(piRegistry') /\ \A k \in DOMAIN piCalls' : piCalls'[k].op \in PiOps
         /\ PiMeant'
         /\ PiPending /\ (piUnseen => piUnseen') /\ piCalls[i].op = "resolve" => PiPending'
  <1>1. PICK S : calls \in Seq(S)
    OBVIOUS
  <1>2. \A k \in DOMAIN piCalls' : \E j \in DOMAIN piCalls \ {i} : piCalls'[k] = calls[j]
    BY <1>1, ForgetTakes
  <1>3. \A k, l \in DOMAIN piCalls' : k # l =>
          \E j, m \in DOMAIN piCalls \ {i} : j # m /\ piCalls'[k] = calls[j] /\ piCalls'[l] = calls[m]
    BY <1>1, ForgetKeepsApart
  <1>4. \A j \in DOMAIN piCalls \ {i} : \E k \in DOMAIN piCalls' : piCalls'[k] = calls[j]
    BY <1>1, RemoveAtKeeps DEF Forget
  <1>5. \A k \in DOMAIN piCalls' : piCalls'[k].op \in PiOps
    BY <1>2 DEF RowsInv
  <1>6. ASSUME NEW k \in DOMAIN piCalls', piCalls'[k].op = "disable", ~piCalls'[k].raced, piCalls'[k].ans = Waiting
        PROVE  (\A l \in DOMAIN piCalls' : l = k) /\ PiEnabled(piRegistry') = {piCalls'[k].v}
    <2>1. PICK j \in DOMAIN piCalls \ {i} : piCalls'[k] = calls[j]
      BY <1>2
    <2>2. (\A m \in DOMAIN piCalls : m = j) /\ PiEnabled(piRegistry) = {piCalls[j].v}
      BY <1>6, <2>1 DEF RowsInv, PiMeant
    <2> QED
      BY <2>1, <2>2
  <1>7. PiMeant'
    BY <1>6 DEF PiMeant
  <1>8. ASSUME PiPending, piUnseen => piUnseen', piCalls[i].op = "resolve" PROVE PiPending'
    <2>1. CASE piUnseen
      BY <1>8, <2>1 DEF PiPending
    <2>2. CASE ~piUnseen
      <3>1. PICK j \in DOMAIN piCalls : piCalls[j].op # "resolve" /\ piCalls[j].ans # Waiting
        BY <1>8, <2>2 DEF PiPending
      <3>2. PICK k \in DOMAIN piCalls' : piCalls'[k] = calls[j]
        BY <1>4, <1>8, <3>1
      <3>3. piCalls'[k].op # "resolve" /\ piCalls'[k].ans # Waiting
        BY <3>1, <3>2
      <3> QED
        BY <3>3 DEF PiPending
    <2> QED
      BY <2>1, <2>2
  <1> QED
    BY <1>5, <1>7, <1>8 DEF RowsInv

\* A request is sent: a Disable that nothing came between is pressed on a row that
\* is enabled.
LEMMA RowsSent ==
  ASSUME RowsInv, ConsentInv, NEW c, PiCallOK(c, piTokens, piIssued), PiSend(c), c.op \in PiOps,
         UNCHANGED <<piRegistry, piHook, piUnseen>>,
         c.op = "disable" /\ ~c.raced => piCalls = <<>> /\ PiEnabled(piRegistry) = {c.v}
  PROVE  RowsInv'
  <1> DEFINE n == Len(piCalls) + 1
  <1>1. /\ DOMAIN piCalls' = DOMAIN piCalls \cup {n} /\ n \notin DOMAIN piCalls
        /\ \A i \in DOMAIN piCalls : /\ piCalls'[i].raced
                                     /\ piCalls'[i].op = piCalls[i].op /\ piCalls'[i].v = piCalls[i].v
                                     /\ piCalls'[i].ans = piCalls[i].ans
        /\ piCalls'[n].op = c.op /\ piCalls'[n].v = c.v /\ piCalls'[n].raced = c.raced
    BY PiSent DEF ConsentInv
  <1> HIDE DEF n
  <1>2. \A i \in DOMAIN piCalls' : piCalls'[i].op \in PiOps
    BY <1>1 DEF RowsInv
  <1>3. PiPending => PiPending'
    BY <1>1 DEF PiPending
  <1>4. ASSUME NEW i \in DOMAIN piCalls', piCalls'[i].op = "disable", ~piCalls'[i].raced
        PROVE  (\A j \in DOMAIN piCalls' : j = i) /\ PiEnabled(piRegistry') = {piCalls'[i].v}
    <2>1. i = n /\ c.op = "disable" /\ ~c.raced
      BY <1>1, <1>4
    <2>2. DOMAIN piCalls = {} /\ PiEnabled(piRegistry) = {c.v}
      BY <2>1
    <2> QED
      BY <1>1, <2>1, <2>2
  <1>5. PiMeant'
    BY <1>4 DEF PiMeant
  <1> QED
    BY <1>2, <1>3, <1>5, RowsHookKept DEF RowsInv

\* Everything but the calls of the list is as before.
LEMMA RowsSame ==
  ASSUME RowsInv, UNCHANGED <<piRegistry, piHook, piCalls, piUnseen>> PROVE RowsInv'
  BY DEF RowsInv, OneEnabled, PiListed, PiPending, PiMeant, PiEnabled

\* A list is asked for: the answer is not there yet.
LEMMA RowsAskedAgain ==
  ASSUME OneEnabled(piRegistry'), \A i \in DOMAIN piCalls' : piCalls'[i].op \in PiOps, PiMeant',
         NEW deps, piHook' = AsyncMount(deps) \/ piHook' = AsyncReload(piHook)
  PROVE  RowsInv'
  <1>1. HookAlone(piHook') /\ \E x : piHook'.calls = {x} /\ x.ans = Waiting
    BY HookStarts
  <1>2. PiListed'
    BY <1>1 DEF PiListed
  <1> QED
    BY <1>2 DEF RowsInv

LEMMA RowsOrphans ==
  ASSUME ConsentInv, NEW field \in {"page", "modal"}
  PROVE  LET calls == PiOrphans(field)
         IN  /\ DOMAIN calls = DOMAIN piCalls /\ \E S : calls \in Seq(S)
             /\ \A i \in DOMAIN piCalls : /\ calls[i].op = piCalls[i].op /\ calls[i].v = piCalls[i].v
                                          /\ calls[i].raced = piCalls[i].raced /\ calls[i].ans = piCalls[i].ans
  <1> DEFINE calls == PiOrphans(field)
  <1>1. PiCallsOK(calls, piTokens, piIssued) /\ DOMAIN calls = DOMAIN piCalls
    BY CallsOrphaned DEF ConsentInv
  <1>2. \A i \in DOMAIN piCalls : /\ calls[i].op = piCalls[i].op /\ calls[i].v = piCalls[i].v
                                  /\ calls[i].raced = piCalls[i].raced /\ calls[i].ans = piCalls[i].ans
    BY DEF PiOrphans, ConsentInv, PiCallsOK, PiCallOK, PiCallFields
  <1> QED
    BY <1>1, <1>2 DEF PiCallsOK

\* The list: navigation, Reload, the service's answer and its arrival.
LEMMA RowsListSteps ==
  ASSUME RowsInv, ConsentInv,
         \/ \E view \in {"registry", "route"} : PiNavigate(view)
         \/ PiReload
         \/ \E c \in piHook.calls : PiServeList(c) \/ PiListArrives(c)
  PROVE  RowsInv'
  <1>1. ASSUME NEW view, PiNavigate(view) PROVE RowsInv'
    <2>1. piHook' = AsyncMount(view) /\ piCalls' = PiOrphans("page") /\ UNCHANGED <<piRegistry, piUnseen>>
      BY <1>1 DEF PiNavigate, piServer
    <2>2. OneEnabled(piRegistry') /\ (\A i \in DOMAIN piCalls' : piCalls'[i].op \in PiOps) /\ PiMeant'
      BY <2>1, RowsOrphans, RowsCallsKept
    <2> QED
      BY <2>1, <2>2, RowsAskedAgain
  <1>2. CASE PiReload
    <2>1. piHook' = AsyncReload(piHook) /\ UNCHANGED <<piRegistry, piUnseen, piCalls>>
      BY <1>2 DEF PiReload, piServer
    <2>2. OneEnabled(piRegistry') /\ (\A i \in DOMAIN piCalls' : piCalls'[i].op \in PiOps) /\ PiMeant'
      BY <2>1, RowsCallsKept
    <2> QED
      BY <2>1, <2>2, RowsAskedAgain
  <1>3. ASSUME NEW c \in piHook.calls, PiServeList(c) PROVE RowsInv'
    <2>1. PICK res \in {Value(piRegistry), Failed} : piHook' = AsyncServe(piHook, c, res)
      BY <1>3 DEF PiServeList
    <2>2. UNCHANGED <<piRegistry, piCalls>>
      BY <1>3 DEF PiServeList, piServer
    <2>3. OneEnabled(piRegistry') /\ (\A i \in DOMAIN piCalls' : piCalls'[i].op \in PiOps) /\ PiMeant'
      BY <2>2, RowsCallsKept
    <2>4. HookAlone(piHook') /\ \E x : piHook'.calls = {x} /\ x.ans = res
      BY <2>1, HookStays DEF RowsInv, PiListed
    <2>5. PiListed'
      BY <2>2, <2>4 DEF PiListed
    <2> QED
      BY <2>3, <2>5 DEF RowsInv
  <1>4. ASSUME NEW c \in piHook.calls, PiListArrives(c) PROVE RowsInv'
    <2>1. c.ans # Waiting /\ piHook' = AsyncDeliver(piHook, c) /\ UNCHANGED <<piRegistry, piCalls, piUnseen>>
      BY <1>4 DEF PiListArrives, piServer
    <2>2. /\ OneEnabled(piRegistry') /\ (\A i \in DOMAIN piCalls' : piCalls'[i].op \in PiOps) /\ PiMeant'
          /\ PiPending => PiPending'
      BY <2>1, RowsCallsKept
    <2>3. HookAlone(piHook') /\ piHook'.calls = {} /\ HookAlone(piHook)
      BY <2>1, HookStays DEF RowsInv, PiListed
    <2>4. (c.ans = Failed => piHook'.failed) /\ (c.ans # Failed => piHook'.data = c.ans)
      BY <2>1, <2>3 DEF HookAlone, AsyncDeliver
    <2>5. PiListed'
      BY <2>1, <2>2, <2>3, <2>4 DEF PiListed, RowsInv
    <2> QED
      BY <2>2, <2>5 DEF RowsInv
  <1> QED
    BY <1>1, <1>2, <1>3, <1>4

\* Requests are sent.
LEMMA RowsSendSteps ==
  ASSUME RowsInv, ConsentInv,
         \/ \E op \in {"enable", "switch", "disable", "uninstall"}, v \in PiVersions : PiRowAction(op, v)
         \/ PiResolve
         \/ \E art \in PiArtifacts : PiSubmit(art)
  PROVE  RowsInv'
  <1>1. ASSUME NEW op \in {"enable", "switch", "disable", "uninstall"}, NEW v \in PiVersions, PiRowAction(op, v) PROVE RowsInv'
    <2> DEFINE c == PiCall(op, v, NoSource, 0, NoPlan)
    <2>1. PiSend(c) /\ UNCHANGED <<piRegistry, piHook, piUnseen>>
      BY <1>1 DEF PiRowAction, piServer
    <2>2. PiCallOK(c, piTokens, piIssued)
      BY DEF PiCall, PiCallOK, PiCallFields
    <2>3. c.op = op /\ c.v = v /\ (~c.raced => ~piUnseen /\ piCalls = <<>> /\ AsyncSettled(piHook))
      BY DEF PiCall
    <2>4. ASSUME op = "disable", ~piUnseen, piCalls = <<>>, AsyncSettled(piHook) PROVE PiEnabled(piRegistry) = {v}
      <3>1. DOMAIN piCalls = {}
        BY <2>4
      <3>2. ~PiPending
        BY <2>4, <3>1 DEF PiPending
      <3>3. AsyncShown(piHook) /\ op \in PiButtons(v)
        BY <1>1 DEF PiRowAction, groupPlugins
      <3>4. piHook.data = Value(piRegistry)
        BY <2>4, <3>2, <3>3 DEF RowsInv, PiListed, AsyncShown, AsyncSettled
      <3>5. piHook.data[2][v] = "enabled"
        BY <2>4, <3>3 DEF PiButtons, PluginActions, PluginContributionView, PiRowState
      <3>6. piRegistry[v] = "enabled"
        BY <3>4, <3>5 DEF Value
      <3> QED
        BY <3>6 DEF RowsInv, OneEnabled, PiEnabled
    <2> HIDE DEF c
    <2> QED
      BY <2>1, <2>2, <2>3, <2>4, RowsSent DEF PiOps
  <1>2. CASE PiResolve
    <2> DEFINE c == PiCall("resolve", "none", PiSource, 0, NoPlan)
    <2>1. PiSend(c) /\ UNCHANGED <<piRegistry, piHook, piUnseen>>
      BY <1>2 DEF PiResolve, piServer
    <2>2. PiCallOK(c, piTokens, piIssued) /\ c.op = "resolve"
      BY DEF PiCall, PiCallOK, PiCallFields
    <2> HIDE DEF c
    <2> QED
      BY <2>1, <2>2, RowsSent DEF PiOps
  <1>3. ASSUME NEW art \in PiArtifacts, PiSubmit(art) PROVE RowsInv'
    <2>1. PICK c : PiSend(c) /\ c.op = "install" /\ PiCallOK(c, piTokens, piIssued)
      BY <1>3, SubmitSends
    <2>2. UNCHANGED <<piRegistry, piHook, piUnseen>>
      BY <1>3 DEF PiSubmit, piServer
    <2> QED
      BY <2>1, <2>2, RowsSent DEF PiOps
  <1> QED
    BY <1>1, <1>2, <1>3

\* What the service makes of the requests.
LEMMA RowsServeSteps ==
  ASSUME RowsInv, ConsentInv, NEW i \in DOMAIN piCalls,
         PiServeResolve(i) \/ PiServeInstall(i) \/ PiServeRow(i) \/ PiCallLost(i)
  PROVE  RowsInv'
  <1>1. PiCallOK(piCalls[i], piTokens, piIssued) /\ piCalls[i].op \in PiOps /\ OneEnabled(piRegistry)
    BY DEF ConsentInv, PiCallsOK, RowsInv
  <1>2. Failed # Waiting /\ \A x : Value(x) # Waiting
    BY DEF Failed, Waiting, Value
  <1>3. ASSUME NEW ans, ans # Waiting, piCalls' = Answer(piCalls, i, ans), UNCHANGED <<piRegistry, piHook, piUnseen>>
        PROVE  RowsInv'
    <2>1. /\ DOMAIN piCalls' = DOMAIN piCalls
          /\ \A j \in DOMAIN piCalls : /\ piCalls'[j].op = piCalls[j].op /\ piCalls'[j].v = piCalls[j].v
                                       /\ piCalls'[j].raced = piCalls[j].raced
                                       /\ piCalls'[j].ans = piCalls[j].ans \/ piCalls'[j].ans = ans
      BY <1>3 DEF Answer, ConsentInv, PiCallsOK, PiCallOK, PiCallFields
    <2>2. /\ OneEnabled(piRegistry') /\ (\A j \in DOMAIN piCalls' : piCalls'[j].op \in PiOps) /\ PiMeant'
          /\ PiPending => PiPending'
      BY <1>3, <2>1, RowsCallsKept
    <2> QED
      BY <1>3, <2>2, RowsHookKept DEF RowsInv
  <1>4. CASE PiServeResolve(i)
    <2>1. PICK plan : piCalls' = Answer(piCalls, i, Value(plan))
      BY <1>4 DEF PiServeResolve, PiServed
    <2>2. UNCHANGED <<piRegistry, piHook, piUnseen>>
      BY <1>4 DEF PiServeResolve
    <2> QED
      BY <1>2, <1>3, <2>1, <2>2
  <1>5. CASE PiCallLost(i)
    <2>1. piCalls' = Answer(piCalls, i, Failed) /\ UNCHANGED <<piRegistry, piHook, piUnseen>>
      BY <1>5 DEF PiCallLost, PiServed, piServer
    <2> QED
      BY <1>2, <1>3, <2>1
  <1>6. CASE PiServeInstall(i)
    <2>1. piCalls[i].op = "install" /\ UNCHANGED <<piHook, piUnseen>>
      BY <1>6, Zenon DEF PiServeInstall
    <2>2. PICK ans \in {Value(""), Failed} : piCalls' = Answer(piCalls, i, ans)
      BY <1>6, Zenon DEF PiServeInstall, PiServed
    <2>3. piRegistry' = piRegistry \/ \E a : \E out \in PiOutcomes(piRegistry, "install", PiVersionOf[a]) : piRegistry' = out.reg
      BY <1>6, Zenon DEF PiServeInstall
    <2>4. OneEnabled(piRegistry')
      BY <1>1, <2>3, OneStaysEnabled, Zenon DEF PiOps
    <2> QED
      BY <1>2, <2>1, <2>2, <2>4, RowsAnswered, Zenon
  <1>7. CASE PiServeRow(i)
    <2>1. piCalls[i].op # "resolve" /\ UNCHANGED <<piHook, piUnseen>>
      BY <1>1, <1>7, Zenon DEF PiServeRow, PiCallOK
    <2>2. PICK out \in PiOutcomes(piRegistry, piCalls[i].op, piCalls[i].v) :
             piRegistry' = out.reg /\ piCalls' = Answer(piCalls, i, IF out.ok THEN Value("") ELSE Failed)
      BY <1>7, Zenon DEF PiServeRow, PiServed
    <2>3. PICK ans \in {Value(""), Failed} : piCalls' = Answer(piCalls, i, ans)
      BY <2>2, Zenon
    <2>4. OneEnabled(piRegistry')
      BY <1>1, <2>1, <2>2, OneStaysEnabled, Zenon
    <2> QED
      BY <1>2, <2>1, <2>3, <2>4, RowsAnswered, Zenon
  <1> QED
    BY <1>4, <1>5, <1>6, <1>7

\* Answers arrive.
LEMMA RowsArriveSteps ==
  ASSUME RowsInv, ConsentInv, NEW i \in DOMAIN piCalls, PiCallFails(i) \/ PiResolveArrives(i) \/ PiCallArrives(i)
  PROVE  RowsInv'
  <1>1. \E S : piCalls \in Seq(S)
    BY DEF ConsentInv, PiCallsOK
  <1>2. ASSUME piCalls' = Forget(piCalls, i), piRegistry' = piRegistry
        PROVE  /\ OneEnabled(piRegistry') /\ (\A k \in DOMAIN piCalls' : piCalls'[k].op \in PiOps) /\ PiMeant'
               /\ PiPending /\ (piUnseen => piUnseen') /\ piCalls[i].op = "resolve" => PiPending'
    BY <1>1, <1>2, RowsForgotten
  <1>3. CASE PiCallFails(i)
    <2>1. /\ piCalls' = Forget(piCalls, i) /\ UNCHANGED <<piRegistry, piHook>>
          /\ piUnseen' = (piUnseen \/ piCalls[i].op # "resolve")
      BY <1>3 DEF PiCallFails, piServer
    <2>2. piUnseen \/ piCalls[i].op # "resolve" => PiPending'
      BY <2>1 DEF PiPending
    <2>3. (piUnseen => piUnseen') /\ (~(piUnseen \/ piCalls[i].op # "resolve") => piCalls[i].op = "resolve")
      BY <2>1
    <2>4. PiPending => PiPending'
      BY <1>2, <2>1, <2>2, <2>3
    <2> QED
      BY <1>2, <2>1, <2>4, RowsHookKept DEF RowsInv
  <1>4. CASE PiResolveArrives(i)
    <2>1. piCalls' = Forget(piCalls, i) /\ UNCHANGED <<piRegistry, piHook, piUnseen>> /\ piCalls[i].op = "resolve"
      BY <1>4 DEF PiResolveArrives, piServer
    <2> QED
      BY <1>2, <2>1, RowsHookKept DEF RowsInv
  <1>5. CASE PiCallArrives(i)
    <2>1. /\ piCalls' = Forget(piCalls, i) \/ piCalls' = Forget(PiOrphans("modal"), i)
          /\ piRegistry' = piRegistry
          /\ IF piCalls[i].page THEN piHook' = AsyncReload(piHook) ELSE piHook' = piHook /\ piUnseen' = TRUE
      BY <1>5, Zenon DEF PiCallArrives, PiReloaded, piServer
    <2>2. ASSUME piCalls' = Forget(PiOrphans("modal"), i)
          PROVE  OneEnabled(piRegistry') /\ (\A k \in DOMAIN piCalls' : piCalls'[k].op \in PiOps) /\ PiMeant'
      <3> DEFINE calls == PiOrphans("modal")
      <3>1. /\ DOMAIN calls = DOMAIN piCalls /\ \E S : calls \in Seq(S)
            /\ \A j \in DOMAIN piCalls : /\ calls[j].op = piCalls[j].op /\ calls[j].v = piCalls[j].v
                                         /\ calls[j].raced = piCalls[j].raced /\ calls[j].ans = piCalls[j].ans
        BY RowsOrphans
      <3> HIDE DEF calls
      <3>2. piCalls' = Forget(calls, i)
        BY <2>2 DEF calls
      <3> QED
        BY <2>1, <3>1, <3>2, RowsForgotten
    <2>3. OneEnabled(piRegistry') /\ (\A k \in DOMAIN piCalls' : piCalls'[k].op \in PiOps) /\ PiMeant'
      BY <1>2, <2>1, <2>2
    <2>4. CASE piCalls[i].page
      BY <2>1, <2>3, <2>4, RowsAskedAgain
    <2>5. CASE ~piCalls[i].page
      <3>1. PiPending'
        BY <2>1, <2>5 DEF PiPending
      <3> QED
        BY <2>1, <2>3, <2>5, <3>1, RowsHookKept DEF RowsInv
    <2> QED
      BY <2>4, <2>5
  <1> QED
    BY <1>3, <1>4, <1>5

\* The dialog, other tabs and the world outside.
LEMMA RowsOtherSteps ==
  ASSUME RowsInv, ConsentInv,
         \/ PiOpenInstall \/ PiCloseInstall \/ PiAcknowledge \/ PiRestart
         \/ \E mode \in LocalModes \cup PiModes : switchMode(mode)
         \/ \E ref \in UNION {PiRefs[m] : m \in PiModes} : PiEdit(ref)
         \/ \E ref \in DOMAIN PiUpstream0, art \in PiArtifacts : PiUpstreamMoves(ref, art)
         \/ \E op \in {"enable", "switch", "disable", "uninstall"}, v \in PiVersions : PiOther(op, v)
  PROVE  RowsInv'
  <1>1. CASE PiOpenInstall \/ PiAcknowledge \/ PiRestart
    BY <1>1, RowsSame DEF PiOpenInstall, PiAcknowledge, PiRestart, PiFormChange, piServer
  <1>2. ASSUME NEW mode, switchMode(mode) PROVE RowsInv'
    BY <1>2, RowsSame DEF switchMode, PiFormChange, piServer
  <1>3. ASSUME NEW ref, PiEdit(ref) PROVE RowsInv'
    BY <1>3, RowsSame, Zenon DEF PiEdit, PiFormChange, piServer
  <1>4. ASSUME NEW ref, NEW art, PiUpstreamMoves(ref, art) PROVE RowsInv'
    BY <1>4, RowsSame DEF PiUpstreamMoves
  <1>5. CASE PiCloseInstall
    <2>1. piCalls' = PiOrphans("modal") /\ UNCHANGED <<piRegistry, piHook, piUnseen>>
      BY <1>5 DEF PiCloseInstall, piServer
    <2>2. /\ OneEnabled(piRegistry') /\ (\A j \in DOMAIN piCalls' : piCalls'[j].op \in PiOps) /\ PiMeant'
          /\ PiPending => PiPending'
      BY <2>1, RowsOrphans, RowsCallsKept
    <2> QED
      BY <2>1, <2>2, RowsHookKept DEF RowsInv
  <1>6. ASSUME NEW op \in {"enable", "switch", "disable", "uninstall"}, NEW v, PiOther(op, v) PROVE RowsInv'
    <2>1. PICK out \in PiOutcomes(piRegistry, op, v) : piRegistry' = out.reg
      BY <1>6 DEF PiOther
    <2>2. /\ piCalls' = [i \in DOMAIN piCalls |-> [piCalls[i] EXCEPT !.raced = TRUE]]
          /\ piUnseen' = TRUE /\ UNCHANGED piHook
      BY <1>6 DEF PiOther
    <2>3. OneEnabled(piRegistry')
      BY <2>1, OneStaysEnabled DEF RowsInv, PiOps
    <2>4. /\ DOMAIN piCalls' = DOMAIN piCalls
          /\ \A i \in DOMAIN piCalls : piCalls'[i].raced /\ piCalls'[i].op = piCalls[i].op
      BY <2>2 DEF ConsentInv, PiCallsOK, PiCallOK, PiCallFields
    <2>5. PiPending'
      BY <2>2 DEF PiPending
    <2>6. PiListed'
      BY <2>2, <2>5 DEF PiListed, RowsInv
    <2>7. PiMeant'
      BY <2>4 DEF PiMeant
    <2> QED
      BY <2>3, <2>4, <2>6, <2>7 DEF RowsInv
  <1> QED
    BY <1>1, <1>2, <1>3, <1>4, <1>5, <1>6

LEMMA RowsInit == PiInit => RowsInv
  <1> SUFFICES ASSUME PiInit PROVE RowsInv
    OBVIOUS
  <1>1. piRegistry = PiRegistry0 /\ piHook = AsyncMount("registry") /\ piCalls = <<>>
    BY DEF PiInit
  <1>2. OneEnabled(piRegistry)
    BY <1>1, PluginsAssumption DEF OneEnabled, PiVersions
  <1>3. DOMAIN piCalls = {}
    BY <1>1
  <1>4. HookAlone(piHook) /\ \E x : piHook.calls = {x} /\ x.ans = Waiting
    BY <1>1, HookStarts
  <1> QED
    BY <1>2, <1>3, <1>4 DEF RowsInv, PiListed, PiMeant

LEMMA RowsNext == RowsInv /\ ConsentInv /\ [PiNext]_piVars => RowsInv'
  <1> SUFFICES ASSUME RowsInv, ConsentInv, [PiNext]_piVars PROVE RowsInv'
    OBVIOUS
  <1>1. CASE UNCHANGED piVars
    BY <1>1, RowsSame DEF piVars
  <1>2. CASE PiNext
    BY <1>2, RowsListSteps, RowsSendSteps, RowsServeSteps, RowsArriveSteps, RowsOtherSteps DEF PiNext
  <1> QED
    BY <1>1, <1>2

\* Rows may have changed otherwise than in their SSL flag.
WsPending ==
    \/ wsUnseen
    \/ \E i \in DOMAIN wsCalls :
          wsCalls[i].at = "done"
              /\ (wsCalls[i].ans = Failed \/ wsCalls[i].op \in {"toggle", "remove", "create", "update"})

\* A listing that is right, but for the SSL flag.
WsRight(data) ==
    \A i \in WsIds : data[2][i].dom = wsServer.rows[i].dom /\ data[2][i].active = wsServer.rows[i].active

WsListed ==
    /\ HookAlone(wsHook)
    /\ \/ WsPending
       \/ /\ \A c \in wsHook.calls : c.ans \notin {Waiting, Failed} => WsRight(c.ans)
          /\ wsHook.calls = {} /\ AsyncShown(wsHook) => WsRight(wsHook.data)

\* A toggle that nothing came between is alone, and finds what the button offered.
WsMeant ==
    \A i \in DOMAIN wsCalls :
        LET c == wsCalls[i] IN
        c.op = "toggle" /\ ~c.raced /\ c.ans = Waiting =>
            /\ \A j \in DOMAIN wsCalls : j = i
            /\ wsHook.calls = {} /\ wsSyncs = {}
            /\ wsServer.rows[c.id].active = c.active
            /\ c.at = "read" => c.row = wsServer.rows[c.id]

\* A certbot request of the dialog on show is its only one, and is not sent while a
\* log is open; a verdict is shown when the stream is closed.
WsVerdicts ==
    /\ wsDialogs \in Nat
    /\ \A i \in DOMAIN wsCalls : wsCalls[i].no \in Nat /\ wsCalls[i].no <= wsDialogs
    /\ \A i, j \in DOMAIN wsCalls :
          /\ wsCalls[i].op = "certbot" /\ wsCalls[i].no = wsDialogs
          /\ wsCalls[j].op = "certbot" /\ wsCalls[j].no = wsDialogs
          => i = j
    /\ wsDialog.kind = "ssl" =>
          /\ wsDialog.es # "none" =>
                \A i \in DOMAIN wsCalls : ~(wsCalls[i].op = "certbot" /\ wsCalls[i].no = wsDialogs)
          /\ wsDialog.status \in {"ok", "failed"} => wsDialog.es # "open"

\* The inductive invariant, beside SitesInv.
WsShownInv == WsListed /\ WsMeant /\ WsVerdicts

\* A request is sent: the others are raced and go on.
LEMMA WsRaced ==
  ASSUME SitesInv, NEW c, WsCallOK(c), WsSend(c)
  PROVE  LET n == Len(wsCalls) + 1
         IN  /\ DOMAIN wsCalls' = DOMAIN wsCalls \cup {n} /\ n \notin DOMAIN wsCalls
             /\ \A i \in DOMAIN wsCalls :
                  wsCalls'[i].raced /\ \A f \in WsCallFields \ {"raced"} : wsCalls'[i][f] = wsCalls[i][f]
             /\ \A f \in WsCallFields \ {"raced", "ans"} : wsCalls'[n][f] = c[f]
             /\ ~wsCalls'[n].raced => wsCalls = <<>> /\ ~wsUnseen /\ AsyncSettled(wsHook) /\ wsSyncs = {}
  <1> DEFINE late == wsCalls # <<>> \/ wsUnseen \/ ~AsyncSettled(wsHook) \/ wsSyncs # {}
             q == [i \in DOMAIN wsCalls |-> [wsCalls[i] EXCEPT !.raced = TRUE]]
             e == [c EXCEPT !.raced = late]
             new == [e EXCEPT !.ans = Waiting]
  <1>1. wsCalls' = Append(q, new)
    BY DEF WsSend, Send
  <1>2. new.raced => late
    BY DEF WsCallOK, WsCallFields
  <1>3. late => new.raced
    BY DEF WsCallOK, WsCallFields
  <1>4. \A f \in WsCallFields \ {"raced", "ans"} : new[f] = c[f]
    BY DEF WsCallOK, WsCallFields
  <1>5. ~new.raced => wsCalls = <<>> /\ ~wsUnseen /\ AsyncSettled(wsHook) /\ wsSyncs = {}
    BY <1>3
  <1> HIDE DEF new, e, late
  <1>6. PICK S : wsCalls \in Seq(S)
    BY DEF SitesInv, WsCallsOK
  <1>7. Len(wsCalls) \in Nat /\ DOMAIN wsCalls = 1 .. Len(wsCalls)
    BY <1>6, LenProperties
  <1>8. \A i \in DOMAIN wsCalls : q[i].raced /\ \A f \in WsCallFields \ {"raced"} : q[i][f] = wsCalls[i][f]
    BY DEF SitesInv, WsCallsOK, WsCallOK, WsCallFields
  <1>9. q = [i \in 1 .. Len(wsCalls) |-> q[i]]
    BY <1>7
  <1> HIDE DEF q
  <1> DEFINE T == {q[i] : i \in 1 .. Len(wsCalls)} \cup {new}
  <1>10. q \in Seq(T) /\ new \in T
    BY <1>7, <1>9, IsASeq
  <1> HIDE DEF T
  <1>11. Len(q) = Len(wsCalls)
    BY <1>7, <1>9, <1>10, LenProperties
  <1>12. /\ wsCalls' \in Seq(T) /\ Len(wsCalls') = Len(wsCalls) + 1
         /\ \A i \in DOMAIN wsCalls : wsCalls'[i] = q[i]
         /\ wsCalls'[Len(wsCalls) + 1] = new
    BY <1>1, <1>7, <1>10, <1>11, AppendProperties
  <1>13. DOMAIN wsCalls' = DOMAIN wsCalls \cup {Len(wsCalls) + 1} /\ Len(wsCalls) + 1 \notin DOMAIN wsCalls
    BY <1>7, <1>12, LenProperties
  <1> QED
    BY <1>4, <1>5, <1>8, <1>12, <1>13

\* The same rows, but for the SSL flag.
SameRows(s, u) == \A i \in WsIds : u.rows[i].dom = s.rows[i].dom /\ u.rows[i].active = s.rows[i].active

LEMMA ListedKept ==
  ASSUME WsListed, wsHook' = wsHook, WsPending => WsPending', WsPending' \/ SameRows(wsServer, wsServer')
  PROVE  WsListed'
  <1>1. CASE WsPending'
    BY <1>1 DEF WsListed
  <1>2. CASE ~WsPending'
    <2>1. \A data : WsRight(data) => WsRight(data)'
      BY <1>2 DEF WsRight, SameRows
    <2> QED
      BY <1>2, <2>1 DEF WsListed, WsRight, SameRows
  <1> QED
    BY <1>1, <1>2

\* A request is sent: a toggle that nothing came between is pressed on a row that is
\* right, and a certbot request is the dialog's only one.
LEMMA ShownAsked ==
  ASSUME SitesInv, WsShownInv, NEW c, WsCallOK(c), c.at = "sent", c.no = wsDialogs, WsSend(c),
         UNCHANGED <<wsServer, wsSyncs, wsHook, wsDialog, wsDialogs, wsUnseen>>,
         c.op = "certbot" => wsDialog.kind = "ssl" /\ wsDialog.es = "none" /\ ~WsBusy({"certbot"}),
         c.op = "toggle" /\ wsCalls = <<>> /\ ~wsUnseen /\ AsyncSettled(wsHook) /\ wsSyncs = {}
             => wsServer.rows[c.id].active = c.active
  PROVE  WsShownInv'
  <1> DEFINE n == Len(wsCalls) + 1
  <1>1. /\ DOMAIN wsCalls' = DOMAIN wsCalls \cup {n} /\ n \notin DOMAIN wsCalls
        /\ \A i \in DOMAIN wsCalls : /\ wsCalls'[i].raced
                                     /\ wsCalls'[i].op = wsCalls[i].op /\ wsCalls'[i].no = wsCalls[i].no
                                     /\ wsCalls'[i].at = wsCalls[i].at /\ wsCalls'[i].ans = wsCalls[i].ans
        /\ wsCalls'[n].op = c.op /\ wsCalls'[n].no = c.no /\ wsCalls'[n].at = c.at
        /\ wsCalls'[n].id = c.id /\ wsCalls'[n].active = c.active
        /\ ~wsCalls'[n].raced => wsCalls = <<>> /\ ~wsUnseen /\ AsyncSettled(wsHook) /\ wsSyncs = {}
    <2>1. /\ DOMAIN wsCalls' = DOMAIN wsCalls \cup {n} /\ n \notin DOMAIN wsCalls
          /\ \A i \in DOMAIN wsCalls :
               wsCalls'[i].raced /\ \A f \in WsCallFields \ {"raced"} : wsCalls'[i][f] = wsCalls[i][f]
          /\ \A f \in WsCallFields \ {"raced", "ans"} : wsCalls'[n][f] = c[f]
          /\ ~wsCalls'[n].raced => wsCalls = <<>> /\ ~wsUnseen /\ AsyncSettled(wsHook) /\ wsSyncs = {}
      BY WsRaced
    <2> HIDE DEF n
    <2> QED
      BY <2>1 DEF WsCallFields
  <1> HIDE DEF n
  <1>2. WsPending => WsPending'
    BY <1>1 DEF WsPending
  <1>3. WsListed'
    BY <1>2, ListedKept DEF WsShownInv, SameRows
  <1>4. WsMeant'
    <2>1. ASSUME NEW i \in DOMAIN wsCalls', wsCalls'[i].op = "toggle", ~wsCalls'[i].raced, wsCalls'[i].ans = Waiting
          PROVE  /\ \A j \in DOMAIN wsCalls' : j = i
                 /\ wsHook'.calls = {} /\ wsSyncs' = {}
                 /\ wsServer'.rows[wsCalls'[i].id].active = wsCalls'[i].active
                 /\ wsCalls'[i].at = "read" => wsCalls'[i].row = wsServer'.rows[wsCalls'[i].id]
      <3>1. i = n /\ wsCalls = <<>> /\ ~wsUnseen /\ AsyncSettled(wsHook) /\ wsSyncs = {}
        BY <1>1, <2>1
      <3>2. DOMAIN wsCalls = {}
        BY <3>1
      <3> QED
        BY <1>1, <2>1, <3>1, <3>2 DEF AsyncSettled
    <2> QED
      BY <2>1 DEF WsMeant
  <1>5. WsVerdicts'
    <2>1. wsDialogs \in Nat /\ \A i \in DOMAIN wsCalls' : wsCalls'[i].no \in Nat /\ wsCalls'[i].no <= wsDialogs
      BY <1>1 DEF WsShownInv, WsVerdicts
    <2>2. ASSUME NEW i \in DOMAIN wsCalls, wsCalls[i].op = "certbot", wsCalls[i].no = wsDialogs PROVE c.op # "certbot"
      BY <2>2 DEF WsBusy
    <2>3. \A i, j \in DOMAIN wsCalls' :
            /\ wsCalls'[i].op = "certbot" /\ wsCalls'[i].no = wsDialogs
            /\ wsCalls'[j].op = "certbot" /\ wsCalls'[j].no = wsDialogs
            => i = j
      BY <1>1, <2>2 DEF WsShownInv, WsVerdicts
    <2>4. wsDialog.kind = "ssl" /\ wsDialog.es # "none" =>
            \A i \in DOMAIN wsCalls' : ~(wsCalls'[i].op = "certbot" /\ wsCalls'[i].no = wsDialogs)
      BY <1>1 DEF WsShownInv, WsVerdicts
    <2> QED
      BY <2>1, <2>3, <2>4 DEF WsShownInv, WsVerdicts
  <1> QED
    BY <1>3, <1>4, <1>5 DEF WsShownInv

\* The row buttons and the dialogs that ask.
LEMMA ShownAskSteps ==
  ASSUME SitesInv, WsShownInv,
         OnSubmit \/ SubmitConfig \/ SaveManual \/ RunCertbot \/ \E id \in WsRows : OnToggle(id) \/ OnRemove(id)
  PROVE  WsShownInv'
  <1>1. wsDialog # NoDialog => DialogOK(wsDialog)
    BY DEF SitesInv
  <1>2. ASSUME NEW id \in WsRows, OnToggle(id) \/ OnRemove(id) PROVE WsShownInv'
    <2>1. id \in WsIds /\ AsyncShown(wsHook)
      BY DEF WsRows
    <2>2. CASE OnToggle(id)
      <3> DEFINE c == WsCall("toggle", id, "none", WsShown(id).active, "none")
      <3>1. WsCallOK(c) /\ c.at = "sent" /\ c.no = wsDialogs /\ c.op = "toggle" /\ c.id = id /\ c.active = WsShown(id).active
        BY <2>1 DEF WsCall, WsCallOK, WsCallFields
      <3>2. WsSend(c) /\ UNCHANGED <<wsServer, wsSyncs, wsHook, wsDialog, wsDialogs, wsUnseen>>
        BY <2>2 DEF OnToggle
      <3>3. ASSUME wsCalls = <<>>, ~wsUnseen, AsyncSettled(wsHook) PROVE wsServer.rows[id].active = WsShown(id).active
        <4>1. DOMAIN wsCalls = {}
          BY <3>3
        <4>2. ~WsPending
          BY <3>3, <4>1 DEF WsPending
        <4>3. WsRight(wsHook.data)
          BY <2>1, <3>3, <4>2 DEF WsShownInv, WsListed, AsyncSettled
        <4> QED
          BY <2>1, <4>3 DEF WsRight, WsShown
      <3> HIDE DEF c
      <3> QED
        BY <3>1, <3>2, <3>3, ShownAsked
    <2>3. CASE OnRemove(id)
      <3> DEFINE c == WsCall("remove", id, "none", FALSE, "none")
      <3>1. WsCallOK(c) /\ c.at = "sent" /\ c.no = wsDialogs /\ c.op = "remove"
        BY <2>1 DEF WsCall, WsCallOK, WsCallFields
      <3>2. WsSend(c) /\ UNCHANGED <<wsServer, wsSyncs, wsHook, wsDialog, wsDialogs, wsUnseen>>
        BY <2>3 DEF OnRemove
      <3> HIDE DEF c
      <3> QED
        BY <3>1, <3>2, ShownAsked
    <2> QED
      BY <1>2, <2>2, <2>3
  <1>3. CASE OnSubmit
    <2> DEFINE op == IF wsDialog.id = 0 THEN "create" ELSE "update"
               c == WsCall(op, wsDialog.id, wsDialog.dom, wsDialog.active, "none")
    <2>1. wsDialog.kind = "form" /\ WsSend(c) /\ UNCHANGED <<wsServer, wsSyncs, wsHook, wsDialog, wsDialogs, wsUnseen>>
      BY <1>3 DEF OnSubmit, WsInDialog, WsAsked
    <2>2. wsDialog.id \in WsIds \cup {0} /\ wsDialog.dom \in WsDomains
      BY <2>1 DEF SitesInv, DialogOK, NoDialog
    <2>3. WsCallOK(c) /\ c.at = "sent" /\ c.no = wsDialogs /\ c.op \in {"create", "update"}
      BY <2>2 DEF WsCall, WsCallOK, WsCallFields
    <2> HIDE DEF c
    <2> QED
      BY <2>1, <2>3, ShownAsked
  <1>4. CASE SubmitConfig
    <2> DEFINE c == WsCall("config", wsDialog.id, "none", FALSE, wsDialog.text)
    <2>1. /\ wsDialog.kind = "config" /\ AsyncShown(wsDialog.hook) /\ WsSend(c)
          /\ UNCHANGED <<wsServer, wsSyncs, wsHook, wsDialog, wsDialogs, wsUnseen>>
      BY <1>4 DEF SubmitConfig, WsInDialog, WsEditorShown, WsAsked
    <2>2. wsDialog.id \in WsIds /\ wsDialog.text # "none"
      BY <2>1 DEF SitesInv, DialogOK, NoDialog
    <2>3. WsCallOK(c) /\ c.at = "sent" /\ c.no = wsDialogs /\ c.op = "config"
      BY <2>2 DEF WsCall, WsCallOK, WsCallFields
    <2> HIDE DEF c
    <2> QED
      BY <2>1, <2>3, ShownAsked
  <1>5. CASE SaveManual
    <2> DEFINE c == WsCall("manual", wsDialog.id, "none", FALSE, "none")
    <2>1. wsDialog.kind = "ssl" /\ WsSend(c) /\ UNCHANGED <<wsServer, wsSyncs, wsHook, wsDialog, wsDialogs, wsUnseen>>
      BY <1>5 DEF SaveManual, WsInDialog, WsAsked
    <2>2. wsDialog.id \in WsIds
      BY <2>1 DEF SitesInv, DialogOK, NoDialog
    <2>3. WsCallOK(c) /\ c.at = "sent" /\ c.no = wsDialogs /\ c.op = "manual"
      BY <2>2 DEF WsCall, WsCallOK, WsCallFields
    <2> HIDE DEF c
    <2> QED
      BY <2>1, <2>3, ShownAsked
  <1>6. CASE RunCertbot
    <2> DEFINE c == WsCall("certbot", wsDialog.id, "none", FALSE, "none")
    <2>1. /\ wsDialog.kind = "ssl" /\ wsDialog.es = "none" /\ ~WsBusy({"certbot"}) /\ WsSend(c)
          /\ UNCHANGED <<wsServer, wsSyncs, wsHook, wsDialog, wsDialogs, wsUnseen>>
      BY <1>6 DEF RunCertbot, WsInDialog, WsSslShown, WsAsked
    <2>2. wsDialog.id \in WsIds
      BY <2>1 DEF SitesInv, DialogOK, NoDialog
    <2>3. WsCallOK(c) /\ c.at = "sent" /\ c.no = wsDialogs /\ c.op = "certbot"
      BY <2>2 DEF WsCall, WsCallOK, WsCallFields
    <2> HIDE DEF c
    <2> QED
      BY <2>1, <2>3, ShownAsked
  <1> QED
    BY <1>2, <1>3, <1>4, <1>5, <1>6

\* The service gets on with one request.
LEMMA ShownServed ==
  ASSUME WsShownInv, NEW i \in DOMAIN wsCalls, DOMAIN wsCalls' = DOMAIN wsCalls,
         \A j \in DOMAIN wsCalls \ {i} : wsCalls'[j] = wsCalls[j],
         \A f \in {"op", "id", "active", "no", "raced"} : wsCalls'[i][f] = wsCalls[i][f],
         wsCalls[i].at = "done" => wsCalls'[i].at = "done" /\ wsCalls'[i].ans \in {wsCalls[i].ans, Failed},
         wsCalls[i].op = "toggle" /\ wsCalls'[i].ans = Waiting =>
             /\ wsServer' = wsServer /\ wsCalls[i].ans = Waiting
             /\ wsCalls'[i].at = "read" => wsCalls'[i].row = wsServer.rows[wsCalls[i].id],
         UNCHANGED <<wsSyncs, wsHook, wsDialog, wsDialogs>>, wsUnseen => wsUnseen',
         WsPending' \/ SameRows(wsServer, wsServer')
  PROVE  WsShownInv'
  <1> DEFINE c == wsCalls[i]
             e == wsCalls'[i]
  <1>1. e.op = c.op /\ e.id = c.id /\ e.active = c.active /\ e.no = c.no /\ e.raced = c.raced
    OBVIOUS
  <1>2. WsPending => WsPending'
    BY <1>1 DEF WsPending
  <1>3. WsListed'
    BY <1>2, ListedKept DEF WsShownInv
  <1>4. ASSUME NEW k \in DOMAIN wsCalls, wsCalls'[k].op = "toggle", ~wsCalls'[k].raced, wsCalls'[k].ans = Waiting
        PROVE  /\ \A j \in DOMAIN wsCalls : j = k
               /\ wsHook.calls = {} /\ wsSyncs = {}
               /\ wsServer'.rows[wsCalls'[k].id].active = wsCalls'[k].active
               /\ wsCalls'[k].at = "read" => wsCalls'[k].row = wsServer'.rows[wsCalls'[k].id]
    <2>1. wsCalls[k].op = "toggle" /\ ~wsCalls[k].raced /\ wsCalls[k].ans = Waiting
      BY <1>1, <1>4
    <2>2. /\ \A j \in DOMAIN wsCalls : j = k
          /\ wsHook.calls = {} /\ wsSyncs = {}
          /\ wsServer.rows[wsCalls[k].id].active = wsCalls[k].active
      BY <2>1 DEF WsShownInv, WsMeant
    <2>3. k = i
      BY <2>2
    <2> QED
      BY <1>1, <1>4, <2>2, <2>3
  <1>5. WsMeant'
    BY <1>4 DEF WsMeant
  <1>6. \A j \in DOMAIN wsCalls : wsCalls'[j].op = wsCalls[j].op /\ wsCalls'[j].no = wsCalls[j].no
    BY <1>1
  <1>7. WsVerdicts'
    BY <1>6 DEF WsShownInv, WsVerdicts
  <1> QED
    BY <1>3, <1>5, <1>7 DEF WsShownInv

\* The dialogs of the configuration and the certificate leave the rows alone, or
\* write a row that had changed.
LEMMA ConfigKeepsRows ==
  ASSUME ServerOK(wsServer), NEW c, c.op \in {"config", "manual", "certbot"}, c.id \in WsIds, SiteRow(c.row),
         NEW o \in WsOutcomes(wsServer, c), WsSpoils(c, o) = {}
  PROVE  SameRows(wsServer, o.srv)
  <1> DEFINE s == wsServer
             now == s.rows[c.id]
             doms == {c.row.dom, c.dom} \cap WsDomains
  <1>1. CASE o.srv = s
    BY <1>1 DEF SameRows
  <1>2. CASE o.srv # s
    <2>1. now # c.row => (doms \cup {now.dom}) \cap WsDomains \subseteq WsSpoils(c, o)
      BY <1>2 DEF WsSpoils
    <2>2. now = c.row /\ DOMAIN c.row = RowFields
      BY <2>1 DEF SiteRow
    <2>3. CASE c.op = "config"
      <3>1. o.srv = Restored(s, c) \/ o.srv = SyncSSL(s, c.id, c.row)
        <4>1. o \in ConfigOutcomes(s, c)
          BY <2>3 DEF WsOutcomes
        <4> QED
          BY <1>2, <4>1 DEF ConfigOutcomes, Fails, Done, Half
      <3>2. CASE o.srv = Restored(s, c)
        <4>1. o.srv.rows = s.rows
          BY <3>2, PutConfGives DEF Restored, ServerOK
        <4> QED
          BY <4>1 DEF SameRows
      <3>3. CASE o.srv = SyncSSL(s, c.id, c.row)
        <4>1. \A i \in WsIds :
                \/ o.srv.rows[i] = s.rows[i]
                \/ i = c.id /\ o.srv.rows[i].dom = c.row.dom /\ o.srv.rows[i].active = c.row.active
          BY <2>2, <3>3, SyncSSLGives DEF ServerOK
        <4> QED
          BY <2>2, <4>1 DEF SameRows
      <3> QED
        BY <3>1, <3>2, <3>3
    <2>4. CASE c.op = "manual"
      <3> DEFINE text == WithCert(s.conf[c.row.dom])
                 put == PutConf(s, c.row.dom, text)
                 row == [c.row EXCEPT !.ssl = TRUE]
      <3>1. o.srv = put \/ o.srv = PutRow(put, c.id, row)
        <4>1. o \in ManualOutcomes(s, c)
          BY <2>4 DEF WsOutcomes
        <4> QED
          BY <1>2, <4>1 DEF ManualOutcomes, Fails, Done
      <3> HIDE DEF text
      <3>2. DOMAIN put = ServerFields /\ put.rows = s.rows
        BY PutConfGives DEF ServerOK
      <3>3. row.dom = c.row.dom /\ row.active = c.row.active
        BY <2>2 DEF RowFields
      <3> HIDE DEF put, row
      <3>4. \A i \in WsIds : PutRow(put, c.id, row).rows[i] = IF i = c.id /\ put.rows[c.id] # NoRow THEN row ELSE put.rows[i]
        BY <3>2, PutRowGives DEF ServerOK
      <3> QED
        BY <2>2, <3>1, <3>2, <3>3, <3>4 DEF SameRows
    <2>5. CASE c.op = "certbot"
      BY <1>2, <2>5 DEF WsOutcomes, Fails, Done
    <2> QED
      BY <2>3, <2>4, <2>5
  <1> QED
    BY <1>1, <1>2

\* A toggle that goes through turns the row it read.
LEMMA ToggleTurns ==
  ASSUME ServerOK(wsServer), NEW c, c.op = "toggle", c.id \in WsIds, SiteRow(c.row),
         NEW o \in WsOutcomes(wsServer, c), o.ok
  PROVE  o.srv.rows[c.id].active = ~c.row.active
  <1> DEFINE s == wsServer
             row == [c.row EXCEPT !.active = ~c.row.active]
             flipped == Linked(s, c.row.dom, row.active)
             kept == PutRow(flipped, c.id, row)
  <1>1. o.srv = SyncSSL(kept, c.id, row) /\ s.rows[c.id] # NoRow
    <2>1. o \in ToggleOutcomes(s, c)
      BY DEF WsOutcomes
    <2> QED
      BY <2>1 DEF ToggleOutcomes, Fails, Done, Half
  <1>2. DOMAIN row = RowFields /\ row.active = ~c.row.active
    BY DEF SiteRow, RowFields
  <1> HIDE DEF row
  <1>3. DOMAIN flipped = ServerFields /\ flipped.rows = s.rows
    BY DEF Linked, ServerOK, ServerFields
  <1> HIDE DEF flipped
  <1>4. DOMAIN kept = ServerFields /\ DOMAIN kept.rows = WsIds /\ kept.rows[c.id] = row
    BY <1>1, <1>3, PutRowGives DEF ServerOK
  <1> HIDE DEF kept
  <1>5. o.srv.rows[c.id] = row \/ o.srv.rows[c.id].active = row.active
    BY <1>1, <1>2, <1>4, SyncSSLGives
  <1> QED
    BY <1>2, <1>5

LEMMA ShownServeSteps ==
  ASSUME SitesInv, WsShownInv, NEW i \in DOMAIN wsCalls,
         WsServeRead(i) \/ WsServeWrite(i) \/ WsServe(i) \/ WsAnswerLost(i)
  PROVE  WsShownInv'
  <1> DEFINE c == wsCalls[i]
             s == wsServer
             r == wsCalls'
  <1>1. WsCallOK(c) /\ DOMAIN c = WsCallFields /\ ServerOK(s)
    BY DEF SitesInv, WsCallsOK, WsCallOK
  <1>2. Failed # Waiting /\ Value("ok") # Waiting
    BY DEF Failed, Waiting, Value
  <1>3. CASE WsServeRead(i)
    <2> DEFINE row == s.rows[c.id]
    <2>1. /\ c.at = "sent"
          /\ r = IF row = NoRow THEN [wsCalls EXCEPT ![i].at = "done", ![i].ans = Failed]
                 ELSE [wsCalls EXCEPT ![i].at = IF c.op = "config" THEN "open" ELSE "read", ![i].row = row]
          /\ UNCHANGED <<wsServer, wsSyncs, wsHook, wsDialog, wsDialogs, wsUnseen>>
      BY <1>3 DEF WsServeRead
    <2> HIDE DEF row
    <2>2. /\ DOMAIN r = DOMAIN wsCalls /\ \A j \in DOMAIN wsCalls \ {i} : r[j] = wsCalls[j]
          /\ \A f \in {"op", "id", "active", "no", "raced"} : r[i][f] = c[f]
          /\ IF row = NoRow THEN r[i].ans = Failed ELSE r[i].ans = c.ans /\ r[i].row = row
      BY <1>1, <2>1 DEF WsCallFields
    <2> HIDE DEF r
    <2>3. c.op = "toggle" /\ r[i].ans = Waiting => c.ans = Waiting /\ r[i].row = s.rows[c.id]
      BY <1>2, <2>2 DEF row
    <2>4. SameRows(wsServer, wsServer')
      BY <2>1 DEF SameRows
    <2> QED
      BY <2>1, <2>2, <2>3, <2>4, ShownServed DEF r
  <1>4. CASE WsServeWrite(i)
    <2>1. /\ c.at = "open"
          /\ wsServer' = PutConf(s, c.row.dom, c.text)
          /\ r = [wsCalls EXCEPT ![i].at = "read", ![i].orig = s.conf[c.row.dom]]
          /\ UNCHANGED <<wsSyncs, wsHook, wsDialog, wsDialogs, wsUnseen>>
      BY <1>4 DEF WsServeWrite
    <2>2. /\ DOMAIN r = DOMAIN wsCalls /\ \A j \in DOMAIN wsCalls \ {i} : r[j] = wsCalls[j]
          /\ \A f \in {"op", "id", "active", "no", "raced"} : r[i][f] = c[f]
      BY <1>1, <2>1 DEF WsCallFields
    <2> HIDE DEF r
    <2>3. c.op = "config"
      BY <1>1, <2>1 DEF WsCallOK
    <2>4. SameRows(wsServer, wsServer')
      BY <1>1, <2>1, PutConfGives DEF SameRows, ServerOK
    <2> QED
      BY <2>1, <2>2, <2>3, <2>4, ShownServed DEF r
  <1>5. CASE WsServe(i)
    <2>1. /\ c.at = IF c.op = "create" THEN "sent" ELSE "read"
          /\ UNCHANGED <<wsSyncs, wsHook, wsDialog, wsDialogs>>
      BY <1>5, Zenon DEF WsServe
    <2>2. PICK o \in WsOutcomes(s, c) :
            /\ wsServer' = o.srv
            /\ wsUnseen' = (wsUnseen \/ (c.op \in {"config", "manual"} /\ WsSpoils(c, o) # {}))
            /\ r = [wsCalls EXCEPT ![i].at = "done", ![i].ans = IF o.ok THEN Value("ok") ELSE Failed]
      BY <1>5, Zenon DEF WsServe
    <2>3. PICK ans \in {Value("ok"), Failed} : r = [wsCalls EXCEPT ![i].at = "done", ![i].ans = ans]
      BY <2>2
    <2>4. /\ DOMAIN r = DOMAIN wsCalls /\ \A j \in DOMAIN wsCalls \ {i} : r[j] = wsCalls[j]
          /\ \A f \in {"op", "id", "active", "no", "raced"} : r[i][f] = c[f]
          /\ r[i].at = "done" /\ r[i].ans = ans
      BY <1>1, <2>3 DEF WsCallFields
    <2> HIDE DEF r
    <2>5. c.op \in {"toggle", "remove", "create", "update"} => WsPending'
      BY <2>4 DEF WsPending, r
    <2>6. c.op \in {"config", "manual"} /\ WsSpoils(c, o) # {} => WsPending'
      BY <2>2 DEF WsPending
    <2>7. c.op = "certbot" => SameRows(wsServer, wsServer')
      BY <2>2 DEF WsOutcomes, Fails, Done, SameRows
    <2>8. ASSUME c.op \in {"config", "manual"}, WsSpoils(c, o) = {} PROVE SameRows(wsServer, wsServer')
      <3>1. c.id \in WsIds /\ SiteRow(c.row)
        BY <1>1, <2>1, <2>8 DEF WsCallOK
      <3> HIDE DEF c
      <3> QED
        BY <1>1, <2>2, <2>8, <3>1, ConfigKeepsRows
    <2>9. WsPending' \/ SameRows(wsServer, wsServer')
      BY <1>1, <2>5, <2>6, <2>7, <2>8 DEF WsCallOK
    <2>10. wsUnseen => wsUnseen'
      BY <2>2
    <2>11. c.at # "done" /\ r[i].ans # Waiting
      BY <1>2, <2>1, <2>4
    <2> QED
      BY <2>1, <2>4, <2>9, <2>10, <2>11, ShownServed DEF r
  <1>6. CASE WsAnswerLost(i)
    <2>1. /\ r = [wsCalls EXCEPT ![i].ans = Failed]
          /\ UNCHANGED <<wsServer, wsSyncs, wsHook, wsDialog, wsDialogs, wsUnseen>>
      BY <1>6 DEF WsAnswerLost, Answer
    <2>2. /\ DOMAIN r = DOMAIN wsCalls /\ \A j \in DOMAIN wsCalls \ {i} : r[j] = wsCalls[j]
          /\ \A f \in {"op", "id", "active", "no", "raced"} : r[i][f] = c[f]
          /\ r[i].at = c.at /\ r[i].ans = Failed
      BY <1>1, <2>1 DEF WsCallFields
    <2> HIDE DEF r
    <2>3. SameRows(wsServer, wsServer')
      BY <2>1 DEF SameRows
    <2> QED
      BY <1>2, <2>1, <2>2, <2>3, ShownServed DEF r
  <1> QED
    BY <1>3, <1>4, <1>5, <1>6

\* Nothing but the list moves.
LEMMA ShownListed ==
  ASSUME WsShownInv, WsListed', UNCHANGED <<wsCalls, wsDialog, wsDialogs>>,
         wsHook.calls # {} \/ wsSyncs # {}
  PROVE  WsShownInv'
  <1>1. \A i \in DOMAIN wsCalls : ~(wsCalls[i].op = "toggle" /\ ~wsCalls[i].raced /\ wsCalls[i].ans = Waiting)
    BY DEF WsShownInv, WsMeant
  <1>2. WsMeant'
    BY <1>1 DEF WsMeant
  <1>3. WsVerdicts'
    BY DEF WsShownInv, WsVerdicts
  <1> QED
    BY <1>2, <1>3 DEF WsShownInv

\* The list is served, lost or arrives, and rows are written back.
LEMMA ShownListSteps ==
  ASSUME SitesInv, WsShownInv,
         \/ \E c \in wsHook.calls : WsServeList(c) \/ WsListLost(c) \/ WsListArrives(c)
         \/ \E s \in wsSyncs : WsWriteBack(s)
  PROVE  WsShownInv'
  <1>1. HookAlone(wsHook) /\ ServerOK(wsServer)
    BY DEF WsShownInv, WsListed, SitesInv
  <1>2. ASSUME NEW c \in wsHook.calls, NEW res, wsHook' = AsyncServe(wsHook, c, res), UNCHANGED <<wsServer, wsCalls, wsDialog, wsDialogs>>,
               res = Failed \/ WsRight(res) PROVE WsShownInv'
    <2>1. HookAlone(wsHook') /\ \E x : wsHook'.calls = {x} /\ x.ans = res
      BY <1>1, <1>2, HookStays
    <2>2. res = Failed \/ WsRight(res)'
      BY <1>2 DEF WsRight
    <2>3. WsListed'
      BY <2>1, <2>2 DEF WsListed, WsRight
    <2> QED
      BY <1>2, <2>3, ShownListed
  <1>3. ASSUME NEW c \in wsHook.calls, WsListLost(c) PROVE WsShownInv'
    BY <1>2, <1>3 DEF WsListLost
  <1>4. ASSUME NEW c \in wsHook.calls, WsServeList(c) PROVE WsShownInv'
    <2> DEFINE rows == wsServer.rows
               right(i) == SyncSSL(wsServer, i, rows[i]).rows[i]
               shown == [i \in WsIds |-> IF rows[i] = NoRow THEN NoRow ELSE right(i)]
    <2>1. wsHook' = AsyncServe(wsHook, c, Value(shown)) /\ UNCHANGED <<wsServer, wsCalls, wsDialog, wsDialogs>>
      BY <1>4 DEF WsServeList
    <2>2. ASSUME NEW i \in WsIds, rows[i] # NoRow PROVE right(i).dom = rows[i].dom /\ right(i).active = rows[i].active
      <3>1. DOMAIN rows[i] = RowFields
        BY <1>1, <2>2 DEF ServerOK, SiteRow
      <3> QED
        BY <1>1, <3>1, SyncSSLGives DEF ServerOK
    <2> HIDE DEF right
    <2>3. WsRight(Value(shown))
      BY <2>2 DEF WsRight, Value
    <2> HIDE DEF shown
    <2> QED
      BY <1>2, <2>1, <2>3
  <1>5. ASSUME NEW c \in wsHook.calls, WsListArrives(c) PROVE WsShownInv'
    <2>1. c.ans # Waiting /\ wsHook' = AsyncDeliver(wsHook, c) /\ UNCHANGED <<wsServer, wsCalls, wsDialog, wsDialogs, wsUnseen>>
      BY <1>5 DEF WsListArrives
    <2>2. HookAlone(wsHook') /\ wsHook'.calls = {}
      BY <1>1, <2>1, HookStays
    <2>3. (c.ans = Failed => wsHook'.failed) /\ (c.ans # Failed => wsHook'.data = c.ans)
      BY <1>1, <2>1, HookDelivered DEF HookAlone
    <2>4. WsPending => WsPending'
      BY <2>1 DEF WsPending
    <2>5. ~WsPending /\ c.ans # Failed => WsRight(c.ans)
      BY <2>1 DEF WsShownInv, WsListed
    <2>6. WsListed'
      BY <2>1, <2>2, <2>3, <2>4, <2>5 DEF WsListed, WsRight, AsyncShown
    <2> QED
      BY <2>1, <2>6, ShownListed
  <1>6. ASSUME NEW s \in wsSyncs, WsWriteBack(s) PROVE WsShownInv'
    <2> DEFINE now == wsServer.rows[s.id]
    <2>1. /\ wsServer' = PutRow(wsServer, s.id, s.row) /\ UNCHANGED <<wsHook, wsCalls, wsDialog, wsDialogs>>
          /\ wsUnseen' = (wsUnseen \/ now \notin {s.was, s.row})
      BY <1>6 DEF WsWriteBack
    <2>2. WriteBackOK(s)
      BY DEF SitesInv
    <2>3. ASSUME now \in {s.was, s.row} PROVE SameRows(wsServer, wsServer')
      <3>1. \A i \in WsIds : wsServer'.rows[i] = wsServer.rows[i] \/ (i = s.id /\ wsServer'.rows[i] = s.row)
        BY <1>1, <2>1, PutRowGives DEF ServerOK
      <3>2. s.row.dom = now.dom /\ s.row.active = now.active
        BY <2>2, <2>3 DEF WriteBackOK
      <3> QED
        BY <3>1, <3>2 DEF SameRows
    <2>4. now \notin {s.was, s.row} => WsPending'
      BY <2>1 DEF WsPending
    <2>5. WsPending => WsPending'
      BY <2>1 DEF WsPending
    <2>6. WsListed'
      BY <2>1, <2>3, <2>4, <2>5, ListedKept DEF WsShownInv
    <2> QED
      BY <2>1, <2>6, ShownListed
  <1> QED
    BY <1>3, <1>4, <1>5, <1>6

\* What VerdictStands says of a step.
VerdictStays ==
    WsStreaming /\ wsDialog.status \in {"ok", "failed"} =>
        wsDialog'.kind # "ssl" \/ wsDialog'.es = "none" \/ wsDialog'.status = wsDialog.status

\* The dialog on show, and nothing else, changes.
LEMMA DialogShown ==
  ASSUME WsShownInv, UNCHANGED <<wsServer, wsSyncs, wsHook, wsCalls, wsUnseen>>,
         \/ /\ wsDialog.kind # "ssl" /\ wsDialogs' = wsDialogs + 1
            /\ wsDialog'.kind = "ssl" => wsDialog'.es = "none" /\ wsDialog'.status = "none"
         \/ /\ UNCHANGED wsDialogs
            /\ wsDialog'.kind = "ssl" =>
                  /\ wsDialog.kind = "ssl"
                  /\ wsDialog'.es # "none" => wsDialog.es # "none"
                  /\ wsDialog'.status \in {"ok", "failed"} => wsDialog'.es # "open"
                  /\ wsDialog.es # "none" /\ wsDialog.status \in {"ok", "failed"}
                        => wsDialog'.es = "none" \/ wsDialog'.status = wsDialog.status
  PROVE  WsShownInv' /\ VerdictStays
  <1>1. WsListed'
    BY ListedKept DEF WsShownInv, WsPending, SameRows
  <1>2. WsMeant'
    BY DEF WsShownInv, WsMeant
  <1>3. WsVerdicts'
    <2>1. /\ wsDialogs \in Nat
          /\ \A i \in DOMAIN wsCalls : wsCalls[i].no \in Nat /\ wsCalls[i].no <= wsDialogs
          /\ \A i, j \in DOMAIN wsCalls :
                /\ wsCalls[i].op = "certbot" /\ wsCalls[i].no = wsDialogs
                /\ wsCalls[j].op = "certbot" /\ wsCalls[j].no = wsDialogs
                => i = j
          /\ wsDialog.kind = "ssl" /\ wsDialog.es # "none" =>
                \A i \in DOMAIN wsCalls : ~(wsCalls[i].op = "certbot" /\ wsCalls[i].no = wsDialogs)
      BY DEF WsShownInv, WsVerdicts
    <2>2. CASE wsDialogs' = wsDialogs + 1
      <3>1. \A i \in DOMAIN wsCalls : wsCalls[i].no \in Nat /\ wsCalls[i].no <= wsDialogs + 1 /\ wsCalls[i].no # wsDialogs + 1
        BY <2>1
      <3>2. wsDialogs # wsDialogs + 1 /\ wsDialogs + 1 \in Nat
        BY <2>1
      <3>3. wsDialog'.kind = "ssl" => wsDialog'.es = "none" /\ wsDialog'.status = "none"
        BY <2>2, <3>2
      <3> QED
        BY <2>2, <3>1, <3>2, <3>3 DEF WsVerdicts
    <2>3. CASE UNCHANGED wsDialogs
      <3>1. wsDialogs # wsDialogs + 1
        BY <2>1
      <3> QED
        BY <2>1, <2>3, <3>1 DEF WsVerdicts
    <2> QED
      BY <2>2, <2>3
  <1>4. VerdictStays
    BY DEF VerdictStays, WsStreaming
  <1> QED
    BY <1>1, <1>2, <1>3, <1>4 DEF WsShownInv

LEMMA ShownDialogSteps ==
  ASSUME SitesInv, WsShownInv,
         \/ WsNew \/ WsClose \/ SetActive \/ JobEnds \/ JobLine \/ JobDone \/ JobDisconnected \/ CloseStream
         \/ \E id \in WsRows : WsEdit(id) \/ WsOpenConfig(id) \/ WsOpenSsl(id)
         \/ \E d \in WsDomains : SetDomain(d)
         \/ \E text \in WsTexts : SetConfig(text)
         \/ wsDialog.kind \in {"config", "ssl"} /\ \E c \in wsDialog.hook.calls : WsServeDialog(c) \/ WsDialogArrives(c)
  PROVE  WsShownInv' /\ VerdictStays
  <1> DEFINE same == <<wsServer, wsSyncs, wsHook, wsCalls, wsUnseen>>
  <1>1. /\ DialogOK(wsDialog) /\ NoDialog.kind = "none"
        /\ wsDialog.kind = "ssl" => DOMAIN wsDialog = SslFields
    BY DEF SitesInv, DialogOK, NoDialog
  <1>2. wsDialog.kind = "ssl" /\ wsDialog.status \in {"ok", "failed"} => wsDialog.es # "open"
    BY DEF WsShownInv, WsVerdicts
  <1>3. ASSUME NEW dialog, dialog.kind # "ssl", WsOpen(dialog) PROVE WsShownInv' /\ VerdictStays
    BY <1>1, <1>3, DialogShown DEF WsOpen, WsOnPage
  <1>4. CASE WsNew
    <2>1. /\ wsDialog.kind # "ssl" /\ wsDialogs' = wsDialogs + 1 /\ UNCHANGED same
          /\ \E d \in WsDomains : wsDialog' = [kind |-> "form", id |-> 0, dom |-> d, active |-> FALSE]
      BY <1>1, <1>4 DEF WsNew, WsOnPage
    <2> QED
      BY <2>1, DialogShown
  <1>5. CASE WsClose
    BY <1>1, <1>5, DialogShown DEF WsClose
  <1>6. ASSUME NEW id, WsEdit(id) \/ WsOpenConfig(id) PROVE WsShownInv' /\ VerdictStays
    <2>1. CASE WsEdit(id)
      BY <1>3, <2>1 DEF WsEdit
    <2>2. CASE WsOpenConfig(id)
      BY <1>3, <2>2 DEF WsOpenConfig
    <2> QED
      BY <1>6, <2>1, <2>2
  <1>7. ASSUME NEW id, WsOpenSsl(id) PROVE WsShownInv' /\ VerdictStays
    <2>1. /\ wsDialog.kind # "ssl" /\ wsDialogs' = wsDialogs + 1 /\ UNCHANGED same
          /\ wsDialog'.es = "none" /\ wsDialog'.status = "none"
      BY <1>1, <1>7 DEF WsOpenSsl, WsOpen, WsOnPage
    <2> QED
      BY <2>1, DialogShown
  <1>8. CASE SetActive \/ \E d \in WsDomains : SetDomain(d)
    <2>1. UNCHANGED same /\ UNCHANGED wsDialogs /\ wsDialog.kind = "form" /\ DOMAIN wsDialog = FormFields
      BY <1>1, <1>8 DEF SetActive, SetDomain, WsInDialog, WsTyped, DialogOK
    <2>2. wsDialog'.kind = "form"
      BY <1>8, <2>1 DEF SetActive, SetDomain, WsInDialog, WsTyped, FormFields
    <2> QED
      BY <2>1, <2>2, DialogShown
  <1>9. ASSUME NEW text, SetConfig(text) PROVE WsShownInv' /\ VerdictStays
    <2>1. UNCHANGED same /\ UNCHANGED wsDialogs /\ wsDialog.kind = "config" /\ DOMAIN wsDialog = ConfigFields
      BY <1>1, <1>9 DEF SetConfig, WsInDialog, WsTyped, DialogOK
    <2>2. wsDialog'.kind = "config"
      BY <1>9, <2>1 DEF SetConfig, WsInDialog, WsTyped, ConfigFields
    <2> QED
      BY <2>1, <2>2, DialogShown
  <1>10. ASSUME wsDialog.kind \in {"config", "ssl"}, NEW c, WsServeDialog(c) \/ WsDialogArrives(c) PROVE WsShownInv' /\ VerdictStays
    <2>1. UNCHANGED same /\ UNCHANGED wsDialogs
      BY <1>10, Zenon DEF WsServeDialog, WsDialogArrives
    <2>2. CASE wsDialog.kind = "config"
      <3>1. DOMAIN wsDialog = ConfigFields
        BY <1>1, <2>2 DEF DialogOK
      <3>2. wsDialog'.kind = "config"
        BY <1>10, <2>2, <3>1, Zenon DEF WsServeDialog, WsDialogArrives, ConfigFields
      <3> QED
        BY <2>1, <3>2, DialogShown
    <2>3. CASE wsDialog.kind = "ssl"
      <3>1. \E hook : wsDialog' = [wsDialog EXCEPT !.hook = hook]
        BY <1>10, <2>3 DEF WsServeDialog, WsDialogArrives
      <3>2. wsDialog'.es = wsDialog.es /\ wsDialog'.status = wsDialog.status
        BY <1>1, <2>3, <3>1 DEF SslFields
      <3> QED
        BY <1>2, <2>1, <2>3, <3>2, DialogShown
    <2> QED
      BY <1>10, <2>2, <2>3
  <1>11. CASE JobEnds \/ JobLine \/ JobDone \/ JobDisconnected \/ CloseStream
    <2>1. UNCHANGED same /\ UNCHANGED wsDialogs /\ wsDialog.kind = "ssl" /\ wsDialog.es # "none"
      BY <1>11 DEF JobEnds, JobLine, JobDone, JobDisconnected, CloseStream, WsStreaming, WsStream
    <2>2. CASE JobEnds
      <3>1. wsDialog'.es = wsDialog.es /\ wsDialog'.status = wsDialog.status
        BY <1>1, <2>1, <2>2 DEF JobEnds, WsStream, SslFields
      <3> QED
        BY <1>2, <2>1, <3>1, DialogShown
    <2>3. CASE JobLine \/ JobDone \/ JobDisconnected
      <3>1. wsDialog.es = "open" /\ (wsDialog'.es = "closed" \/ wsDialog'.status = "running")
        BY <1>1, <2>1, <2>3 DEF JobLine, JobDone, JobDoneShown, JobDisconnected, WsStream, SslFields
      <3> QED
        BY <1>2, <2>1, <3>1, DialogShown
    <2>4. CASE CloseStream
      <3>1. wsDialog'.es = "none" /\ wsDialog'.status = "none"
        BY <1>1, <2>1, <2>4 DEF CloseStream, WsStream, SslFields
      <3> QED
        BY <2>1, <3>1, DialogShown
    <2> QED
      BY <1>11, <2>2, <2>3, <2>4
  <1> QED
    BY <1>4, <1>5, <1>6, <1>7, <1>8, <1>9, <1>10, <1>11

\* An answer arrives: after a button the list is read again, and the log of a job
\* opens for the one request that asked for it.
LEMMA ShownArriveStep ==
  ASSUME SitesInv, WsShownInv, NEW i \in DOMAIN wsCalls, WsCallArrives(i)
  PROVE  WsShownInv' /\ VerdictStays
  <1> DEFINE c == wsCalls[i]
  <1>1. /\ c.ans # Waiting /\ wsCalls' = Forget(wsCalls, i)
        /\ wsHook' = WsReloaded(c) /\ wsDialog' = DialogAfter(c)
        /\ wsUnseen' = (wsUnseen \/ c.ans = Failed)
        /\ UNCHANGED <<wsServer, wsSyncs, wsDialogs>>
    BY DEF WsCallArrives
  <1>2. PICK S : wsCalls \in Seq(S)
    BY DEF SitesInv, WsCallsOK
  <1>3. /\ \A k \in DOMAIN wsCalls' : \E j \in DOMAIN wsCalls \ {i} : wsCalls'[k] = wsCalls[j]
        /\ \A j \in DOMAIN wsCalls \ {i} : \E k \in DOMAIN wsCalls' : wsCalls'[k] = wsCalls[j]
    <2>1. \A k \in DOMAIN wsCalls' : \E j \in DOMAIN wsCalls \ {i} : wsCalls'[k] = wsCalls[j]
      BY <1>1, <1>2, ForgetTakes
    <2>2. \A j \in DOMAIN wsCalls \ {i} : \E k \in DOMAIN wsCalls' : wsCalls'[k] = wsCalls[j]
      BY <1>1, <1>2, RemoveAtKeeps DEF Forget
    <2> QED
      BY <2>1, <2>2
  <1>4. \A k, l \in DOMAIN wsCalls' : k # l =>
          \E j, m \in DOMAIN wsCalls \ {i} : j # m /\ wsCalls'[k] = wsCalls[j] /\ wsCalls'[l] = wsCalls[m]
    BY <1>1, <1>2, ForgetKeepsApart
  <1>5. WsListed'
    <2>1. CASE c.op \in {"toggle", "remove", "create", "update"} /\ c.ans # Failed
      <3>1. wsHook' = AsyncReload(wsHook)
        BY <1>1, <2>1 DEF WsReloaded
      <3>2. HookAlone(wsHook') /\ \E x : wsHook'.calls = {x} /\ x.ans = Waiting
        BY <3>1, HookStarts
      <3> QED
        BY <3>2 DEF WsListed
    <2>2. CASE ~(c.op \in {"toggle", "remove", "create", "update"} /\ c.ans # Failed)
      <3>1. wsHook' = wsHook /\ SameRows(wsServer, wsServer')
        BY <1>1, <2>2 DEF WsReloaded, SameRows
      <3>2. wsUnseen \/ c.ans = Failed => WsPending'
        BY <1>1 DEF WsPending
      <3>3. ASSUME WsPending, ~wsUnseen, c.ans # Failed PROVE WsPending'
        <4>1. PICK j \in DOMAIN wsCalls :
                wsCalls[j].at = "done"
                    /\ (wsCalls[j].ans = Failed \/ wsCalls[j].op \in {"toggle", "remove", "create", "update"})
          BY <3>3 DEF WsPending
        <4>2. PICK k \in DOMAIN wsCalls' : wsCalls'[k] = wsCalls[j]
          BY <1>3, <2>2, <3>3, <4>1
        <4> QED
          BY <4>1, <4>2 DEF WsPending
      <3> QED
        BY <3>1, <3>2, <3>3, ListedKept DEF WsShownInv
    <2> QED
      BY <2>1, <2>2
  <1>6. WsMeant'
    <2>1. \A k \in DOMAIN wsCalls' : ~(wsCalls'[k].op = "toggle" /\ ~wsCalls'[k].raced /\ wsCalls'[k].ans = Waiting)
      BY <1>3 DEF WsShownInv, WsMeant
    <2> QED
      BY <2>1 DEF WsMeant
  <1>7. /\ wsDialogs \in Nat
        /\ \A k \in DOMAIN wsCalls' : wsCalls'[k].no \in Nat /\ wsCalls'[k].no <= wsDialogs
        /\ \A k, l \in DOMAIN wsCalls' :
              /\ wsCalls'[k].op = "certbot" /\ wsCalls'[k].no = wsDialogs
              /\ wsCalls'[l].op = "certbot" /\ wsCalls'[l].no = wsDialogs
              => k = l
        /\ (wsDialog.kind = "ssl" /\ wsDialog.es # "none") \/ (c.op = "certbot" /\ c.no = wsDialogs) =>
              \A k \in DOMAIN wsCalls' : ~(wsCalls'[k].op = "certbot" /\ wsCalls'[k].no = wsDialogs)
    BY <1>3, <1>4 DEF WsShownInv, WsVerdicts
  <1>8. /\ wsDialog.kind = "ssl" /\ wsDialog.es # "none" => ~(c.op = "certbot" /\ c.no = wsDialogs)
        /\ wsDialog.kind = "ssl" /\ wsDialog.status \in {"ok", "failed"} => wsDialog.es # "open"
    BY DEF WsShownInv, WsVerdicts
  <1>9. \/ wsDialog' = wsDialog \/ wsDialog'.kind # "ssl"
        \/ wsDialog.kind = "ssl" /\ wsDialog'.es = wsDialog.es /\ wsDialog'.status = wsDialog.status
        \/ /\ wsDialog.kind = "ssl" /\ c.op = "certbot" /\ c.no = wsDialogs
           /\ wsDialog'.es = "open" /\ wsDialog'.status = "connecting"
    <2>1. wsDialog.kind = "ssl" => DOMAIN wsDialog = SslFields
      BY DEF SitesInv, DialogOK, NoDialog
    <2> DEFINE hook == AsyncReload(wsDialog.hook)
    <2>2. CASE c.op = "manual" /\ c.no = wsDialogs /\ wsDialog.kind = "ssl" /\ c.ans # Failed
      <3>1. wsDialog' = [wsDialog EXCEPT !.hook = hook]
        BY <1>1, <2>2 DEF DialogAfter
      <3> HIDE DEF hook
      <3> QED
        BY <2>1, <2>2, <3>1 DEF SslFields
    <2>3. CASE c.op = "certbot" /\ c.no = wsDialogs /\ wsDialog.kind = "ssl" /\ c.ans # Failed
      <3>1. wsDialog' = [wsDialog EXCEPT !.hook = hook, !.es = "open", !.status = "connecting", !.job = "running"]
        BY <1>1, <2>3 DEF DialogAfter
      <3> HIDE DEF hook
      <3> QED
        BY <2>1, <2>3, <3>1 DEF SslFields
    <2>4. CASE ~(c.op \in {"manual", "certbot"} /\ c.no = wsDialogs /\ wsDialog.kind = "ssl" /\ c.ans # Failed)
      <3>1. wsDialog' \in {wsDialog, NoDialog}
        BY <1>1, <2>4 DEF DialogAfter
      <3> QED
        BY <3>1 DEF NoDialog
    <2> QED
      BY <2>2, <2>3, <2>4
  <1>10. WsVerdicts'
    BY <1>1, <1>7, <1>8, <1>9 DEF WsVerdicts
  <1>11. VerdictStays
    BY <1>8, <1>9 DEF VerdictStays, WsStreaming
  <1> QED
    BY <1>5, <1>6, <1>10, <1>11 DEF WsShownInv

LEMMA ShownInit == WsInit => WsShownInv
  <1> SUFFICES ASSUME WsInit PROVE WsShownInv
    OBVIOUS
  <1>1. wsHook = AsyncMount("list") /\ wsCalls = <<>> /\ wsDialogs = 0 /\ wsDialog.kind = "none"
    BY DEF WsInit, NoDialog
  <1>2. DOMAIN wsCalls = {}
    BY <1>1
  <1>3. HookAlone(wsHook) /\ \E x : wsHook.calls = {x} /\ x.ans = Waiting
    BY <1>1, HookStarts
  <1> QED
    BY <1>1, <1>2, <1>3 DEF WsShownInv, WsListed, WsMeant, WsVerdicts

LEMMA ShownNext == SitesInv /\ WsShownInv /\ [WsNext]_wsVars => WsShownInv' /\ VerdictStays
  <1> SUFFICES ASSUME SitesInv, WsShownInv, [WsNext]_wsVars PROVE WsShownInv' /\ VerdictStays
    OBVIOUS
  <1>1. UNCHANGED wsDialog => VerdictStays
    BY DEF VerdictStays
  <1>2. CASE UNCHANGED wsVars
    <2>1. UNCHANGED <<wsServer, wsSyncs, wsHook, wsDialog, wsDialogs, wsCalls, wsUnseen>>
      BY <1>2 DEF wsVars
    <2>2. wsDialog.kind = "ssl" /\ wsDialog.status \in {"ok", "failed"} => wsDialog.es # "open"
      BY DEF WsShownInv, WsVerdicts
    <2> QED
      BY <2>1, <2>2, DialogShown
  <1>3. ASSUME NEW i \in DOMAIN wsCalls, WsServeRead(i) \/ WsServeWrite(i) \/ WsServe(i) \/ WsAnswerLost(i)
        PROVE  WsShownInv' /\ VerdictStays
    <2>1. UNCHANGED wsDialog
      BY <1>3, Zenon DEF WsServeRead, WsServeWrite, WsServe, WsAnswerLost
    <2>2. WsShownInv'
      BY <1>3, ShownServeSteps
    <2> QED
      BY <1>1, <2>1, <2>2
  <1>4. CASE \/ \E c \in wsHook.calls : WsServeList(c) \/ WsListLost(c) \/ WsListArrives(c)
             \/ \E s \in wsSyncs : WsWriteBack(s)
    <2>1. UNCHANGED wsDialog
      BY <1>4 DEF WsServeList, WsListLost, WsListArrives, WsWriteBack
    <2> QED
      BY <1>1, <1>4, <2>1, ShownListSteps
  <1>5. CASE OnSubmit \/ SubmitConfig \/ SaveManual \/ RunCertbot \/ \E id \in WsRows : OnToggle(id) \/ OnRemove(id)
    <2>1. UNCHANGED wsDialog
      BY <1>5 DEF OnSubmit, SubmitConfig, SaveManual, RunCertbot, WsAsked, OnToggle, OnRemove
    <2> QED
      BY <1>1, <1>5, <2>1, ShownAskSteps
  <1>6. CASE \/ WsNew \/ WsClose \/ SetActive \/ JobEnds \/ JobLine \/ JobDone \/ JobDisconnected \/ CloseStream
             \/ \E id \in WsRows : WsEdit(id) \/ WsOpenConfig(id) \/ WsOpenSsl(id)
             \/ \E d \in WsDomains : SetDomain(d)
             \/ \E text \in WsTexts : SetConfig(text)
             \/ wsDialog.kind \in {"config", "ssl"} /\ \E c \in wsDialog.hook.calls : WsServeDialog(c) \/ WsDialogArrives(c)
    BY <1>6, ShownDialogSteps
  <1>7. ASSUME NEW i \in DOMAIN wsCalls, WsCallArrives(i) PROVE WsShownInv' /\ VerdictStays
    BY <1>7, ShownArriveStep
  <1>8. CASE WsNext
    BY <1>3, <1>4, <1>5, <1>6, <1>7, <1>8 DEF WsNext
  <1> QED
    BY <1>2, <1>8

LEMMA SendGrows ==
  ASSUME SitesInv, NEW c, WsSend(c) PROVE Len(wsCalls') = Len(wsCalls) + 1
  <1> DEFINE q == [i \in DOMAIN wsCalls |-> [wsCalls[i] EXCEPT !.raced = TRUE]]
  <1>1. PICK new : wsCalls' = Append(q, new)
    BY Zenon DEF WsSend, Send
  <1>2. PICK S : wsCalls \in Seq(S)
    BY DEF SitesInv, WsCallsOK
  <1>3. Len(wsCalls) \in Nat /\ DOMAIN wsCalls = 1 .. Len(wsCalls)
    BY <1>2, LenProperties
  <1>4. q = [i \in 1 .. Len(wsCalls) |-> q[i]]
    BY <1>3
  <1> HIDE DEF q
  <1> DEFINE T == {q[i] : i \in 1 .. Len(wsCalls)} \cup {new}
  <1>5. q \in Seq(T) /\ new \in T
    BY <1>3, <1>4, IsASeq
  <1> HIDE DEF T
  <1>6. Len(q) = Len(wsCalls)
    BY <1>3, <1>4, <1>5, LenProperties
  <1> QED
    BY <1>1, <1>5, <1>6, AppendProperties

\* What ToggleAsOffered says of a step: only the handler of the toggle itself answers
\* it, with the row it read.
LEMMA ToggleStep ==
  ASSUME SitesInv, WsShownInv, [WsNext]_wsVars, NEW i \in DOMAIN wsCalls,
         wsCalls[i].op = "toggle", wsCalls[i].at = "read", ~wsCalls[i].raced, Len(wsCalls') = Len(wsCalls),
         wsCalls'[i].ans # Waiting, wsCalls'[i].ans # Failed
  PROVE  wsServer'.rows[wsCalls[i].id].active = ~wsCalls[i].active
  <1> DEFINE c == wsCalls[i]
  <1>1. WsCallOK(c) /\ c.ans = Waiting /\ c.id \in WsIds /\ SiteRow(c.row) /\ ServerOK(wsServer) /\ DOMAIN c = WsCallFields
    BY DEF SitesInv, WsCallsOK, WsCallOK
  <1>2. c.row.active = c.active
    BY <1>1 DEF WsShownInv, WsMeant
  <1>3. wsCalls' # wsCalls /\ wsCalls'[i] # c
    BY <1>1
  <1>4. PICK S : wsCalls \in Seq(S)
    BY DEF SitesInv, WsCallsOK
  <1>5. Len(wsCalls) \in Nat /\ DOMAIN wsCalls = 1 .. Len(wsCalls)
    BY <1>4, LenProperties
  <1>6. ASSUME NEW d, WsSend(d) PROVE FALSE
    <2>1. Len(wsCalls') = Len(wsCalls) + 1
      BY <1>6, SendGrows
    <2> QED
      BY <1>5, <2>1
  <1>7. WsServe(i)
    <2>1. CASE UNCHANGED wsCalls
      BY <1>3, <2>1
    <2>2. CASE OnSubmit \/ SubmitConfig \/ SaveManual \/ RunCertbot \/ \E id \in WsRows : OnToggle(id) \/ OnRemove(id)
      <3>1. \E d : WsSend(d)
        BY <2>2 DEF OnSubmit, SubmitConfig, SaveManual, RunCertbot, WsAsked, OnToggle, OnRemove
      <3> QED
        BY <1>6, <3>1
    <2>3. ASSUME NEW j \in DOMAIN wsCalls, WsCallArrives(j) PROVE FALSE
      <3>1. wsCalls' = RemoveAt(wsCalls, j)
        BY <2>3 DEF WsCallArrives, Forget
      <3>2. Len(wsCalls') = Len(wsCalls) - 1
        BY <1>4, <3>1, RemoveAtKeeps
      <3> QED
        BY <1>5, <3>2
    <2>4. ASSUME NEW j \in DOMAIN wsCalls, WsServeRead(j) \/ WsServeWrite(j) \/ WsAnswerLost(j) PROVE FALSE
      <3>1. c.op = "toggle" /\ c.at = "read" /\ Value("ok") # Waiting
        BY DEF Value, Waiting
      <3>2. j # i
        BY <1>1, <2>4, <3>1 DEF WsServeRead, WsServeWrite, WsAnswerLost
      <3>3. wsCalls'[i] = c
        BY <2>4, <3>2 DEF WsServeRead, WsServeWrite, WsAnswerLost, Answer
      <3> QED
        BY <1>3, <3>3
    <2>5. ASSUME NEW j \in DOMAIN wsCalls, WsServe(j) PROVE j = i
      <3>1. PICK o \in WsOutcomes(wsServer, wsCalls[j]) :
              wsCalls' = [wsCalls EXCEPT ![j].at = "done", ![j].ans = IF o.ok THEN Value("ok") ELSE Failed]
        BY <2>5, Zenon DEF WsServe
      <3> QED
        BY <1>3, <3>1
    <2>6. ASSUME \/ \E e \in wsHook.calls : WsServeList(e) \/ WsListLost(e) \/ WsListArrives(e)
                 \/ \E s \in wsSyncs : WsWriteBack(s)
          PROVE  UNCHANGED wsCalls
      BY <2>6 DEF WsServeList, WsListLost, WsListArrives, WsWriteBack
    <2>7. ASSUME \/ WsNew \/ WsClose \/ SetActive
                 \/ \E id \in WsRows : WsEdit(id) \/ WsOpenConfig(id) \/ WsOpenSsl(id)
                 \/ \E d \in WsDomains : SetDomain(d)
                 \/ \E text \in WsTexts : SetConfig(text)
          PROVE  UNCHANGED wsCalls
      BY <2>7 DEF WsNew, WsClose, SetActive, WsEdit, WsOpenConfig, WsOpenSsl, WsOpen, SetDomain, SetConfig, WsTyped
    <2>8. ASSUME \/ JobEnds \/ JobLine \/ JobDone \/ JobDisconnected \/ CloseStream
                 \/ \E e \in wsDialog.hook.calls : WsServeDialog(e) \/ WsDialogArrives(e)
          PROVE  UNCHANGED wsCalls
      BY <2>8, Zenon DEF JobEnds, JobLine, JobDone, JobDisconnected, CloseStream, WsStream, WsServeDialog, WsDialogArrives
    <2>9. UNCHANGED wsVars => UNCHANGED wsCalls
      BY DEF wsVars
    <2>10. CASE WsNext
      BY <2>1, <2>2, <2>3, <2>4, <2>5, <2>6, <2>7, <2>8, <2>10 DEF WsNext
    <2> QED
      BY <2>1, <2>9, <2>10
  <1>8. PICK o \in WsOutcomes(wsServer, c) :
          /\ wsServer' = o.srv
          /\ wsCalls' = [wsCalls EXCEPT ![i].at = "done", ![i].ans = IF o.ok THEN Value("ok") ELSE Failed]
    BY <1>7, Zenon DEF WsServe
  <1>9. o.ok
    BY <1>1, <1>8 DEF WsCallFields
  <1> HIDE DEF c
  <1>10. wsServer'.rows[c.id].active = ~c.row.active
    BY <1>1, <1>8, <1>9, ToggleTurns DEF c
  <1> QED
    BY <1>2, <1>10 DEF c

\* In the panel a button does what it says, for a list that was right when it was
\* pressed: Disable takes down the version of its row and a toggle turns the site the
\* way it offered; the verdict of a job is not taken back.
THEOREM PanelShownIsMeant == PanelSpec => ShownIsMeant
  <1>1. PanelInit => ConsentInv /\ RowsInv /\ SitesInv /\ WsShownInv
    BY ConsentInit, RowsInit, SitesInit, ShownInit DEF PanelInit
  <1>2. ConsentInv /\ RowsInv /\ SitesInv /\ WsShownInv /\ [PanelNext]_panelVars
          => (ConsentInv /\ RowsInv /\ SitesInv /\ WsShownInv)'
    BY PagesTakeTurns, ConsentNext, RowsNext, SitesNext, ShownNext
  <1>3. ASSUME ConsentInv /\ RowsInv /\ SitesInv /\ WsShownInv, [PanelNext]_panelVars
        PROVE  /\ [\A i \in DOMAIN piCalls :
                     /\ piCalls[i].op = "disable" /\ ~piCalls[i].raced
                     /\ Unserved(piCalls, i) /\ piRegistry' # piRegistry
                     /\ Len(piCalls') = Len(piCalls) /\ ~Unserved(piCalls', i)
                     => PiEnabled(piRegistry) = {piCalls[i].v}]_piVars
               /\ [\A i \in DOMAIN wsCalls :
                     LET c == wsCalls[i] IN
                     c.op = "toggle" /\ c.at = "read" /\ ~c.raced /\ Len(wsCalls') = Len(wsCalls) =>
                         (wsCalls'[i].ans # Waiting /\ wsCalls'[i].ans # Failed
                            => wsServer'.rows[c.id].active = ~c.active)]_wsVars
               /\ [WsStreaming /\ wsDialog.status \in {"ok", "failed"} =>
                     \/ wsDialog'.kind # "ssl" \/ wsDialog'.es = "none"
                     \/ wsDialog'.status = wsDialog.status]_wsVars
    <2>1. [WsNext]_wsVars
      BY <1>3, PagesTakeTurns
    <2>2. \A i \in DOMAIN piCalls :
            piCalls[i].op = "disable" /\ ~piCalls[i].raced /\ Unserved(piCalls, i) => PiEnabled(piRegistry) = {piCalls[i].v}
      BY <1>3 DEF RowsInv, PiMeant, Unserved
    <2>3. \A i \in DOMAIN wsCalls :
            wsCalls[i].op = "toggle" /\ wsCalls[i].at = "read" /\ ~wsCalls[i].raced /\ Len(wsCalls') = Len(wsCalls) =>
                (wsCalls'[i].ans # Waiting /\ wsCalls'[i].ans # Failed
                   => wsServer'.rows[wsCalls[i].id].active = ~wsCalls[i].active)
      BY <1>3, <2>1, ToggleStep
    <2>4. VerdictStays
      BY <1>3, <2>1, ShownNext
    <2> QED
      BY <2>2, <2>3, <2>4 DEF VerdictStays
  <1> QED
    BY <1>1, <1>2, <1>3, PTL DEF PanelSpec, ShownIsMeant, DisableHitsItsRow, ToggleAsOffered, VerdictStands

-----------------------------------------------------------------------------
(* The lists of the four pages are those of the service.                   *)

\* The directory may be another one than was listed: it will be listed again, or
\* the page has been told.
FilesStale == filesUnseen \/ \E i \in DOMAIN filesCalls : filesCalls[i].op # "read"

\* What is on show, or is about to be, is the directory.
FilesListed ==
    /\ HookAlone(filesHook)
    /\ \A c \in filesHook.calls : c.deps = filesHook.deps
    /\ \/ FilesStale
       \/ LET here == FilesBrowse(filesDisk, filesHook.deps) IN
          /\ \A c \in filesHook.calls : c.ans \in {Waiting, Failed, here}
          /\ filesHook.calls = {} /\ AsyncShown(filesHook) => filesHook.data = here

LEMMA HookRuns ==
  ASSUME NEW hook, NEW deps
  PROVE  LET u == AsyncRun(hook, deps)
         IN  HookAlone(u) /\ u.deps = deps /\ \E x : u.calls = {x} /\ x.deps = deps /\ x.ans = Waiting
  <1> DEFINE x == [deps |-> deps, ans |-> Waiting]
             u == AsyncRun(hook, deps)
  <1>1. DOMAIN x = {"deps", "ans"} /\ x.deps = deps /\ x.ans = Waiting
    OBVIOUS
  <1>2. DOMAIN u = {"deps", "data", "failed", "calls"} /\ u.deps = deps /\ u.calls = {x}
    BY DEF AsyncRun
  <1> HIDE DEF x, u
  <1>3. HookAlone(u) /\ u.deps = deps /\ \E z : u.calls = {z} /\ z.deps = deps /\ z.ans = Waiting
    BY <1>1, <1>2 DEF HookAlone
  <1> QED
    BY <1>3 DEF u

\* The directory is asked for: the answer is not there yet.
LEMMA FilesAsked ==
  ASSUME NEW hook, NEW deps, filesHook' = AsyncRun(hook, deps) PROVE FilesListed'
  <1>1. /\ HookAlone(filesHook') /\ filesHook'.deps = deps
        /\ \E x : filesHook'.calls = {x} /\ x.deps = deps /\ x.ans = Waiting
    BY HookRuns
  <1> QED
    BY <1>1 DEF FilesListed

\* The hook and the disk stay, or the page has been told.
LEMMA FilesListKept ==
  ASSUME FilesListed, filesHook' = filesHook, FilesStale' \/ (filesDisk' = filesDisk /\ ~FilesStale)
  PROVE  FilesListed'
  BY DEF FilesListed

\* Requests change for themselves, keeping what they are.
LEMMA FilesOpsKept ==
  ASSUME FilesListed, UNCHANGED <<filesHook, filesDisk, filesUnseen>>,
         \A i \in DOMAIN filesCalls : filesCalls[i].op # "read" =>
             \E k \in DOMAIN filesCalls' : filesCalls'[k].op = filesCalls[i].op
  PROVE  FilesListed'
  <1>1. FilesStale => FilesStale'
    BY DEF FilesStale
  <1> QED
    BY <1>1, FilesListKept

\* Gestures that send nothing.
LEMMA FilesQuietSteps ==
  ASSUME FilesListed,
         \/ \E p \in FilesPaths : TickRow(p)
         \/ FilesCloseViewer
         \/ \E text \in FilesTexts : FilesType(text)
         \/ \E act \in Dialogs, p \in FilesPaths : FilesOpenModal(act, p)
         \/ UNCHANGED filesVars
  PROVE  FilesListed'
  <1>1. UNCHANGED <<filesHook, filesDisk, filesUnseen, filesCalls>>
    BY DEF TickRow, FilesCloseViewer, FilesType, FilesOpenModal, filesHistory, filesVars
  <1> QED
    BY <1>1, FilesOpsKept

\* A request is sent: those under way stay.
LEMMA FilesSendKeeps ==
  ASSUME FilesListed, EditInv, NEW c, FilesSend(c), UNCHANGED <<filesHook, filesDisk, filesUnseen>>
  PROVE  FilesListed'
  <1> DEFINE new == [c EXCEPT !.ans = Waiting]
             T == FilesRequest \cup {new}
  <1>1. filesCalls \in Seq(T)
    <2>1. filesCalls \in Seq(FilesRequest) /\ Len(filesCalls) \in Nat
      BY LenProperties DEF EditInv, FilesCallsOK
    <2>2. filesCalls \in [1 .. Len(filesCalls) -> T]
      BY <2>1, LenProperties, ElementOfSeq
    <2> QED
      BY <2>1, <2>2, SeqDef
  <1>2. filesCalls' = Append(filesCalls, new) /\ new \in T
    BY DEF FilesSend, Send
  <1> HIDE DEF new, T
  <1>3. /\ Len(filesCalls) \in Nat /\ DOMAIN filesCalls = 1 .. Len(filesCalls)
        /\ Len(filesCalls') = Len(filesCalls) + 1 /\ filesCalls' \in Seq(T)
        /\ \A i \in 1 .. Len(filesCalls) : filesCalls'[i] = filesCalls[i]
    BY <1>1, <1>2, AppendProperties, LenProperties
  <1>4. \A i \in DOMAIN filesCalls : i \in DOMAIN filesCalls' /\ filesCalls'[i] = filesCalls[i]
    BY <1>3, LenProperties
  <1> QED
    BY <1>4, FilesOpsKept

\* Gestures that send a request, and the dialog that may only reload.
LEMMA FilesSendingSteps ==
  ASSUME FilesListed, EditInv,
         \/ \E p \in FilesPaths : OpenEntry(p) \/ DeleteEntry(p) \/ UploadDropped(p) \/ FilesSubmitModal(p)
         \/ SaveSelected \/ RunBatchSave \/ RunBatchDelete
         \/ \E op \in {"copyUp", "moveUp"} : SelectedToParent(op)
         \/ \E p, d \in FilesPaths : MoveDroppedPath(p, d)
  PROVE  FilesListed'
  <1>1. CASE UNCHANGED <<filesHook, filesDisk, filesUnseen, filesCalls>>
    BY <1>1, FilesOpsKept
  <1>2. CASE UNCHANGED <<filesHook, filesDisk, filesUnseen>> /\ \E c : FilesSend(c)
    BY <1>2, FilesSendKeeps
  <1>3. CASE filesHook' = AsyncReload(filesHook)
    BY <1>3, FilesAsked DEF AsyncReload
  <1>4. ASSUME NEW p \in FilesPaths, OpenEntry(p) PROVE FilesListed'
    <2>1. UNCHANGED <<filesHook, filesDisk, filesUnseen>> /\ (UNCHANGED filesCalls \/ \E c : FilesSend(c))
      BY <1>4 DEF OpenEntry, filesHistory
    <2> QED
      BY <1>1, <1>2, <2>1
  <1>5. ASSUME NEW p \in FilesPaths, DeleteEntry(p) \/ UploadDropped(p) PROVE FilesListed'
    <2>1. UNCHANGED <<filesHook, filesDisk, filesUnseen>> /\ \E c : FilesSend(c)
      BY <1>5 DEF DeleteEntry, UploadDropped, filesHistory
    <2> QED
      BY <1>2, <2>1
  <1>6. ASSUME NEW p \in FilesPaths, FilesSubmitModal(p) PROVE FilesListed'
    <2>1. UNCHANGED <<filesDisk, filesUnseen>>
      BY <1>6 DEF FilesSubmitModal, filesHistory
    <2>2. filesHook' = AsyncReload(filesHook) \/ (UNCHANGED filesHook /\ \E c : FilesSend(c))
      BY <1>6 DEF FilesSubmitModal
    <2> QED
      BY <1>2, <1>3, <2>1, <2>2
  <1>7. CASE SaveSelected \/ RunBatchSave \/ RunBatchDelete
    <2>1. UNCHANGED <<filesHook, filesDisk, filesUnseen>> /\ \E c : FilesSend(c)
      BY <1>7 DEF SaveSelected, RunBatchSave, RunBatchDelete, filesHistory
    <2> QED
      BY <1>2, <2>1
  <1>8. ASSUME NEW op, SelectedToParent(op) PROVE FilesListed'
    <2>1. UNCHANGED <<filesHook, filesDisk, filesUnseen>> /\ \E c : FilesSend(c)
      BY <1>8 DEF SelectedToParent, filesHistory
    <2> QED
      BY <1>2, <2>1
  <1>9. ASSUME NEW p, NEW d, MoveDroppedPath(p, d) PROVE FilesListed'
    <2>1. UNCHANGED <<filesHook, filesDisk, filesUnseen>> /\ \E c : FilesSend(c)
      BY <1>9 DEF MoveDroppedPath, filesHistory
    <2> QED
      BY <1>2, <2>1
  <1> QED
    BY <1>4, <1>5, <1>6, <1>7, <1>8, <1>9

\* The list: navigation, Reload, the service's answer and its arrival.
LEMMA FilesListingSteps ==
  ASSUME FilesListed,
         \/ FilesReload
         \/ \E d \in FilesPaths : FilesNavigate(d)
         \/ \E c \in filesHook.calls : FilesServeListing(c) \/ FilesListingArrives(c)
  PROVE  FilesListed'
  <1>1. CASE FilesReload
    BY <1>1, FilesAsked DEF FilesReload, AsyncReload
  <1>2. ASSUME NEW d, FilesNavigate(d) PROVE FilesListed'
    BY <1>2, FilesAsked DEF FilesNavigate
  <1>3. ASSUME NEW c \in filesHook.calls, FilesServeListing(c) PROVE FilesListed'
    <2>1. PICK res \in {FilesBrowse(filesDisk, c.deps), Failed} : filesHook' = AsyncServe(filesHook, c, res)
      BY <1>3 DEF FilesServeListing
    <2>2. UNCHANGED filesDisk
      BY <1>3 DEF FilesServeListing
    <2>3. HookAlone(filesHook) /\ c.deps = filesHook.deps /\ DOMAIN c = {"deps", "ans"} /\ filesHook.calls = {c}
      BY DEF FilesListed, HookAlone
    <2> DEFINE x == [c EXCEPT !.ans = res]
    <2>4. x.deps = filesHook.deps /\ x.ans = res
      BY <2>3
    <2>5. filesHook'.deps = filesHook.deps /\ filesHook'.calls = {x}
      BY <2>1, <2>3 DEF HookAlone, AsyncServe
    <2> HIDE DEF x
    <2>6. HookAlone(filesHook')
      BY <2>1, <2>3, HookStays
    <2>7. res \in {Failed, FilesBrowse(filesDisk', filesHook'.deps)}
      BY <2>1, <2>2, <2>3, <2>5
    <2> QED
      BY <2>4, <2>5, <2>6, <2>7 DEF FilesListed
  <1>4. ASSUME NEW c \in filesHook.calls, FilesListingArrives(c) PROVE FilesListed'
    <2>1. c.ans # Waiting /\ filesHook' = AsyncDeliver(filesHook, c) /\ UNCHANGED <<filesDisk, filesCalls, filesUnseen>>
      BY <1>4 DEF FilesListingArrives, filesHistory
    <2>2. HookAlone(filesHook)
      BY DEF FilesListed
    <2>3. HookAlone(filesHook') /\ filesHook'.calls = {}
      BY <2>1, <2>2, HookStays
    <2>4. /\ filesHook'.deps = filesHook.deps
          /\ c.ans = Failed => filesHook'.failed
          /\ c.ans # Failed => filesHook'.data = c.ans
      BY <2>1, <2>2 DEF HookAlone, AsyncDeliver
    <2>5. FilesStale => FilesStale'
      BY <2>1 DEF FilesStale
    <2>6. ASSUME ~FilesStale, AsyncShown(filesHook') PROVE filesHook'.data = FilesBrowse(filesDisk', filesHook'.deps)
      <3>1. c.ans \in {Waiting, Failed, FilesBrowse(filesDisk, filesHook.deps)}
        BY <2>6 DEF FilesListed
      <3>2. c.ans # Failed
        BY <2>4, <2>6 DEF AsyncShown
      <3> QED
        BY <2>1, <2>4, <3>1, <3>2
    <2> QED
      BY <2>3, <2>5, <2>6 DEF FilesListed
  <1> QED
    BY <1>1, <1>2, <1>3, <1>4

\* A request gets on: what it asks for stays.
LEMMA FilesAnswerKeeps ==
  ASSUME EditInv, NEW i \in DOMAIN filesCalls, NEW ans, filesCalls' = Answer(filesCalls, i, ans)
  PROVE  \A j \in DOMAIN filesCalls : j \in DOMAIN filesCalls' /\ filesCalls'[j].op = filesCalls[j].op
  <1>1. \A j \in DOMAIN filesCalls : filesCalls[j] \in FilesRequest
    BY CallIs DEF EditInv, DraftInv
  <1> QED
    BY <1>1 DEF Answer, FilesRequest

LEMMA FilesItemKeeps ==
  ASSUME NEW c \in FilesRequest, NEW item, NEW ok PROVE FilesAfterItem(c, item, ok).op = c.op
  BY DEF FilesAfterItem, FilesRequest

\* The service changes the directory for a request under way, or somebody else
\* does; answers are given, or lost.
LEMMA FilesServiceSteps ==
  ASSUME FilesListed, EditInv,
         \/ \E i \in DOMAIN filesCalls : FilesServeStat(i) \/ FilesServeCall(i) \/ FilesServeRead(i) \/ FilesCallLost(i)
         \/ \E p \in FilesPaths, x \in FilesTexts \cup {None} : FilesOther(p, x)
  PROVE  FilesListed'
  <1>1. ASSUME NEW i \in DOMAIN filesCalls, FilesServeCall(i) PROVE FilesListed'
    <2>1. filesCalls[i].op # "read" /\ UNCHANGED filesHook
      BY <1>1 DEF FilesServeCall
    <2>2. PICK item, ok : filesCalls' = [filesCalls EXCEPT ![i] = FilesAfterItem(@, item, ok)]
      BY <1>1 DEF FilesServeCall
    <2>3. filesCalls[i] \in FilesRequest
      BY CallIs DEF EditInv, DraftInv
    <2>4. i \in DOMAIN filesCalls' /\ filesCalls'[i].op = filesCalls[i].op
      BY <2>2, <2>3, FilesItemKeeps
    <2>5. FilesStale'
      BY <2>1, <2>4 DEF FilesStale
    <2> QED
      BY <2>1, <2>5, FilesListKept
  <1>2. ASSUME NEW i \in DOMAIN filesCalls, FilesServeRead(i) \/ FilesCallLost(i) PROVE FilesListed'
    <2>1. UNCHANGED <<filesHook, filesDisk, filesUnseen>> /\ \E ans : filesCalls' = Answer(filesCalls, i, ans)
      BY <1>2 DEF FilesServeRead, FilesCallLost, filesHistory
    <2>2. \A j \in DOMAIN filesCalls : j \in DOMAIN filesCalls' /\ filesCalls'[j].op = filesCalls[j].op
      BY <2>1, FilesAnswerKeeps
    <2> QED
      BY <2>1, <2>2, FilesOpsKept
  <1>3. ASSUME NEW p, NEW x, FilesOther(p, x) PROVE FilesListed'
    <2>1. UNCHANGED filesHook /\ filesUnseen'
      BY <1>3 DEF FilesOther
    <2> QED
      BY <2>1, FilesListKept DEF FilesStale
  <1>4. ASSUME NEW i \in DOMAIN filesCalls, FilesServeStat(i) PROVE FilesListed'
    <2>1. UNCHANGED <<filesHook, filesDisk, filesUnseen>>
      BY <1>4 DEF FilesServeStat, filesHistory
    <2> DEFINE c == filesCalls[i]
               at(item) == [c EXCEPT !.found = {item}, !.there = IsFile(filesDisk, item[1])]
    <2>2. PICK item : filesCalls' = [filesCalls EXCEPT ![i] = IF FilesStat(filesDisk, item[1]) THEN at(item)
                                                              ELSE FilesAfterItem(c, item, FALSE)]
      BY <1>4 DEF FilesServeStat
    <2> DEFINE d == IF FilesStat(filesDisk, item[1]) THEN at(item) ELSE FilesAfterItem(c, item, FALSE)
    <2>3. d.op = c.op
      <3>1. c \in FilesRequest
        BY CallIs DEF EditInv, DraftInv
      <3> HIDE DEF c
      <3>2. at(item).op = c.op
        BY <3>1 DEF FilesRequest
      <3>3. FilesAfterItem(c, item, FALSE).op = c.op
        BY <3>1, FilesItemKeeps
      <3> HIDE DEF at
      <3> QED
        BY <3>2, <3>3
    <2>4. filesCalls' = [filesCalls EXCEPT ![i] = d]
      BY <2>2
    <2> HIDE DEF d
    <2>5. \A j \in DOMAIN filesCalls : j \in DOMAIN filesCalls' /\ filesCalls'[j].op = filesCalls[j].op
      BY <2>3, <2>4
    <2> QED
      BY <2>1, <2>5, FilesOpsKept
  <1> QED
    BY <1>1, <1>2, <1>3, <1>4

\* A dialog is closed, its requests go on; an answer arrives.
LEMMA FilesArrivalSteps ==
  ASSUME FilesListed, EditInv,
         \/ FilesCloseModal
         \/ \E i \in DOMAIN filesCalls : FilesCallFails(i) \/ FilesReadArrives(i) \/ FilesCallArrives(i)
  PROVE  FilesListed'
  <1>1. CASE FilesCloseModal
    <2>1. UNCHANGED <<filesHook, filesDisk, filesUnseen>>
      BY <1>1 DEF FilesCloseModal, filesHistory
    <2>2. \A j \in DOMAIN filesCalls : filesCalls[j] \in FilesRequest
      BY CallIs DEF EditInv, DraftInv
    <2>3. filesCalls' = [i \in DOMAIN filesCalls |-> [filesCalls[i] EXCEPT !.mine = FALSE]]
      BY <1>1 DEF FilesCloseModal
    <2>4. \A j \in DOMAIN filesCalls : j \in DOMAIN filesCalls' /\ filesCalls'[j].op = filesCalls[j].op
      BY <2>2, <2>3 DEF FilesRequest
    <2> QED
      BY <2>1, <2>4, FilesOpsKept
  <1>2. ASSUME NEW i \in DOMAIN filesCalls, filesCalls[i].op = "read", filesCalls' = Forget(filesCalls, i),
               UNCHANGED <<filesHook, filesDisk, filesUnseen>>
        PROVE  FilesListed'
    <2>1. filesCalls \in Seq(FilesRequest)
      BY DEF EditInv, FilesCallsOK
    <2>2. \A j \in DOMAIN filesCalls \ {i} : \E k \in DOMAIN filesCalls' : filesCalls'[k] = filesCalls[j]
      BY <1>2, <2>1, RemoveAtKeeps DEF Forget
    <2> QED
      BY <1>2, <2>2, FilesOpsKept
  <1>3. ASSUME NEW i \in DOMAIN filesCalls, FilesCallFails(i) PROVE FilesListed'
    <2>1. /\ UNCHANGED <<filesHook, filesDisk>> /\ filesCalls' = Forget(filesCalls, i)
          /\ filesUnseen' = (filesUnseen \/ filesCalls[i].op # "read")
      BY <1>3 DEF FilesCallFails
    <2>2. CASE filesUnseen
      BY <2>1, <2>2, FilesListKept DEF FilesStale
    <2>3. CASE filesCalls[i].op # "read"
      BY <2>1, <2>3, FilesListKept DEF FilesStale
    <2>4. CASE ~filesUnseen /\ filesCalls[i].op = "read"
      <3>1. ~filesUnseen'
        BY <2>1, <2>4
      <3>2. \A j \in DOMAIN filesCalls \ {i} : \E k \in DOMAIN filesCalls' : filesCalls'[k] = filesCalls[j]
        <4>1. filesCalls \in Seq(FilesRequest)
          BY DEF EditInv, FilesCallsOK
        <4> QED
          BY <2>1, <4>1, RemoveAtKeeps DEF Forget
      <3>3. FilesStale => FilesStale'
        BY <2>4, <3>2 DEF FilesStale
      <3> QED
        BY <2>1, <3>3, FilesListKept
    <2> QED
      BY <2>2, <2>3, <2>4
  <1>4. ASSUME NEW i \in DOMAIN filesCalls, FilesReadArrives(i) PROVE FilesListed'
    <2>1. /\ UNCHANGED <<filesHook, filesDisk, filesUnseen>> /\ filesCalls' = Forget(filesCalls, i)
          /\ filesCalls[i].op = "read"
      BY <1>4 DEF FilesReadArrives, filesHistory
    <2> QED
      BY <1>2, <2>1
  <1>5. ASSUME NEW i \in DOMAIN filesCalls, FilesCallArrives(i) PROVE FilesListed'
    BY <1>5, FilesAsked, Zenon DEF FilesCallArrives, HookAfter, AsyncReload
  <1> QED
    BY <1>1, <1>3, <1>4, <1>5

LEMMA FilesListedInit == FilesInit => FilesListed
  <1> SUFFICES ASSUME FilesInit PROVE FilesListed
    OBVIOUS
  <1>1. HookAlone(filesHook) /\ \E x : filesHook.calls = {x} /\ x.ans = Waiting
    BY HookStarts DEF FilesInit
  <1>2. \A c \in filesHook.calls : c.deps = filesHook.deps
    BY DEF FilesInit, AsyncMount
  <1> QED
    BY <1>1, <1>2 DEF FilesListed

LEMMA FilesListedNext == FilesListed /\ EditInv /\ [FilesNext]_filesVars => FilesListed'
  <1> SUFFICES ASSUME FilesListed, EditInv, [FilesNext]_filesVars PROVE FilesListed'
    OBVIOUS
  <1>1. CASE \/ \E p \in FilesPaths : TickRow(p)
             \/ FilesCloseViewer
             \/ \E text \in FilesTexts : FilesType(text)
             \/ \E act \in Dialogs, p \in FilesPaths : FilesOpenModal(act, p)
             \/ UNCHANGED filesVars
    BY <1>1, FilesQuietSteps
  <1>2. CASE \/ \E p \in FilesPaths : OpenEntry(p) \/ DeleteEntry(p) \/ UploadDropped(p) \/ FilesSubmitModal(p)
             \/ SaveSelected \/ RunBatchSave \/ RunBatchDelete
             \/ \E op \in {"copyUp", "moveUp"} : SelectedToParent(op)
             \/ \E p, d \in FilesPaths : MoveDroppedPath(p, d)
    BY <1>2, FilesSendingSteps
  <1>3. CASE \/ FilesReload
             \/ \E d \in FilesPaths : FilesNavigate(d)
             \/ \E c \in filesHook.calls : FilesServeListing(c) \/ FilesListingArrives(c)
    BY <1>3, FilesListingSteps
  <1>4. CASE \/ \E i \in DOMAIN filesCalls : FilesServeStat(i) \/ FilesServeCall(i) \/ FilesServeRead(i) \/ FilesCallLost(i)
             \/ \E p \in FilesPaths, x \in FilesTexts \cup {None} : FilesOther(p, x)
    BY <1>4, FilesServiceSteps
  <1>5. CASE \/ FilesCloseModal
             \/ \E i \in DOMAIN filesCalls : FilesCallFails(i) \/ FilesReadArrives(i) \/ FilesCallArrives(i)
    BY <1>5, FilesArrivalSteps
  <1> QED
    BY <1>1, <1>2, <1>3, <1>4, <1>5 DEF FilesNext

SavedFields == {"op", "id", "q", "raced", "ans"}
SavedCallOK(c) ==
    DOMAIN c = SavedFields /\ c.op \in {"list", "save", "rename", "delete"} /\ c.raced \in BOOLEAN
SavedCallsOK(calls) == (\E S : calls \in Seq(S)) /\ \A i \in DOMAIN calls : SavedCallOK(calls[i])

\* A request that nothing came between: a list that was answered is that of the
\* service, a delete leaves, or will leave, the rows on show with its own.
SavedDue(c) ==
    /\ c.op = "list" => c.ans \in {Waiting, Failed, Value(lgSaved)}
    /\ c.op = "delete" /\ ~lgRaced =>
         /\ c.ans = Waiting => lgShownSaved = lgSaved
         /\ c.ans \notin {Waiting, Failed} => {r \in lgShownSaved : r.id # c.id} = lgSaved

\* The inductive invariant.
SavedInv ==
    /\ SavedCallsOK(lgCalls) /\ lgRaced \in BOOLEAN
    /\ SavedCurrent
    /\ \A i \in DOMAIN lgCalls : ~lgCalls[i].raced => (\A j \in DOMAIN lgCalls : j = i) /\ SavedDue(lgCalls[i])

\* A request that is sent is alone, or all are raced.
LEMMA SavedSent ==
  ASSUME NEW calls, SavedCallsOK(calls), NEW c, SavedCallOK(c), ~c.raced
  PROVE  LET sent == LgSent(calls, c)
         IN  /\ SavedCallsOK(sent) /\ sent # <<>>
             /\ \A i \in DOMAIN sent : ~sent[i].raced =>
                  /\ calls = <<>> /\ \A j \in DOMAIN sent : j = i
                  /\ sent[i].op = c.op /\ sent[i].id = c.id /\ sent[i].ans = Waiting
  <1> DEFINE sent == LgSent(calls, c)
  <1>1. CASE calls = <<>>
    <2> DEFINE new == [c EXCEPT !.ans = Waiting]
    <2>1. SavedCallOK(new) /\ new.op = c.op /\ new.id = c.id /\ new.ans = Waiting
      BY DEF SavedCallOK, SavedFields
    <2>2. sent = Append(<<>>, new)
      BY <1>1 DEF LgSent, Send
    <2> HIDE DEF new, sent
    <2>3. <<>> \in Seq({new}) /\ Len(<<>>) = 0
      BY EmptySeq
    <2>4. sent \in Seq({new}) /\ Len(sent) = 1 /\ sent[1] = new
      BY <2>2, <2>3, AppendProperties
    <2>5. DOMAIN sent = 1 .. 1
      BY <2>4, LenProperties
    <2>6. SavedCallsOK(sent)
      BY <2>1, <2>4, <2>5 DEF SavedCallsOK
    <2>7. sent # <<>>
      BY <2>3, <2>4
    <2>8. \A i \in DOMAIN sent : sent[i] = new /\ \A j \in DOMAIN sent : j = i
      BY <2>4, <2>5
    <2> QED
      BY <1>1, <2>1, <2>6, <2>7, <2>8 DEF sent
  <1>2. CASE calls # <<>>
    <2> DEFINE q == [i \in DOMAIN calls |-> [calls[i] EXCEPT !.raced = TRUE]]
               raced == [c EXCEPT !.raced = TRUE]
               new == [raced EXCEPT !.ans = Waiting]
    <2>1. SavedCallOK(raced) /\ raced.raced
      BY DEF SavedCallOK, SavedFields
    <2>2. SavedCallOK(new) /\ new.raced
      BY <2>1 DEF SavedCallOK, SavedFields
    <2>3. sent = Append(q, new)
      BY <1>2 DEF LgSent, Send
    <2> HIDE DEF raced, new, sent
    <2>4. Len(calls) \in Nat /\ DOMAIN calls = 1 .. Len(calls)
      BY LenProperties DEF SavedCallsOK
    <2>5. \A i \in DOMAIN calls : SavedCallOK(q[i]) /\ q[i].raced
      BY DEF SavedCallsOK, SavedCallOK, SavedFields
    <2>6. q = [i \in 1 .. Len(calls) |-> q[i]]
      BY <2>4
    <2> HIDE DEF q
    <2> DEFINE T == {q[i] : i \in 1 .. Len(calls)} \cup {new}
    <2>7. q \in Seq(T) /\ new \in T
      BY <2>4, <2>6, IsASeq
    <2>8. \A e \in T : SavedCallOK(e) /\ e.raced
      BY <2>2, <2>4, <2>5
    <2> HIDE DEF T
    <2>9. sent \in Seq(T) /\ Len(sent) = Len(q) + 1 /\ Len(q) \in Nat
      BY <2>3, <2>7, AppendProperties, LenProperties
    <2>10. \A i \in DOMAIN sent : SavedCallOK(sent[i]) /\ sent[i].raced
      BY <2>8, <2>9, LenProperties, ElementOfSeq
    <2>11. sent # <<>>
      <3>1. Len(<<>>) = 0
        BY EmptySeq
      <3> QED
        BY <2>9, <3>1
    <2> QED
      BY <2>9, <2>10, <2>11 DEF SavedCallsOK, sent
  <1> QED
    BY <1>1, <1>2

\* Nothing of the saved queries moves.
LEMMA SavedSame ==
  ASSUME SavedInv, UNCHANGED <<lgSaved, lgShownSaved, lgCalls, lgRaced>> PROVE SavedInv'
  BY DEF SavedInv, SavedCurrent, SavedDue

\* A request is sent from the popover.
LEMMA SavedSendSteps ==
  ASSUME SavedInv, (\E n \in LgNames : SaveAs(n) \/ CommitRename(n)) \/ \E r : HandleDelete(r) PROVE SavedInv'
  <1>1. PICK op, id, q :
          op \in {"save", "rename", "delete"} /\ lgCalls' = LgSent(lgCalls, SavedCall(op, id, q))
    <2> DEFINE Sent(op, id, q) == op \in {"save", "rename", "delete"} /\ lgCalls' = LgSent(lgCalls, SavedCall(op, id, q))
    <2>1. ASSUME NEW n, SaveAs(n) PROVE Sent("save", 0, SavedQuery(0, n, lgSearch))
      BY <2>1 DEF SaveAs, LgSend
    <2>2. ASSUME NEW n, CommitRename(n) PROVE Sent("rename", lgMenu.rename, [id |-> lgMenu.rename, name |-> n])
      BY <2>2 DEF CommitRename, LgSend
    <2>3. ASSUME NEW r, HandleDelete(r) PROVE Sent("delete", r.id, r)
      BY <2>3 DEF HandleDelete, LgSend
    <2> HIDE DEF Sent
    <2>4. \E op, id, q : Sent(op, id, q)
      BY <2>1, <2>2, <2>3
    <2> QED
      BY <2>4 DEF Sent
  <1>2. UNCHANGED <<lgSaved, lgShownSaved, lgRaced>>
    BY DEF SaveAs, CommitRename, HandleDelete, lgPane
  <1> DEFINE c == SavedCall(op, id, q)
  <1>3. SavedCallOK(c) /\ ~c.raced /\ c.op # "list"
    BY <1>1 DEF SavedCall, SavedCallOK, SavedFields
  <1> HIDE DEF c
  <1>4. /\ SavedCallsOK(lgCalls') /\ lgCalls' # <<>>
        /\ \A i \in DOMAIN lgCalls' : ~lgCalls'[i].raced =>
             /\ lgCalls = <<>> /\ \A j \in DOMAIN lgCalls' : j = i
             /\ lgCalls'[i].op = c.op /\ lgCalls'[i].ans = Waiting
    BY <1>1, <1>3, SavedSent DEF SavedInv, c
  <1>5. ASSUME NEW i \in DOMAIN lgCalls', ~lgCalls'[i].raced PROVE SavedDue(lgCalls[i])'
    <2>1. lgCalls = <<>> /\ lgCalls'[i].op # "list" /\ lgCalls'[i].ans = Waiting
      BY <1>3, <1>4, <1>5
    <2> QED
      BY <1>2, <2>1 DEF SavedInv, SavedCurrent, SavedDue
  <1> QED
    BY <1>2, <1>4, <1>5 DEF SavedInv, SavedCurrent

LEMMA SavedAnswer ==
  ASSUME NEW calls, SavedCallsOK(calls), NEW i \in DOMAIN calls, NEW ans
  PROVE  LET q == Answer(calls, i, ans)
         IN  /\ SavedCallsOK(q) /\ DOMAIN q = DOMAIN calls /\ \A j \in DOMAIN calls \ {i} : q[j] = calls[j]
             /\ q[i].op = calls[i].op /\ q[i].id = calls[i].id /\ q[i].raced = calls[i].raced /\ q[i].ans = ans
  <1> DEFINE d == [calls[i] EXCEPT !.ans = ans]
             q == [calls EXCEPT ![i] = d]
  <1>1. /\ SavedCallOK(d) /\ d.op = calls[i].op /\ d.id = calls[i].id /\ d.raced = calls[i].raced /\ d.ans = ans
        /\ Answer(calls, i, ans) = q
    BY DEF Answer, SavedCallsOK, SavedCallOK, SavedFields
  <1> HIDE DEF d
  <1>2. DOMAIN q = DOMAIN calls /\ q[i] = d /\ (\A j \in DOMAIN calls \ {i} : q[j] = calls[j])
    OBVIOUS
  <1>3. q = [j \in DOMAIN calls |-> q[j]]
    OBVIOUS
  <1> HIDE DEF q
  <1>4. Len(calls) \in Nat /\ DOMAIN calls = 1 .. Len(calls)
    BY LenProperties DEF SavedCallsOK
  <1>5. q \in Seq({q[j] : j \in 1 .. Len(calls)})
    BY <1>3, <1>4, IsASeq
  <1>6. SavedCallsOK(q)
    BY <1>1, <1>2, <1>5 DEF SavedCallsOK
  <1> QED
    BY <1>1, <1>2, <1>6

\* A request is answered: one that others came between says nothing.
LEMMA SavedAnswered ==
  ASSUME SavedInv, NEW i \in DOMAIN lgCalls, NEW ans, lgCalls' = Answer(lgCalls, i, ans),
         UNCHANGED <<lgShownSaved, lgRaced>>, ~lgCalls[i].raced => SavedDue(lgCalls[i])'
  PROVE  SavedInv'
  <1>1. /\ SavedCallsOK(lgCalls') /\ DOMAIN lgCalls' = DOMAIN lgCalls
        /\ lgCalls'[i].raced = lgCalls[i].raced
        /\ \A j \in DOMAIN lgCalls \ {i} : lgCalls'[j] = lgCalls[j]
    BY SavedAnswer DEF SavedInv
  <1>2. SavedCurrent'
    <2>1. lgCalls' # <<>>
      BY <1>1
    <2> QED
      BY <2>1 DEF SavedCurrent
  <1>3. ASSUME NEW j \in DOMAIN lgCalls', ~lgCalls'[j].raced
        PROVE  (\A k \in DOMAIN lgCalls' : k = j) /\ SavedDue(lgCalls[j])'
    <2>1. ~lgCalls[j].raced
      BY <1>1, <1>3
    <2>2. \A k \in DOMAIN lgCalls : k = j
      BY <1>1, <2>1 DEF SavedInv
    <2>3. j = i
      BY <2>2
    <2> QED
      BY <1>1, <2>1, <2>2, <2>3
  <1> QED
    BY <1>1, <1>2, <1>3 DEF SavedInv

\* The service, and lost answers.
LEMMA SavedServiceSteps ==
  ASSUME SavedInv, NEW i \in DOMAIN lgCalls, LgServeSaved(i) \/ LgSavedLost(i) PROVE SavedInv'
  <1>1. UNCHANGED <<lgShownSaved, lgRaced>>
    BY DEF LgServeSaved, LgSavedLost, lgPane
  <1>2. ASSUME NEW ans, lgCalls' = Answer(lgCalls, i, ans)
        PROVE  lgCalls'[i].op = lgCalls[i].op /\ lgCalls'[i].id = lgCalls[i].id /\ lgCalls'[i].ans = ans
    BY <1>2, SavedAnswer DEF SavedInv
  <1>3. CASE lgCalls' = Answer(lgCalls, i, Failed)
    <2>1. lgCalls'[i].ans = Failed
      BY <1>2, <1>3
    <2>2. SavedDue(lgCalls[i])'
      BY <2>1 DEF SavedDue, Failed, Waiting
    <2> QED
      BY <1>1, <1>3, <2>2, SavedAnswered
  <1>4. CASE LgServeSaved(i) /\ ~(lgCalls' = Answer(lgCalls, i, Failed))
    <2> DEFINE sent == lgCalls[i]
               c == IF sent.op = "save" THEN [sent EXCEPT !.id = lgSavedIds + 1] ELSE sent
    <2>1. Unserved(lgCalls, i) /\ lgCalls' = Answer(lgCalls, i, Value(lgSaved')) /\ lgSaved' = SavedAfter(c)
      BY <1>4 DEF LgServeSaved
    <2>2. lgCalls'[i].op = sent.op /\ lgCalls'[i].id = sent.id /\ lgCalls'[i].ans = Value(lgSaved')
      BY <1>2, <2>1
    <2>3. ASSUME ~sent.raced PROVE SavedDue(lgCalls[i])'
      <3>1. SavedDue(sent)
        BY <2>3 DEF SavedInv
      <3>2. sent.op = "delete" => lgSaved' = {r \in lgSaved : r.id # sent.id}
        BY <2>1 DEF SavedAfter
      <3>3. sent.op = "delete" /\ ~lgRaced => lgShownSaved = lgSaved
        BY <2>1, <3>1 DEF SavedDue, Unserved
      <3>4. sent.op = "delete" /\ ~lgRaced' => {r \in lgShownSaved' : r.id # sent.id} = lgSaved'
        BY <1>1, <3>2, <3>3
      <3>5. lgCalls'[i].ans # Waiting
        BY <2>2 DEF Value, Waiting
      <3> HIDE DEF sent, c
      <3> QED
        BY <2>2, <3>4, <3>5 DEF SavedDue
    <2> QED
      BY <1>1, <2>1, <2>3, SavedAnswered
  <1> QED
    BY <1>3, <1>4 DEF LgSavedLost

\* An answer arrives: the list is asked for again, or the rows on show are those of
\* the service.
LEMMA SavedArrival ==
  ASSUME SavedInv, NEW i \in DOMAIN lgCalls, LgSavedArrives(i) PROVE SavedInv'
  <1> DEFINE c == lgCalls[i]
             rest == Forget(lgCalls, i)
             again == c.op \in {"save", "rename"} /\ c.ans # Failed
  <1>1. /\ c.ans # Waiting /\ UNCHANGED lgSaved
        /\ lgShownSaved' = IF c.ans = Failed THEN lgShownSaved ELSE ShownAfter(c)
        /\ lgCalls' = IF again THEN LgSent(rest, SavedCall("list", 0, NoQuery)) ELSE rest
        /\ lgRaced' = IF c.op = "list" /\ ~c.raced THEN c.ans = Failed ELSE lgRaced \/ c.raced \/ c.ans = Failed
    BY DEF LgSavedArrives, Unserved
  <1>2. SavedCallOK(c) /\ lgRaced \in BOOLEAN
    BY DEF SavedInv, SavedCallsOK
  <1>3. lgRaced' \in BOOLEAN
    BY <1>1, <1>2
  <1>4. SavedCallsOK(rest) /\ \A k \in DOMAIN rest : rest[k].raced
    <2>1. PICK S : lgCalls \in Seq(S)
      BY DEF SavedInv, SavedCallsOK
    <2>2. rest \in Seq(S) /\ \A k \in DOMAIN rest : \E j \in DOMAIN lgCalls \ {i} : rest[k] = lgCalls[j]
      BY <2>1, ForgetTakes
    <2> HIDE DEF rest
    <2>3. \A j \in DOMAIN lgCalls \ {i} : lgCalls[j].raced
      BY DEF SavedInv
    <2>4. \A j \in DOMAIN lgCalls : SavedCallOK(lgCalls[j])
      BY DEF SavedInv, SavedCallsOK
    <2> QED
      BY <2>2, <2>3, <2>4 DEF SavedCallsOK
  <1>5. CASE again
    <2> DEFINE ask == SavedCall("list", 0, NoQuery)
    <2>1. SavedCallOK(ask) /\ ~ask.raced /\ ask.op = "list"
      BY DEF SavedCall, SavedCallOK, SavedFields
    <2>2. lgCalls' = LgSent(rest, ask)
      BY <1>1, <1>5
    <2> HIDE DEF ask, rest
    <2>3. /\ SavedCallsOK(lgCalls') /\ lgCalls' # <<>>
          /\ \A k \in DOMAIN lgCalls' : ~lgCalls'[k].raced =>
               /\ \A j \in DOMAIN lgCalls' : j = k
               /\ lgCalls'[k].op = ask.op /\ lgCalls'[k].ans = Waiting
      BY <1>4, <2>1, <2>2, SavedSent
    <2>4. \A k \in DOMAIN lgCalls' : ~lgCalls'[k].raced => SavedDue(lgCalls[k])'
      BY <2>1, <2>3 DEF SavedDue
    <2> QED
      BY <1>3, <2>3, <2>4 DEF SavedInv, SavedCurrent
  <1>6. CASE ~again
    <2>1. lgCalls' = rest
      BY <1>1, <1>6
    <2>2. ASSUME ~lgRaced' PROVE lgShownSaved' = lgSaved'
      <3>1. ~c.raced /\ c.ans # Failed
        BY <1>1, <1>2, <2>2
      <3>2. SavedDue(c)
        BY <3>1 DEF SavedInv
      <3>3. lgShownSaved' = ShownAfter(c) /\ c.op \in {"list", "delete"}
        BY <1>1, <1>2, <1>6, <3>1 DEF SavedCallOK
      <3>4. CASE c.op = "list"
        <4>1. c.ans = Value(lgSaved)
          BY <1>1, <3>1, <3>2, <3>4 DEF SavedDue
        <4> QED
          BY <1>1, <3>3, <3>4, <4>1 DEF ShownAfter, Value
      <3>5. CASE c.op = "delete"
        <4>1. ~lgRaced
          BY <1>1, <1>2, <2>2, <3>5
        <4>2. {r \in lgShownSaved : r.id # c.id} = lgSaved
          BY <1>1, <3>1, <3>2, <3>5, <4>1 DEF SavedDue
        <4> QED
          BY <1>1, <3>3, <3>5, <4>2 DEF ShownAfter
      <3> QED
        BY <3>3, <3>4, <3>5
    <2> QED
      BY <1>3, <1>4, <2>1, <2>2 DEF SavedInv, SavedCurrent
  <1> QED
    BY <1>5, <1>6

LEMMA SavedInit == LgInit => SavedInv
  <1> SUFFICES ASSUME LgInit PROVE SavedInv
    OBVIOUS
  <1> DEFINE c == SavedCall("list", 0, NoQuery)
  <1>1. SavedCallOK(c) /\ ~c.raced /\ c.op = "list"
    BY DEF SavedCall, SavedCallOK, SavedFields
  <1>2. lgCalls = LgSent(<<>>, c) /\ lgRaced \in BOOLEAN
    BY DEF LgInit, LgSent
  <1>3. SavedCallsOK(<<>>)
    <2>1. <<>> \in Seq({})
      BY EmptySeq
    <2> QED
      BY <2>1 DEF SavedCallsOK
  <1> HIDE DEF c
  <1>4. /\ SavedCallsOK(lgCalls) /\ lgCalls # <<>>
        /\ \A i \in DOMAIN lgCalls : ~lgCalls[i].raced =>
             /\ \A j \in DOMAIN lgCalls : j = i
             /\ lgCalls[i].op = c.op /\ lgCalls[i].ans = Waiting
    BY <1>1, <1>2, <1>3, SavedSent
  <1>5. \A i \in DOMAIN lgCalls : ~lgCalls[i].raced => SavedDue(lgCalls[i])
    BY <1>1, <1>4 DEF SavedDue
  <1> QED
    BY <1>2, <1>4, <1>5 DEF SavedInv, SavedCurrent

LEMMA SavedNext == SavedInv /\ [LgNext]_lgVars => SavedInv'
  <1> SUFFICES ASSUME SavedInv, [LgNext]_lgVars PROVE SavedInv'
    OBVIOUS
  <1>1. CASE UNCHANGED <<lgSaved, lgShownSaved, lgCalls, lgRaced>>
    BY <1>1, SavedSame
  <1>2. CASE LgMetaArrives \/ LgMetaFails \/ PressButton \/ ToggleMode
    BY <1>1, <1>2 DEF LgMetaArrives, LgMetaFails, PressButton, ToggleMode, lgPopover
  <1>3. ASSUME NEW x, ChangeSource(x) \/ ChangeQuery(x) \/ LgAppend(x) \/ LgJobGrows(x) \/ LgOtherTail(x) PROVE SavedInv'
    BY <1>1, <1>3 DEF ChangeSource, ChangeQuery, LgAppend, LgJobGrows, LgOtherTail, lgPopover
  <1>4. ASSUME NEW f, LgServeQuery(f) \/ LgQueryArrives(f) PROVE SavedInv'
    BY <1>1, <1>4, Zenon DEF LgServeQuery, LgQueryArrives, lgPopover
  <1>5. CASE LgConnect \/ LgTick
    BY <1>1, <1>5, Zenon DEF LgConnect, LgTick, lgPopover
  <1>6. CASE LgMessage \/ LgBreaks \/ LgCloses \/ FlushLiveQueue
    BY <1>1, <1>6 DEF LgMessage, LgBreaks, LgCloses, FlushLiveQueue, lgPopover
  <1>7. CASE CloseMenu \/ \E r \in lgShownSaved : LoadSaved(r) \/ LgAskRow("rename", r) \/ LgAskRow("confirm", r)
    BY <1>1, <1>7 DEF CloseMenu, LoadSaved, LgAskRow
  <1>8. CASE (\E n \in LgNames : SaveAs(n) \/ CommitRename(n)) \/ \E r : HandleDelete(r)
    BY <1>8, SavedSendSteps
  <1>9. ASSUME NEW i \in DOMAIN lgCalls, LgServeSaved(i) \/ LgSavedLost(i) \/ LgSavedArrives(i) PROVE SavedInv'
    BY <1>9, SavedServiceSteps, SavedArrival
  <1>10. CASE UNCHANGED lgVars
    BY <1>1, <1>10 DEF lgVars
  <1> QED
    BY <1>2, <1>3, <1>4, <1>5, <1>6, <1>7, <1>8, <1>9, <1>10 DEF LgNext

\* In the panel, once a page is at rest and nothing failed or changed behind its
\* back, its list is what the service has: no action forgets to read it again, and
\* no answer that came late is left on show.
THEOREM PanelListsAreCurrent == PanelSpec => []ListsCurrent
  <1> DEFINE Lists == /\ EditInv /\ FilesListed
                      /\ ConsentInv /\ RowsInv
                      /\ SavedInv
                      /\ SitesInv /\ WsShownInv
  <1>1. PanelInit => Lists
    BY EditInit, FilesListedInit, ConsentInit, RowsInit, SavedInit, SitesInit, ShownInit DEF PanelInit
  <1>2. Lists /\ [PanelNext]_panelVars => Lists'
    BY PagesTakeTurns, EditNext, FilesListedNext, ConsentNext, RowsNext, SavedNext, SitesNext, ShownNext
  <1>3. Lists => ListsCurrent
    <2> SUFFICES ASSUME Lists PROVE ListsCurrent
      OBVIOUS
    <2>1. RowsCurrent
      <3>1. filesCalls = <<>> => DOMAIN filesCalls = {}
        OBVIOUS
      <3> QED
        BY <3>1 DEF FilesListed, FilesStale, RowsCurrent, AsyncSettled, FilesCurrentPath
    <2>2. PiRowsCurrent
      <3>1. piCalls = <<>> => DOMAIN piCalls = {}
        OBVIOUS
      <3> QED
        BY <3>1 DEF RowsInv, PiListed, PiPending, PiRowsCurrent, AsyncSettled, AsyncShown
    <2>3. WsRowsCurrent
      <3>1. wsCalls = <<>> => DOMAIN wsCalls = {}
        OBVIOUS
      <3> QED
        BY <3>1 DEF WsShownInv, WsListed, WsPending, WsRight, WsShown, WsRowsCurrent, AsyncSettled
    <2>4. SavedCurrent
      BY DEF SavedInv
    <2> QED
      BY <2>1, <2>2, <2>3, <2>4 DEF ListsCurrent
  <1> QED
    BY <1>1, <1>2, <1>3, PTL DEF PanelSpec
-----------------------------------------------------------------------------
(* The loop over the queue of a tail: induction over the set of the steps    *)
(* that keep what is claimed.                                               *)

\* A set of numbers that is not empty has a smallest one.
LEMMA LeastNumber ==
  ASSUME NEW T \in SUBSET Nat, T # {} PROVE \E m \in T : \A n \in T : m <= n
  <1> DEFINE R == {x \in Nat \X Nat : x[1] < x[2]}
  <1>1. IsWellFoundedOn(R, Nat)
    <2>1. R = OpToRel(<, Nat)
      BY Zenon DEF OpToRel
    <2> QED
      BY <2>1, NatLessThanWellFounded, Zenon
  <1>2. PICK m \in T : \A n \in T : <<n, m>> \notin R
    BY <1>1, WFMin
  <1>3. \A n \in T : ~(n < m)
    BY <1>2
  <1> QED
    BY <1>3

\* Induction for a set.
LEMMA CountUp ==
  ASSUME NEW T, 0 \in T, NEW N \in Nat, \A n \in Nat : n \in T /\ n < N => n + 1 \in T
  PROVE  \A n \in 0 .. N : n \in T
  <1> SUFFICES ASSUME NEW x \in 0 .. N, x \notin T PROVE FALSE
    OBVIOUS
  <1> DEFINE U == {n \in Nat : n <= N /\ n \notin T}
  <1>1. x \in U /\ U \in SUBSET Nat
    OBVIOUS
  <1>2. PICK m \in U : \A n \in U : m <= n
    BY <1>1, LeastNumber
  <1>3. m \in Nat /\ m <= N /\ m \notin T /\ m # 0
    BY <1>2
  <1>4. m - 1 \in Nat /\ m - 1 < N /\ m - 1 \notin U
    BY <1>2, <1>3
  <1>5. m - 1 \in T
    BY <1>3, <1>4
  <1>6. (m - 1) + 1 \in T
    BY <1>4, <1>5
  <1> QED
    BY <1>3, <1>6

\* The loop over the queue, step by step: what was taken after n of its events.
LEMMA AcceptedIs ==
  ASSUME NEW S, NEW queue \in Seq(S), NEW seen
  PROVE  \E f : /\ DOMAIN f = 0 .. Len(queue) /\ f[0] = <<>>
                /\ \A n \in 1 .. Len(queue) :
                     f[n] = IF queue[n].id \in seen \cup {queue[j].id : j \in 1 .. n - 1} THEN f[n - 1]
                            ELSE Append(f[n - 1], queue[n])
                /\ Accepted(queue, seen) = f[Len(queue)]
  <1> DEFINE known(n) == queue[n].id \in seen \cup {queue[j].id : j \in 1 .. n - 1}
             next(n, x) == IF known(n) THEN x ELSE Append(x, queue[n])
             Takes(f, N) == f = [n \in 0 .. N |-> IF n = 0 THEN <<>> ELSE next(n, f[n - 1])]
             T == {N \in Nat : \E f : Takes(f, N)}
             L == Len(queue)
  <1>1. L \in Nat
    BY LenProperties
  <1>2. Accepted(queue, seen) = (CHOOSE f : Takes(f, L))[L]
    BY DEF Accepted
  <1> HIDE DEF next, L
  <1>3. 0 \in T
    <2>1. Takes([n \in 0 .. 0 |-> <<>>], 0)
      OBVIOUS
    <2> QED
      BY <2>1
  <1>4. ASSUME NEW N \in Nat, N \in T PROVE N + 1 \in T
    <2>1. PICK f : Takes(f, N)
      BY <1>4
    <2> DEFINE g == [n \in 0 .. N + 1 |-> IF n = N + 1 THEN next(n, f[N]) ELSE f[n]]
    <2>2. ASSUME NEW n \in 0 .. N + 1 PROVE g[n] = IF n = 0 THEN <<>> ELSE next(n, g[n - 1])
      <3>1. CASE n = N + 1
        BY <3>1
      <3>2. CASE n # N + 1
        <4>1. n \in 0 .. N /\ (n # 0 => n - 1 \in 0 .. N + 1 /\ n - 1 # N + 1)
          BY <3>2
        <4>2. g[n] = f[n] /\ (n # 0 => g[n - 1] = f[n - 1])
          BY <3>2, <4>1
        <4>3. f[n] = IF n = 0 THEN <<>> ELSE next(n, f[n - 1])
          BY <2>1, <4>1
        <4> QED
          BY <4>2, <4>3
      <3> QED
        BY <3>1, <3>2
    <2>3. g = [n \in 0 .. N + 1 |-> g[n]]
      OBVIOUS
    <2> HIDE DEF g
    <2>4. Takes(g, N + 1)
      BY <2>2, <2>3
    <2> QED
      BY <2>4
  <1>5. L \in T
    <2> HIDE DEF T
    <2>1. \A n \in 0 .. L : n \in T
      BY <1>1, <1>3, <1>4, CountUp
    <2> QED
      BY <1>1, <2>1
  <1> DEFINE f == CHOOSE h : Takes(h, L)
  <1>6. Takes(f, L)
    BY <1>5
  <1> HIDE DEF f
  <1>7. /\ DOMAIN f = 0 .. L /\ f[0] = <<>>
        /\ \A n \in 1 .. L : f[n] = next(n, f[n - 1])
    BY <1>1, <1>6
  <1>8. Accepted(queue, seen) = f[L]
    BY <1>2 DEF f
  <1> QED
    BY <1>7, <1>8 DEF L, next

\* What a frame puts on the list: events of the queue that were not there, each of
\* them once.
TakenOK(x, n, S, queue, seen) ==
    /\ x \in Seq(S)
    /\ \A i \in 1 .. Len(x) : x[i].id \notin seen /\ \E j \in 1 .. n : x[i] = queue[j]
    /\ \A i, j \in 1 .. Len(x) : i # j => x[i].id # x[j].id

LEMMA TakenGrows ==
  ASSUME NEW S, NEW queue \in Seq(S), NEW seen, NEW n \in Nat, n + 1 <= Len(queue), NEW x, TakenOK(x, n, S, queue, seen)
  PROVE  /\ TakenOK(x, n + 1, S, queue, seen)
         /\ queue[n + 1].id \notin seen \cup {queue[j].id : j \in 1 .. n} => TakenOK(Append(x, queue[n + 1]), n + 1, S, queue, seen)
  <1>1. TakenOK(x, n + 1, S, queue, seen)
    <2>1. \A j \in 1 .. n : j \in 1 .. n + 1
      OBVIOUS
    <2>2. \A i \in 1 .. Len(x) : x[i].id \notin seen /\ \E j \in 1 .. n + 1 : x[i] = queue[j]
      BY <2>1 DEF TakenOK
    <2> QED
      BY <2>2 DEF TakenOK
  <1>2. ASSUME queue[n + 1].id \notin seen \cup {queue[j].id : j \in 1 .. n}
        PROVE  TakenOK(Append(x, queue[n + 1]), n + 1, S, queue, seen)
    <2> DEFINE e == queue[n + 1]
               y == Append(x, e)
    <2>1. e \in S
      BY ElementOfSeq, LenProperties
    <2>2. x \in Seq(S) /\ Len(x) \in Nat
      BY LenProperties DEF TakenOK
    <2>3. e.id \notin seen /\ \A i \in 1 .. Len(x) : e.id # x[i].id
      BY <1>2 DEF TakenOK
    <2>4. n + 1 \in 1 .. n + 1 /\ \A i \in 1 .. n : i \in 1 .. n + 1
      OBVIOUS
    <2>5. \A i \in 1 .. Len(x) : x[i].id \notin seen /\ \E j \in 1 .. n + 1 : x[i] = queue[j]
      BY <2>4 DEF TakenOK
    <2>6. e.id \notin seen /\ \E j \in 1 .. n + 1 : e = queue[j]
      BY <2>3, <2>4
    <2> HIDE DEF e
    <2>7. /\ y \in Seq(S) /\ Len(y) = Len(x) + 1
          /\ \A i \in 1 .. Len(x) : y[i] = x[i]
          /\ y[Len(x) + 1] = e
      BY <2>1, <2>2, AppendProperties
    <2> HIDE DEF y
    <2>8. \A i \in 1 .. Len(y) : y[i].id \notin seen /\ \E j \in 1 .. n + 1 : y[i] = queue[j]
      <3>1. \A i \in 1 .. Len(y) : (i \in 1 .. Len(x) /\ y[i] = x[i]) \/ y[i] = e
        BY <2>2, <2>7
      <3> QED
        BY <2>5, <2>6, <3>1
    <2>9. \A i, j \in 1 .. Len(y) : i # j => y[i].id # y[j].id
      <3>1. \A i, j \in 1 .. Len(x) : i # j => x[i].id # x[j].id
        BY DEF TakenOK
      <3>2. \A i \in 1 .. Len(y) : i \in 1 .. Len(x) \/ i = Len(x) + 1
        BY <2>2, <2>7
      <3> QED
        BY <2>3, <2>7, <3>1, <3>2
    <2> QED
      BY <2>7, <2>8, <2>9 DEF TakenOK, e, y
  <1> QED
    BY <1>1, <1>2

LEMMA AcceptedGives ==
  ASSUME NEW S, NEW queue \in Seq(S), NEW seen
  PROVE  TakenOK(Accepted(queue, seen), Len(queue), S, queue, seen)
  <1> DEFINE L == Len(queue)
  <1>1. L \in Nat
    BY LenProperties
  <1>2. PICK f : /\ DOMAIN f = 0 .. L /\ f[0] = <<>>
                 /\ \A n \in 1 .. L :
                      f[n] = IF queue[n].id \in seen \cup {queue[j].id : j \in 1 .. n - 1} THEN f[n - 1]
                             ELSE Append(f[n - 1], queue[n])
                 /\ Accepted(queue, seen) = f[L]
    BY AcceptedIs
  <1> DEFINE T == {n \in Nat : n <= L => TakenOK(f[n], n, S, queue, seen)}
  <1>3. 0 \in T
    <2>1. TakenOK(<<>>, 0, S, queue, seen)
      BY EmptySeq DEF TakenOK
    <2> QED
      BY <1>2, <2>1
  <1>4. ASSUME NEW n \in Nat, n \in T, n < L PROVE n + 1 \in T
    <2>1. TakenOK(f[n], n, S, queue, seen) /\ n + 1 <= L
      BY <1>1, <1>4
    <2> DEFINE known == queue[n + 1].id \in seen \cup {queue[j].id : j \in 1 .. n}
    <2>2. f[n + 1] = IF known THEN f[n] ELSE Append(f[n], queue[n + 1])
      <3>1. n + 1 \in 1 .. L /\ (n + 1) - 1 = n
        BY <1>1, <2>1
      <3> QED
        BY <1>2, <3>1
    <2>3. /\ TakenOK(f[n], n + 1, S, queue, seen)
          /\ ~known => TakenOK(Append(f[n], queue[n + 1]), n + 1, S, queue, seen)
      BY <2>1, TakenGrows
    <2>4. TakenOK(f[n + 1], n + 1, S, queue, seen)
      <3> HIDE DEF known
      <3> QED
        BY <2>2, <2>3
    <2> QED
      BY <2>4
  <1>5. L \in T
    <2> HIDE DEF T
    <2>1. \A n \in 0 .. L : n \in T
      BY <1>1, <1>3, <1>4, CountUp
    <2> QED
      BY <1>1, <2>1
  <1> QED
    BY <1>1, <1>2, <1>5

\* Top: the first rows of the list.
LEMMA TopGives ==
  ASSUME NEW S, NEW rows \in Seq(S)
  PROVE  /\ Top(rows) \in Seq(S) /\ Len(Top(rows)) <= Len(rows) /\ Len(Top(rows)) <= LgMaxRows
         /\ \A i \in 1 .. Len(Top(rows)) : Top(rows)[i] = rows[i]
  <1> DEFINE n == IF Len(rows) < LgMaxRows THEN Len(rows) ELSE LgMaxRows
  <1>1. Len(rows) \in Nat /\ \A i \in 1 .. Len(rows) : rows[i] \in S
    BY LenProperties, ElementOfSeq
  <1>2. n \in 0 .. Len(rows) /\ n <= LgMaxRows
    BY <1>1, LogsAssumption
  <1>3. Top(rows) = SubSeq(rows, 1, n)
    BY DEF Top
  <1> HIDE DEF n
  <1>4. \A i \in 1 .. n : rows[i] \in S
    BY <1>1, <1>2
  <1>5. /\ SubSeq(rows, 1, n) \in Seq(S)
        /\ Len(SubSeq(rows, 1, n)) = IF 1 <= n THEN n - 1 + 1 ELSE 0
        /\ \A i \in 1 .. n - 1 + 1 : SubSeq(rows, 1, n)[i] = rows[1 + i - 1]
    BY <1>1, <1>2, <1>4, SubSeqProperties
  <1>6. Len(SubSeq(rows, 1, n)) = n /\ n - 1 + 1 = n /\ \A i \in 1 .. n : 1 + i - 1 = i
    BY <1>2, <1>5
  <1> QED
    BY <1>1, <1>2, <1>3, <1>5, <1>6

-----------------------------------------------------------------------------
(* The saved queries: each can be loaded, and so every search is one that    *)
(* the menu has.                                                             *)

Searches == LgSources \X LgQueries
QueryFields == {"id", "name", "kind", "query"}
DraftOK(q) ==
    DOMAIN q = QueryFields /\ q.name \in LgNames /\ q.query \in LgQueries /\ \E s \in LgSources : s[1] = q.kind
QueriesOK(rows, ids) == \A r \in rows : DraftOK(r) /\ r.id \in 1 .. ids
QueryCallOK(c, ids) ==
    /\ c.op = "save" => DraftOK(c.q)
    /\ c.op = "rename" => c.q.name \in LgNames
    /\ c.ans \in {Waiting, Failed} \/ QueriesOK(c.ans[2], ids)

\* The inductive invariant.
QueriesInv ==
    /\ lgSearch \in {NoSearch} \cup Searches
    /\ lgMeta = "ready" => lgSearch \in Searches
    /\ lgSavedIds \in Nat
    /\ QueriesOK(lgSaved, lgSavedIds) /\ QueriesOK(lgShownSaved, lgSavedIds)
    /\ \A i \in DOMAIN lgCalls : QueryCallOK(lgCalls[i], lgSavedIds)

LEMMA QueriesGrow ==
  ASSUME NEW ids \in Nat
  PROVE  /\ \A rows : QueriesOK(rows, ids) => QueriesOK(rows, ids + 1)
         /\ \A c : QueryCallOK(c, ids) => QueryCallOK(c, ids + 1)
  <1>1. \A x : x \in 1 .. ids => x \in 1 .. ids + 1
    OBVIOUS
  <1>2. \A rows : QueriesOK(rows, ids) => QueriesOK(rows, ids + 1)
    BY <1>1 DEF QueriesOK
  <1> QED
    BY <1>2 DEF QueryCallOK

\* Load finds a source of the kind.
LEMMA LoadFinds ==
  ASSUME NEW kind, \E s \in LgSources : s[1] = kind PROVE FirstOfKind(kind) \in LgSources
  <1> DEFINE I == {i \in 1 .. Len(LgSourceList) : LgSourceList[i][1] = kind}
  <1>1. Len(LgSourceList) \in Nat /\ DOMAIN LgSourceList = 1 .. Len(LgSourceList)
    BY LogsAssumption, LenProperties
  <1>2. LgSources = {LgSourceList[i] : i \in DOMAIN LgSourceList}
    BY DEF LgSources, Range
  <1>3. I # {} /\ I \in SUBSET Nat
    BY <1>1, <1>2
  <1>4. FirstOfKind(kind) = LgSourceList[Min(I)]
    BY <1>3 DEF FirstOfKind, SelectInSeq
  <1> HIDE DEF I
  <1>5. \E m \in I : \A n \in I : m <= n
    BY <1>3, LeastNumber
  <1>6. Min(I) \in I
    BY <1>5 DEF Min
  <1> QED
    BY <1>1, <1>2, <1>4, <1>6 DEF I

\* The requests that are left, the one that is sent, the one that is answered.
LEMMA QueryCallsSent ==
  ASSUME NEW calls, SavedCallsOK(calls), NEW c, SavedCallOK(c), NEW ids,
         QueryCallOK(c, ids), \A i \in DOMAIN calls : QueryCallOK(calls[i], ids)
  PROVE  \A i \in DOMAIN LgSent(calls, c) : QueryCallOK(LgSent(calls, c)[i], ids)
  <1> DEFINE sent == LgSent(calls, c)
             Same(d, e) == d.op = e.op /\ d.q = e.q /\ (d.ans = e.ans \/ d.ans = Waiting)
             raced == [c EXCEPT !.raced = TRUE]
             old == IF calls = <<>> THEN calls ELSE [i \in DOMAIN calls |-> [calls[i] EXCEPT !.raced = TRUE]]
             new == IF calls = <<>> THEN [c EXCEPT !.ans = Waiting] ELSE [raced EXCEPT !.ans = Waiting]
  <1>1. \A d, e : Same(d, e) /\ QueryCallOK(e, ids) => QueryCallOK(d, ids)
    BY DEF QueryCallOK
  <1>2. Same(new, c)
    BY DEF SavedCallOK, SavedFields
  <1>3. DOMAIN old = DOMAIN calls /\ \A i \in DOMAIN calls : Same(old[i], calls[i])
    BY DEF SavedCallsOK, SavedCallOK, SavedFields
  <1>4. sent = Append(old, new)
    BY DEF LgSent, Send
  <1>5. Len(calls) \in Nat /\ DOMAIN calls = 1 .. Len(calls)
    BY LenProperties DEF SavedCallsOK
  <1>6. calls # <<>> => old = [i \in 1 .. Len(calls) |-> old[i]]
    <2> SUFFICES ASSUME calls # <<>> PROVE old = [i \in 1 .. Len(calls) |-> old[i]]
      OBVIOUS
    <2>1. old = [i \in 1 .. Len(calls) |-> [calls[i] EXCEPT !.raced = TRUE]]
      BY <1>5
    <2> HIDE DEF old
    <2> QED
      BY <2>1
  <1>7. calls = <<>> => old = <<>>
    OBVIOUS
  <1> HIDE DEF Same, old, new, sent
  <1> DEFINE T == {old[i] : i \in 1 .. Len(calls)} \cup {new}
  <1>8. old \in Seq(T) /\ new \in T
    <2>1. CASE calls = <<>>
      BY <1>7, <2>1, EmptySeq
    <2>2. CASE calls # <<>>
      BY <1>5, <1>6, <2>2, IsASeq
    <2> QED
      BY <2>1, <2>2
  <1>9. \A e \in T : QueryCallOK(e, ids)
    BY <1>1, <1>2, <1>3, <1>5
  <1> HIDE DEF T
  <1>10. sent \in Seq(T)
    BY <1>4, <1>8, AppendProperties
  <1>11. \A i \in DOMAIN sent : sent[i] \in T
    BY <1>10, LenProperties, ElementOfSeq
  <1> QED
    BY <1>9, <1>11 DEF sent

LEMMA QueryCallsAnswered ==
  ASSUME NEW calls, SavedCallsOK(calls), NEW i \in DOMAIN calls, NEW ans, NEW ids,
         \A j \in DOMAIN calls : QueryCallOK(calls[j], ids), ans = Failed \/ QueriesOK(ans[2], ids)
  PROVE  \A j \in DOMAIN Answer(calls, i, ans) : QueryCallOK(Answer(calls, i, ans)[j], ids)
  <1> DEFINE d == [calls[i] EXCEPT !.ans = ans]
             q == [calls EXCEPT ![i] = d]
  <1>1. d.op = calls[i].op /\ d.q = calls[i].q /\ d.ans = ans
    BY DEF SavedCallsOK, SavedCallOK, SavedFields
  <1>2. QueryCallOK(d, ids)
    BY <1>1 DEF QueryCallOK
  <1>3. Answer(calls, i, ans) = q
    BY DEF Answer
  <1> HIDE DEF d
  <1>4. DOMAIN q = DOMAIN calls /\ q[i] = d /\ (\A j \in DOMAIN calls \ {i} : q[j] = calls[j])
    OBVIOUS
  <1> HIDE DEF q
  <1> QED
    BY <1>2, <1>3, <1>4

\* The popover sends a request, and the page turns to a search.
LEMMA QuerySendSteps ==
  ASSUME QueriesInv, SavedInv, (\E n \in LgNames : SaveAs(n) \/ CommitRename(n)) \/ \E r \in lgShownSaved : HandleDelete(r)
  PROVE  QueriesInv'
  <1> DEFINE Sent(op, id, q) ==
               /\ op \in {"save", "rename", "delete"} /\ lgCalls' = LgSent(lgCalls, SavedCall(op, id, q))
               /\ op = "save" => DraftOK(q)
               /\ op = "rename" => q.name \in LgNames
  <1>1. ASSUME NEW n \in LgNames, SaveAs(n) PROVE Sent("save", 0, SavedQuery(0, n, lgSearch))
    <2>1. lgSearch[1] \in LgSources /\ lgSearch[2] \in LgQueries
      BY <1>1 DEF SaveAs, QueriesInv, Searches
    <2>2. DraftOK(SavedQuery(0, n, lgSearch))
      BY <2>1 DEF SavedQuery, DraftOK, QueryFields
    <2> QED
      BY <1>1, <2>2 DEF SaveAs, LgSend
  <1>2. ASSUME NEW n \in LgNames, CommitRename(n)
        PROVE  Sent("rename", lgMenu.rename, [id |-> lgMenu.rename, name |-> n])
    BY <1>2 DEF CommitRename, LgSend
  <1>3. ASSUME NEW r, HandleDelete(r) PROVE Sent("delete", r.id, r)
    BY <1>3 DEF HandleDelete, LgSend
  <1> HIDE DEF Sent
  <1>4. PICK op, id, q : Sent(op, id, q)
    BY <1>1, <1>2, <1>3
  <1>5. UNCHANGED <<lgSearch, lgMeta, lgSaved, lgSavedIds, lgShownSaved>>
    BY DEF SaveAs, CommitRename, HandleDelete, lgPane
  <1> DEFINE c == SavedCall(op, id, q)
  <1>6. SavedCallOK(c) /\ QueryCallOK(c, lgSavedIds) /\ lgCalls' = LgSent(lgCalls, c)
    BY <1>4 DEF Sent, SavedCall, SavedCallOK, SavedFields, QueryCallOK
  <1> HIDE DEF c
  <1>7. \A i \in DOMAIN lgCalls' : QueryCallOK(lgCalls'[i], lgSavedIds)
    BY <1>6, QueryCallsSent DEF QueriesInv, SavedInv
  <1> QED
    BY <1>5, <1>7 DEF QueriesInv

LEMMA QueryPageSteps ==
  ASSUME QueriesInv,
         \/ LgMetaArrives \/ \E s \in LgSources : ChangeSource(s)
         \/ \E q \in LgQueries : ChangeQuery(q)
         \/ \E r \in lgShownSaved : LoadSaved(r)
  PROVE  QueriesInv'
  <1>1. UNCHANGED <<lgSaved, lgSavedIds, lgShownSaved, lgCalls>>
    BY DEF LgMetaArrives, ChangeSource, ChangeQuery, LoadSaved, lgPopover
  <1>2. lgSearch' \in Searches
    <2>1. CASE LgMetaArrives
      BY <2>1, LogsAssumption DEF LgMetaArrives, Searches
    <2>2. ASSUME NEW s \in LgSources, ChangeSource(s) PROVE lgSearch' \in Searches
      BY <2>2 DEF ChangeSource, QueriesInv, Searches
    <2>3. ASSUME NEW q \in LgQueries, ChangeQuery(q) PROVE lgSearch' \in Searches
      BY <2>3 DEF ChangeQuery, QueriesInv, Searches
    <2>4. ASSUME NEW r \in lgShownSaved, LoadSaved(r) PROVE lgSearch' \in Searches
      <3>1. DraftOK(r)
        BY DEF QueriesInv, QueriesOK
      <3>2. FirstOfKind(r.kind) \in LgSources /\ r.query \in LgQueries
        BY <3>1, LoadFinds DEF DraftOK
      <3> QED
        BY <2>4, <3>2 DEF LoadSaved, Searches
    <2> QED
      BY <2>1, <2>2, <2>3, <2>4
  <1> QED
    BY <1>1, <1>2 DEF QueriesInv

\* The service: a query is made, renamed or taken away.
LEMMA QueryServeStep ==
  ASSUME QueriesInv, SavedInv, NEW i \in DOMAIN lgCalls, LgServeSaved(i) PROVE QueriesInv'
  <1> DEFINE sent == lgCalls[i]
             c == IF sent.op = "save" THEN [sent EXCEPT !.id = lgSavedIds + 1] ELSE sent
  <1>1. UNCHANGED <<lgSearch, lgMeta, lgShownSaved>>
    BY DEF LgServeSaved, lgPane
  <1>2. SavedCallsOK(lgCalls) /\ SavedCallOK(sent) /\ QueryCallOK(sent, lgSavedIds) /\ lgSavedIds \in Nat
    BY DEF SavedInv, SavedCallsOK, QueriesInv
  <1>3. c.op = sent.op /\ c.q = sent.q /\ (sent.op = "save" => c.id = lgSavedIds + 1)
    BY <1>2 DEF SavedCallOK, SavedFields
  <1>4. \/ /\ UNCHANGED <<lgSaved, lgSavedIds>> /\ lgCalls' = Answer(lgCalls, i, Failed)
        \/ /\ lgSaved' = SavedAfter(c) /\ lgCalls' = Answer(lgCalls, i, Value(lgSaved'))
           /\ lgSavedIds' = IF sent.op = "save" THEN lgSavedIds + 1 ELSE lgSavedIds
    BY <1>3 DEF LgServeSaved
  <1> HIDE DEF c, sent
  <1>5. CASE UNCHANGED <<lgSaved, lgSavedIds>> /\ lgCalls' = Answer(lgCalls, i, Failed)
    <2>1. \A j \in DOMAIN lgCalls' : QueryCallOK(lgCalls'[j], lgSavedIds)
      BY <1>2, <1>5, QueryCallsAnswered DEF QueriesInv
    <2> QED
      BY <1>1, <1>5, <2>1 DEF QueriesInv
  <1>6. CASE /\ lgSaved' = SavedAfter(c) /\ lgCalls' = Answer(lgCalls, i, Value(lgSaved'))
             /\ lgSavedIds' = IF sent.op = "save" THEN lgSavedIds + 1 ELSE lgSavedIds
    <2>1. /\ lgSavedIds' \in Nat
          /\ QueriesOK(lgSaved, lgSavedIds') /\ QueriesOK(lgShownSaved, lgSavedIds')
          /\ \A j \in DOMAIN lgCalls : QueryCallOK(lgCalls[j], lgSavedIds')
      BY <1>2, <1>6, QueriesGrow DEF QueriesInv
    <2>2. QueriesOK(lgSaved', lgSavedIds')
      <3>1. CASE c.op = "save"
        <4> DEFINE new == [c.q EXCEPT !.id = c.id]
        <4>1. lgSaved' = lgSaved \cup {new}
          BY <1>6, <3>1 DEF SavedAfter
        <4>2. DraftOK(c.q) /\ c.id \in 1 .. lgSavedIds'
          BY <1>2, <1>3, <1>6, <3>1 DEF QueryCallOK
        <4>3. DraftOK(new) /\ new.id = c.id
          BY <4>2 DEF DraftOK, QueryFields
        <4> HIDE DEF new
        <4> QED
          BY <2>1, <4>1, <4>2, <4>3 DEF QueriesOK
      <3>2. CASE c.op = "rename"
        <4> DEFINE renamed(r) == [r EXCEPT !.name = IF r.id = c.id THEN c.q.name ELSE r.name]
        <4>1. lgSaved' = {renamed(r) : r \in lgSaved}
          BY <1>6, <3>2 DEF SavedAfter
        <4>2. c.q.name \in LgNames
          BY <1>2, <1>3, <3>2 DEF QueryCallOK
        <4>3. ASSUME NEW r \in lgSaved PROVE DraftOK(renamed(r)) /\ renamed(r).id = r.id
          <5>1. DraftOK(r)
            BY <2>1 DEF QueriesOK
          <5> QED
            BY <4>2, <5>1 DEF DraftOK, QueryFields
        <4> HIDE DEF renamed
        <4> QED
          BY <2>1, <4>1, <4>3 DEF QueriesOK
      <3>3. CASE c.op \in {"list", "delete"}
        <4>1. lgSaved' \subseteq lgSaved
          BY <1>6, <3>3 DEF SavedAfter
        <4> QED
          BY <2>1, <4>1 DEF QueriesOK
      <3> QED
        BY <1>2, <1>3, <3>1, <3>2, <3>3 DEF SavedCallOK
    <2>3. Value(lgSaved')[2] = lgSaved'
      BY DEF Value
    <2>4. \A j \in DOMAIN lgCalls' : QueryCallOK(lgCalls'[j], lgSavedIds')
      BY <1>2, <1>6, <2>1, <2>2, <2>3, QueryCallsAnswered
    <2> QED
      BY <1>1, <2>1, <2>2, <2>4 DEF QueriesInv
  <1> QED
    BY <1>4, <1>5, <1>6

\* An answer is lost, or arrives.
LEMMA QueryAnswerSteps ==
  ASSUME QueriesInv, SavedInv, NEW i \in DOMAIN lgCalls, LgSavedLost(i) \/ LgSavedArrives(i) PROVE QueriesInv'
  <1>1. UNCHANGED <<lgSearch, lgMeta, lgSaved, lgSavedIds>>
    BY DEF LgSavedLost, LgSavedArrives, lgPane
  <1>2. SavedCallsOK(lgCalls) /\ \A j \in DOMAIN lgCalls : QueryCallOK(lgCalls[j], lgSavedIds)
    BY DEF SavedInv, QueriesInv
  <1>3. CASE LgSavedLost(i)
    <2>1. lgCalls' = Answer(lgCalls, i, Failed) /\ UNCHANGED lgShownSaved
      BY <1>3 DEF LgSavedLost
    <2>2. \A j \in DOMAIN lgCalls' : QueryCallOK(lgCalls'[j], lgSavedIds)
      BY <1>2, <2>1, QueryCallsAnswered
    <2> QED
      BY <1>1, <2>1, <2>2 DEF QueriesInv
  <1>4. CASE LgSavedArrives(i)
    <2> DEFINE c == lgCalls[i]
               rest == Forget(lgCalls, i)
               ask == SavedCall("list", 0, NoQuery)
    <2>1. /\ c.ans # Waiting
          /\ lgShownSaved' = IF c.ans = Failed THEN lgShownSaved ELSE ShownAfter(c)
          /\ lgCalls' = LgSent(rest, ask) \/ lgCalls' = rest
      BY <1>4 DEF LgSavedArrives, Unserved
    <2>2. QueryCallOK(c, lgSavedIds)
      BY <1>2
    <2>3. QueriesOK(lgShownSaved', lgSavedIds)
      BY <2>1, <2>2 DEF QueriesInv, QueriesOK, QueryCallOK, ShownAfter
    <2>4. SavedCallsOK(rest) /\ \A k \in DOMAIN rest : QueryCallOK(rest[k], lgSavedIds)
      <3>1. PICK S : lgCalls \in Seq(S)
        BY <1>2 DEF SavedCallsOK
      <3>2. rest \in Seq(S) /\ \A k \in DOMAIN rest : \E j \in DOMAIN lgCalls : rest[k] = lgCalls[j]
        BY <3>1, ForgetTakes
      <3> HIDE DEF rest
      <3>3. \A j \in DOMAIN lgCalls : SavedCallOK(lgCalls[j])
        BY <1>2 DEF SavedCallsOK
      <3> QED
        BY <1>2, <3>2, <3>3 DEF SavedCallsOK
    <2>5. SavedCallOK(ask) /\ QueryCallOK(ask, lgSavedIds)
      BY DEF SavedCall, SavedCallOK, SavedFields, QueryCallOK
    <2> HIDE DEF rest, ask
    <2>6. \A j \in DOMAIN lgCalls' : QueryCallOK(lgCalls'[j], lgSavedIds)
      BY <2>1, <2>4, <2>5, QueryCallsSent
    <2> QED
      BY <1>1, <2>3, <2>6 DEF QueriesInv
  <1> QED
    BY <1>3, <1>4

LEMMA QueriesInit == LgInit => QueriesInv
  <1> SUFFICES ASSUME LgInit PROVE QueriesInv
    OBVIOUS
  <1> DEFINE first == SavedQuery(1, CHOOSE n \in LgNames : TRUE, LgDefault)
             c == SavedCall("list", 0, NoQuery)
             q == [c EXCEPT !.ans = Waiting]
  <1>1. DraftOK(first) /\ first.id = 1
    <2>1. (CHOOSE n \in LgNames : TRUE) \in LgNames
      BY LogsAssumption
    <2>2. LgDefault[1] \in LgSources /\ LgDefault[2] \in LgQueries
      BY LogsAssumption
    <2> QED
      BY <2>1, <2>2 DEF SavedQuery, DraftOK, QueryFields
  <1>2. QueryCallOK(q, 1)
    BY DEF SavedCall, QueryCallOK
  <1>3. /\ lgSaved = {first} /\ lgSavedIds = 1 /\ lgShownSaved = {} /\ lgSearch = NoSearch /\ lgMeta = "loading"
        /\ lgCalls = Append(<<>>, q)
    BY DEF LgInit, Send
  <1> HIDE DEF first, q
  <1>4. \A i \in DOMAIN lgCalls : lgCalls[i] = q
    <2>1. <<>> \in Seq({q}) /\ Len(<<>>) = 0
      BY EmptySeq
    <2>2. lgCalls \in Seq({q})
      BY <1>3, <2>1, AppendProperties
    <2> QED
      BY <2>2, LenProperties, ElementOfSeq
  <1> QED
    BY <1>1, <1>2, <1>3, <1>4 DEF QueriesInv, QueriesOK

LEMMA QueriesNext == QueriesInv /\ SavedInv /\ [LgNext]_lgVars => QueriesInv'
  <1> SUFFICES ASSUME QueriesInv, SavedInv, [LgNext]_lgVars PROVE QueriesInv'
    OBVIOUS
  <1>1. CASE UNCHANGED <<lgSearch, lgSaved, lgSavedIds, lgShownSaved, lgCalls>> /\ (lgMeta' = lgMeta \/ lgMeta' # "ready")
    BY <1>1 DEF QueriesInv
  <1>2. CASE LgMetaFails \/ PressButton \/ ToggleMode
    BY <1>1, <1>2 DEF LgMetaFails, PressButton, ToggleMode, lgPopover
  <1>3. ASSUME NEW x, LgAppend(x) \/ LgJobGrows(x) \/ LgOtherTail(x) PROVE QueriesInv'
    BY <1>1, <1>3 DEF LgAppend, LgJobGrows, LgOtherTail, lgPopover, lgPage
  <1>4. ASSUME NEW f, LgServeQuery(f) \/ LgQueryArrives(f) PROVE QueriesInv'
    BY <1>1, <1>4 DEF LgServeQuery, LgQueryArrives, lgPopover
  <1>5. CASE LgConnect \/ LgTick
    BY <1>1, <1>5, Zenon DEF LgConnect, LgTick, lgPopover, lgPage
  <1>6. CASE LgMessage \/ LgBreaks \/ LgCloses \/ FlushLiveQueue
    BY <1>1, <1>6 DEF LgMessage, LgBreaks, LgCloses, FlushLiveQueue, lgPopover, lgPage
  <1>7. CASE CloseMenu \/ \E r \in lgShownSaved : LgAskRow("rename", r) \/ LgAskRow("confirm", r)
    BY <1>1, <1>7 DEF CloseMenu, LgAskRow, lgPane
  <1>8. CASE (\E n \in LgNames : SaveAs(n) \/ CommitRename(n)) \/ \E r \in lgShownSaved : HandleDelete(r)
    BY <1>8, QuerySendSteps
  <1>9. CASE LgMetaArrives \/ (\E s \in LgSources : ChangeSource(s)) \/ (\E q \in LgQueries : ChangeQuery(q))
             \/ \E r \in lgShownSaved : LoadSaved(r)
    BY <1>9, QueryPageSteps
  <1>10. ASSUME NEW i \in DOMAIN lgCalls, LgServeSaved(i) \/ LgSavedLost(i) \/ LgSavedArrives(i) PROVE QueriesInv'
    BY <1>10, QueryServeStep, QueryAnswerSteps
  <1>11. CASE UNCHANGED lgVars
    BY <1>1, <1>11 DEF lgVars
  <1> QED
    BY <1>2, <1>3, <1>4, <1>5, <1>6, <1>7, <1>8, <1>9, <1>10, <1>11 DEF LgNext

-----------------------------------------------------------------------------
(* The tail: what it was given is on the list, in the queue or on the wire.  *)

LogRows == [search : Searches, id : EventIds, live : BOOLEAN]
Events == [ts : 1 .. LgMaxTime, msg : LgMessages, late : BOOLEAN]
Times == 0 .. LgMaxTime
RowsOf(rows, search) == rows \in Seq(LogRows) /\ \A i \in DOMAIN rows : rows[i].search = search

FetchFields == {"search", "mode", "ans"}
FetchOK(f, run) ==
    /\ DOMAIN f = FetchFields /\ f.search = run /\ run \in Searches
    /\ f.ans \in {Waiting, Failed} \/ \E ids \in Seq(EventIds) : Len(ids) <= LgMaxLog /\ f.ans = Value(ids)

\* The ids of the run that the page was given.
KeysOf(queue) == {queue[i].id : i \in DOMAIN queue}
Got(w) == w.seen \cup KeysOf(w.queue)

\* A stream of the search run, whose source holds log and has its cursor at cur, when
\* the page was given got.  What is on the wire is in the order of time, neither
\* before the last event given nor past the cursor; of what was stored in time nothing
\* from base to the cursor is passed over, and nothing from base to the last event,
\* which the next connection will name.
InTime(e, base, upto) == ~e.late /\ base < e.ts /\ e.ts <= upto
StreamTyped(t, run) ==
    /\ t.search = run /\ t.last \in Times /\ t.base \in Times /\ t.sure \in BOOLEAN /\ t.wire \in Seq(EventIds)
    /\ t.state = "connecting" => t.wire = <<>>
Resumes(base, last, got, log) ==
    last # 0 => \A k \in DOMAIN log : InTime(log[k], base, last) => EventId(log[k]) \in got
Ordered(w, last, cur) ==
    /\ \A i \in 1 .. Len(w) : last <= w[i][1] /\ w[i][1] <= cur
    /\ \A i, j \in 1 .. Len(w) : i < j => w[i][1] <= w[j][1]
Complete(base, w, got, log, cur) ==
    \A k \in DOMAIN log : InTime(log[k], base, cur) =>
        EventId(log[k]) \in got \/ \E i \in 1 .. Len(w) : w[i] = EventId(log[k])
FollowOK(t, got, run, log, cur) ==
    /\ StreamTyped(t, run)
    /\ t.sure => t.last <= cur
    /\ t.sure /\ t.state = "connecting" => Resumes(t.base, t.last, got, log)
    /\ t.sure /\ t.state = "open" => Ordered(t.wire, t.last, cur) /\ Complete(t.base, t.wire, got, log, cur)

LEMMA LogTyped ==
  ASSUME NEW log \in Seq(Events)
  PROVE  /\ Len(log) \in Nat /\ DOMAIN log = 1 .. Len(log)
         /\ \A k \in DOMAIN log : log[k] \in Events /\ log[k].ts \in Nat
  <1>1. Len(log) \in Nat /\ DOMAIN log = 1 .. Len(log)
    BY LenProperties
  <1>2. ASSUME NEW k \in 1 .. Len(log) PROVE log[k] \in Events /\ log[k].ts \in Nat
    <2>1. log[k] \in Events
      BY ElementOfSeq
    <2> QED
      BY <2>1, LogsAssumption DEF Events
  <1> QED
    BY <1>1, <1>2

LEMMA FollowBegins ==
  ASSUME NEW run, NEW got, NEW log, NEW cur \in Times PROVE FollowOK(NewTail(run), got, run, log, cur)
  BY EmptySeq, LogsAssumption DEF FollowOK, StreamTyped, Resumes, NewTail, Times

\* The log changes behind the cursor only by what is late.
LEMMA FollowLog ==
  ASSUME NEW t, NEW got, NEW run, NEW log, NEW cur \in Times, FollowOK(t, got, run, log, cur), NEW more,
         \A k \in DOMAIN more : \/ k \in DOMAIN log /\ more[k] = log[k]
                                \/ more[k].late
                                \/ more[k].ts \in Nat /\ more[k].ts > cur
  PROVE  FollowOK(t, got, run, more, cur)
  <1>1. StreamTyped(t, run) /\ t.last \in Times /\ (t.sure => t.last <= cur)
    BY DEF FollowOK, StreamTyped
  <1>2. ASSUME NEW upto \in Times, upto <= cur, NEW k \in DOMAIN more, InTime(more[k], t.base, upto)
        PROVE  k \in DOMAIN log /\ more[k] = log[k]
    BY <1>2 DEF InTime, Times
  <1>3. ASSUME t.sure, t.state = "connecting" PROVE Resumes(t.base, t.last, got, more)
    <2>1. Resumes(t.base, t.last, got, log) /\ t.last <= cur
      BY <1>1, <1>3 DEF FollowOK
    <2> QED
      BY <1>1, <1>2, <2>1 DEF Resumes
  <1>4. ASSUME t.sure, t.state = "open" PROVE Ordered(t.wire, t.last, cur) /\ Complete(t.base, t.wire, got, more, cur)
    <2>1. Ordered(t.wire, t.last, cur) /\ Complete(t.base, t.wire, got, log, cur) /\ cur <= cur
      BY <1>4 DEF FollowOK, Times
    <2> QED
      BY <1>2, <2>1 DEF Complete
  <1> QED
    BY <1>1, <1>3, <1>4 DEF FollowOK

\* It connects: after the last event, or, when there was none, wherever it is let.
LEMMA FollowConnects ==
  ASSUME NEW t, DOMAIN t = TailFields, NEW got, NEW run, NEW log \in Seq(Events), NEW cur \in Times,
         FollowOK(t, got, run, log, cur), t.state = "connecting", NEW c \in CursorsOnConnect(log, cur, t.last)
  PROVE  /\ c \in Times
         /\ FollowOK([t EXCEPT !.state = "open", !.base = IF t.last = 0 THEN c ELSE t.base], got, run, log, c)
  <1> DEFINE u == [t EXCEPT !.state = "open", !.base = IF t.last = 0 THEN c ELSE t.base]
  <1>1. c \in Times /\ (t.last # 0 => c = t.last)
    BY DEF CursorsOnConnect, FollowOK, StreamTyped, Times
  <1>2. /\ u.state = "open" /\ u.base = (IF t.last = 0 THEN c ELSE t.base)
        /\ u.search = t.search /\ u.last = t.last /\ u.sure = t.sure /\ u.wire = t.wire
    BY DEF TailFields
  <1>3. t.wire = <<>> /\ Len(<<>>) = 0 /\ <<>> \in Seq(EventIds)
    BY EmptySeq DEF FollowOK, StreamTyped
  <1>4. t.last \in Times /\ (t.sure => Resumes(t.base, t.last, got, log)) /\ StreamTyped(t, run)
    BY DEF FollowOK, StreamTyped
  <1> HIDE DEF u
  <1>5. StreamTyped(u, run) /\ u.last <= c
    BY <1>1, <1>2, <1>4 DEF StreamTyped, Times
  <1>6. Ordered(u.wire, u.last, c)
    BY <1>2, <1>3 DEF Ordered
  <1>7. ASSUME u.sure PROVE Complete(u.base, u.wire, got, log, c)
    <2>1. CASE t.last = 0
      <3>1. ASSUME NEW k \in DOMAIN log PROVE ~InTime(log[k], u.base, c)
        <4>1. log[k].ts \in Nat
          BY LogTyped
        <4> QED
          BY <1>1, <1>2, <2>1, <4>1 DEF InTime, Times
      <3> QED
        BY <3>1 DEF Complete
    <2>2. CASE t.last # 0
      BY <1>1, <1>2, <1>4, <1>7, <2>2 DEF Resumes, Complete
    <2> QED
      BY <2>1, <2>2
  <1>8. FollowOK(u, got, run, log, c)
    BY <1>2, <1>5, <1>6, <1>7 DEF FollowOK
  <1> QED
    BY <1>1, <1>8 DEF u

\* A listing has every event asked for, in the order of time.
LEMMA ListingGives ==
  ASSUME NEW log \in Seq(Events), NEW ks \in SUBSET DOMAIN log, NEW w \in OldestFirst(log, ks)
  PROVE  /\ Len(w) \in Nat /\ Len(w) <= Len(log) /\ DOMAIN w = 1 .. Len(w)
         /\ \A i \in 1 .. Len(w) : w[i] \in ks /\ log[w[i]] \in Events
         /\ \A k \in ks : \E i \in 1 .. Len(w) : w[i] = k
         /\ \A i, j \in 1 .. Len(w) : i < j => log[w[i]].ts <= log[w[j]].ts
  <1> DEFINE n == Cardinality(ks)
  <1>1. Len(log) \in Nat /\ DOMAIN log = 1 .. Len(log) /\ \A k \in DOMAIN log : log[k] \in Events
    BY LogTyped
  <1>2. IsFiniteSet(1 .. Len(log)) /\ Cardinality(1 .. Len(log)) = Len(log)
    <2> DEFINE m == Len(log)
    <2>1. 1 \in Int /\ m \in Int /\ m \in Nat
      BY <1>1
    <2> HIDE DEF m
    <2>2. IsFiniteSet(1 .. m) /\ Cardinality(1 .. m) = IF 1 > m THEN 0 ELSE m - 1 + 1
      BY <2>1, FS_Interval
    <2>3. Cardinality(1 .. m) = m
      BY <2>1, <2>2
    <2> QED
      BY <2>2, <2>3 DEF m
  <1>3. n \in Nat /\ n <= Len(log)
    BY <1>1, <1>2, FS_Subset, FS_CardinalityType
  <1>4. /\ w \in [1 .. n -> ks] /\ Range(w) = ks
        /\ \A i, j \in DOMAIN w : i < j => log[w[i]].ts <= log[w[j]].ts
    BY DEF OldestFirst
  <1> HIDE DEF n
  <1>5. w \in Seq(ks)
    BY <1>3, <1>4, IsASeq
  <1>6. Len(w) = n /\ DOMAIN w = 1 .. n
    BY <1>3, <1>4, <1>5, LenProperties
  <1>7. \A k \in ks : \E i \in DOMAIN w : w[i] = k
    BY <1>4 DEF Range
  <1> QED
    BY <1>1, <1>3, <1>4, <1>6, <1>7

\* What a tick puts on the wire, behind what is there.
LEMMA WireGrows ==
  ASSUME NEW v \in Seq(EventIds), NEW log \in Seq(Events), NEW ks \in SUBSET DOMAIN log, NEW w \in OldestFirst(log, ks)
  PROVE  LET x == v \o [i \in DOMAIN w |-> EventId(log[w[i]])]
         IN  /\ x \in Seq(EventIds)
             /\ \A i \in 1 .. Len(v) : i \in 1 .. Len(x) /\ x[i] = v[i]
             /\ \A i \in 1 .. Len(x) : (i \in 1 .. Len(v) /\ x[i] = v[i])
                                         \/ \E j \in 1 .. Len(w) : i = Len(v) + j /\ x[i] = EventId(log[w[j]])
             /\ \A j \in 1 .. Len(w) : \E i \in 1 .. Len(x) : x[i] = EventId(log[w[j]])
  <1> DEFINE e(i) == EventId(log[w[i]])
             more == [i \in DOMAIN w |-> e(i)]
             x == v \o more
             m == Len(v)
             n == Len(w)
  <1>1. n \in Nat /\ DOMAIN w = 1 .. n /\ \A i \in 1 .. n : log[w[i]] \in Events
    BY ListingGives
  <1>2. \A i \in 1 .. n : e(i) \in EventIds
    BY <1>1 DEF Events, EventId, EventIds
  <1>3. more = [i \in 1 .. n |-> more[i]] /\ \A i \in 1 .. n : more[i] = e(i)
    BY <1>1
  <1> HIDE DEF e, more
  <1>4. more \in Seq(EventIds)
    BY <1>1, <1>2, <1>3, IsASeq
  <1>5. Len(more) = n
    <2>1. DOMAIN more = 1 .. n
      BY <1>3
    <2> QED
      BY <1>1, <1>4, <2>1, LenProperties
  <1>6. m \in Nat
    BY LenProperties
  <1> HIDE DEF n
  <1>7. /\ x \in Seq(EventIds) /\ Len(x) = m + n
        /\ \A i \in 1 .. m + n : x[i] = IF i <= m THEN v[i] ELSE more[i - m]
    BY <1>4, <1>5, ConcatProperties
  <1> HIDE DEF x, m
  <1>8. ASSUME NEW i \in 1 .. m PROVE i \in 1 .. Len(x) /\ x[i] = v[i]
    <2>1. i \in 1 .. m + n /\ i <= m
      BY <1>1, <1>6
    <2> QED
      BY <1>7, <2>1
  <1>9. ASSUME NEW j \in 1 .. n PROVE m + j \in 1 .. Len(x) /\ x[m + j] = e(j)
    <2>1. m + j \in 1 .. m + n /\ ~(m + j <= m) /\ (m + j) - m = j
      BY <1>1, <1>6
    <2>2. x[m + j] = more[(m + j) - m]
      BY <1>7, <2>1
    <2>3. x[m + j] = more[j]
      BY <2>1, <2>2
    <2> QED
      BY <1>3, <1>7, <2>1, <2>3
  <1>10. ASSUME NEW i \in 1 .. Len(x), i \notin 1 .. m PROVE \E j \in 1 .. n : i = m + j /\ x[i] = e(j)
    <2>1. i - m \in 1 .. n /\ i = m + (i - m)
      BY <1>1, <1>6, <1>7, <1>10
    <2> QED
      BY <1>9, <2>1
  <1> QED
    BY <1>7, <1>8, <1>9, <1>10 DEF x, m, n, more, e

\* Its first event leaves the wire.
LEMMA WireShrinks ==
  ASSUME NEW v \in Seq(EventIds), v # <<>>
  PROVE  /\ Tail(v) \in Seq(EventIds) /\ 1 \in 1 .. Len(v) /\ Head(v) = v[1]
         /\ \A i \in 1 .. Len(Tail(v)) : i + 1 \in 1 .. Len(v) /\ i + 1 > 1 /\ Tail(v)[i] = v[i + 1]
         /\ \A i \in 1 .. Len(v) : i = 1 \/ \E j \in 1 .. Len(Tail(v)) : Tail(v)[j] = v[i]
  <1> DEFINE m == Len(v)
             w == Tail(v)
  <1>1. m \in Nat /\ m # 0
    BY EmptySeq
  <1>2. Head(v) = v[1] /\ w \in Seq(EventIds) /\ Len(w) = m - 1 /\ \A i \in 1 .. m - 1 : w[i] = v[i + 1]
    BY HeadTailProperties
  <1> HIDE DEF m, w
  <1>3. 1 \in 1 .. m
    BY <1>1
  <1>4. ASSUME NEW i \in 1 .. Len(w) PROVE i + 1 \in 1 .. m /\ i + 1 > 1 /\ w[i] = v[i + 1]
    BY <1>1, <1>2
  <1>5. ASSUME NEW i \in 1 .. m, i # 1 PROVE \E j \in 1 .. Len(w) : w[j] = v[i]
    <2>1. i - 1 \in 1 .. m - 1 /\ (i - 1) + 1 = i
      BY <1>1, <1>5
    <2>2. w[i - 1] = v[(i - 1) + 1]
      BY <1>2, <2>1
    <2> QED
      BY <1>2, <2>1, <2>2
  <1> QED
    BY <1>2, <1>3, <1>4, <1>5 DEF m, w

\* The times of a wire.
LEMMA WireTimes ==
  ASSUME NEW v \in Seq(EventIds) PROVE Len(v) \in Nat /\ \A i \in 1 .. Len(v) : v[i][1] \in 1 .. LgMaxTime
  <1>1. ASSUME NEW i \in 1 .. Len(v) PROVE v[i][1] \in 1 .. LgMaxTime
    <2>1. v[i] \in EventIds
      BY ElementOfSeq
    <2> QED
      BY <2>1 DEF EventIds
  <1> QED
    BY <1>1, LenProperties

\* It is written to: the wire gets what is later than the cursor, and the cursor is
\* at the last of it.
LEMMA TickOrders ==
  ASSUME NEW v \in Seq(EventIds), NEW log \in Seq(Events), NEW cur \in Times, NEW last \in Times, last <= cur,
         Ordered(v, last, cur), NEW w \in OldestFirst(log, Since(log, cur)), Since(log, cur) # {}
  PROVE  LET x == v \o [i \in DOMAIN w |-> EventId(log[w[i]])]
             c == log[w[Len(w)]].ts
         IN  cur < c /\ Ordered(x, last, c)
  <1> DEFINE x == v \o [i \in DOMAIN w |-> EventId(log[w[i]])]
             n == Len(w)
             c == log[w[n]].ts
             at(j) == log[w[j]].ts
             ks == Since(log, cur)
  <1>1. ks \in SUBSET DOMAIN log /\ \A k \in ks : log[k].ts > cur
    BY DEF Since
  <1>2. /\ n \in Nat /\ \A i \in 1 .. n : w[i] \in ks /\ log[w[i]] \in Events
        /\ \A k \in ks : \E i \in 1 .. n : w[i] = k
        /\ \A i, j \in 1 .. n : i < j => at(i) <= at(j)
    BY <1>1, ListingGives
  <1>3. \A j \in 1 .. n : at(j) \in 1 .. LgMaxTime /\ at(j) > cur /\ EventId(log[w[j]])[1] = at(j)
    BY <1>1, <1>2 DEF Events, EventId
  <1>4. n \in 1 .. n
    BY <1>2
  <1>5. c \in 1 .. LgMaxTime /\ cur < c /\ \A j \in 1 .. n : at(j) <= c
    <2>1. ASSUME NEW j \in 1 .. n PROVE at(j) <= at(n)
      <3>1. CASE j < n
        BY <1>2, <1>4, <3>1
      <3>2. CASE j = n
        BY <1>3, <3>2
      <3> QED
        BY <1>2, <3>1, <3>2
    <2> QED
      BY <1>3, <1>4, <2>1
  <1>6. /\ \A i \in 1 .. Len(x) : (i \in 1 .. Len(v) /\ x[i] = v[i])
                                    \/ \E j \in 1 .. n : i = Len(v) + j /\ x[i] = EventId(log[w[j]])
    BY <1>1, WireGrows
  <1>7. Len(v) \in Nat /\ \A i \in 1 .. Len(v) : v[i][1] \in 1 .. LgMaxTime
    BY WireTimes
  <1>8. /\ \A i \in 1 .. Len(v) : last <= v[i][1] /\ v[i][1] <= cur
        /\ \A i, j \in 1 .. Len(v) : i < j => v[i][1] <= v[j][1]
    BY DEF Ordered
  <1> HIDE DEF x, n, c, at, ks
  <1>9. \A i \in 1 .. Len(x) : \/ i \in 1 .. Len(v) /\ x[i][1] = v[i][1]
                               \/ \E j \in 1 .. n : i = Len(v) + j /\ x[i][1] = at(j)
    BY <1>3, <1>6
  <1>10. ASSUME NEW i \in 1 .. Len(x) PROVE last <= x[i][1] /\ x[i][1] <= c
    <2>1. CASE i \in 1 .. Len(v) /\ x[i][1] = v[i][1]
      BY <1>5, <1>7, <1>8, <2>1 DEF Times
    <2>2. ASSUME NEW j \in 1 .. n, x[i][1] = at(j) PROVE last <= x[i][1] /\ x[i][1] <= c
      BY <1>3, <1>5, <2>2 DEF Times
    <2> QED
      BY <1>9, <2>1, <2>2
  <1>11. ASSUME NEW i \in 1 .. Len(x), NEW j \in 1 .. Len(x), i < j PROVE x[i][1] <= x[j][1]
    <2>1. CASE j \in 1 .. Len(v) /\ x[j][1] = v[j][1]
      <3>1. i \in 1 .. Len(v)
        BY <1>7, <1>11, <2>1
      <3>2. x[i][1] = v[i][1]
        BY <1>7, <1>9, <3>1
      <3> QED
        BY <1>8, <1>11, <2>1, <3>1, <3>2
    <2>2. ASSUME NEW b \in 1 .. n, j = Len(v) + b, x[j][1] = at(b) PROVE x[i][1] <= x[j][1]
      <3>1. CASE i \in 1 .. Len(v) /\ x[i][1] = v[i][1]
        BY <1>3, <1>7, <1>8, <2>2, <3>1 DEF Times
      <3>2. ASSUME NEW a \in 1 .. n, i = Len(v) + a, x[i][1] = at(a) PROVE x[i][1] <= x[j][1]
        <4>1. a < b
          BY <1>7, <1>11, <2>2, <3>2
        <4> QED
          BY <1>2, <2>2, <3>2, <4>1
      <3> QED
        BY <1>9, <3>1, <3>2
    <2> QED
      BY <1>9, <2>1, <2>2
  <1>12. Ordered(x, last, c)
    BY <1>10, <1>11 DEF Ordered
  <1> QED
    BY <1>5, <1>12 DEF x, c, n

LEMMA FollowTicks ==
  ASSUME NEW t, DOMAIN t = TailFields, NEW got, NEW run, NEW log \in Seq(Events), NEW cur \in Times,
         FollowOK(t, got, run, log, cur), t.state = "open",
         Since(log, cur) # {}, NEW w \in OldestFirst(log, Since(log, cur))
  PROVE  LET c == log[w[Len(w)]].ts
         IN  /\ c \in Times
             /\ FollowOK([t EXCEPT !.wire = t.wire \o [i \in DOMAIN w |-> EventId(log[w[i]])]], got, run, log, c)
  <1> DEFINE x == t.wire \o [i \in DOMAIN w |-> EventId(log[w[i]])]
             c == log[w[Len(w)]].ts
             u == [t EXCEPT !.wire = x]
             ks == Since(log, cur)
  <1>1. ks \in SUBSET DOMAIN log
    BY DEF Since
  <1>2. t.wire \in Seq(EventIds) /\ t.last \in Times /\ StreamTyped(t, run)
    BY DEF FollowOK, StreamTyped
  <1>3. c \in Times
    <2>1. /\ Len(w) \in Nat /\ \A i \in 1 .. Len(w) : w[i] \in ks /\ log[w[i]] \in Events
          /\ \A k \in ks : \E i \in 1 .. Len(w) : w[i] = k
      BY <1>1, ListingGives
    <2>2. Len(w) \in 1 .. Len(w)
      BY <2>1
    <2>3. log[w[Len(w)]] \in Events
      BY <2>1, <2>2
    <2> QED
      BY <2>3 DEF Events, Times
  <1>4. /\ x \in Seq(EventIds)
        /\ \A i \in 1 .. Len(t.wire) : i \in 1 .. Len(x) /\ x[i] = t.wire[i]
        /\ \A j \in 1 .. Len(w) : \E i \in 1 .. Len(x) : x[i] = EventId(log[w[j]])
    BY <1>1, <1>2, WireGrows
  <1>5. \A k \in ks : \E j \in 1 .. Len(w) : w[j] = k
    BY <1>1, ListingGives
  <1>6. /\ u.state = "open" /\ u.base = t.base /\ u.wire = x
        /\ u.search = t.search /\ u.last = t.last /\ u.sure = t.sure
    BY DEF TailFields
  <1>7. t.sure => /\ t.last <= cur /\ Ordered(t.wire, t.last, cur) /\ Complete(t.base, t.wire, got, log, cur)
    BY DEF FollowOK
  <1>8. t.sure => cur < c /\ Ordered(x, t.last, c)
    BY <1>2, <1>7, TickOrders
  <1> HIDE DEF u, x, c
  <1>9. StreamTyped(u, run)
    BY <1>2, <1>4, <1>6 DEF StreamTyped
  <1>10. ASSUME t.sure PROVE Complete(t.base, x, got, log, c)
    <2>1. ASSUME NEW k \in DOMAIN log, InTime(log[k], t.base, c)
          PROVE  EventId(log[k]) \in got \/ \E i \in 1 .. Len(x) : x[i] = EventId(log[k])
      <3>1. CASE k \in ks
        <4>1. PICK j \in 1 .. Len(w) : w[j] = k
          BY <1>5, <3>1
        <4> QED
          BY <1>4, <4>1
      <3>2. CASE k \notin ks
        <4>1. log[k].ts \in Nat
          BY LogTyped
        <4>2. InTime(log[k], t.base, cur)
          BY <2>1, <3>2, <4>1 DEF InTime, Since, Times
        <4>3. EventId(log[k]) \in got \/ \E i \in 1 .. Len(t.wire) : t.wire[i] = EventId(log[k])
          BY <1>7, <1>10, <4>2 DEF Complete
        <4> QED
          BY <1>4, <4>3
      <3> QED
        BY <3>1, <3>2
    <2> QED
      BY <2>1 DEF Complete
  <1>11. t.sure => t.last <= c
    BY <1>2, <1>3, <1>7, <1>8 DEF Times
  <1>12. FollowOK(u, got, run, log, c)
    BY <1>6, <1>8, <1>9, <1>10, <1>11 DEF FollowOK
  <1> QED
    BY <1>3, <1>12 DEF u, x, c

\* The next event leaves the wire: everything before it was given already.
LEMMA FollowTakes ==
  ASSUME NEW t, DOMAIN t = TailFields, NEW got, NEW run, NEW log, NEW cur \in Times,
         FollowOK(t, got, run, log, cur), t.state = "open", t.wire # <<>>
  PROVE  /\ Head(t.wire) \in EventIds
         /\ FollowOK([t EXCEPT !.wire = Tail(t.wire), !.last = Head(t.wire)[1]], got \cup {Head(t.wire)}, run, log, cur)
  <1> DEFINE v == t.wire
             h == Head(v)
             w == Tail(v)
             u == [t EXCEPT !.wire = w, !.last = h[1]]
             all == got \cup {h}
  <1>1. /\ u.state = "open" /\ u.base = t.base /\ u.wire = w
        /\ u.search = t.search /\ u.last = h[1] /\ u.sure = t.sure
    BY DEF TailFields
  <1>2. /\ v \in Seq(EventIds) /\ StreamTyped(t, run)
        /\ t.sure => Ordered(v, t.last, cur) /\ Complete(t.base, v, got, log, cur)
    BY DEF FollowOK, StreamTyped
  <1>3. Len(v) \in Nat /\ \A i \in 1 .. Len(v) : v[i][1] \in 1 .. LgMaxTime
    BY <1>2, WireTimes
  <1> HIDE DEF v
  <1>4. /\ w \in Seq(EventIds) /\ 1 \in 1 .. Len(v) /\ h = v[1]
        /\ \A i \in 1 .. Len(w) : i + 1 \in 1 .. Len(v) /\ i + 1 > 1 /\ w[i] = v[i + 1]
        /\ \A i \in 1 .. Len(v) : i = 1 \/ \E j \in 1 .. Len(w) : w[j] = v[i]
    BY <1>2, WireShrinks DEF v
  <1>5. h \in EventIds /\ h[1] \in Times
    <2>1. v[1] \in EventIds
      BY <1>2, <1>4, ElementOfSeq
    <2> QED
      BY <1>3, <1>4, <2>1 DEF Times
  <1> HIDE DEF h, w, u
  <1>6. ASSUME t.sure PROVE h[1] <= cur /\ Ordered(w, h[1], cur)
    <2>1. /\ \A i \in 1 .. Len(v) : v[i][1] <= cur
          /\ \A i, j \in 1 .. Len(v) : i < j => v[i][1] <= v[j][1]
      BY <1>2, <1>6 DEF Ordered
    <2>2. ASSUME NEW i \in 1 .. Len(w) PROVE h[1] <= w[i][1] /\ w[i][1] <= cur
      <3>1. i + 1 \in 1 .. Len(v) /\ 1 < i + 1 /\ w[i] = v[i + 1]
        BY <1>4
      <3> QED
        BY <1>4, <2>1, <3>1
    <2>3. ASSUME NEW i \in 1 .. Len(w), NEW j \in 1 .. Len(w), i < j PROVE w[i][1] <= w[j][1]
      <3>1. i + 1 \in 1 .. Len(v) /\ j + 1 \in 1 .. Len(v) /\ w[i] = v[i + 1] /\ w[j] = v[j + 1]
        BY <1>4
      <3>2. i + 1 < j + 1
        BY <2>3
      <3> QED
        BY <2>1, <3>1, <3>2
    <2> QED
      BY <1>4, <2>1, <2>2, <2>3 DEF Ordered
  <1>7. ASSUME t.sure PROVE Complete(t.base, w, all, log, cur)
    <2>1. ASSUME NEW k \in DOMAIN log, InTime(log[k], t.base, cur)
          PROVE  EventId(log[k]) \in all \/ \E j \in 1 .. Len(w) : w[j] = EventId(log[k])
      <3>1. EventId(log[k]) \in got \/ \E i \in 1 .. Len(v) : v[i] = EventId(log[k])
        BY <1>2, <1>7, <2>1 DEF Complete
      <3>2. ASSUME NEW i \in 1 .. Len(v), v[i] = EventId(log[k])
            PROVE  EventId(log[k]) = h \/ \E j \in 1 .. Len(w) : w[j] = EventId(log[k])
        BY <1>4, <3>2
      <3> QED
        BY <3>1, <3>2
    <2> QED
      BY <2>1 DEF Complete
  <1> HIDE DEF all
  <1>8. StreamTyped(u, run)
    BY <1>1, <1>2, <1>4, <1>5 DEF StreamTyped
  <1>9. FollowOK(u, all, run, log, cur)
    BY <1>1, <1>6, <1>7, <1>8 DEF FollowOK
  <1> QED
    BY <1>5, <1>9 DEF u, w, h, all, v

\* Somebody else moves the cursor, or the connection breaks.
LEMMA FollowUnsure ==
  ASSUME NEW t, DOMAIN t = TailFields, NEW got, NEW run, NEW log, NEW cur,
         FollowOK(t, got, run, log, cur), NEW c
  PROVE  FollowOK([t EXCEPT !.sure = FALSE], got, run, log, c)
  <1> DEFINE u == [t EXCEPT !.sure = FALSE]
  <1>1. /\ u.state = t.state /\ u.base = t.base /\ u.wire = t.wire
        /\ u.search = t.search /\ u.last = t.last /\ u.sure = FALSE
    BY DEF TailFields
  <1> HIDE DEF u
  <1>2. FollowOK(u, got, run, log, c)
    BY <1>1 DEF FollowOK, StreamTyped
  <1> QED
    BY <1>2 DEF u

LEMMA FollowBreaks ==
  ASSUME NEW t, DOMAIN t = TailFields, NEW got, NEW run, NEW log \in Seq(Events), NEW cur \in Times,
         FollowOK(t, got, run, log, cur), t.state = "open", NEW sure \in BOOLEAN,
         sure => t.sure /\ t.last # 0 /\ \A i \in DOMAIN t.wire : t.wire[i][1] # t.last
  PROVE  FollowOK([t EXCEPT !.state = "connecting", !.wire = <<>>, !.sure = sure], got, run, log, cur)
  <1> DEFINE u == [t EXCEPT !.state = "connecting", !.wire = <<>>, !.sure = sure]
             v == t.wire
  <1>1. /\ u.state = "connecting" /\ u.base = t.base /\ u.wire = <<>>
        /\ u.search = t.search /\ u.last = t.last /\ u.sure = sure
    BY DEF TailFields
  <1>2. v \in Seq(EventIds) /\ t.last \in Times /\ StreamTyped(t, run)
    BY DEF FollowOK, StreamTyped
  <1>3. Len(v) \in Nat /\ DOMAIN v = 1 .. Len(v) /\ \A i \in 1 .. Len(v) : v[i][1] \in 1 .. LgMaxTime
    BY <1>2, WireTimes, LenProperties
  <1> HIDE DEF u, v
  <1>4. ASSUME sure PROVE t.last <= cur /\ Resumes(t.base, t.last, got, log)
    <2>1. t.last <= cur /\ Ordered(v, t.last, cur) /\ Complete(t.base, v, got, log, cur)
      BY <1>4 DEF FollowOK, v
    <2>2. \A i \in 1 .. Len(v) : t.last < v[i][1]
      <3>1. \A i \in 1 .. Len(v) : t.last <= v[i][1] /\ v[i][1] # t.last
        BY <1>3, <1>4, <2>1 DEF Ordered, v
      <3> QED
        BY <1>2, <1>3, <3>1 DEF Times
    <2>3. ASSUME NEW k \in DOMAIN log, InTime(log[k], t.base, t.last) PROVE EventId(log[k]) \in got
      <3>1. log[k].ts \in Nat
        BY LogTyped
      <3>2. InTime(log[k], t.base, cur)
        BY <1>2, <2>1, <2>3, <3>1 DEF InTime, Times
      <3>3. EventId(log[k])[1] <= t.last
        BY <2>3 DEF EventId, InTime
      <3>4. ASSUME NEW i \in 1 .. Len(v), v[i] = EventId(log[k]) PROVE FALSE
        BY <1>2, <1>3, <2>2, <3>3, <3>4 DEF Times
      <3> QED
        BY <2>1, <3>2, <3>4 DEF Complete
    <2> QED
      BY <2>1, <2>3 DEF Resumes
  <1>5. StreamTyped(u, run)
    BY <1>1, <1>2, EmptySeq DEF StreamTyped
  <1>6. FollowOK(u, got, run, log, cur)
    BY <1>1, <1>4, <1>5 DEF FollowOK
  <1> QED
    BY <1>6 DEF u

-----------------------------------------------------------------------------
(* What is on show is of the run, and the work under way is the run's.       *)

ServiceOK ==
    /\ lgLog \in [LgSources -> Seq(Events)] /\ lgCursor \in [LgSources -> Times]
    /\ \A s \in LgSources : Len(lgLog[s]) <= LgMaxLog

Once(rows) == \A i, j \in DOMAIN rows : i # j /\ rows[i].live /\ rows[j].live => rows[i].id # rows[j].id
LiveSeen(rows, seen) == \A i \in DOMAIN rows : rows[i].live => rows[i].id \in seen

\* What is on show was fetched by the run and is remembered as long as it goes on.
ListOK(rows, run, w) ==
    /\ RowsOf(rows, run) /\ Once(rows)
    /\ Len(rows) <= LgMaxRows \/ Len(rows) <= LgMaxLog
    /\ w = Idle \/ LiveSeen(rows, w.seen)

\* The query, the stream and the queue are those of the run.
WorkOK(w, run, log, cursor) ==
    /\ w.seen \subseteq EventIds
    /\ RowsOf(w.queue, run)
    /\ \A f \in w.fetch : FetchOK(f, run)
    /\ w.tail = NoTail \/ (run \in Searches /\ FollowOK(w.tail, Got(w), run, log[run[1]], cursor[run[1]]))

LogsInv ==
    /\ ServiceOK /\ lgMode \in {"history", "live"} /\ lgError \in BOOLEAN
    /\ ListOK(lgRows, lgRun, lgWork)
    /\ WorkOK(lgWork, lgRun, lgLog, lgCursor)

LEMMA NoRowsOK ==
  ASSUME NEW run PROVE RowsOf(<<>>, run) /\ \A w : ListOK(<<>>, run, w)
  <1>1. <<>> \in Seq(LogRows) /\ Len(<<>>) = 0 /\ DOMAIN <<>> = {}
    BY EmptySeq
  <1> QED
    BY <1>1, LogsAssumption DEF RowsOf, ListOK, Once, LiveSeen

LEMMA IdleOK == \A run, log, cursor : WorkOK(Idle, run, log, cursor)
  BY NoRowsOK DEF WorkOK, Idle

\* The run is stopped, or abandoned; the list stays.
LEMMA LogsStopped ==
  ASSUME LogsInv, lgWork' = Idle, UNCHANGED <<lgServer, lgRows, lgError, lgRun>>, lgMode' \in {"history", "live"}
  PROVE  LogsInv'
  <1>1. WorkOK(lgWork, lgRun, lgLog, lgCursor)' /\ ListOK(lgRows, lgRun, lgWork)'
    BY IdleOK DEF LogsInv, ListOK
  <1> QED
    BY <1>1 DEF LogsInv, ServiceOK, lgServer

\* A run begins with an empty list.
LEMMA LogsRun ==
  ASSUME LogsInv, NEW search \in Searches, NEW mode, RunSearch(search, mode), UNCHANGED <<lgServer, lgMode>>
  PROVE  LogsInv'
  <1> DEFINE f == [search |-> search, mode |-> mode, ans |-> Waiting]
  <1>1. FetchOK(f, search)
    BY DEF FetchOK, FetchFields
  <1>2. lgWork' = [Idle EXCEPT !.fetch = {} \cup {f}]
    BY DEF RunSearch, LgStarted, Cleanup, Idle
  <1> HIDE DEF f
  <1>3. lgWork'.seen = {} /\ lgWork'.queue = <<>> /\ lgWork'.fetch = {f} /\ lgWork'.tail = NoTail
    BY <1>2 DEF Idle
  <1>4. lgRun' = search /\ lgRows' = <<>> /\ lgError' = FALSE
    BY DEF RunSearch
  <1>5. WorkOK(lgWork, lgRun, lgLog, lgCursor)'
    BY <1>1, <1>3, <1>4, NoRowsOK DEF WorkOK
  <1>6. ListOK(lgRows, lgRun, lgWork)'
    BY <1>4, NoRowsOK
  <1> QED
    BY <1>4, <1>5, <1>6 DEF LogsInv, ServiceOK, lgServer

LEMMA LogsPageSteps ==
  ASSUME LogsInv, QueriesInv,
         LgMetaArrives \/ LgMetaFails \/ PressButton \/ ToggleMode \/ \E s \in LgSources : ChangeSource(s)
  PROVE  LogsInv'
  <1>1. CASE UNCHANGED <<lgServer, lgWork, lgRows, lgError, lgRun, lgMode>>
    BY <1>1 DEF LogsInv, ServiceOK, lgServer
  <1>2. CASE LgMetaArrives
    <2>1. LgDefault \in Searches
      BY LogsAssumption DEF Searches
    <2>2. \/ RunSearch(LgDefault, "history") /\ UNCHANGED <<lgServer, lgMode>>
          \/ UNCHANGED <<lgServer, lgWork, lgRows, lgError, lgRun, lgMode>>
      BY <1>2 DEF LgMetaArrives, lgList
    <2> QED
      BY <1>1, <2>1, <2>2, LogsRun
  <1>3. CASE LgMetaFails
    BY <1>1, <1>3 DEF LgMetaFails, lgList
  <1>4. CASE PressButton
    <2>1. lgSearch \in Searches
      BY <1>4 DEF PressButton, QueriesInv
    <2>2. \/ RunSearch(lgSearch, lgMode) /\ UNCHANGED <<lgServer, lgMode>>
          \/ lgWork' = Idle /\ UNCHANGED <<lgServer, lgRows, lgError, lgRun, lgMode>>
      BY <1>4 DEF PressButton, Cleanup, lgList
    <2>3. lgMode \in {"history", "live"}
      BY DEF LogsInv
    <2> QED
      BY <2>1, <2>2, <2>3, LogsRun, LogsStopped
  <1>5. CASE ToggleMode
    <2>1. lgWork' = Idle /\ UNCHANGED <<lgServer, lgRows, lgError, lgRun>> /\ lgMode' \in {"history", "live"}
      BY <1>5 DEF ToggleMode, Cleanup, lgList
    <2> QED
      BY <2>1, LogsStopped
  <1>6. ASSUME NEW s \in LgSources, ChangeSource(s) PROVE LogsInv'
    <2>1. lgWork' = Idle /\ UNCHANGED <<lgServer, lgRows, lgError, lgRun, lgMode>>
      BY <1>6 DEF ChangeSource, Cleanup, lgList
    <2>2. lgMode \in {"history", "live"}
      BY DEF LogsInv
    <2> QED
      BY <2>1, <2>2, LogsStopped
  <1> QED
    BY <1>2, <1>3, <1>4, <1>5, <1>6

LEMMA ListingTyped ==
  ASSUME NEW log \in Seq(Events), NEW ids \in Listings(log) PROVE ids \in Seq(EventIds) /\ Len(ids) <= Len(log)
  <1>1. PICK w \in OldestFirst(log, DOMAIN log) : ids = [i \in DOMAIN w |-> EventId(log[w[Len(w) + 1 - i]])]
    BY DEF Listings
  <1> DEFINE n == Len(w)
             e(i) == EventId(log[w[n + 1 - i]])
  <1>2. n \in Nat /\ n <= Len(log) /\ DOMAIN w = 1 .. n /\ \A i \in 1 .. n : log[w[i]] \in Events
    BY ListingGives
  <1>3. \A i \in 1 .. n : e(i) \in EventIds
    <2>1. ASSUME NEW i \in 1 .. n PROVE n + 1 - i \in 1 .. n
      BY <1>2
    <2> QED
      BY <1>2, <2>1 DEF Events, EventId, EventIds
  <1>4. ids = [i \in 1 .. n |-> ids[i]] /\ \A i \in 1 .. n : ids[i] = e(i)
    BY <1>1, <1>2
  <1> HIDE DEF n, e
  <1>5. ids \in Seq(EventIds)
    BY <1>2, <1>3, <1>4, IsASeq
  <1>6. Len(ids) = n
    <2>1. DOMAIN ids = 1 .. n
      BY <1>4
    <2> QED
      BY <1>2, <1>5, <2>1, LenProperties
  <1> QED
    BY <1>2, <1>5, <1>6

\* The query is handled, and its answer arrives.
LEMMA LogsQuerySteps ==
  ASSUME LogsInv, ButtonInv, NEW f \in lgWork.fetch, LgServeQuery(f) \/ LgQueryArrives(f)
  PROVE  LogsInv'
  <1>1. DOMAIN lgWork = WorkFields /\ lgWork.fetch = {f} /\ lgWork.tail = NoTail /\ lgWork # Idle
    BY IdleIsWork DEF ButtonInv, WorkShape
  <1>2. FetchOK(f, lgRun) /\ lgRun \in Searches /\ lgRun[1] \in LgSources
    BY DEF LogsInv, WorkOK, FetchOK, Searches
  <1>3. /\ lgLog[lgRun[1]] \in Seq(Events) /\ Len(lgLog[lgRun[1]]) \in Nat /\ Len(lgLog[lgRun[1]]) <= LgMaxLog
        /\ lgCursor[lgRun[1]] \in Times
    BY <1>2, LenProperties DEF LogsInv, ServiceOK
  <1>4. UNCHANGED <<lgServer, lgMode, lgRun>>
    BY DEF LgServeQuery, LgQueryArrives
  <1>5. LiveSeen(lgRows, lgWork.seen)
    BY <1>1 DEF LogsInv, ListOK
  <1>6. CASE LgServeQuery(f)
    <2>1. PICK ans \in {Failed} \cup {Value(ids) : ids \in Listings(lgLog[f.search[1]])} :
            lgWork' = [lgWork EXCEPT !.fetch = (lgWork.fetch \ {f}) \cup {[f EXCEPT !.ans = ans]}]
      BY <1>6 DEF LgServeQuery
    <2> DEFINE g == [f EXCEPT !.ans = ans]
    <2>2. FetchOK(g, lgRun)
      <3>1. f.search = lgRun
        BY <1>2 DEF FetchOK
      <3>2. ans = Failed \/ \E ids \in Listings(lgLog[lgRun[1]]) : ans = Value(ids)
        BY <3>1
      <3>3. ans \in {Waiting, Failed} \/ \E ids \in Seq(EventIds) : Len(ids) <= LgMaxLog /\ ans = Value(ids)
        <4> DEFINE log == lgLog[lgRun[1]]
        <4>1. log \in Seq(Events) /\ Len(log) \in Nat /\ Len(log) <= LgMaxLog
          BY <1>3
        <4> HIDE DEF log
        <4>2. ASSUME NEW ids \in Listings(log) PROVE ids \in Seq(EventIds) /\ Len(ids) <= LgMaxLog
          <5>1. ids \in Seq(EventIds) /\ Len(ids) <= Len(log)
            BY <4>1, ListingTyped
          <5>2. Len(ids) \in Nat
            BY <5>1, LenProperties
          <5> QED
            BY <4>1, <5>1, <5>2, LogsAssumption
        <4> QED
          BY <3>2, <4>2 DEF log
      <3> HIDE <3>2
      <3> QED
        BY <1>2, <3>3 DEF FetchOK, FetchFields
    <2> HIDE DEF g
    <2>3. lgWork' = [lgWork EXCEPT !.fetch = {g}]
      BY <1>1, <2>1 DEF g
    <2>4. lgWork'.seen = lgWork.seen /\ lgWork'.queue = lgWork.queue /\ lgWork'.fetch = {g} /\ lgWork'.tail = NoTail
      BY <1>1, <2>3 DEF WorkFields
    <2>5. WorkOK(lgWork, lgRun, lgLog, lgCursor)'
      BY <1>4, <2>2, <2>4 DEF LogsInv, WorkOK
    <2>6. UNCHANGED <<lgRows, lgError>>
      BY <1>6 DEF LgServeQuery, lgList
    <2>7. ListOK(lgRows, lgRun, lgWork)'
      BY <1>4, <1>5, <2>4, <2>6 DEF LogsInv, ListOK
    <2> QED
      BY <1>4, <2>5, <2>6, <2>7 DEF LogsInv, ServiceOK, lgServer
  <1>7. CASE LgQueryArrives(f)
    <2> DEFINE t == IF f.mode = "live" /\ f.ans # Failed THEN NewTail(f.search) ELSE lgWork.tail
    <2>1. lgWork' = [lgWork EXCEPT !.fetch = lgWork.fetch \ {f}, !.tail = t]
      BY <1>7 DEF LgQueryArrives
    <2>2. t = NoTail \/ t = NewTail(lgRun)
      BY <1>1, <1>2 DEF FetchOK
    <2> HIDE DEF t
    <2>3. lgWork'.seen = lgWork.seen /\ lgWork'.queue = lgWork.queue /\ lgWork'.fetch = {} /\ lgWork'.tail = t
      BY <1>1, <2>1 DEF WorkFields
    <2>4. FollowOK(NewTail(lgRun), Got(lgWork'), lgRun, lgLog[lgRun[1]], lgCursor[lgRun[1]])
      BY <1>3, FollowBegins
    <2>5. WorkOK(lgWork, lgRun, lgLog, lgCursor)'
      <3>1. /\ lgWork'.seen \subseteq EventIds /\ RowsOf(lgWork'.queue, lgRun)
            /\ lgWork'.tail = NoTail \/ FollowOK(lgWork'.tail, Got(lgWork'), lgRun, lgLog[lgRun[1]], lgCursor[lgRun[1]])
        BY <2>2, <2>3, <2>4 DEF LogsInv, WorkOK
      <3> QED
        BY <1>2, <1>4, <2>3, <3>1 DEF WorkOK, lgServer
    <2>6. lgError' \in BOOLEAN
      BY <1>7 DEF LgQueryArrives
    <2>7. ListOK(lgRows, lgRun, lgWork)'
      <3>1. CASE f.ans = Failed
        <4>1. lgRows' = lgRows
          BY <1>7, <3>1 DEF LgQueryArrives
        <4> QED
          BY <1>4, <1>5, <2>3, <4>1 DEF LogsInv, ListOK
      <3>2. CASE f.ans # Failed
        <4>1. PICK ids \in Seq(EventIds) : Len(ids) <= LgMaxLog /\ f.ans = Value(ids)
          BY <1>2, <1>7, <3>2 DEF LgQueryArrives, FetchOK
        <4> DEFINE n == Len(ids)
                   e(i) == Row(lgRun, ids[i], FALSE)
                   rows == [i \in 1 .. n |-> e(i)]
        <4>4. n \in Nat /\ n <= LgMaxLog /\ DOMAIN ids = 1 .. n
          BY <4>1, LenProperties
        <4>2. lgRows' = rows
          BY <1>2, <1>7, <3>2, <4>1, <4>4 DEF LgQueryArrives, FetchOK, Value
        <4>3. ASSUME NEW i \in 1 .. n PROVE e(i) \in LogRows /\ e(i).search = lgRun /\ e(i).live = FALSE
          <5>1. ids[i] \in EventIds
            BY ElementOfSeq
          <5> QED
            BY <1>2, <5>1 DEF LogRows, Row
        <4> HIDE DEF e, n
        <4>5. DOMAIN rows = 1 .. n /\ rows = [i \in 1 .. n |-> rows[i]] /\ \A i \in 1 .. n : rows[i] = e(i)
          OBVIOUS
        <4> HIDE DEF rows
        <4>6. \A i \in 1 .. n : rows[i] \in LogRows /\ rows[i].search = lgRun /\ rows[i].live = FALSE
          BY <4>3, <4>5
        <4>7. rows \in Seq(LogRows)
          BY <4>4, <4>5, <4>6, IsASeq
        <4>8. Len(rows) = n
          BY <4>4, <4>5, <4>7, LenProperties
        <4>9. RowsOf(rows, lgRun) /\ Once(rows) /\ LiveSeen(rows, lgWork'.seen)
          BY <4>5, <4>6, <4>7 DEF RowsOf, Once, LiveSeen
        <4> QED
          BY <1>4, <4>2, <4>4, <4>8, <4>9 DEF ListOK
      <3> QED
        BY <3>1, <3>2
    <2> QED
      BY <1>4, <2>5, <2>6, <2>7 DEF LogsInv, ServiceOK, lgServer
  <1> QED
    BY <1>6, <1>7

\* The stream moves, or the service does, and nothing else.
LEMMA LogsStream ==
  ASSUME LogsInv, WorkShape(lgWork), lgWork.tail # NoTail, NEW u, TailTo(u), ServiceOK',
         u = NoTail \/ FollowOK(u, Got(lgWork), lgRun, lgLog'[lgRun[1]], lgCursor'[lgRun[1]]),
         UNCHANGED <<lgRows, lgError, lgMode, lgRun>>
  PROVE  LogsInv'
  <1>1. lgWork # Idle
    BY IdleIsWork
  <1>2. lgWork' = [lgWork EXCEPT !.tail = u]
    BY DEF TailTo
  <1>3. lgWork'.seen = lgWork.seen /\ lgWork'.queue = lgWork.queue /\ lgWork'.fetch = lgWork.fetch /\ lgWork'.tail = u
    BY <1>2 DEF WorkShape, WorkFields
  <1>4. Got(lgWork') = Got(lgWork)
    BY <1>3 DEF Got
  <1>5. WorkOK(lgWork, lgRun, lgLog, lgCursor)'
    BY <1>3, <1>4 DEF LogsInv, WorkOK
  <1>6. ListOK(lgRows, lgRun, lgWork)'
    BY <1>1, <1>3 DEF LogsInv, ListOK
  <1> QED
    BY <1>5, <1>6 DEF LogsInv

LEMMA LogsTailSteps ==
  ASSUME LogsInv, ButtonInv, LgConnect \/ LgTick \/ LgBreaks \/ LgCloses PROVE LogsInv'
  <1> DEFINE t == lgTail
             s == lgRun[1]
             log == lgLog[s]
             cur == lgCursor[s]
  <1>1. WorkShape(lgWork) /\ lgWork.tail = t /\ t # NoTail
    <2>1. t.state \in {"connecting", "open"}
      <3>1. CASE LgConnect
        BY <3>1, Zenon DEF LgConnect
      <3>2. CASE LgTick \/ LgBreaks
        BY <3>2 DEF LgTick, LgBreaks
      <3>3. CASE LgCloses
        BY <3>3 DEF LgCloses
      <3> QED
        BY <3>1, <3>2, <3>3
    <2>2. WorkShape(lgWork)
      BY DEF ButtonInv
    <2> QED
      BY <2>1, <2>2, StreamIsNoTail DEF lgTail
  <1>2. DOMAIN t = TailFields /\ t.search = lgRun /\ s \in LgSources /\ FollowOK(t, Got(lgWork), lgRun, log, cur)
    <2>1. DOMAIN t = TailFields
      BY <1>1 DEF WorkShape, TailShape
    <2>2. lgRun \in Searches /\ FollowOK(t, Got(lgWork), lgRun, log, cur)
      BY <1>1 DEF LogsInv, WorkOK
    <2>3. s \in LgSources
      BY <2>2 DEF Searches
    <2> QED
      BY <2>1, <2>2, <2>3 DEF FollowOK, StreamTyped
  <1>3. log \in Seq(Events) /\ cur \in Times
    <2>1. lgLog \in [LgSources -> Seq(Events)] /\ lgCursor \in [LgSources -> Times]
      BY DEF LogsInv, ServiceOK
    <2>2. s \in LgSources
      BY <1>2
    <2> HIDE DEF s
    <2> QED
      BY <2>1, <2>2, Zenon
  <1>4. UNCHANGED <<lgRows, lgError, lgMode, lgRun, lgLog>>
    BY Zenon DEF LgConnect, LgTick, LgBreaks, LgCloses, lgPage, lgList, lgServer
  <1>5. ASSUME NEW c \in Times, lgCursor' = [lgCursor EXCEPT ![s] = c]
        PROVE  ServiceOK' /\ lgCursor'[s] = c
    BY <1>2, <1>4, <1>5 DEF LogsInv, ServiceOK
  <1>6. UNCHANGED lgCursor => ServiceOK'
    BY <1>4 DEF LogsInv, ServiceOK
  <1> HIDE DEF t, log, cur
  <1>7. CASE LgConnect
    <2>1. PICK c \in CursorsOnConnect(log, cur, t.last) :
            /\ lgCursor' = [lgCursor EXCEPT ![s] = c]
            /\ TailTo([t EXCEPT !.state = "open", !.base = IF t.last = 0 THEN c ELSE t.base])
      BY <1>2, <1>7, Zenon DEF LgConnect, t, log, cur
    <2> DEFINE u == [t EXCEPT !.state = "open", !.base = IF t.last = 0 THEN c ELSE t.base]
    <2>2. t.state = "connecting"
      BY <1>7, Zenon DEF LgConnect, t
    <2>3. c \in Times /\ FollowOK(u, Got(lgWork), lgRun, log, c)
      BY <1>2, <1>3, <2>2, FollowConnects, Zenon
    <2>4. TailTo(u)
      BY <2>1
    <2> HIDE DEF u
    <2>5. ServiceOK' /\ lgCursor'[s] = c
      BY <1>5, <2>1, <2>3
    <2>6. FollowOK(u, Got(lgWork), lgRun, lgLog'[s], lgCursor'[s])
      BY <1>4, <2>3, <2>5 DEF log
    <2> QED
      BY <1>1, <1>4, <2>4, <2>5, <2>6, LogsStream
  <1>8. CASE LgTick
    <2>0. t.state = "open" /\ Since(log, cur) # {}
      BY <1>2, <1>8, Zenon DEF LgTick, t, log, cur
    <2>5. PICK w \in OldestFirst(log, Since(log, cur)) :
            /\ lgCursor' = [lgCursor EXCEPT ![s] = log[w[Len(w)]].ts]
            /\ TailTo([t EXCEPT !.wire = t.wire \o [i \in DOMAIN w |-> EventId(log[w[i]])]])
      BY <1>2, <1>8, Zenon DEF LgTick, t, log, cur
    <2> DEFINE c == log[w[Len(w)]].ts
               u == [t EXCEPT !.wire = t.wire \o [i \in DOMAIN w |-> EventId(log[w[i]])]]
    <2>1. lgCursor' = [lgCursor EXCEPT ![s] = c] /\ TailTo(u)
      BY <2>5
    <2>2. c \in Times /\ FollowOK(u, Got(lgWork), lgRun, log, c)
      BY <1>2, <1>3, <2>0, FollowTicks
    <2> HIDE DEF u, c
    <2>3. ServiceOK' /\ lgCursor'[s] = c
      BY <1>5, <2>1, <2>2
    <2>4. FollowOK(u, Got(lgWork), lgRun, lgLog'[s], lgCursor'[s])
      BY <1>4, <2>2, <2>3 DEF log
    <2> QED
      BY <1>1, <1>4, <2>1, <2>3, <2>4, LogsStream
  <1>9. CASE LgBreaks
    <2> DEFINE sure == t.sure /\ t.last # 0 /\ \A i \in DOMAIN t.wire : t.wire[i][1] # t.last
               u == [t EXCEPT !.state = "connecting", !.wire = <<>>, !.sure = sure]
    <2>1. t.state = "open" /\ UNCHANGED lgCursor /\ TailTo(u)
      BY <1>9, Zenon DEF LgBreaks, t, lgServer
    <2>2. FollowOK(u, Got(lgWork), lgRun, log, cur)
      <3>1. sure \in BOOLEAN /\ (sure => t.sure /\ t.last # 0 /\ \A i \in DOMAIN t.wire : t.wire[i][1] # t.last)
        BY <1>2 DEF FollowOK, StreamTyped
      <3> HIDE DEF sure
      <3> QED
        BY <1>2, <1>3, <2>1, <3>1, FollowBreaks, Zenon
    <2> HIDE DEF u, sure
    <2>3. FollowOK(u, Got(lgWork), lgRun, lgLog'[s], lgCursor'[s])
      BY <1>4, <2>1, <2>2 DEF log, cur
    <2> QED
      BY <1>1, <1>4, <1>6, <2>1, <2>3, LogsStream
  <1>10. CASE LgCloses
    <2>1. UNCHANGED lgCursor /\ TailTo(NoTail)
      BY <1>10 DEF LgCloses, lgServer
    <2> QED
      BY <1>1, <1>4, <1>6, <2>1, LogsStream
  <1> QED
    BY <1>7, <1>8, <1>9, <1>10

\* The source gets an event, one of its jobs grows, or another tail moves its cursor.
LEMMA LogGrows ==
  ASSUME NEW log \in Seq(Events), NEW cur \in Times, NEW ts \in 1 .. LgMaxTime, NEW msg \in LgMessages
  PROVE  LET more == Append(log, Event(ts, msg, ts <= cur))
         IN  /\ more \in Seq(Events) /\ Len(more) = Len(log) + 1
             /\ \A k \in DOMAIN more : \/ k \in DOMAIN log /\ more[k] = log[k]
                                       \/ more[k].late
                                       \/ more[k].ts \in Nat /\ more[k].ts > cur
  <1> DEFINE late == ts <= cur
             e == Event(ts, msg, late)
             more == Append(log, e)
  <1>1. late \in BOOLEAN /\ (late \/ ts > cur)
    BY DEF Times
  <1> HIDE DEF late
  <1>2. e \in Events /\ (e.late \/ (e.ts \in Nat /\ e.ts > cur))
    BY <1>1 DEF Event, Events
  <1>3. Len(log) \in Nat /\ DOMAIN log = 1 .. Len(log)
    BY LenProperties
  <1>4. e.late \/ (e.ts \in Nat /\ e.ts > cur)
    BY <1>2
  <1> HIDE DEF e
  <1>5. /\ more \in Seq(Events) /\ Len(more) = Len(log) + 1 /\ more[Len(log) + 1] = e
        /\ \A k \in 1 .. Len(log) : more[k] = log[k]
    BY <1>2, AppendProperties
  <1> HIDE DEF more
  <1>6. \A k \in DOMAIN more : k \in 1 .. Len(log) \/ k = Len(log) + 1
    BY <1>3, <1>5, LenProperties
  <1> QED
    BY <1>3, <1>4, <1>5, <1>6 DEF more, e, late

LEMMA JobGrows ==
  ASSUME NEW log \in Seq(Events), NEW cur \in Times, NEW n \in DOMAIN log, NEW msg \in LgMessages
  PROVE  LET more == [log EXCEPT ![n] = Event(log[n].ts, msg, log[n].late \/ log[n].ts <= cur)]
         IN  /\ more \in Seq(Events) /\ Len(more) = Len(log)
             /\ \A k \in DOMAIN more : \/ k \in DOMAIN log /\ more[k] = log[k]
                                       \/ more[k].late
                                       \/ more[k].ts \in Nat /\ more[k].ts > cur
  <1> DEFINE ts == log[n].ts
             late == log[n].late \/ ts <= cur
             e == Event(ts, msg, late)
             more == [log EXCEPT ![n] = e]
  <1>1. Len(log) \in Nat /\ DOMAIN log = 1 .. Len(log) /\ log[n] \in Events
    BY LenProperties, ElementOfSeq
  <1>2. ts \in 1 .. LgMaxTime /\ log[n].late \in BOOLEAN
    BY <1>1 DEF Events
  <1>3. late \in BOOLEAN /\ (late \/ ts > cur)
    BY <1>2 DEF Times
  <1> HIDE DEF late, ts
  <1>4. e \in Events /\ (e.late \/ (e.ts \in Nat /\ e.ts > cur))
    BY <1>2, <1>3 DEF Event, Events
  <1> HIDE DEF e
  <1>5. more \in Seq(Events) /\ Len(more) = Len(log) /\ DOMAIN more = DOMAIN log
    BY <1>1, <1>4, ExceptSeq
  <1>6. \A k \in DOMAIN log : more[k] = IF k = n THEN e ELSE log[k]
    OBVIOUS
  <1> HIDE DEF more
  <1> QED
    BY <1>4, <1>5, <1>6 DEF more, e, late, ts

LEMMA LogsServiceSteps ==
  ASSUME LogsInv, ButtonInv, NEW s \in LgSources, LgAppend(s) \/ LgJobGrows(s) \/ LgOtherTail(s) PROVE LogsInv'
  <1> DEFINE t == lgWork.tail
             r == lgRun[1]
  <1>1. UNCHANGED <<lgRows, lgError, lgMode, lgRun>>
    BY DEF LgAppend, LgJobGrows, LgOtherTail, lgPage, lgList
  <1>2. t # NoTail => /\ DOMAIN t = TailFields /\ t.search = lgRun /\ r \in LgSources /\ lgRun \in Searches
                      /\ FollowOK(t, Got(lgWork), lgRun, lgLog[r], lgCursor[r])
    BY DEF ButtonInv, WorkShape, TailShape, LogsInv, WorkOK, FollowOK, StreamTyped, Searches
  <1>3. /\ lgLog \in [LgSources -> Seq(Events)] /\ lgCursor \in [LgSources -> Times]
        /\ \A x \in LgSources : Len(lgLog[x]) \in Nat /\ Len(lgLog[x]) <= LgMaxLog
    BY LenProperties DEF LogsInv, ServiceOK
  <1>4. ASSUME ServiceOK', UNCHANGED lgWork, t # NoTail => FollowOK(t, Got(lgWork), lgRun, lgLog'[r], lgCursor'[r])
        PROVE  LogsInv'
    <2>1. WorkOK(lgWork, lgRun, lgLog, lgCursor)'
      <3>1. WorkOK(lgWork, lgRun, lgLog, lgCursor)
        BY DEF LogsInv
      <3> QED
        BY <1>1, <1>4, <3>1 DEF WorkOK
    <2>2. ListOK(lgRows, lgRun, lgWork)'
      BY <1>1, <1>4 DEF LogsInv
    <2> QED
      BY <1>1, <1>4, <2>1, <2>2 DEF LogsInv
  <1> HIDE DEF t
  <1>5. ASSUME NEW more \in Seq(Events), Len(more) <= LgMaxLog, lgLog' = [lgLog EXCEPT ![s] = more],
               UNCHANGED <<lgCursor, lgWork>>,
               \A k \in DOMAIN more : \/ k \in DOMAIN lgLog[s] /\ more[k] = lgLog[s][k]
                                      \/ more[k].late
                                      \/ more[k].ts \in Nat /\ more[k].ts > lgCursor[s]
        PROVE  LogsInv'
    <2>1. ServiceOK'
      BY <1>3, <1>5 DEF ServiceOK
    <2>2. ASSUME t # NoTail PROVE FollowOK(t, Got(lgWork), lgRun, lgLog'[r], lgCursor'[r])
      <3>1. r \in LgSources /\ lgCursor[r] \in Times /\ FollowOK(t, Got(lgWork), lgRun, lgLog[r], lgCursor[r])
        BY <1>2, <1>3, <2>2
      <3> HIDE DEF r
      <3>2. CASE r = s
        <4>1. FollowOK(t, Got(lgWork), lgRun, more, lgCursor[r])
          BY <1>5, <3>1, <3>2, FollowLog
        <4> QED
          BY <1>3, <1>5, <3>2, <4>1
      <3>3. CASE r # s
        BY <1>3, <1>5, <3>1, <3>3
      <3> QED
        BY <3>2, <3>3
    <2> QED
      BY <1>4, <1>5, <2>1, <2>2
  <1>7. lgLog[s] \in Seq(Events) /\ lgCursor[s] \in Times /\ Len(lgLog[s]) \in Nat /\ Len(lgLog[s]) <= LgMaxLog
    BY <1>3
  <1>8. CASE LgAppend(s)
    <2>1. PICK ts \in 1 .. LgMaxTime, msg \in LgMessages :
            lgLog' = [lgLog EXCEPT ![s] = Append(lgLog[s], Event(ts, msg, ts <= lgCursor[s]))]
      BY <1>8 DEF LgAppend
    <2>2. UNCHANGED <<lgCursor, lgWork>> /\ Len(lgLog[s]) < LgMaxLog
      BY <1>8 DEF LgAppend
    <2> DEFINE more == Append(lgLog[s], Event(ts, msg, ts <= lgCursor[s]))
    <2>3. /\ more \in Seq(Events) /\ Len(more) = Len(lgLog[s]) + 1
          /\ \A k \in DOMAIN more : \/ k \in DOMAIN lgLog[s] /\ more[k] = lgLog[s][k]
                                    \/ more[k].late
                                    \/ more[k].ts \in Nat /\ more[k].ts > lgCursor[s]
      BY <1>7, LogGrows
    <2> HIDE DEF more
    <2>4. Len(more) <= LgMaxLog
      BY <1>7, <2>2, <2>3, LogsAssumption
    <2>5. lgLog' = [lgLog EXCEPT ![s] = more]
      BY <2>1 DEF more
    <2> QED
      BY <1>5, <2>2, <2>3, <2>4, <2>5
  <1>9. CASE LgJobGrows(s)
    <2>1. PICK n \in DOMAIN lgLog[s], msg \in LgMessages :
            lgLog' = [lgLog EXCEPT ![s][n] = Event(lgLog[s][n].ts, msg, lgLog[s][n].late \/ lgLog[s][n].ts <= lgCursor[s])]
      BY <1>9 DEF LgJobGrows
    <2>2. UNCHANGED <<lgCursor, lgWork>>
      BY <1>9 DEF LgJobGrows
    <2> DEFINE more == [lgLog[s] EXCEPT ![n] = Event(lgLog[s][n].ts, msg, lgLog[s][n].late \/ lgLog[s][n].ts <= lgCursor[s])]
    <2>3. /\ more \in Seq(Events) /\ Len(more) = Len(lgLog[s])
          /\ \A k \in DOMAIN more : \/ k \in DOMAIN lgLog[s] /\ more[k] = lgLog[s][k]
                                    \/ more[k].late
                                    \/ more[k].ts \in Nat /\ more[k].ts > lgCursor[s]
      BY <1>7, JobGrows
    <2>4. lgLog' = [lgLog EXCEPT ![s] = more]
      BY <2>1
    <2> HIDE DEF more
    <2> QED
      BY <1>5, <1>7, <2>2, <2>3, <2>4
  <1>6. CASE LgOtherTail(s)
    <2>1. PICK c \in Times : lgCursor' = [lgCursor EXCEPT ![s] = c]
      BY <1>6 DEF LgOtherTail, Times
    <2>2. UNCHANGED lgLog
      BY <1>6 DEF LgOtherTail
    <2>3. ServiceOK'
      BY <1>3, <2>1, <2>2 DEF ServiceOK
    <2>4. CASE t # NoTail /\ r = s
      <3> DEFINE u == [t EXCEPT !.sure = FALSE]
      <3>1. TailTo(u)
        BY <1>2, <1>6, <2>4 DEF LgOtherTail, lgTail, t
      <3>3. FollowOK(u, Got(lgWork), lgRun, lgLog[r], lgCursor'[r])
        BY <1>2, <2>4, FollowUnsure
      <3> HIDE DEF u
      <3>4. WorkShape(lgWork) /\ lgWork.tail # NoTail
        BY <2>4 DEF ButtonInv, t
      <3> QED
        BY <1>1, <2>2, <2>3, <3>1, <3>3, <3>4, LogsStream
    <2>5. CASE ~(t # NoTail /\ r = s)
      <3>1. UNCHANGED lgWork
        BY <1>2, <1>6, <2>5 DEF LgOtherTail, lgTail, t
      <3>2. t # NoTail => lgCursor'[r] = lgCursor[r]
        BY <1>2, <1>3, <2>1, <2>5
      <3>3. t # NoTail => FollowOK(t, Got(lgWork), lgRun, lgLog'[r], lgCursor'[r])
        BY <1>2, <2>2, <3>2
      <3> QED
        BY <1>4, <2>3, <3>1, <3>3
    <2> QED
      BY <2>4, <2>5
  <1> QED
    BY <1>6, <1>8, <1>9

\* The next event of the stream goes into the queue.
LEMMA LogsMessageStep ==
  ASSUME LogsInv, ButtonInv, LgMessage PROVE LogsInv'
  <1> DEFINE t == lgTail
             h == Head(t.wire)
             u == [t EXCEPT !.wire = Tail(t.wire), !.last = h[1]]
             e == Row(t.search, h, TRUE)
             s == lgRun[1]
             log == lgLog[s]
             cur == lgCursor[s]
             q == lgWork.queue
  <1>1. t.state = "open" /\ t.wire # <<>> /\ lgWork' = [lgWork EXCEPT !.tail = u, !.queue = Append(q, e)]
    BY DEF LgMessage
  <1>2. UNCHANGED <<lgServer, lgRows, lgError, lgMode, lgRun>>
    BY DEF LgMessage, lgPage, lgList
  <1>3. WorkShape(lgWork) /\ lgWork.tail = t /\ t # NoTail
    BY <1>1, StreamIsNoTail DEF ButtonInv, lgTail
  <1>4. DOMAIN t = TailFields /\ lgRun \in Searches /\ s \in LgSources /\ FollowOK(t, Got(lgWork), lgRun, log, cur)
    <2>1. DOMAIN t = TailFields
      BY <1>3 DEF WorkShape, TailShape
    <2>2. lgRun \in Searches /\ FollowOK(t, Got(lgWork), lgRun, log, cur)
      BY <1>3 DEF LogsInv, WorkOK
    <2> QED
      BY <2>1, <2>2 DEF Searches
  <1>5. cur \in Times
    BY <1>4 DEF LogsInv, ServiceOK
  <1> HIDE DEF t, log, cur
  <1>6. h \in EventIds /\ FollowOK(u, Got(lgWork) \cup {h}, lgRun, log, cur)
    BY <1>1, <1>4, <1>5, FollowTakes, Zenon
  <1>7. e \in LogRows /\ e.search = lgRun /\ e.id = h
    <2>1. t.search = lgRun
      BY <1>4 DEF FollowOK, StreamTyped
    <2> HIDE DEF h
    <2> QED
      BY <1>4, <1>6, <2>1 DEF LogRows, Row
  <1>8. RowsOf(q, lgRun)
    BY DEF LogsInv, WorkOK
  <1> HIDE DEF h, u, e
  <1>9. lgWork'.seen = lgWork.seen /\ lgWork'.queue = Append(q, e) /\ lgWork'.fetch = lgWork.fetch /\ lgWork'.tail = u
    BY <1>1, <1>3 DEF WorkShape, WorkFields
  <1> HIDE DEF q
  <1>10. Len(q) \in Nat /\ q \in Seq(LogRows) /\ DOMAIN q = 1 .. Len(q)
    BY <1>8, LenProperties DEF RowsOf
  <1>11. /\ Append(q, e) \in Seq(LogRows) /\ Len(Append(q, e)) = Len(q) + 1
         /\ \A i \in 1 .. Len(q) : Append(q, e)[i] = q[i]
         /\ Append(q, e)[Len(q) + 1] = e
    BY <1>7, <1>10, AppendProperties
  <1>12. DOMAIN Append(q, e) = DOMAIN q \cup {Len(q) + 1}
    BY <1>10, <1>11, LenProperties
  <1>13. RowsOf(Append(q, e), lgRun)
    BY <1>7, <1>8, <1>10, <1>11, <1>12 DEF RowsOf
  <1>14. KeysOf(Append(q, e)) = KeysOf(q) \cup {h}
    BY <1>7, <1>10, <1>11, <1>12 DEF KeysOf
  <1>15. Got(lgWork') = Got(lgWork) \cup {h}
    BY <1>9, <1>14 DEF Got, q
  <1>16. WorkOK(lgWork, lgRun, lgLog, lgCursor)'
    <2>1. /\ lgWork'.seen \subseteq EventIds
          /\ \A f \in lgWork'.fetch : FetchOK(f, lgRun)
      BY <1>9 DEF LogsInv, WorkOK
    <2>2. RowsOf(lgWork'.queue, lgRun) /\ FollowOK(lgWork'.tail, Got(lgWork'), lgRun, lgLog[s], lgCursor[s])
      BY <1>6, <1>9, <1>13, <1>15 DEF log, cur
    <2> QED
      BY <1>2, <1>4, <2>1, <2>2 DEF WorkOK, lgServer
  <1>17. ListOK(lgRows, lgRun, lgWork)'
    <2>1. lgWork # Idle
      BY <1>3, IdleIsWork
    <2> QED
      BY <1>2, <1>9, <2>1 DEF LogsInv, ListOK
  <1> QED
    BY <1>2, <1>16, <1>17 DEF LogsInv, ServiceOK, lgServer

\* A frame: what was accepted goes on top of the rows, and the list is cut.
LEMMA FrameList ==
  ASSUME NEW run, NEW seen, NEW queue, RowsOf(queue, run), NEW rows, RowsOf(rows, run), Once(rows), LiveSeen(rows, seen)
  PROVE  LET after == Top(Accepted(queue, seen) \o rows)
         IN  /\ RowsOf(after, run) /\ Once(after) /\ Len(after) <= LgMaxRows
             /\ LiveSeen(after, seen \cup KeysOf(queue))
  <1> DEFINE new == Accepted(queue, seen)
             all == new \o rows
             after == Top(all)
             more == seen \cup KeysOf(queue)
             m == Len(new)
  <1>1. TakenOK(new, Len(queue), LogRows, queue, seen)
    BY AcceptedGives DEF RowsOf
  <1> HIDE DEF new
  <1>2. queue \in Seq(LogRows) /\ Len(queue) \in Nat /\ DOMAIN queue = 1 .. Len(queue)
    BY LenProperties DEF RowsOf
  <1>3. new \in Seq(LogRows) /\ m \in Nat /\ DOMAIN new = 1 .. m
    BY <1>1, LenProperties DEF TakenOK
  <1>4. rows \in Seq(LogRows) /\ Len(rows) \in Nat /\ DOMAIN rows = 1 .. Len(rows)
    BY LenProperties DEF RowsOf
  <1>5. \A i \in 1 .. m : new[i].search = run /\ new[i].id \notin seen /\ new[i].id \in more
    BY <1>1, <1>2 DEF TakenOK, RowsOf, KeysOf
  <1>6. \A i, j \in 1 .. m : i # j => new[i].id # new[j].id
    BY <1>1 DEF TakenOK
  <1>7. /\ all \in Seq(LogRows) /\ Len(all) = m + Len(rows)
        /\ \A i \in 1 .. m + Len(rows) : all[i] = IF i <= m THEN new[i] ELSE rows[i - m]
    BY <1>3, <1>4, ConcatProperties
  <1> HIDE DEF all, m
  <1>8. ASSUME NEW i \in 1 .. Len(all)
        PROVE  (i \in 1 .. m /\ all[i] = new[i]) \/ (i - m \in DOMAIN rows /\ all[i] = rows[i - m])
    <2>1. CASE i <= m
      BY <1>3, <1>4, <1>7, <2>1
    <2>2. CASE ~(i <= m)
      <3>1. i - m \in 1 .. Len(rows)
        BY <1>3, <1>4, <1>7, <2>2
      <3> QED
        BY <1>4, <1>7, <2>2, <3>1
    <2> QED
      BY <2>1, <2>2
  <1>9. ASSUME NEW i \in 1 .. Len(all) PROVE all[i].search = run /\ (all[i].live => all[i].id \in more)
    <2>1. \A n \in DOMAIN rows : rows[n].search = run /\ (rows[n].live => rows[n].id \in more)
      BY DEF RowsOf, LiveSeen
    <2> HIDE DEF more
    <2> QED
      BY <1>5, <1>8, <2>1
  <1>10. ASSUME NEW i \in 1 .. Len(all), NEW j \in 1 .. Len(all), i # j, all[i].live, all[j].live
         PROVE  all[i].id # all[j].id
    <2>1. \A n \in DOMAIN rows : rows[n].live => rows[n].id \in seen
      BY DEF LiveSeen
    <2>2. CASE (i \in 1 .. m /\ all[i] = new[i]) /\ (j \in 1 .. m /\ all[j] = new[j])
      BY <1>6, <1>10, <2>2
    <2>3. CASE (i \in 1 .. m /\ all[i] = new[i]) /\ (j - m \in DOMAIN rows /\ all[j] = rows[j - m])
      BY <1>5, <1>10, <2>1, <2>3
    <2>4. CASE (i - m \in DOMAIN rows /\ all[i] = rows[i - m]) /\ (j \in 1 .. m /\ all[j] = new[j])
      BY <1>5, <1>10, <2>1, <2>4
    <2>5. CASE (i - m \in DOMAIN rows /\ all[i] = rows[i - m]) /\ (j - m \in DOMAIN rows /\ all[j] = rows[j - m])
      <3>1. i - m # j - m
        BY <1>3, <1>10
      <3>2. rows[i - m].live /\ rows[j - m].live
        BY <1>10, <2>5
      <3>3. rows[i - m].id # rows[j - m].id
        BY <2>5, <3>1, <3>2 DEF Once
      <3> QED
        BY <2>5, <3>3
    <2> QED
      BY <1>8, <2>2, <2>3, <2>4, <2>5
  <1>11. /\ after \in Seq(LogRows) /\ Len(after) <= Len(all) /\ Len(after) <= LgMaxRows
         /\ \A i \in 1 .. Len(after) : after[i] = all[i]
    BY <1>7, TopGives
  <1> HIDE DEF after, more
  <1>12. Len(after) \in Nat /\ Len(all) \in Nat /\ DOMAIN after = 1 .. Len(after)
    BY <1>7, <1>11, LenProperties
  <1>13. \A i \in DOMAIN after : i \in 1 .. Len(all) /\ after[i] = all[i]
    BY <1>11, <1>12
  <1>14. RowsOf(after, run)
    BY <1>9, <1>11, <1>13 DEF RowsOf
  <1>15. LiveSeen(after, more)
    BY <1>9, <1>13 DEF LiveSeen
  <1>16. Once(after)
    BY <1>10, <1>13 DEF Once
  <1> QED
    BY <1>11, <1>14, <1>15, <1>16 DEF after, all, new, more

LEMMA LogsFrameStep ==
  ASSUME LogsInv, ButtonInv, FlushLiveQueue PROVE LogsInv'
  <1> DEFINE q == lgWork.queue
             more == lgWork.seen \cup KeysOf(q)
  <1>1. /\ q # <<>> /\ lgRows' = Top(Accepted(q, lgWork.seen) \o lgRows)
        /\ lgWork' = [lgWork EXCEPT !.queue = <<>>, !.seen = more]
    BY DEF FlushLiveQueue, KeysOf
  <1>2. UNCHANGED <<lgServer, lgError, lgMode, lgRun>>
    BY DEF FlushLiveQueue, lgPage
  <1>3. lgWork # Idle
    BY <1>1 DEF Idle
  <1>4. RowsOf(q, lgRun) /\ RowsOf(lgRows, lgRun) /\ Once(lgRows) /\ LiveSeen(lgRows, lgWork.seen)
    BY <1>3 DEF LogsInv, WorkOK, ListOK
  <1>5. RowsOf(lgRows', lgRun) /\ Once(lgRows') /\ Len(lgRows') <= LgMaxRows /\ LiveSeen(lgRows', more)
    BY <1>1, <1>4, FrameList
  <1>6. more \subseteq EventIds
    <2>1. \A i \in DOMAIN q : q[i] \in LogRows
      BY <1>4, LenProperties, ElementOfSeq DEF RowsOf
    <2>2. \A i \in DOMAIN q : q[i].id \in EventIds
      BY <2>1 DEF LogRows
    <2> QED
      BY <2>2 DEF LogsInv, WorkOK, KeysOf
  <1>7. Got(lgWork) = more
    BY DEF Got
  <1> HIDE DEF more
  <1>8. lgWork'.seen = more /\ lgWork'.queue = <<>> /\ lgWork'.fetch = lgWork.fetch /\ lgWork'.tail = lgWork.tail
    BY <1>1 DEF ButtonInv, WorkShape, WorkFields
  <1>9. Got(lgWork') = more
    <2>1. DOMAIN <<>> = {}
      BY EmptySeq
    <2> QED
      BY <1>8, <2>1 DEF Got, KeysOf
  <1>10. WorkOK(lgWork, lgRun, lgLog, lgCursor)'
    <2>1. /\ \A f \in lgWork'.fetch : FetchOK(f, lgRun)
          /\ lgWork'.tail = NoTail
             \/ (lgRun \in Searches /\ FollowOK(lgWork'.tail, Got(lgWork'), lgRun, lgLog[lgRun[1]], lgCursor[lgRun[1]]))
      BY <1>7, <1>8, <1>9 DEF LogsInv, WorkOK
    <2>2. lgWork'.seen \subseteq EventIds /\ RowsOf(lgWork'.queue, lgRun)
      BY <1>6, <1>8, NoRowsOK
    <2> QED
      BY <1>2, <2>1, <2>2 DEF WorkOK, lgServer
  <1>11. ListOK(lgRows, lgRun, lgWork)'
    BY <1>2, <1>5, <1>8 DEF ListOK
  <1> QED
    BY <1>2, <1>10, <1>11 DEF LogsInv, ServiceOK, lgServer

LEMMA LogsInit == LgInit => LogsInv
  <1> SUFFICES ASSUME LgInit PROVE LogsInv
    OBVIOUS
  <1>1. ServiceOK
    <2> DEFINE e == Event(1, CHOOSE m \in LgMessages : TRUE, FALSE)
    <2>1. e \in Events
      BY LogsAssumption DEF Event, Events
    <2>2. lgLog = [s \in LgSources |-> <<e>>] /\ lgCursor = [s \in LgSources |-> 0]
      BY DEF LgInit
    <2> HIDE DEF e
    <2>3. <<e>> \in Seq(Events) /\ Len(<<e>>) = 1
      BY <2>1
    <2> QED
      BY <2>2, <2>3, LogsAssumption DEF ServiceOK, Times
  <1>2. ListOK(lgRows, lgRun, lgWork) /\ WorkOK(lgWork, lgRun, lgLog, lgCursor)
    BY NoRowsOK, IdleOK DEF LgInit
  <1> QED
    BY <1>1, <1>2 DEF LgInit, LogsInv

LEMMA LogsNext == LogsInv /\ ButtonInv /\ QueriesInv /\ [LgNext]_lgVars => LogsInv'
  <1> SUFFICES ASSUME LogsInv, ButtonInv, QueriesInv, [LgNext]_lgVars PROVE LogsInv'
    OBVIOUS
  <1>1. CASE UNCHANGED <<lgLog, lgCursor, lgMode, lgWork, lgRows, lgError, lgRun>>
    BY <1>1 DEF LogsInv, ServiceOK
  <1>2. CASE LgMetaArrives \/ LgMetaFails \/ PressButton \/ ToggleMode \/ \E s \in LgSources : ChangeSource(s)
    BY <1>2, LogsPageSteps
  <1>3. CASE \E f \in lgWork.fetch : LgServeQuery(f) \/ LgQueryArrives(f)
    BY <1>3, LogsQuerySteps
  <1>4. CASE LgConnect \/ LgTick \/ LgMessage \/ LgBreaks \/ LgCloses \/ FlushLiveQueue
    BY <1>4, LogsTailSteps, LogsMessageStep, LogsFrameStep
  <1>5. ASSUME NEW s \in LgSources, LgAppend(s) \/ LgJobGrows(s) \/ LgOtherTail(s) PROVE LogsInv'
    BY <1>5, LogsServiceSteps
  <1>6. ASSUME NEW x, ChangeQuery(x) \/ SaveAs(x) \/ CommitRename(x) \/ LoadSaved(x) \/ HandleDelete(x)
        PROVE  LogsInv'
    BY <1>1, <1>6 DEF ChangeQuery, SaveAs, CommitRename, LoadSaved, HandleDelete, lgPane, lgServer, lgList
  <1>7. ASSUME NEW x, LgServeSaved(x) \/ LgSavedLost(x) \/ LgSavedArrives(x) PROVE LogsInv'
    BY <1>1, <1>7 DEF LgServeSaved, LgSavedLost, LgSavedArrives, lgPane, lgServer, lgList
  <1>8. ASSUME NEW field, NEW r, LgAskRow(field, r) PROVE LogsInv'
    BY <1>1, <1>8 DEF LgAskRow, lgPane, lgServer, lgList
  <1>9. CASE CloseMenu
    BY <1>1, <1>9 DEF CloseMenu, lgPane, lgServer, lgList
  <1>10. CASE UNCHANGED lgVars
    BY <1>1, <1>10 DEF lgVars
  <1> QED
    BY <1>2, <1>3, <1>4, <1>5, <1>6, <1>7, <1>8, <1>9, <1>10 DEF LgNext

\* The variables of the Logs page have their types.
LEMMA LogsTyped == ButtonInv /\ QueriesInv /\ LogsInv => LgTypeOK
  <1> SUFFICES ASSUME ButtonInv, QueriesInv, LogsInv PROVE LgTypeOK
    OBVIOUS
  <1>1. \A s \in LgSources : /\ lgLog[s] \in Seq(Events)
                             /\ Len(lgLog[s]) <= LgMaxLog /\ lgCursor[s] \in 0 .. LgMaxTime
    BY DEF LogsInv, ServiceOK, Times
  <1>2. \A i \in DOMAIN lgRows : lgRows[i].id \in EventIds
    <2>1. \A i \in DOMAIN lgRows : lgRows[i] \in LogRows
      BY LenProperties, ElementOfSeq DEF LogsInv, ListOK, RowsOf
    <2> QED
      BY <2>1 DEF LogRows
  <1>3. Len(lgRows) <= IF LgMaxRows > LgMaxLog THEN LgMaxRows ELSE LgMaxLog
    <2>1. Len(lgRows) \in Nat /\ (Len(lgRows) <= LgMaxRows \/ Len(lgRows) <= LgMaxLog)
      BY LenProperties DEF LogsInv, ListOK, RowsOf
    <2> QED
      BY <2>1, LogsAssumption
  <1>4. lgWork.seen \subseteq EventIds /\ lgMode \in {"history", "live"} /\ lgError \in BOOLEAN
    BY DEF LogsInv, WorkOK
  <1>5. /\ lgRunning \in BOOLEAN /\ lgSearch \in {NoSearch} \cup (LgSources \X LgQueries)
        /\ \A r \in lgSaved \cup lgShownSaved : r.id \in 1 .. lgSavedIds /\ r.name \in LgNames
    BY DEF ButtonInv, QueriesInv, QueriesOK, DraftOK, Searches
  <1> QED
    BY <1>1, <1>2, <1>3, <1>4, <1>5 DEF LgTypeOK, Events

\* In the panel a live tail shows no id twice, and one that nobody else's tail
\* interfered with, and whose broken connections lost nothing of the second of the
\* last event seen, has passed over nothing that was stored before the cursor went
\* past its time: for any sources, queries, timestamps and messages, however the
\* connection breaks, the service ticks, jobs grow and the frames fall.
THEOREM PanelTailIsExact == PanelSpec => []TailExact
  <1> DEFINE Inv == ButtonInv /\ SavedInv /\ QueriesInv /\ LogsInv
  <1>1. PanelInit => Inv
    BY ButtonInit, SavedInit, QueriesInit, LogsInit DEF PanelInit
  <1>2. Inv /\ [PanelNext]_panelVars => Inv'
    BY PagesTakeTurns, ButtonNext, SavedNext, QueriesNext, LogsNext
  <1>3. Inv => TailExact
    <2> SUFFICES ASSUME Inv PROVE TailExact
      OBVIOUS
    <2>1. TailRowsOnce
      BY DEF LogsInv, ListOK, Once, TailRowsOnce
    <2> DEFINE s == lgTail.search[1]
               e(k) == lgLog[s][k]
    <2>2. ASSUME lgTail # NoTail, lgTail.state = "open", lgTail.sure,
                 NEW k \in DOMAIN lgLog[s], ~e(k).late, lgTail.base < e(k).ts, e(k).ts <= lgCursor[s]
          PROVE  \/ EventId(e(k)) \in lgWork.seen
                 \/ \E i \in DOMAIN lgWork.queue : lgWork.queue[i].id = EventId(e(k))
                 \/ \E i \in DOMAIN lgTail.wire : lgTail.wire[i] = EventId(e(k))
      <3>1. /\ lgRun \in Searches /\ lgWork.tail = lgTail
            /\ FollowOK(lgTail, Got(lgWork), lgRun, lgLog[lgRun[1]], lgCursor[lgRun[1]])
        BY <2>2 DEF LogsInv, WorkOK, lgTail
      <3>2. s = lgRun[1] /\ lgTail.wire \in Seq(EventIds)
        BY <3>1 DEF FollowOK, StreamTyped
      <3>3. Complete(lgTail.base, lgTail.wire, Got(lgWork), lgLog[s], lgCursor[s])
        BY <2>2, <3>1, <3>2 DEF FollowOK
      <3>4. InTime(e(k), lgTail.base, lgCursor[s])
        BY <2>2 DEF InTime
      <3>5. EventId(e(k)) \in Got(lgWork) \/ \E i \in 1 .. Len(lgTail.wire) : lgTail.wire[i] = EventId(e(k))
        BY <3>3, <3>4 DEF Complete
      <3>6. DOMAIN lgTail.wire = 1 .. Len(lgTail.wire)
        BY <3>2, LenProperties
      <3> QED
        BY <3>5, <3>6 DEF Got, KeysOf
    <2> QED
      BY <2>1, <2>2 DEF TailExact, NothingPassedOver
  <1> QED
    BY <1>1, <1>2, <1>3, PTL DEF PanelSpec

\* In the panel what is on show answers the last request: the directory named above
\* the rows is the one they are of, and no event of an earlier run, stopped, turned
\* or typed over meanwhile, arrives on the list of the next.
THEOREM PanelShowsTheLastRequest == PanelSpec => []RowsOfTheLastRequest
  <1> DEFINE Inv == ListingInv /\ ButtonInv /\ SavedInv /\ QueriesInv /\ LogsInv
  <1>1. PanelInit => Inv
    BY ListingInit, ButtonInit, SavedInit, QueriesInit, LogsInit DEF PanelInit
  <1>2. Inv /\ [PanelNext]_panelVars => Inv'
    BY PagesTakeTurns, ListingNext, ButtonNext, SavedNext, QueriesNext, LogsNext
  <1>3. Inv => RowsOfTheLastRequest
    BY DEF ListingInv, LogsInv, ListOK, RowsOf, RowsOfTheLastRun, RowsOfTheLastRequest
  <1> QED
    BY <1>1, <1>2, <1>3, PTL DEF PanelSpec
-----------------------------------------------------------------------------
(* The types of the Plugins and the Websites page.                         *)

\* Requests in flight are bounded, and a resolve names a source.
PiAsked(calls) ==
    /\ Len(calls) <= PiMaxCalls
    /\ \A i \in DOMAIN calls : calls[i].op = "resolve" => calls[i].src \in PiSources

\* The fields of the dialog hold what can be typed or selected, or nothing.
RefsOK(form) ==
    \/ form = NoForm
    \/ \A m \in PiModes : m \in DOMAIN form.ref /\ form.ref[m] \in PiRefs[m] \cup {NoRef}

\* The inductive invariant, beside ConsentInv and RowsInv.
PiTyped ==
    /\ piRegistry \in [PiVersions -> PiStates]
    /\ \A t \in DOMAIN piTokens : piTokens[t].src \in PiSources
    /\ piHook.deps \in {"registry", "route"}
    /\ RefsOK(piForm)
    /\ PiAsked(piCalls)

\* Whatever an operation comes to, the rows keep a state of the life cycle.
LEMMA OutcomesAreTyped ==
  ASSUME NEW reg \in [PiVersions -> PiStates], NEW op \in PiOps \ {"resolve"}, NEW v, NEW out \in PiOutcomes(reg, op, v)
  PROVE  out.reg \in [PiVersions -> PiStates]
  <1> DEFINE off == [w \in PiVersions |-> IF reg[w] = "enabled" THEN "installed" ELSE reg[w]]
  <1>1. off \in [PiVersions -> PiStates]
    BY DEF PiStates
  <1> HIDE DEF off
  <1> DEFINE R(st, ok) == PiOutcome(reg, v, st, ok)
             F(st, ok) == PiOutcome(off, v, st, ok)
             typed(o) == o.reg \in [PiVersions -> PiStates]
  <1>2. \A st \in PiStates : typed(R(st, TRUE)) /\ typed(R(st, FALSE)) /\ typed(F(st, TRUE)) /\ typed(F(st, FALSE))
    BY <1>1 DEF PiOutcome
  <1>3. \/ out \in {[reg |-> reg, ok |-> FALSE], [reg |-> off, ok |-> TRUE], [reg |-> off, ok |-> FALSE]}
        \/ out \in {R("installed", TRUE), R("install_failed", FALSE), R("enable_failed", FALSE), R("uninstalled", TRUE)}
        \/ out \in {F("enabled", TRUE), F("enable_failed", FALSE)}
        \/ PiEnabled(reg) = {} /\ out = R("enabled", TRUE)
    BY OutcomesAre DEF off
  <1>4. typed([reg |-> reg, ok |-> FALSE]) /\ typed([reg |-> off, ok |-> TRUE]) /\ typed([reg |-> off, ok |-> FALSE])
    BY <1>1
  <1> HIDE DEF R, F, typed
  <1>5. typed(out)
    BY <1>2, <1>3, <1>4 DEF PiStates
  <1> QED
    BY <1>5 DEF typed

\* The requests change, each for itself.
LEMMA AskedKept ==
  ASSUME ConsentInv, ConsentInv', PiAsked(piCalls), DOMAIN piCalls' = DOMAIN piCalls,
         \A i \in DOMAIN piCalls : piCalls'[i].op = piCalls[i].op /\ piCalls'[i].src = piCalls[i].src
  PROVE  PiAsked(piCalls')
  <1>1. PICK S : piCalls \in Seq(S)
    BY DEF ConsentInv, PiCallsOK
  <1>2. PICK T : piCalls' \in Seq(T)
    BY DEF ConsentInv, PiCallsOK
  <1>3. Len(piCalls') = Len(piCalls)
    BY <1>1, <1>2, LenProperties
  <1> QED
    BY <1>3 DEF PiAsked

LEMMA AskedAnswered ==
  ASSUME ConsentInv, ConsentInv', PiAsked(piCalls), NEW i \in DOMAIN piCalls, NEW ans, piCalls' = Answer(piCalls, i, ans)
  PROVE  PiAsked(piCalls')
  <1>1. /\ DOMAIN piCalls' = DOMAIN piCalls
        /\ \A j \in DOMAIN piCalls : piCalls'[j].op = piCalls[j].op /\ piCalls'[j].src = piCalls[j].src
    BY DEF Answer, ConsentInv, PiCallsOK, PiCallOK, PiCallFields
  <1> QED
    BY <1>1, AskedKept

\* The page or the dialog of the requests is gone.
LEMMA AskedOrphans ==
  ASSUME ConsentInv, NEW field \in {"page", "modal"}
  PROVE  LET calls == PiOrphans(field)
         IN  /\ DOMAIN calls = DOMAIN piCalls
             /\ \E S : calls \in Seq(S)
             /\ \A i \in DOMAIN piCalls : calls[i].op = piCalls[i].op /\ calls[i].src = piCalls[i].src
  <1>1. \A i \in DOMAIN piCalls : PiOrphans(field)[i].op = piCalls[i].op /\ PiOrphans(field)[i].src = piCalls[i].src
    BY DEF PiOrphans, ConsentInv, PiCallsOK, PiCallOK, PiCallFields
  <1> QED
    BY <1>1, RowsOrphans

LEMMA AskedForgotten ==
  ASSUME ConsentInv, PiAsked(piCalls), NEW i \in DOMAIN piCalls,
         NEW calls, DOMAIN calls = DOMAIN piCalls, \E S : calls \in Seq(S),
         \A j \in DOMAIN piCalls : calls[j].op = piCalls[j].op /\ calls[j].src = piCalls[j].src
  PROVE  PiAsked(Forget(calls, i))
  <1>1. PICK S : piCalls \in Seq(S)
    BY DEF ConsentInv, PiCallsOK
  <1>2. PICK T : calls \in Seq(T)
    OBVIOUS
  <1>3. Len(calls) = Len(piCalls) /\ Len(calls) \in Nat
    BY <1>1, <1>2, LenProperties
  <1>4. /\ Len(Forget(calls, i)) <= Len(calls) /\ Len(Forget(calls, i)) \in Nat
        /\ \A k \in DOMAIN Forget(calls, i) : \E j \in DOMAIN calls \ {i} : Forget(calls, i)[k] = calls[j]
    BY <1>2, ForgetTakes, LenProperties
  <1> QED
    BY <1>3, <1>4, PluginsAssumption DEF PiAsked

LEMMA AskedSent ==
  ASSUME ConsentInv, PiAsked(piCalls), NEW c, PiCallOK(c, piTokens, piIssued), PiSend(c),
         c.op = "resolve" => c.src \in PiSources
  PROVE  PiAsked(piCalls')
  <1> DEFINE n == Len(piCalls) + 1
  <1>1. /\ DOMAIN piCalls' = DOMAIN piCalls \cup {n}
        /\ \A i \in DOMAIN piCalls : piCalls'[i].op = piCalls[i].op /\ piCalls'[i].src = piCalls[i].src
        /\ piCalls'[n].op = c.op /\ piCalls'[n].src = c.src
        /\ Len(piCalls') <= PiMaxCalls
    BY PiSent DEF ConsentInv
  <1> HIDE DEF n
  <1> QED
    BY <1>1 DEF PiAsked

\* The list, the router, other tabs and the world outside.
LEMMA PiTypedPageSteps ==
  ASSUME PiTyped, ConsentInv, RowsInv, ConsentInv',
         \/ \E view \in {"registry", "route"} : PiNavigate(view)
         \/ PiReload
         \/ \E c \in piHook.calls : PiServeList(c) \/ PiListArrives(c)
         \/ \E op \in {"enable", "switch", "disable", "uninstall"}, v \in PiVersions : PiRowAction(op, v) \/ PiOther(op, v)
         \/ \E ref \in DOMAIN PiUpstream0, art \in PiArtifacts : PiUpstreamMoves(ref, art)
         \/ PiRestart
  PROVE  PiTyped'
  <1>1. HookAlone(piHook) /\ PiAsked(piCalls)
    BY DEF RowsInv, PiListed, PiTyped
  <1>2. ASSUME NEW view \in {"registry", "route"}, PiNavigate(view) PROVE PiTyped'
    <2>1. piHook' = AsyncMount(view) /\ piCalls' = PiOrphans("page") /\ UNCHANGED <<piRegistry, piTokens, piForm>>
      BY <1>2 DEF PiNavigate, piServer
    <2>2. piHook'.deps = view
      BY <2>1 DEF AsyncMount
    <2>3. PiAsked(piCalls')
      BY <1>1, <2>1, AskedOrphans, AskedKept
    <2> QED
      BY <2>1, <2>2, <2>3 DEF PiTyped
  <1>3. CASE PiReload
    <2>1. piHook' = AsyncReload(piHook) /\ UNCHANGED <<piRegistry, piTokens, piForm, piCalls>>
      BY <1>3 DEF PiReload, piServer
    <2>2. piHook'.deps = piHook.deps
      BY <2>1 DEF AsyncReload, AsyncRun
    <2> QED
      BY <2>1, <2>2 DEF PiTyped
  <1>4. ASSUME NEW c, PiServeList(c) \/ PiListArrives(c) PROVE PiTyped'
    <2>1. /\ piHook' = AsyncDeliver(piHook, c) \/ \E res : piHook' = AsyncServe(piHook, c, res)
          /\ UNCHANGED <<piRegistry, piTokens, piForm, piCalls>>
      BY <1>4 DEF PiServeList, PiListArrives, piServer
    <2>2. piHook'.deps = piHook.deps
      BY <1>1, <2>1 DEF HookAlone, AsyncServe, AsyncDeliver
    <2> QED
      BY <2>1, <2>2 DEF PiTyped
  <1>5. ASSUME NEW op \in {"enable", "switch", "disable", "uninstall"}, NEW v, PiRowAction(op, v) PROVE PiTyped'
    <2> DEFINE c == PiCall(op, v, NoSource, 0, NoPlan)
    <2>1. PiSend(c) /\ UNCHANGED <<piRegistry, piTokens, piForm, piHook>>
      BY <1>5 DEF PiRowAction, piServer
    <2>2. PiCallOK(c, piTokens, piIssued) /\ c.op # "resolve"
      BY DEF PiCall, PiCallOK, PiCallFields
    <2> HIDE DEF c
    <2>3. PiAsked(piCalls')
      BY <1>1, <2>1, <2>2, AskedSent
    <2> QED
      BY <2>1, <2>3 DEF PiTyped
  <1>6. ASSUME NEW op \in {"enable", "switch", "disable", "uninstall"}, NEW v, PiOther(op, v) PROVE PiTyped'
    <2>1. PICK out \in PiOutcomes(piRegistry, op, v) : piRegistry' = out.reg
      BY <1>6 DEF PiOther
    <2>2. piRegistry' \in [PiVersions -> PiStates]
      BY <2>1, OutcomesAreTyped DEF PiTyped, PiOps
    <2>3. /\ piCalls' = [i \in DOMAIN piCalls |-> [piCalls[i] EXCEPT !.raced = TRUE]]
          /\ UNCHANGED <<piTokens, piForm, piHook>>
      BY <1>6 DEF PiOther
    <2>4. /\ DOMAIN piCalls' = DOMAIN piCalls
          /\ \A i \in DOMAIN piCalls : piCalls'[i].op = piCalls[i].op /\ piCalls'[i].src = piCalls[i].src
      BY <2>3 DEF ConsentInv, PiCallsOK, PiCallOK, PiCallFields
    <2>5. PiAsked(piCalls')
      BY <1>1, <2>4, AskedKept
    <2> QED
      BY <2>2, <2>3, <2>5 DEF PiTyped
  <1>7. ASSUME NEW ref, NEW art, PiUpstreamMoves(ref, art) PROVE PiTyped'
    BY <1>7 DEF PiUpstreamMoves, PiTyped
  <1>8. CASE PiRestart
    <2>1. piTokens' = <<>> /\ UNCHANGED <<piRegistry, piHook, piForm, piCalls>>
      BY <1>8 DEF PiRestart
    <2>2. DOMAIN piTokens' = {}
      BY <2>1
    <2> QED
      BY <2>1, <2>2 DEF PiTyped
  <1> QED
    BY <1>2, <1>3, <1>4, <1>5, <1>6, <1>7, <1>8

\* A field that is edited is one of the form.
LEMMA RefsEdited ==
  ASSUME NEW form, DOMAIN form = InstallFormFields, RefsOK(form), form # NoForm,
         NEW mode \in PiModes, NEW ref \in PiRefs[mode], NEW new, new.ref = [form.ref EXCEPT ![mode] = ref]
  PROVE  RefsOK(new)
  BY DEF RefsOK

\* The dialog.
LEMMA PiTypedDialogSteps ==
  ASSUME PiTyped, ConsentInv, RowsInv, ConsentInv',
         \/ PiOpenInstall \/ PiCloseInstall \/ PiAcknowledge \/ PiResolve
         \/ \E mode \in LocalModes \cup PiModes : switchMode(mode)
         \/ \E ref \in UNION {PiRefs[m] : m \in PiModes} : PiEdit(ref)
         \/ \E art \in PiArtifacts : PiSubmit(art)
  PROVE  PiTyped'
  <1>1. RefsOK(piForm) /\ PiAsked(piCalls) /\ InstallFormOK(piForm, piTokens, piIssued)
    BY DEF PiTyped, ConsentInv
  <1>2. piForm # NoForm => DOMAIN piForm = InstallFormFields /\ piForm.mode \in LocalModes \cup PiModes
    BY <1>1 DEF InstallFormOK
  <1>3. ASSUME NEW form, PiFormChange(form), RefsOK(form) PROVE PiTyped'
    BY <1>3 DEF PiFormChange, piServer, PiTyped
  <1>4. ASSUME NEW c, PiCallOK(c, piTokens, piIssued), PiSend(c), c.op = "resolve" => c.src \in PiSources,
               UNCHANGED <<piServer, piHook, piForm>>
        PROVE  PiTyped'
    BY <1>1, <1>4, AskedSent DEF piServer, PiTyped
  <1>5. CASE PiOpenInstall
    <2> DEFINE ref == [m \in PiModes |-> NoRef]
               form == [mode |-> "artifact", ref |-> ref, preview |-> NoPlan, ack |-> NoPlan]
    <2>1. piForm' = form /\ UNCHANGED <<piRegistry, piTokens, piHook, piCalls>>
      BY <1>5 DEF PiOpenInstall, piServer
    <2>2. form.ref = ref
      OBVIOUS
    <2> HIDE DEF form
    <2>3. RefsOK(form)
      BY <2>2 DEF RefsOK
    <2> QED
      BY <2>1, <2>3 DEF PiTyped
  <1>6. CASE PiCloseInstall
    <2>1. piForm' = NoForm /\ piCalls' = PiOrphans("modal") /\ UNCHANGED <<piRegistry, piTokens, piHook>>
      BY <1>6 DEF PiCloseInstall, piServer
    <2>2. PiAsked(piCalls')
      BY <1>1, <2>1, AskedOrphans, AskedKept
    <2> QED
      BY <2>1, <2>2 DEF PiTyped, RefsOK
  <1>7. CASE PiAcknowledge
    <2>1. PICK ack : PiFormChange([piForm EXCEPT !.ack = ack])
      BY <1>7 DEF PiAcknowledge
    <2> DEFINE form == [piForm EXCEPT !.ack = ack]
    <2>2. piForm # NoForm
      BY <2>1 DEF PiFormChange
    <2>3. form.ref = piForm.ref
      BY <1>2, <2>2 DEF InstallFormFields
    <2> HIDE DEF form
    <2>4. RefsOK(form)
      BY <1>1, <2>2, <2>3 DEF RefsOK
    <2> QED
      BY <1>3, <2>1, <2>4 DEF form
  <1>8. ASSUME NEW mode, switchMode(mode) PROVE PiTyped'
    <2> DEFINE kept == [m \in PiModes |-> IF m = "catalog" THEN NoRef ELSE piForm.ref[m]]
               form == [mode |-> mode, ref |-> kept, preview |-> NoPlan, ack |-> NoPlan]
    <2>1. piForm # NoForm
      BY <1>8 DEF switchMode, PiFormChange
    <2>2. PiFormChange(form)
      BY <1>8, <2>1, Zenon DEF switchMode
    <2>3. \A m \in PiModes : m \in DOMAIN kept /\ kept[m] \in PiRefs[m] \cup {NoRef}
      BY <1>1, <2>1 DEF RefsOK
    <2> HIDE DEF kept
    <2>4. RefsOK(form)
      BY <2>3 DEF RefsOK
    <2> HIDE DEF form
    <2> QED
      BY <1>3, <2>2, <2>4
  <1>9. ASSUME NEW ref, PiEdit(ref) PROVE PiTyped'
    <2> DEFINE form == [piForm EXCEPT !.ref[piForm.mode] = ref, !.preview = NoPlan,
                                      !.ack = IF piForm.mode = "catalog" THEN NoPlan ELSE @]
    <2>1. PiFormChange(form) /\ piForm # NoForm /\ piForm.mode \in PiModes /\ ref \in PiRefs[piForm.mode]
      BY <1>9, Zenon DEF PiEdit, PiFormChange
    <2>2. form.ref = [piForm.ref EXCEPT ![piForm.mode] = ref]
      BY <1>2, <2>1 DEF InstallFormFields
    <2> HIDE DEF form
    <2>3. RefsOK(form)
      BY <1>1, <1>2, <2>1, <2>2, RefsEdited
    <2> QED
      BY <1>3, <2>1, <2>3
  <1>10. CASE PiResolve
    <2> DEFINE c == PiCall("resolve", "none", PiSource, 0, NoPlan)
    <2>1. PiSend(c) /\ UNCHANGED <<piServer, piForm, piHook>> /\ piForm.mode \in PiModes /\ PiSource[2] # NoRef
      BY <1>10 DEF PiResolve
    <2>2. PiCallOK(c, piTokens, piIssued) /\ c.src = PiSource
      BY DEF PiCall, PiCallOK, PiCallFields
    <2>3. piForm # NoForm
      BY <2>1, PluginsAssumption DEF NoForm
    <2>4. PiSource[2] \in PiRefs[piForm.mode]
      BY <1>1, <2>1, <2>3 DEF RefsOK, PiSource
    <2>5. PiSource \in PiSources
      BY <2>1, <2>4 DEF PiSource, PiSources
    <2> HIDE DEF c
    <2> QED
      BY <1>4, <2>1, <2>2, <2>5
  <1>11. ASSUME NEW art \in PiArtifacts, PiSubmit(art) PROVE PiTyped'
    <2>1. PICK c : PiSend(c) /\ c.op = "install" /\ PiCallOK(c, piTokens, piIssued)
      BY <1>11, SubmitSends
    <2>2. UNCHANGED <<piServer, piForm, piHook>>
      BY <1>11 DEF PiSubmit
    <2> QED
      BY <1>4, <2>1, <2>2
  <1> QED
    BY <1>5, <1>6, <1>7, <1>8, <1>9, <1>10, <1>11

\* The service's answers, and their arrival.
LEMMA PiTypedAnswerSteps ==
  ASSUME PiTyped, ConsentInv, RowsInv, ConsentInv', NEW i \in DOMAIN piCalls,
         \/ PiServeResolve(i) \/ PiServeInstall(i) \/ PiServeRow(i)
         \/ PiCallLost(i) \/ PiCallFails(i) \/ PiResolveArrives(i) \/ PiCallArrives(i)
  PROVE  PiTyped'
  <1> DEFINE c == piCalls[i]
  <1>1. /\ RefsOK(piForm) /\ PiAsked(piCalls) /\ piRegistry \in [PiVersions -> PiStates]
        /\ InstallFormOK(piForm, piTokens, piIssued) /\ PiCallOK(c, piTokens, piIssued) /\ c.op \in PiOps
        /\ \E S : piCalls \in Seq(S)
    BY DEF PiTyped, ConsentInv, RowsInv, PiCallsOK
  <1>2. PiAsked(Forget(piCalls, i)) /\ PiAsked(Forget(PiOrphans("modal"), i))
    BY <1>1, AskedOrphans, AskedForgotten
  <1>3. CASE PiServeResolve(i)
    <2> DEFINE token == piIssued + 1
               plan == [src |-> c.src, art |-> piUpstream[c.src[2]], pinned |-> c.src[2] \in PiPinned, token |-> token]
    <2>1. /\ piTokens' = [t \in DOMAIN piTokens \cup {token} |-> IF t = token THEN plan ELSE piTokens[t]]
          /\ piCalls' = Answer(piCalls, i, Value(plan))
      BY <1>3 DEF PiServeResolve, PiServed
    <2>2. UNCHANGED <<piRegistry, piHook, piForm>> /\ c.op = "resolve"
      BY <1>3 DEF PiServeResolve
    <2>3. plan.src \in PiSources
      BY <1>1, <2>2 DEF PiAsked
    <2> HIDE DEF plan
    <2>4. \A t \in DOMAIN piTokens' : piTokens'[t].src \in PiSources
      BY <2>1, <2>3 DEF PiTyped
    <2>5. PiAsked(piCalls')
      BY <1>1, <2>1, AskedAnswered
    <2> QED
      BY <2>2, <2>4, <2>5 DEF PiTyped
  <1>4. CASE PiServeInstall(i)
    <2>1. piTokens' = [u \in DOMAIN piTokens \ {c.token} |-> piTokens[u]] /\ UNCHANGED <<piForm, piHook>>
      BY <1>4, Zenon DEF PiServeInstall, Consume
    <2>2. PICK ans : piCalls' = Answer(piCalls, i, ans)
      BY <1>4, Zenon DEF PiServeInstall, PiServed
    <2>3. piRegistry' = piRegistry \/ \E a : \E out \in PiOutcomes(piRegistry, "install", PiVersionOf[a]) : piRegistry' = out.reg
      BY <1>4, Zenon DEF PiServeInstall
    <2>4. piRegistry' \in [PiVersions -> PiStates]
      BY <1>1, <2>3, OutcomesAreTyped, Zenon DEF PiOps
    <2>5. PiAsked(piCalls')
      BY <1>1, <2>2, AskedAnswered
    <2>6. \A t \in DOMAIN piTokens' : piTokens'[t].src \in PiSources
      BY <2>1 DEF PiTyped
    <2> QED
      BY <2>1, <2>4, <2>5, <2>6 DEF PiTyped
  <1>5. CASE PiServeRow(i)
    <2>1. c.op # "resolve" /\ UNCHANGED <<piTokens, piForm, piHook>>
      BY <1>1, <1>5, Zenon DEF PiServeRow, PiCallOK
    <2>2. PICK out \in PiOutcomes(piRegistry, c.op, c.v) :
             piRegistry' = out.reg /\ piCalls' = Answer(piCalls, i, IF out.ok THEN Value("") ELSE Failed)
      BY <1>5, Zenon DEF PiServeRow, PiServed
    <2>3. piRegistry' \in [PiVersions -> PiStates]
      BY <1>1, <2>1, <2>2, OutcomesAreTyped, Zenon
    <2>4. PiAsked(piCalls')
      BY <1>1, <2>2, AskedAnswered, Zenon
    <2> QED
      BY <2>1, <2>3, <2>4 DEF PiTyped
  <1>6. CASE PiCallLost(i)
    <2>1. piCalls' = Answer(piCalls, i, Failed) /\ UNCHANGED <<piRegistry, piTokens, piForm, piHook>>
      BY <1>6 DEF PiCallLost, PiServed, piServer
    <2>2. PiAsked(piCalls')
      BY <1>1, <2>1, AskedAnswered
    <2> QED
      BY <2>1, <2>2 DEF PiTyped
  <1>7. ASSUME NEW form, \/ form = [piForm EXCEPT !.preview = NoPlan]
                         \/ \E plan : form = PreviewShown(piForm, plan)
        PROVE  RefsOK(form)
    <2>1. CASE piForm = NoForm
      BY <1>7, <2>1, Zenon DEF RefsOK, NoForm, PreviewShown
    <2>2. CASE piForm # NoForm
      <3>1. form.ref = piForm.ref
        BY <1>1, <1>7, <2>2, Zenon DEF PreviewShown, InstallFormOK, InstallFormFields
      <3> QED
        BY <1>1, <2>2, <3>1 DEF RefsOK
    <2> QED
      BY <2>1, <2>2
  <1>8. CASE PiCallFails(i)
    <2>1. /\ piCalls' = Forget(piCalls, i) /\ piForm' \in {piForm, [piForm EXCEPT !.preview = NoPlan]}
          /\ UNCHANGED <<piRegistry, piTokens, piHook>>
      BY <1>8 DEF PiCallFails, piServer
    <2>2. RefsOK(piForm')
      BY <1>1, <1>7, <2>1
    <2> QED
      BY <1>2, <2>1, <2>2 DEF PiTyped
  <1>9. CASE PiResolveArrives(i)
    <2>1. /\ piCalls' = Forget(piCalls, i) /\ piForm' \in {piForm, PreviewShown(piForm, c.ans[2])}
          /\ UNCHANGED <<piRegistry, piTokens, piHook>>
      BY <1>9 DEF PiResolveArrives, piServer
    <2>2. RefsOK(piForm')
      BY <1>1, <1>7, <2>1
    <2> QED
      BY <1>2, <2>1, <2>2 DEF PiTyped
  <1>10. CASE PiCallArrives(i)
    <2>1. /\ piForm' \in {NoForm, piForm} /\ piCalls' \in {Forget(piCalls, i), Forget(PiOrphans("modal"), i)}
          /\ piHook' \in {piHook, AsyncReload(piHook)} /\ UNCHANGED <<piRegistry, piTokens>>
      BY <1>10, Zenon DEF PiCallArrives, PiReloaded, piServer
    <2>2. piHook'.deps = piHook.deps
      BY <2>1 DEF AsyncReload, AsyncRun
    <2>3. RefsOK(piForm') /\ PiAsked(piCalls')
      BY <1>1, <1>2, <2>1 DEF RefsOK
    <2> QED
      BY <2>1, <2>2, <2>3 DEF PiTyped
  <1> QED
    BY <1>3, <1>4, <1>5, <1>6, <1>8, <1>9, <1>10

LEMMA PiTypedInit == PiInit => PiTyped
  <1> SUFFICES ASSUME PiInit PROVE PiTyped
    OBVIOUS
  <1>1. /\ piRegistry = PiRegistry0 /\ piHook = AsyncMount("registry") /\ piForm = NoForm
        /\ piTokens = <<>> /\ piCalls = <<>>
    BY DEF PiInit
  <1>2. DOMAIN piTokens = {} /\ DOMAIN piCalls = {} /\ Len(piCalls) = 0
    BY <1>1
  <1>3. piHook.deps = "registry"
    BY <1>1 DEF AsyncMount
  <1>4. 0 <= PiMaxCalls /\ piRegistry \in [PiVersions -> PiStates]
    BY <1>1, PluginsAssumption
  <1> QED
    BY <1>1, <1>2, <1>3, <1>4 DEF PiTyped, RefsOK, PiAsked

LEMMA PiTypedNext == PiTyped /\ ConsentInv /\ RowsInv /\ [PiNext]_piVars => PiTyped'
  <1> SUFFICES ASSUME PiTyped, ConsentInv, RowsInv, [PiNext]_piVars PROVE PiTyped'
    OBVIOUS
  <1>1. ConsentInv'
    BY ConsentNext
  <1>2. CASE UNCHANGED piVars
    BY <1>2 DEF piVars, PiTyped
  <1>3. CASE PiNext
    BY <1>1, <1>3, PiTypedPageSteps, PiTypedDialogSteps, PiTypedAnswerSteps DEF PiNext
  <1> QED
    BY <1>2, <1>3

LEMMA PluginsTyped == PiTyped /\ ConsentInv => PiTypeOK
  <1> SUFFICES ASSUME PiTyped, ConsentInv PROVE PiTypeOK
    OBVIOUS
  <1>1. DOMAIN piTokens \subseteq 1 .. piIssued /\ \A t \in DOMAIN piTokens : piTokens[t].token = t
    BY DEF ConsentInv, TokensOK
  <1>2. piForm.mode \in {"none"} \cup LocalModes \cup PiModes
    BY DEF ConsentInv, InstallFormOK, NoForm
  <1> QED
    BY <1>1, <1>2 DEF PiTyped, PiAsked, PiTypeOK
-----------------------------------------------------------------------------
(* The Websites page: types.                                                *)
\* The classes of configurations, and the flags of a row.
ConfTexts == {"none", "form", "hand", "handssl", "bad"}
Flags(row) == row.active \in BOOLEAN /\ row.ssl \in BOOLEAN

ServerTyped(srv) ==
    /\ DOMAIN srv = ServerFields /\ DOMAIN srv.rows = WsIds /\ DOMAIN srv.conf = WsDomains
    /\ \A i \in WsIds : Flags(srv.rows[i])
    /\ \A d \in WsDomains : srv.conf[d] \in ConfTexts
    /\ srv.link \subseteq WsDomains
    /\ srv.ids \in 0 .. WsMaxIds

\* What a request asks for, what it read and what it has to put back.
CallTexts(c) == c.active \in BOOLEAN /\ c.text \in ConfTexts /\ c.orig \in ConfTexts /\ Flags(c.row)
RequestsTyped(calls) == Len(calls) <= WsMaxCalls /\ \A i \in DOMAIN calls : CallTexts(calls[i])

ListFlags(data) == \A i \in WsIds : Flags(data[2][i])
ShownTyped(hook) ==
    /\ hook.data # NoData => ListFlags(hook.data)
    /\ \A c \in hook.calls : c.ans \notin {Waiting, Failed} => ListFlags(c.ans)

DialogTyped(dialog) ==
    /\ dialog.kind = "form" => dialog.active \in BOOLEAN
    /\ dialog.kind = "config" =>
         /\ dialog.text \in ConfTexts
         /\ \A c \in dialog.hook.calls : c.ans \notin {Waiting, Failed} => c.ans[2] \in ConfTexts

\* The inductive invariant, beside SitesInv.
SitesTyped ==
    /\ ServerTyped(wsServer)
    /\ \A s \in wsSyncs : Flags(s.row)
    /\ ShownTyped(wsHook)
    /\ DialogTyped(wsDialog)
    /\ RequestsTyped(wsCalls)

\* The steps an operation is made of keep the types.
LEMMA PiecesTyped ==
  ASSUME NEW s, ServerTyped(s)
  PROVE  /\ \A id, row : Flags(row) => ServerTyped(PutRow(s, id, row))
         /\ \A id \in WsIds : \A row : Flags(row) => ServerTyped([s EXCEPT !.rows[id] = row])
         /\ \A d : \A text \in ConfTexts : ServerTyped(PutConf(s, d, text))
         /\ \A d \in WsDomains : \A u :
              u \in {s, [s EXCEPT !.link = @ \cup {d}], [s EXCEPT !.link = @ \ {d}]} => ServerTyped(u)
  <1>1. /\ DOMAIN s = ServerFields /\ DOMAIN s.rows = WsIds /\ DOMAIN s.conf = WsDomains
        /\ \A i \in WsIds : Flags(s.rows[i])
        /\ \A d \in WsDomains : s.conf[d] \in ConfTexts
        /\ s.link \subseteq WsDomains
        /\ s.ids \in 0 .. WsMaxIds
    BY DEF ServerTyped
  <1>2. ASSUME NEW id, NEW row, Flags(row) PROVE ServerTyped(PutRow(s, id, row))
    <2> DEFINE u == PutRow(s, id, row)
    <2>1. /\ DOMAIN u = ServerFields /\ DOMAIN u.rows = WsIds
          /\ u.conf = s.conf /\ u.link = s.link /\ u.ids = s.ids
          /\ \A i \in WsIds : u.rows[i] = IF i = id /\ s.rows[id] # NoRow THEN row ELSE s.rows[i]
      BY <1>1, PutRowGives
    <2> HIDE DEF u
    <2>2. \A i \in WsIds : u.rows[i] = row \/ u.rows[i] = s.rows[i]
      BY <2>1
    <2>3. \A i \in WsIds : Flags(u.rows[i])
      BY <1>1, <1>2, <2>2
    <2>4. ServerTyped(u)
      BY <1>1, <2>1, <2>3 DEF ServerTyped
    <2> QED
      BY <2>4 DEF u
  <1>3. ASSUME NEW id \in WsIds, NEW row, Flags(row) PROVE ServerTyped([s EXCEPT !.rows[id] = row])
    <2> DEFINE u == [s EXCEPT !.rows[id] = row]
    <2>1. /\ DOMAIN u = ServerFields /\ DOMAIN u.rows = WsIds
          /\ u.conf = s.conf /\ u.link = s.link /\ u.ids = s.ids
          /\ \A i \in WsIds : u.rows[i] = row \/ u.rows[i] = s.rows[i]
      BY <1>1 DEF ServerFields
    <2> HIDE DEF u
    <2>2. \A i \in WsIds : Flags(u.rows[i])
      BY <1>1, <1>3, <2>1
    <2>3. ServerTyped(u)
      BY <1>1, <2>1, <2>2 DEF ServerTyped
    <2> QED
      BY <2>3 DEF u
  <1>4. ASSUME NEW d, NEW text \in ConfTexts PROVE ServerTyped(PutConf(s, d, text))
    <2> DEFINE u == PutConf(s, d, text)
    <2>1. /\ DOMAIN u = ServerFields /\ DOMAIN u.conf = WsDomains
          /\ u.rows = s.rows /\ u.link = s.link /\ u.ids = s.ids
          /\ \A e \in WsDomains : u.conf[e] = IF e = d THEN text ELSE s.conf[e]
      BY <1>1, PutConfGives
    <2> HIDE DEF u
    <2>2. \A e \in WsDomains : u.conf[e] \in ConfTexts
      BY <1>1, <2>1
    <2>3. ServerTyped(u)
      BY <1>1, <2>1, <2>2 DEF ServerTyped
    <2> QED
      BY <2>3 DEF u
  <1>5. ASSUME NEW d \in WsDomains, NEW u, u \in {s, [s EXCEPT !.link = @ \cup {d}], [s EXCEPT !.link = @ \ {d}]}
        PROVE  ServerTyped(u)
    <2>1. /\ DOMAIN u = ServerFields /\ u.rows = s.rows /\ u.conf = s.conf /\ u.ids = s.ids
          /\ u.link \subseteq s.link \cup {d}
      BY <1>1, <1>5 DEF ServerFields
    <2> QED
      BY <1>1, <2>1 DEF ServerTyped
  <1> QED
    BY <1>2, <1>3, <1>4, <1>5

LEMMA SyncTyped ==
  ASSUME NEW s, ServerTyped(s), NEW id, NEW row, DOMAIN row = RowFields, Flags(row)
  PROVE  ServerTyped(SyncSSL(s, id, row))
  <1> DEFINE new == [row EXCEPT !.ssl = HasCert(s.conf[row.dom])]
  <1>1. Flags(new)
    BY DEF Flags, RowFields, HasCert
  <1>2. SyncSSL(s, id, row) \in {s, PutRow(s, id, new)}
    BY DEF SyncSSL
  <1> HIDE DEF new
  <1> QED
    BY <1>1, <1>2, PiecesTyped

\* The outcomes of each operation keep the types.
LEMMA CreateTyped ==
  ASSUME NEW s, ServerTyped(s), NEW c, CallTexts(c), c.dom \in WsDomains, s.ids < WsMaxIds, NEW o \in CreateOutcomes(s, c)
  PROVE  ServerTyped(o.srv)
  <1> DEFINE d == c.dom
             id == s.ids + 1
             row == [dom |-> d, active |-> c.active, ssl |-> FALSE]
             stored == [s EXCEPT !.rows[id] = row, !.ids = id]
             made == PutConf(stored, d, "form")
             linked == Linked(made, d, TRUE)
  <1>1. o.srv \in {s, made, linked} \/ \E t \in {stored, made, linked} : \E some : o.srv = Undone(t, d, id, some)
    BY CreateEnds, Zenon
  <1>2. id \in WsIds /\ id \in 0 .. WsMaxIds
    BY WebsitesAssumption DEF ServerTyped, WsIds
  <1>3. Flags(row) /\ Flags(NoRow)
    BY DEF Flags, CallTexts, NoRow
  <1> HIDE DEF row, id
  <1>4. ServerTyped(stored)
    <2>1. /\ DOMAIN stored = ServerFields /\ DOMAIN stored.rows = WsIds
          /\ stored.conf = s.conf /\ stored.link = s.link /\ stored.ids = id
          /\ \A i \in WsIds : stored.rows[i] = row \/ stored.rows[i] = s.rows[i]
      BY <1>2 DEF ServerTyped, ServerFields
    <2> HIDE DEF stored
    <2>2. \A i \in WsIds : Flags(stored.rows[i])
      BY <1>3, <2>1 DEF ServerTyped
    <2> QED
      BY <1>2, <2>1, <2>2 DEF ServerTyped
  <1> HIDE DEF stored
  <1>5. ServerTyped(made)
    BY <1>4, PiecesTyped DEF ConfTexts
  <1> HIDE DEF made
  <1>6. ServerTyped(linked)
    <2>1. linked \in {made, [made EXCEPT !.link = @ \cup {d}]}
      BY DEF Linked
    <2> HIDE DEF linked
    <2> QED
      BY <1>5, <2>1, PiecesTyped
  <1> HIDE DEF linked
  <1>7. ASSUME NEW t \in {stored, made, linked}, NEW some PROVE ServerTyped(Undone(t, d, id, some))
    <2> DEFINE u == Undone(t, d, id, some)
    <2>1. ServerTyped(t)
      BY <1>4, <1>5, <1>6, <1>7
    <2>2. DOMAIN t = ServerFields /\ DOMAIN t.rows = WsIds /\ DOMAIN t.conf = WsDomains
      BY <2>1 DEF ServerTyped
    <2>0. u = Undone(t, d, id, some)
      OBVIOUS
    <2> HIDE DEF u
    <2>3. /\ DOMAIN u = ServerFields /\ DOMAIN u.rows = WsIds /\ DOMAIN u.conf = WsDomains /\ u.ids = t.ids
          /\ u.link = IF "link" \in some THEN t.link \ {d} ELSE t.link
          /\ \A i \in WsIds : u.rows[i] = IF i = id /\ "row" \in some THEN NoRow ELSE t.rows[i]
          /\ \A e \in WsDomains : u.conf[e] = IF e = d /\ "file" \in some THEN "none" ELSE t.conf[e]
      BY <2>0, <2>2 DEF Undone, ServerFields
    <2>4. \A i \in WsIds : Flags(u.rows[i])
      BY <1>3, <2>1, <2>3 DEF ServerTyped
    <2>5. \A e \in WsDomains : u.conf[e] \in ConfTexts
      BY <2>1, <2>3 DEF ServerTyped, ConfTexts
    <2>6. ServerTyped(u)
      BY <2>1, <2>3, <2>4, <2>5 DEF ServerTyped
    <2> QED
      BY <2>6 DEF u
  <1> QED
    BY <1>1, <1>5, <1>6, <1>7

LEMMA UpdateTyped ==
  ASSUME NEW s, ServerTyped(s), NEW c, CallTexts(c), c.dom \in WsDomains, DOMAIN c.row = RowFields, NEW o \in UpdateOutcomes(s, c)
  PROVE  ServerTyped(o.srv)
  <1> DEFINE row == [c.row EXCEPT !.dom = c.dom, !.active = c.active]
             written == PutRow(s, c.id, row)
             rendered == PutConf(written, c.dom, "form")
             linked == Linked(rendered, c.dom, c.active)
  <1>1. o \in {[srv |-> s, ok |-> FALSE, half |-> FALSE], [srv |-> written, ok |-> FALSE, half |-> FALSE], [srv |-> rendered, ok |-> FALSE, half |-> FALSE],
              [srv |-> linked, ok |-> TRUE, half |-> FALSE]}
    BY DEF UpdateOutcomes, Fails, Done
  <1>2. Flags(row)
    BY DEF Flags, CallTexts, RowFields
  <1> HIDE DEF row
  <1>3. ServerTyped(written)
    BY <1>2, PiecesTyped
  <1> HIDE DEF written
  <1>4. ServerTyped(rendered)
    BY <1>3, PiecesTyped DEF ConfTexts
  <1> HIDE DEF rendered
  <1>5. linked \in {rendered, [rendered EXCEPT !.link = @ \cup {c.dom}], [rendered EXCEPT !.link = @ \ {c.dom}]}
    BY DEF Linked
  <1> HIDE DEF linked
  <1>6. ServerTyped(linked)
    BY <1>4, <1>5, PiecesTyped
  <1>7. o.srv \in {s, written, rendered, linked}
    BY <1>1
  <1> QED
    BY <1>3, <1>4, <1>6, <1>7

LEMMA DeleteTyped ==
  ASSUME NEW s, ServerTyped(s), NEW c, CallTexts(c), c.id \in WsIds, SiteRow(c.row), NEW o \in DeleteOutcomes(s, c)
  PROVE  ServerTyped(o.srv)
  <1> DEFINE d == c.row.dom
             off == Linked(s, d, FALSE)
             bare == PutConf(off, d, "none")
             gone == [bare EXCEPT !.rows[c.id] = NoRow]
  <1>1. o \in {[srv |-> s, ok |-> FALSE, half |-> FALSE], [srv |-> off, ok |-> FALSE, half |-> FALSE], [srv |-> bare, ok |-> FALSE, half |-> FALSE],
              [srv |-> gone, ok |-> TRUE, half |-> FALSE]}
    BY DEF DeleteOutcomes, Fails, Done
  <1>2. d \in WsDomains
    BY DEF SiteRow
  <1> HIDE DEF d
  <1>3. off = [s EXCEPT !.link = @ \ {d}]
    BY DEF Linked
  <1> HIDE DEF off
  <1>4. ServerTyped(off)
    BY <1>2, <1>3, PiecesTyped
  <1>5. ServerTyped(bare)
    BY <1>4, PiecesTyped DEF ConfTexts
  <1> HIDE DEF bare
  <1>6. Flags(NoRow)
    BY DEF Flags, NoRow
  <1>7. ServerTyped(gone)
    BY <1>5, <1>6, PiecesTyped
  <1> HIDE DEF gone
  <1>8. o.srv \in {s, off, bare, gone}
    BY <1>1
  <1> QED
    BY <1>4, <1>5, <1>7, <1>8

LEMMA ToggleTyped ==
  ASSUME NEW s, ServerTyped(s), NEW c, CallTexts(c), SiteRow(c.row), NEW o \in ToggleOutcomes(s, c)
  PROVE  ServerTyped(o.srv)
  <1> DEFINE d == c.row.dom
             row == [c.row EXCEPT !.active = ~c.row.active]
             flipped == Linked(s, d, row.active)
             back == Linked(flipped, d, c.row.active)
             kept == PutRow(flipped, c.id, row)
             other == PutRow(back, c.id, row)
             synced == SyncSSL(kept, c.id, row)
  <1>1. o.srv \in {s, back, synced, flipped, kept, other}
    BY DEF ToggleOutcomes, Fails, Done, Half
  <1>2. d \in WsDomains /\ DOMAIN row = RowFields /\ Flags(row)
    BY DEF SiteRow, RowFields, Flags, CallTexts
  <1>3. flipped \in {s, [s EXCEPT !.link = @ \cup {d}], [s EXCEPT !.link = @ \ {d}]}
    BY DEF Linked
  <1>4. back \in {flipped, [flipped EXCEPT !.link = @ \cup {d}], [flipped EXCEPT !.link = @ \ {d}]}
    BY DEF Linked
  <1> HIDE DEF back, flipped, row, d
  <1>5. ServerTyped(flipped)
    BY <1>2, <1>3, PiecesTyped
  <1>6. ServerTyped(back)
    BY <1>2, <1>4, <1>5, PiecesTyped
  <1>7. ServerTyped(kept) /\ ServerTyped(other)
    BY <1>2, <1>5, <1>6, PiecesTyped
  <1> HIDE DEF kept, other
  <1>8. ServerTyped(synced)
    BY <1>2, <1>7, SyncTyped
  <1> QED
    BY <1>1, <1>5, <1>6, <1>7, <1>8

LEMMA ConfigTyped ==
  ASSUME NEW s, ServerTyped(s), NEW c, CallTexts(c), SiteRow(c.row), NEW o \in ConfigOutcomes(s, c)
  PROVE  ServerTyped(o.srv)
  <1> DEFINE back == PutConf(s, c.row.dom, c.orig)
             synced == SyncSSL(s, c.id, c.row)
  <1>1. o.srv \in {s, back, synced}
    BY DEF ConfigOutcomes, Restored, Fails, Done, Half
  <1>2. ServerTyped(back)
    BY PiecesTyped DEF CallTexts
  <1>3. ServerTyped(synced)
    BY SyncTyped DEF SiteRow, CallTexts
  <1> QED
    BY <1>1, <1>2, <1>3

LEMMA ManualTyped ==
  ASSUME NEW s, ServerTyped(s), NEW c, CallTexts(c), SiteRow(c.row), NEW o \in ManualOutcomes(s, c)
  PROVE  ServerTyped(o.srv)
  <1> DEFINE text == WithCert(s.conf[c.row.dom])
             put == PutConf(s, c.row.dom, text)
             row == [c.row EXCEPT !.ssl = TRUE]
             flagged == PutRow(put, c.id, row)
  <1>1. o.srv \in {s, put, flagged}
    BY DEF ManualOutcomes, Fails, Done
  <1>2. text \in ConfTexts
    BY DEF SiteRow, ServerTyped, WithCert, ConfTexts
  <1>3. Flags(row)
    BY DEF SiteRow, RowFields, Flags, CallTexts
  <1> HIDE DEF text, row
  <1>4. ServerTyped(put)
    BY <1>2, PiecesTyped
  <1> HIDE DEF put
  <1>5. ServerTyped(flagged)
    BY <1>3, <1>4, PiecesTyped
  <1> QED
    BY <1>1, <1>4, <1>5

LEMMA OutcomeTyped ==
  ASSUME NEW s, ServerTyped(s), NEW c, CallTexts(c), WsCallOK(c),
         c.at = IF c.op = "create" THEN "sent" ELSE "read", c.op = "create" => s.ids < WsMaxIds,
         NEW o \in WsOutcomes(s, c)
  PROVE  ServerTyped(o.srv)
  <1>1. /\ c.op \in {"create", "update", "remove", "toggle", "config", "manual", "certbot"}
        /\ c.op \in {"create", "update"} => c.dom \in WsDomains
        /\ c.op # "create" => c.id \in WsIds /\ SiteRow(c.row) /\ DOMAIN c.row = RowFields
    BY DEF WsCallOK, SiteRow
  <1>2. CASE c.op = "create"
    BY <1>1, <1>2, CreateTyped DEF WsOutcomes
  <1>3. CASE c.op = "update"
    BY <1>1, <1>3, UpdateTyped DEF WsOutcomes
  <1>4. CASE c.op = "remove"
    BY <1>1, <1>4, DeleteTyped DEF WsOutcomes
  <1>5. CASE c.op = "toggle"
    BY <1>1, <1>5, ToggleTyped DEF WsOutcomes
  <1>6. CASE c.op = "config"
    BY <1>1, <1>6, ConfigTyped DEF WsOutcomes
  <1>7. CASE c.op = "manual"
    BY <1>1, <1>7, ManualTyped DEF WsOutcomes
  <1>8. CASE c.op = "certbot"
    BY <1>8 DEF WsOutcomes, Fails, Done
  <1> QED
    BY <1>1, <1>2, <1>3, <1>4, <1>5, <1>6, <1>7, <1>8

\* The requests: one of them moves on, one is forgotten, one is sent.
LEMMA RequestsMoved ==
  ASSUME SitesInv, SitesInv', RequestsTyped(wsCalls), NEW i \in DOMAIN wsCalls, DOMAIN wsCalls' = DOMAIN wsCalls,
         \A j \in DOMAIN wsCalls \ {i} : wsCalls'[j] = wsCalls[j], CallTexts(wsCalls'[i])
  PROVE  RequestsTyped(wsCalls')
  <1>1. PICK S : wsCalls \in Seq(S)
    BY DEF SitesInv, WsCallsOK
  <1>2. PICK T : wsCalls' \in Seq(T)
    BY DEF SitesInv, WsCallsOK
  <1>3. Len(wsCalls') = Len(wsCalls)
    BY <1>1, <1>2, LenProperties
  <1> QED
    BY <1>3 DEF RequestsTyped

LEMMA RequestsForgotten ==
  ASSUME SitesInv, RequestsTyped(wsCalls), NEW i \in DOMAIN wsCalls
  PROVE  RequestsTyped(Forget(wsCalls, i))
  <1> DEFINE r == Forget(wsCalls, i)
  <1>1. PICK S : wsCalls \in Seq(S)
    BY DEF SitesInv, WsCallsOK
  <1>2. r \in Seq(S) /\ Len(r) <= Len(wsCalls) /\ \A k \in DOMAIN r : \E j \in DOMAIN wsCalls \ {i} : r[k] = wsCalls[j]
    BY <1>1, ForgetTakes
  <1> HIDE DEF r
  <1>3. Len(r) \in Nat /\ Len(wsCalls) \in Nat
    BY <1>1, <1>2, LenProperties
  <1>4. Len(r) <= WsMaxCalls
    BY <1>2, <1>3, WebsitesAssumption DEF RequestsTyped
  <1>5. RequestsTyped(r)
    BY <1>2, <1>4 DEF RequestsTyped
  <1> QED
    BY <1>5 DEF r

LEMMA RequestsSent ==
  ASSUME SitesInv, RequestsTyped(wsCalls), NEW c, WsCallOK(c), CallTexts(c), c.at = "sent", WsSend(c)
  PROVE  RequestsTyped(wsCalls')
  <1> DEFINE n == Len(wsCalls) + 1
  <1>1. /\ Len(wsCalls) \in Nat /\ Len(wsCalls') = n /\ DOMAIN wsCalls' = DOMAIN wsCalls \cup {n}
        /\ \A f \in WsCallFields \ {"raced", "ans"} : wsCalls'[n][f] = c[f]
        /\ \A i \in DOMAIN wsCalls : \A f \in WsCallFields \ {"raced"} : wsCalls'[i][f] = wsCalls[i][f]
    BY WsSent
  <1>2. n <= WsMaxCalls
    BY <1>1, WebsitesAssumption DEF WsSend
  <1> HIDE DEF n
  <1>3. CallTexts(wsCalls'[n])
    BY <1>1 DEF CallTexts, WsCallFields
  <1>4. \A i \in DOMAIN wsCalls : CallTexts(wsCalls'[i])
    BY <1>1 DEF CallTexts, WsCallFields, RequestsTyped
  <1> QED
    BY <1>1, <1>2, <1>3, <1>4 DEF RequestsTyped

\* The requests: the service gets on with one of them.
LEMMA WsTypedServeSteps ==
  ASSUME SitesTyped, SitesInv, SitesInv', NEW i \in DOMAIN wsCalls,
         WsServeRead(i) \/ WsServeWrite(i) \/ WsServe(i) \/ WsAnswerLost(i)
  PROVE  SitesTyped'
  <1> DEFINE c == wsCalls[i]
             r == wsCalls'
  <1>1. /\ ServerTyped(wsServer) /\ \A s \in wsSyncs : Flags(s.row)
        /\ ShownTyped(wsHook) /\ DialogTyped(wsDialog) /\ RequestsTyped(wsCalls)
    BY DEF SitesTyped
  <1>2. WsCallOK(c) /\ CallTexts(c) /\ DOMAIN c = WsCallFields
    <2>1. WsCallOK(c)
      BY DEF SitesInv, WsCallsOK
    <2> QED
      BY <1>1, <2>1 DEF WsCallOK, RequestsTyped
  <1>3. UNCHANGED <<wsSyncs, wsHook, wsDialog>>
    BY Zenon DEF WsServeRead, WsServeWrite, WsServe, WsAnswerLost
  <1>4. ASSUME ServerTyped(wsServer'), DOMAIN r = DOMAIN wsCalls, \A j \in DOMAIN wsCalls \ {i} : r[j] = wsCalls[j],
               CallTexts(r[i])
        PROVE  SitesTyped'
    <2>1. RequestsTyped(wsCalls')
      BY <1>1, <1>4, RequestsMoved
    <2> QED
      BY <1>1, <1>3, <1>4, <2>1 DEF SitesTyped
  <1>5. CASE WsServeRead(i)
    <2> DEFINE row == wsServer.rows[c.id]
    <2>1. /\ c.at = "sent" /\ c.op # "create" /\ wsServer' = wsServer
          /\ r = IF row = NoRow THEN [wsCalls EXCEPT ![i].at = "done", ![i].ans = Failed]
                 ELSE [wsCalls EXCEPT ![i].at = IF c.op = "config" THEN "open" ELSE "read", ![i].row = row]
      BY <1>5 DEF WsServeRead
    <2>2. Flags(row)
      BY <1>1, <1>2, <2>1 DEF ServerTyped, WsCallOK
    <2> HIDE DEF row
    <2>3. /\ DOMAIN r = DOMAIN wsCalls /\ \A j \in DOMAIN wsCalls \ {i} : r[j] = wsCalls[j]
          /\ r[i].active = c.active /\ r[i].text = c.text /\ r[i].orig = c.orig /\ r[i].row \in {row, c.row}
      BY <1>2, <2>1 DEF WsCallFields
    <2> HIDE DEF r
    <2>4. CallTexts(r[i])
      BY <1>2, <2>2, <2>3 DEF CallTexts
    <2> QED
      BY <1>1, <1>4, <2>1, <2>3, <2>4
  <1>6. CASE WsServeWrite(i)
    <2> DEFINE d == c.row.dom
    <2>1. /\ c.at = "open" /\ wsServer' = PutConf(wsServer, d, c.text)
          /\ r = [wsCalls EXCEPT ![i].at = "read", ![i].orig = wsServer.conf[d]]
      BY <1>6 DEF WsServeWrite
    <2>2. d \in WsDomains
      BY <1>2, <2>1 DEF WsCallOK, SiteRow
    <2>3. wsServer.conf[d] \in ConfTexts /\ c.text \in ConfTexts
      BY <1>1, <1>2, <2>2 DEF ServerTyped, CallTexts
    <2> HIDE DEF d
    <2>4. ServerTyped(wsServer')
      BY <1>1, <2>1, <2>3, PiecesTyped
    <2>5. /\ DOMAIN r = DOMAIN wsCalls /\ \A j \in DOMAIN wsCalls \ {i} : r[j] = wsCalls[j]
          /\ r[i].active = c.active /\ r[i].text = c.text /\ r[i].orig = wsServer.conf[d] /\ r[i].row = c.row
      BY <1>2, <2>1 DEF WsCallFields
    <2> HIDE DEF r
    <2>6. CallTexts(r[i])
      BY <1>2, <2>3, <2>5 DEF CallTexts
    <2> QED
      BY <1>4, <2>4, <2>5, <2>6
  <1>7. CASE WsServe(i)
    <2>1. c.at = (IF c.op = "create" THEN "sent" ELSE "read") /\ (c.op = "create" => wsServer.ids < WsMaxIds)
      BY <1>7, Zenon DEF WsServe
    <2>2. PICK o \in WsOutcomes(wsServer, c) :
            /\ wsServer' = o.srv
            /\ r = [wsCalls EXCEPT ![i].at = "done", ![i].ans = IF o.ok THEN Value("ok") ELSE Failed]
      BY <1>7, Zenon DEF WsServe
    <2>3. ServerTyped(wsServer')
      BY <1>1, <1>2, <2>1, <2>2, OutcomeTyped
    <2> DEFINE ans == IF o.ok THEN Value("ok") ELSE Failed
    <2>4. r = [wsCalls EXCEPT ![i].at = "done", ![i].ans = ans]
      BY <2>2
    <2> HIDE DEF ans
    <2>5. /\ DOMAIN r = DOMAIN wsCalls /\ \A j \in DOMAIN wsCalls \ {i} : r[j] = wsCalls[j]
          /\ r[i].active = c.active /\ r[i].text = c.text /\ r[i].orig = c.orig /\ r[i].row = c.row
      BY <1>2, <2>4 DEF WsCallFields
    <2> HIDE DEF r
    <2>6. CallTexts(r[i])
      BY <1>2, <2>5 DEF CallTexts
    <2> QED
      BY <1>4, <2>3, <2>5, <2>6
  <1>8. CASE WsAnswerLost(i)
    <2>1. wsServer' = wsServer /\ r = [wsCalls EXCEPT ![i].ans = Failed]
      BY <1>8 DEF WsAnswerLost, Answer
    <2>2. /\ DOMAIN r = DOMAIN wsCalls /\ \A j \in DOMAIN wsCalls \ {i} : r[j] = wsCalls[j]
          /\ r[i].active = c.active /\ r[i].text = c.text /\ r[i].orig = c.orig /\ r[i].row = c.row
      BY <1>2, <2>1 DEF WsCallFields
    <2> HIDE DEF r
    <2>3. CallTexts(r[i])
      BY <1>2, <2>2 DEF CallTexts
    <2> QED
      BY <1>1, <1>4, <2>1, <2>2, <2>3
  <1> QED
    BY <1>5, <1>6, <1>7, <1>8

\* The list: what a listing shows and what it writes back have the flags of a row.
LEMMA WsTypedListSteps ==
  ASSUME SitesTyped, SitesInv, NEW c \in wsHook.calls, WsServeList(c) \/ WsListLost(c) \/ WsListArrives(c)
  PROVE  SitesTyped'
  <1>1. /\ ServerTyped(wsServer) /\ \A s \in wsSyncs : Flags(s.row)
        /\ ShownTyped(wsHook) /\ DialogTyped(wsDialog) /\ RequestsTyped(wsCalls)
    BY DEF SitesTyped
  <1>2. DOMAIN wsHook = {"deps", "data", "failed", "calls"} /\ DOMAIN c = {"deps", "ans"} /\ ServerOK(wsServer)
    BY DEF SitesInv, ListHookOK
  <1>3. UNCHANGED <<wsServer, wsDialog, wsCalls>>
    BY DEF WsServeList, WsListLost, WsListArrives
  <1>4. ASSUME ShownTyped(wsHook'), \A s \in wsSyncs' : Flags(s.row) PROVE SitesTyped'
    BY <1>1, <1>3, <1>4 DEF SitesTyped
  <1>5. ASSUME NEW res, res = Failed \/ ListFlags(res), wsHook' = AsyncServe(wsHook, c, res) PROVE ShownTyped(wsHook')
    <2>1. /\ wsHook'.data = wsHook.data
          /\ \A x \in wsHook'.calls : x \in wsHook.calls \/ x.ans = res
      BY <1>2, <1>5, HookServed
    <2> QED
      BY <1>1, <1>5, <2>1 DEF ShownTyped
  <1>6. CASE WsListLost(c)
    <2>1. wsSyncs' = wsSyncs /\ wsHook' = AsyncServe(wsHook, c, Failed)
      BY <1>6 DEF WsListLost
    <2> QED
      BY <1>1, <1>4, <1>5, <2>1
  <1>7. CASE WsListArrives(c)
    <2>1. wsSyncs' = wsSyncs /\ c.ans # Waiting /\ wsHook' = AsyncDeliver(wsHook, c)
      BY <1>7 DEF WsListArrives
    <2>2. /\ wsHook'.calls \subseteq wsHook.calls
          /\ c.ans = Failed => wsHook'.data = wsHook.data
          /\ c.ans # Failed => wsHook'.data = c.ans
      BY <1>2, <2>1, HookDelivered
    <2>3. ShownTyped(wsHook')
      BY <1>1, <2>1, <2>2 DEF ShownTyped
    <2> QED
      BY <1>1, <1>4, <2>1, <2>3
  <1>8. CASE WsServeList(c)
    <2> DEFINE rows == wsServer.rows
               right(i) == SyncSSL(wsServer, i, rows[i]).rows[i]
               shown == [i \in WsIds |-> IF rows[i] = NoRow THEN NoRow ELSE right(i)]
    <2>1. /\ wsHook' = AsyncServe(wsHook, c, Value(shown))
          /\ wsSyncs' = wsSyncs \cup
               {[id |-> i, was |-> rows[i], row |-> right(i)] : i \in {j \in WsIds : rows[j] # NoRow /\ right(j) # rows[j]}}
      BY <1>8 DEF WsServeList
    <2>2. ASSUME NEW i \in WsIds, rows[i] # NoRow PROVE Flags(right(i))
      <3>1. DOMAIN rows[i] = RowFields /\ Flags(rows[i])
        BY <1>1, <1>2, <2>2 DEF ServerOK, SiteRow, ServerTyped
      <3>2. ServerTyped(SyncSSL(wsServer, i, rows[i]))
        BY <1>1, <3>1, SyncTyped
      <3> QED
        BY <3>2 DEF ServerTyped
    <2> HIDE DEF right
    <2>3. ListFlags(Value(shown))
      <3>1. Value(shown)[2] = shown
        BY DEF Value
      <3>2. Flags(NoRow)
        BY DEF Flags, NoRow
      <3> QED
        BY <2>2, <3>1, <3>2 DEF ListFlags
    <2> HIDE DEF shown
    <2>4. ShownTyped(wsHook')
      BY <1>5, <2>1, <2>3
    <2>5. ASSUME NEW s \in wsSyncs' PROVE Flags(s.row)
      <3>1. CASE s \in wsSyncs
        BY <1>1, <3>1
      <3>2. CASE s \notin wsSyncs
        <4>1. PICK i \in WsIds : rows[i] # NoRow /\ s = [id |-> i, was |-> rows[i], row |-> right(i)]
          BY <2>1, <2>5, <3>2
        <4>2. s.row = right(i)
          BY <4>1
        <4> QED
          BY <2>2, <4>1, <4>2
      <3> QED
        BY <3>1, <3>2
    <2> QED
      BY <1>4, <2>4, <2>5
  <1> QED
    BY <1>6, <1>7, <1>8

LEMMA WsTypedWriteBack == ASSUME SitesTyped, NEW s \in wsSyncs, WsWriteBack(s) PROVE SitesTyped'
  <1>1. Flags(s.row) /\ ServerTyped(wsServer)
    BY DEF SitesTyped
  <1>2. /\ wsServer' = PutRow(wsServer, s.id, s.row) /\ wsSyncs' \subseteq wsSyncs
        /\ UNCHANGED <<wsHook, wsDialog, wsCalls>>
    BY DEF WsWriteBack
  <1>3. ServerTyped(wsServer')
    BY <1>1, <1>2, PiecesTyped
  <1> QED
    BY <1>2, <1>3 DEF SitesTyped

\* A request is sent, or a dialog appears or changes, beside everything else.
LEMMA WsTypedAsked ==
  ASSUME SitesTyped, SitesInv, NEW c, WsCallOK(c), CallTexts(c), c.at = "sent", WsSend(c),
         UNCHANGED <<wsServer, wsSyncs, wsHook, wsDialog>>
  PROVE  SitesTyped'
  <1>1. RequestsTyped(wsCalls')
    BY RequestsSent DEF SitesTyped
  <1> QED
    BY <1>1 DEF SitesTyped

LEMMA WsTypedDialog ==
  ASSUME SitesTyped, DialogTyped(wsDialog'), UNCHANGED <<wsServer, wsSyncs, wsHook, wsCalls>>
  PROVE  SitesTyped'
  BY DEF SitesTyped

\* The row buttons.
LEMMA WsTypedRowSteps ==
  ASSUME SitesTyped, SitesInv, NEW id \in WsRows,
         OnToggle(id) \/ OnRemove(id) \/ WsEdit(id) \/ WsOpenConfig(id) \/ WsOpenSsl(id)
  PROVE  SitesTyped'
  <1>1. id \in WsIds /\ WsShown(id).active \in BOOLEAN
    BY DEF WsRows, WsShown, AsyncShown, SitesTyped, ShownTyped, ListFlags, Flags
  <1>2. Flags(NoRow) /\ "none" \in ConfTexts
    BY DEF Flags, NoRow, ConfTexts
  <1>3. CASE OnToggle(id)
    <2> DEFINE c == WsCall("toggle", id, "none", WsShown(id).active, "none")
    <2>1. WsCallOK(c) /\ c.at = "sent"
      BY <1>1 DEF WsCall, WsCallOK, WsCallFields
    <2>2. CallTexts(c)
      BY <1>1, <1>2 DEF WsCall, CallTexts
    <2>3. WsSend(c) /\ UNCHANGED <<wsServer, wsSyncs, wsHook, wsDialog>>
      BY <1>3 DEF OnToggle
    <2> HIDE DEF c
    <2> QED
      BY <2>1, <2>2, <2>3, WsTypedAsked
  <1>4. CASE OnRemove(id)
    <2> DEFINE c == WsCall("remove", id, "none", FALSE, "none")
    <2>1. WsCallOK(c) /\ c.at = "sent"
      BY <1>1 DEF WsCall, WsCallOK, WsCallFields
    <2>2. CallTexts(c)
      BY <1>2 DEF WsCall, CallTexts
    <2>3. WsSend(c) /\ UNCHANGED <<wsServer, wsSyncs, wsHook, wsDialog>>
      BY <1>4 DEF OnRemove
    <2> HIDE DEF c
    <2> QED
      BY <2>1, <2>2, <2>3, WsTypedAsked
  <1>5. CASE WsEdit(id)
    <2>1. /\ wsDialog' = [kind |-> "form", id |-> id, dom |-> WsShown(id).dom, active |-> WsShown(id).active]
          /\ UNCHANGED <<wsServer, wsSyncs, wsHook, wsCalls>>
      BY <1>5 DEF WsEdit, WsOpen
    <2>2. DialogTyped(wsDialog')
      BY <1>1, <2>1 DEF DialogTyped
    <2> QED
      BY <2>1, <2>2, WsTypedDialog
  <1>6. CASE WsOpenConfig(id)
    <2> DEFINE hook == AsyncMount(id)
    <2>1. /\ wsDialog' = [kind |-> "config", id |-> id, hook |-> hook, text |-> "none"]
          /\ UNCHANGED <<wsServer, wsSyncs, wsHook, wsCalls>>
      BY <1>6 DEF WsOpenConfig, WsOpen
    <2>2. \A x \in hook.calls : x.ans = Waiting
      BY HookRun
    <2> HIDE DEF hook
    <2>3. DialogTyped(wsDialog')
      BY <1>2, <2>1, <2>2 DEF DialogTyped
    <2> QED
      BY <2>1, <2>3, WsTypedDialog
  <1>7. CASE WsOpenSsl(id)
    <2> DEFINE hook == AsyncMount(id)
    <2>1. /\ wsDialog' = [kind |-> "ssl", id |-> id, hook |-> hook, es |-> "none", status |-> "none", job |-> "none"]
          /\ UNCHANGED <<wsServer, wsSyncs, wsHook, wsCalls>>
      BY <1>7 DEF WsOpenSsl, WsOpen
    <2> HIDE DEF hook
    <2>2. DialogTyped(wsDialog')
      BY <2>1 DEF DialogTyped
    <2> QED
      BY <2>1, <2>2, WsTypedDialog
  <1> QED
    BY <1>3, <1>4, <1>5, <1>6, <1>7

\* The form and the dialogs: what is typed in them, and the requests they send.
LEMMA WsTypedFormSteps ==
  ASSUME SitesTyped, SitesInv,
         WsNew \/ WsClose \/ SetActive \/ (\E d \in WsDomains : SetDomain(d)) \/ (\E text \in WsTexts : SetConfig(text))
  PROVE  SitesTyped'
  <1>1. DialogOK(wsDialog) /\ DialogTyped(wsDialog)
    BY DEF SitesInv, SitesTyped
  <1>2. CASE WsNew
    <2>1. /\ \E d \in WsDomains : wsDialog' = [kind |-> "form", id |-> 0, dom |-> d, active |-> FALSE]
          /\ UNCHANGED <<wsServer, wsSyncs, wsHook, wsCalls>>
      BY <1>2 DEF WsNew
    <2>2. DialogTyped(wsDialog')
      BY <2>1 DEF DialogTyped
    <2> QED
      BY <2>1, <2>2, WsTypedDialog
  <1>3. CASE WsClose
    <2>1. DialogTyped(wsDialog')
      BY <1>3 DEF WsClose, DialogTyped, NoDialog
    <2> QED
      BY <1>3, <2>1, WsTypedDialog DEF WsClose
  <1>4. CASE SetActive
    <2>1. /\ wsDialog.kind = "form" /\ wsDialog' = [wsDialog EXCEPT !.active = ~wsDialog.active]
          /\ UNCHANGED <<wsServer, wsSyncs, wsHook, wsCalls>>
      BY <1>4 DEF SetActive, WsInDialog, WsTyped
    <2>2. DOMAIN wsDialog = FormFields
      BY <1>1, <2>1 DEF DialogOK, NoDialog
    <2>3. wsDialog'.kind = "form" /\ wsDialog'.active \in BOOLEAN
      BY <2>1, <2>2 DEF FormFields
    <2>4. DialogTyped(wsDialog')
      BY <2>3 DEF DialogTyped
    <2> QED
      BY <2>1, <2>4, WsTypedDialog
  <1>5. ASSUME NEW d \in WsDomains, SetDomain(d) PROVE SitesTyped'
    <2>1. /\ wsDialog.kind = "form" /\ wsDialog' = [wsDialog EXCEPT !.dom = d]
          /\ UNCHANGED <<wsServer, wsSyncs, wsHook, wsCalls>>
      BY <1>5 DEF SetDomain, WsInDialog, WsTyped
    <2>2. DOMAIN wsDialog = FormFields
      BY <1>1, <2>1 DEF DialogOK, NoDialog
    <2>3. wsDialog'.kind = "form" /\ wsDialog'.active = wsDialog.active
      BY <2>1, <2>2 DEF FormFields
    <2>4. DialogTyped(wsDialog')
      BY <1>1, <2>1, <2>3 DEF DialogTyped
    <2> QED
      BY <2>1, <2>4, WsTypedDialog
  <1>6. ASSUME NEW text \in WsTexts, SetConfig(text) PROVE SitesTyped'
    <2>1. /\ wsDialog.kind = "config" /\ wsDialog' = [wsDialog EXCEPT !.text = text]
          /\ UNCHANGED <<wsServer, wsSyncs, wsHook, wsCalls>>
      BY <1>6 DEF SetConfig, WsInDialog, WsTyped
    <2>2. text \in ConfTexts
      BY WebsitesAssumption DEF ConfTexts
    <2>3. DOMAIN wsDialog = ConfigFields
      BY <1>1, <2>1 DEF DialogOK, NoDialog
    <2>4. wsDialog'.kind = "config" /\ wsDialog'.text = text /\ wsDialog'.hook = wsDialog.hook
      BY <2>1, <2>3 DEF ConfigFields
    <2>5. DialogTyped(wsDialog')
      BY <1>1, <2>1, <2>2, <2>4 DEF DialogTyped
    <2> QED
      BY <2>1, <2>5, WsTypedDialog
  <1> QED
    BY <1>2, <1>3, <1>4, <1>5, <1>6

LEMMA WsTypedAskSteps ==
  ASSUME SitesTyped, SitesInv, OnSubmit \/ SubmitConfig \/ SaveManual \/ RunCertbot
  PROVE  SitesTyped'
  <1>1. DialogOK(wsDialog) /\ DialogTyped(wsDialog) /\ Flags(NoRow) /\ "none" \in ConfTexts
    BY DEF SitesInv, SitesTyped, Flags, NoRow, ConfTexts
  <1>2. CASE OnSubmit
    <2> DEFINE op == IF wsDialog.id = 0 THEN "create" ELSE "update"
               c == WsCall(op, wsDialog.id, wsDialog.dom, wsDialog.active, "none")
    <2>1. /\ wsDialog.kind = "form" /\ WsSend(c)
          /\ UNCHANGED <<wsServer, wsSyncs, wsHook, wsDialog>>
      BY <1>2 DEF OnSubmit, WsInDialog, WsAsked
    <2>2. wsDialog.id \in WsIds \cup {0} /\ wsDialog.dom \in WsDomains
      BY <1>1, <2>1 DEF DialogOK, NoDialog
    <2>3. WsCallOK(c) /\ c.at = "sent"
      BY <2>2 DEF WsCall, WsCallOK, WsCallFields
    <2>4. CallTexts(c)
      BY <1>1, <2>1 DEF WsCall, CallTexts, DialogTyped
    <2> HIDE DEF c
    <2> QED
      BY <2>1, <2>3, <2>4, WsTypedAsked
  <1>3. CASE SubmitConfig
    <2> DEFINE c == WsCall("config", wsDialog.id, "none", FALSE, wsDialog.text)
    <2>1. /\ wsDialog.kind = "config" /\ AsyncShown(wsDialog.hook) /\ WsSend(c)
          /\ UNCHANGED <<wsServer, wsSyncs, wsHook, wsDialog>>
      BY <1>3 DEF SubmitConfig, WsInDialog, WsEditorShown, WsAsked
    <2>2. wsDialog.id \in WsIds /\ wsDialog.text # "none"
      BY <1>1, <2>1 DEF DialogOK, NoDialog
    <2>3. WsCallOK(c) /\ c.at = "sent"
      BY <2>2 DEF WsCall, WsCallOK, WsCallFields
    <2>4. CallTexts(c)
      BY <1>1, <2>1 DEF WsCall, CallTexts, DialogTyped
    <2> HIDE DEF c
    <2> QED
      BY <2>1, <2>3, <2>4, WsTypedAsked
  <1>4. CASE SaveManual
    <2> DEFINE c == WsCall("manual", wsDialog.id, "none", FALSE, "none")
    <2>1. /\ wsDialog.kind = "ssl" /\ WsSend(c)
          /\ UNCHANGED <<wsServer, wsSyncs, wsHook, wsDialog>>
      BY <1>4 DEF SaveManual, WsInDialog, WsAsked
    <2>2. wsDialog.id \in WsIds
      BY <1>1, <2>1 DEF DialogOK, NoDialog
    <2>3. WsCallOK(c) /\ c.at = "sent"
      BY <2>2 DEF WsCall, WsCallOK, WsCallFields
    <2>4. CallTexts(c)
      BY <1>1 DEF WsCall, CallTexts
    <2> HIDE DEF c
    <2> QED
      BY <2>1, <2>3, <2>4, WsTypedAsked
  <1>5. CASE RunCertbot
    <2> DEFINE c == WsCall("certbot", wsDialog.id, "none", FALSE, "none")
    <2>1. /\ wsDialog.kind = "ssl" /\ WsSend(c)
          /\ UNCHANGED <<wsServer, wsSyncs, wsHook, wsDialog>>
      BY <1>5 DEF RunCertbot, WsInDialog, WsAsked
    <2>2. wsDialog.id \in WsIds
      BY <1>1, <2>1 DEF DialogOK, NoDialog
    <2>3. WsCallOK(c) /\ c.at = "sent"
      BY <2>2 DEF WsCall, WsCallOK, WsCallFields
    <2>4. CallTexts(c)
      BY <1>1 DEF WsCall, CallTexts
    <2> HIDE DEF c
    <2> QED
      BY <2>1, <2>3, <2>4, WsTypedAsked
  <1> QED
    BY <1>2, <1>3, <1>4, <1>5

\* What the configuration dialog reads is the class of a file of site.d.
LEMMA WsTypedDialogSteps ==
  ASSUME SitesTyped, SitesInv, wsDialog.kind \in {"config", "ssl"}, NEW c \in wsDialog.hook.calls,
         WsServeDialog(c) \/ WsDialogArrives(c)
  PROVE  SitesTyped'
  <1> DEFINE hook == wsDialog.hook
  <1>1. DialogOK(wsDialog) /\ DialogTyped(wsDialog) /\ ServerOK(wsServer) /\ ServerTyped(wsServer)
    BY DEF SitesInv, SitesTyped
  <1>2. UNCHANGED <<wsServer, wsSyncs, wsHook, wsCalls>>
    BY DEF WsServeDialog, WsDialogArrives
  <1>3. CASE wsDialog.kind = "ssl"
    <2>1. PICK h : wsDialog' = [wsDialog EXCEPT !.hook = h]
      BY <1>3 DEF WsServeDialog, WsDialogArrives
    <2>2. wsDialog'.kind = "ssl"
      BY <1>1, <1>3, <2>1 DEF DialogOK, SslFields, NoDialog
    <2>3. DialogTyped(wsDialog')
      BY <2>2 DEF DialogTyped
    <2> QED
      BY <1>2, <2>3, WsTypedDialog
  <1>4. CASE wsDialog.kind = "config"
    <2>1. DOMAIN wsDialog = ConfigFields /\ wsDialog.id \in WsIds /\ TextHookOK(hook)
      BY <1>1, <1>4 DEF DialogOK, NoDialog
    <2>2. DOMAIN hook = {"deps", "data", "failed", "calls"} /\ DOMAIN c = {"deps", "ans"}
      BY <2>1 DEF TextHookOK
    <2>3. /\ wsDialog.text \in ConfTexts
          /\ \A x \in hook.calls : x.ans \notin {Waiting, Failed} => x.ans[2] \in ConfTexts
      BY <1>1, <1>4 DEF DialogTyped
    <2>4. CASE WsServeDialog(c)
      <3>1. PICK res \in {Failed, WsAnswerTo(wsDialog)} : wsDialog' = [wsDialog EXCEPT !.hook = AsyncServe(hook, c, res)]
        BY <2>4 DEF WsServeDialog
      <3>2. ASSUME res # Failed PROVE res[2] \in ConfTexts
        <4> DEFINE row == wsServer.rows[wsDialog.id]
        <4>1. res = WsAnswerTo(wsDialog) /\ WsAnswerTo(wsDialog) # Failed
          BY <3>1, <3>2
        <4>2. row # NoRow /\ WsAnswerTo(wsDialog) = Value(wsServer.conf[row.dom])
          BY <1>4, <4>1 DEF WsAnswerTo
        <4>3. row.dom \in WsDomains
          BY <1>1, <2>1, <4>2 DEF ServerOK, SiteRow
        <4> HIDE DEF row
        <4>4. res[2] = wsServer.conf[row.dom]
          BY <4>1, <4>2 DEF Value
        <4> QED
          BY <1>1, <4>3, <4>4 DEF ServerTyped
      <3> DEFINE h == AsyncServe(hook, c, res)
      <3>3. \A x \in h.calls : x \in hook.calls \/ x.ans = res
        BY <2>2, HookServed
      <3>4. wsDialog'.kind = "config" /\ wsDialog'.hook = h /\ wsDialog'.text = wsDialog.text
        BY <1>4, <2>1, <3>1 DEF ConfigFields
      <3> HIDE DEF h
      <3>5. DialogTyped(wsDialog')
        BY <2>3, <3>2, <3>3, <3>4 DEF DialogTyped
      <3> QED
        BY <1>2, <3>5, WsTypedDialog
    <2>5. CASE WsDialogArrives(c)
      <3> DEFINE h == AsyncDeliver(hook, c)
                 text == IF c.ans = Failed THEN wsDialog.text ELSE c.ans[2]
      <3>1. /\ c.ans # Waiting
            /\ wsDialog' = IF c.ans = Failed THEN [wsDialog EXCEPT !.hook = h]
                           ELSE [wsDialog EXCEPT !.hook = h, !.text = c.ans[2]]
        BY <1>4, <2>5 DEF WsDialogArrives
      <3>2. h.calls \subseteq hook.calls
        BY <2>2, HookDelivered
      <3> HIDE DEF h
      <3>3. text \in ConfTexts
        BY <2>3, <3>1
      <3>4. wsDialog'.kind = "config" /\ wsDialog'.hook = h /\ wsDialog'.text = text
        BY <1>4, <2>1, <3>1 DEF ConfigFields
      <3> HIDE DEF text
      <3>5. DialogTyped(wsDialog')
        BY <2>3, <3>2, <3>3, <3>4 DEF DialogTyped
      <3> QED
        BY <1>2, <3>5, WsTypedDialog
    <2> QED
      BY <2>4, <2>5
  <1> QED
    BY <1>3, <1>4

\* The log of a certbot job: the dialog stays the one of a certificate.
LEMMA WsTypedJobSteps ==
  ASSUME SitesTyped, SitesInv, JobEnds \/ JobLine \/ JobDone \/ JobDisconnected \/ CloseStream PROVE SitesTyped'
  <1>1. DialogOK(wsDialog) /\ wsDialog.kind = "ssl" /\ UNCHANGED <<wsServer, wsSyncs, wsHook, wsCalls>>
    BY DEF SitesInv, JobEnds, JobLine, JobDone, JobDisconnected, CloseStream, WsStreaming, WsStream
  <1>2. DOMAIN wsDialog = SslFields
    BY <1>1 DEF DialogOK, NoDialog
  <1>3. wsDialog'.kind = wsDialog.kind
    BY <1>2 DEF SslFields, JobEnds, JobLine, JobDone, JobDisconnected, CloseStream, WsStream, JobDoneShown
  <1>4. DialogTyped(wsDialog')
    BY <1>1, <1>3 DEF DialogTyped
  <1> QED
    BY <1>1, <1>4, WsTypedDialog

\* An answer arrives: a request is forgotten, the list may run again, the dialog is
\* as it was, gone, or that of a certificate.
LEMMA WsTypedArriveStep == ASSUME SitesTyped, SitesInv, NEW i \in DOMAIN wsCalls, WsCallArrives(i) PROVE SitesTyped'
  <1> DEFINE c == wsCalls[i]
  <1>1. /\ ServerTyped(wsServer) /\ \A s \in wsSyncs : Flags(s.row)
        /\ ShownTyped(wsHook) /\ DialogTyped(wsDialog) /\ RequestsTyped(wsCalls) /\ DialogOK(wsDialog)
    BY DEF SitesTyped, SitesInv
  <1>2. /\ wsCalls' = Forget(wsCalls, i) /\ wsHook' = WsReloaded(c) /\ wsDialog' = DialogAfter(c)
        /\ UNCHANGED <<wsServer, wsSyncs>>
    BY DEF WsCallArrives
  <1> HIDE DEF c
  <1>3. RequestsTyped(wsCalls')
    BY <1>1, <1>2, RequestsForgotten
  <1>4. ShownTyped(wsHook')
    <2>1. wsHook' = wsHook \/ wsHook' = AsyncReload(wsHook)
      BY <1>2 DEF WsReloaded
    <2>2. ShownTyped(AsyncReload(wsHook))
      BY <1>1, HookRun DEF ShownTyped
    <2> QED
      BY <1>1, <2>1, <2>2
  <1>5. DialogTyped(wsDialog')
    <2>1. CASE wsDialog' = wsDialog
      BY <1>1, <2>1
    <2>2. CASE wsDialog' = NoDialog
      BY <2>2 DEF DialogTyped, NoDialog
    <2>3. CASE wsDialog' \notin {wsDialog, NoDialog}
      <3>1. /\ wsDialog.kind = "ssl"
            /\ \/ wsDialog' = [wsDialog EXCEPT !.hook = AsyncReload(wsDialog.hook)]
               \/ wsDialog' = [wsDialog EXCEPT !.hook = AsyncReload(wsDialog.hook), !.es = "open",
                                               !.status = "connecting", !.job = "running"]
        BY <1>2, <2>3 DEF DialogAfter
      <3>2. DOMAIN wsDialog = SslFields
        BY <1>1, <3>1 DEF DialogOK, NoDialog
      <3>3. wsDialog'.kind = "ssl"
        BY <3>1, <3>2 DEF SslFields
      <3> QED
        BY <3>3 DEF DialogTyped
    <2> QED
      BY <2>1, <2>2, <2>3
  <1> QED
    BY <1>1, <1>2, <1>3, <1>4, <1>5 DEF SitesTyped

LEMMA SitesTypedInit == WsInit => SitesTyped
  <1> SUFFICES ASSUME WsInit PROVE SitesTyped
    OBVIOUS
  <1> DEFINE s == wsServer
             n == Len(WsRows0)
  <1>1. /\ n \in Nat /\ n <= WsMaxIds /\ WsMaxIds \in Nat /\ WsMaxCalls \in Nat /\ DOMAIN WsRows0 = 1 .. n
        /\ \A i \in 1 .. n : WsRows0[i] \in [dom : WsDomains, active : BOOLEAN, ssl : BOOLEAN]
    BY WebsitesAssumption, LenProperties, ElementOfSeq
  <1>2. /\ DOMAIN s = ServerFields /\ s.ids = n
        /\ DOMAIN s.rows = WsIds /\ \A i \in WsIds : s.rows[i] = IF i \in 1 .. n THEN WsRows0[i] ELSE NoRow
        /\ DOMAIN s.conf = WsDomains
        /\ \A d \in WsDomains : s.conf[d] = IF \E i \in 1 .. n : WsRows0[i].dom = d THEN "form" ELSE "none"
        /\ s.link = {WsRows0[i].dom : i \in {j \in 1 .. n : WsRows0[j].active}}
    BY <1>1 DEF WsInit, ServerFields
  <1> HIDE DEF s
  <1>3. \A i \in WsIds : Flags(s.rows[i])
    <2>1. \A i \in 1 .. n : Flags(WsRows0[i])
      BY <1>1 DEF Flags
    <2>2. Flags(NoRow)
      BY DEF Flags, NoRow
    <2> QED
      BY <1>2, <2>1, <2>2
  <1>4. s.link \subseteq WsDomains /\ \A d \in WsDomains : s.conf[d] \in ConfTexts
    <2>1. s.link \subseteq WsDomains
      BY <1>1, <1>2
    <2>2. \A d \in WsDomains : s.conf[d] \in {"form", "none"}
      BY <1>2
    <2> QED
      BY <2>1, <2>2 DEF ConfTexts
  <1>5. s.ids \in 0 .. WsMaxIds
    BY <1>1, <1>2
  <1>6. ServerTyped(s)
    BY <1>2, <1>3, <1>4, <1>5 DEF ServerTyped
  <1>7. wsCalls = <<>> /\ wsSyncs = {} /\ wsDialog = NoDialog /\ wsHook = AsyncMount("list")
    BY DEF WsInit
  <1>8. ShownTyped(wsHook)
    BY <1>7, HookRun DEF ShownTyped
  <1>9. DialogTyped(wsDialog)
    BY <1>7 DEF DialogTyped, NoDialog
  <1>10. RequestsTyped(wsCalls)
    BY <1>1, <1>7, EmptySeq DEF RequestsTyped
  <1> QED
    BY <1>6, <1>7, <1>8, <1>9, <1>10 DEF SitesTyped, s

LEMMA SitesTypedNext == SitesTyped /\ SitesInv /\ [WsNext]_wsVars => SitesTyped'
  <1> SUFFICES ASSUME SitesTyped, SitesInv, [WsNext]_wsVars PROVE SitesTyped'
    OBVIOUS
  <1>1. SitesInv'
    BY SitesNext
  <1>2. ASSUME NEW c \in wsHook.calls, WsServeList(c) \/ WsListLost(c) \/ WsListArrives(c) PROVE SitesTyped'
    BY <1>2, WsTypedListSteps
  <1>3. ASSUME NEW s \in wsSyncs, WsWriteBack(s) PROVE SitesTyped'
    BY <1>3, WsTypedWriteBack
  <1>4. ASSUME NEW id \in WsRows, OnToggle(id) \/ OnRemove(id) \/ WsEdit(id) \/ WsOpenConfig(id) \/ WsOpenSsl(id)
        PROVE  SitesTyped'
    BY <1>4, WsTypedRowSteps
  <1>5. CASE WsNew \/ WsClose \/ SetActive \/ (\E d \in WsDomains : SetDomain(d)) \/ (\E text \in WsTexts : SetConfig(text))
    BY <1>5, WsTypedFormSteps
  <1>6. CASE OnSubmit \/ SubmitConfig \/ SaveManual \/ RunCertbot
    BY <1>6, WsTypedAskSteps
  <1>7. ASSUME wsDialog.kind \in {"config", "ssl"}, NEW c \in wsDialog.hook.calls, WsServeDialog(c) \/ WsDialogArrives(c)
        PROVE  SitesTyped'
    BY <1>7, WsTypedDialogSteps
  <1>8. CASE JobEnds \/ JobLine \/ JobDone \/ JobDisconnected \/ CloseStream
    BY <1>8, WsTypedJobSteps
  <1>9. ASSUME NEW i \in DOMAIN wsCalls, WsServeRead(i) \/ WsServeWrite(i) \/ WsServe(i) \/ WsAnswerLost(i) PROVE SitesTyped'
    BY <1>1, <1>9, WsTypedServeSteps
  <1>10. ASSUME NEW i \in DOMAIN wsCalls, WsCallArrives(i) PROVE SitesTyped'
    BY <1>10, WsTypedArriveStep
  <1>11. CASE UNCHANGED wsVars
    BY <1>11 DEF wsVars, SitesTyped
  <1> QED
    BY <1>2, <1>3, <1>4, <1>5, <1>6, <1>7, <1>8, <1>9, <1>10, <1>11 DEF WsNext

LEMMA SitesAreTyped == SitesTyped /\ SitesInv => WsTypeOK
  <1> SUFFICES ASSUME SitesTyped, SitesInv PROVE WsTypeOK
    OBVIOUS
  <1>1. ServerTyped(wsServer) /\ RequestsTyped(wsCalls) /\ ServerOK(wsServer)
    BY DEF SitesTyped, SitesInv
  <1>2. \A i \in WsIds : wsServer.rows[i] = NoRow \/
          (wsServer.rows[i].dom \in WsDomains /\ wsServer.rows[i].active \in BOOLEAN /\ wsServer.rows[i].ssl \in BOOLEAN)
    BY <1>1 DEF ServerTyped, ServerOK, SiteRow, Flags
  <1> QED
    BY <1>1, <1>2 DEF WsTypeOK, ServerTyped, RequestsTyped, ConfTexts

\* In the panel every page keeps its variables in the types the code gives them, and
\* within the bounds of what is in flight: the drafts, requests and disk of the file
\* manager, the dialogs, tokens and registry of the Plugins page, the tail and the
\* saved searches of the Logs page, the rows, files and requests behind the Websites
\* page, the panes and shells of the terminal, the sessions and tabs of the lockscreen.
THEOREM PanelIsTyped == PanelSpec => []PanelTypeOK
  <1> DEFINE Logs == ButtonInv /\ SavedInv /\ QueriesInv /\ LogsInv
             Plugins == ConsentInv /\ RowsInv /\ PiTyped
             Sites == SitesInv /\ SitesTyped
             Inv == EditInv /\ Plugins /\ Logs /\ Sites /\ PopupInv /\ TabTyped
  <1>1. PanelInit => Inv
    <2> SUFFICES ASSUME PanelInit PROVE Inv
      OBVIOUS
    <2>1. EditInv /\ PopupInv /\ TabTyped
      BY EditInit, PopupInit, TabTypedInit DEF PanelInit
    <2>2. Plugins
      BY ConsentInit, RowsInit, PiTypedInit DEF PanelInit
    <2>3. Logs
      BY ButtonInit, SavedInit, QueriesInit, LogsInit DEF PanelInit
    <2>4. Sites
      BY SitesInit, SitesTypedInit DEF PanelInit
    <2> QED
      BY <2>1, <2>2, <2>3, <2>4
  <1>2. Inv /\ [PanelNext]_panelVars => Inv'
    <2> SUFFICES ASSUME Inv, [PanelNext]_panelVars PROVE Inv'
      OBVIOUS
    <2>1. EditInv' /\ PopupInv' /\ TabTyped'
      BY PagesTakeTurns, EditNext, PopupNext, TabTypedNext
    <2>2. Plugins'
      BY PagesTakeTurns, ConsentNext, RowsNext, PiTypedNext
    <2>3. Logs'
      BY PagesTakeTurns, ButtonNext, SavedNext, QueriesNext, LogsNext
    <2>4. Sites'
      BY PagesTakeTurns, SitesNext, SitesTypedNext
    <2> QED
      BY <2>1, <2>2, <2>3, <2>4
  <1>3. Inv => PanelTypeOK
    <2>1. EditInv => FilesTypeOK
      BY EditTyped
    <2>2. Plugins => PiTypeOK
      BY PluginsTyped
    <2>3. Logs => LgTypeOK
      BY LogsTyped
    <2>4. Sites => WsTypeOK
      BY SitesAreTyped
    <2>5. PopupInv => TpTypeOK
      BY DEF PopupInv
    <2>6. TabTyped => PsTypeOK
      BY DEF TabTyped, PsStoreTyped, PsPageTyped, PsTypeOK
    <2> QED
      BY <2>1, <2>2, <2>3, <2>4, <2>5, <2>6 DEF PanelTypeOK
  <1> QED
    BY <1>1, <1>2, <1>3, PTL DEF PanelSpec
=============================================================================
