# GoSite: TLA+ models, checks and proofs

GoSite is a single-process server panel: a Go backend (HTTP API, SQLite, plugin
subprocesses, PTY shells, background jobs, nginx and certificate management) and a
React single-page application in TypeScript. This directory holds TLA+ models of
the parts in which several goroutines, processes, requests, tabs and restarts meet,
on the server and in the browser, the TLC configurations that check them on small
instances, and TLAPS proofs of the properties that matter most for every instance.

`PROJECT.json` is the index: components, runs, the map from definitions to source
lines, hazards, findings and theorems. Paths below are relative to `src/`, and
`views/`, `lib/`, `components/`, `api/` to `src/web/src/`.

Contents

1. [Inventory](#1-inventory) of the system
2. [Modules](#2-modules) and how they correspond to the code
3. [Runs](#3-runs), their bounds and what they show
4. [Fairness](#4-fairness)
5. [Proofs](#5-proofs)
6. [Findings and known divergences](#6-findings-and-known-divergences)
7. [Abstractions](#7-abstractions)
8. [Not modelled](#8-not-modelled)

## 1. Inventory

### The server

| Part | State it keeps | Operations | What is hard about it | What makes it correct |
|---|---|---|---|---|
| Plugin lifecycle (`internal/service/plugin/service.go`, `bundled_seed.go`, `oplock.go`, handler `plugin.go`) | the OpLock set; through others: registry rows, artifact directories | Install, RestoreBundled, Enable, Disable, SwitchEnabledVersion, Uninstall, Purge, SeedBundled, Reconcile | operations of five to ten steps with compensation; each statement may fail, the client may disconnect, the process may restart; Purge, Reconcile and the supervisor do not take the lock | one operation a plugin; an enabled version has its files, is alone and runs; every operation ends |
| Plugin registry (`internal/repository/sqlite/plugin.go`, `migrations/005`) | one row for every version: state and failure class; a partial unique index | SetState, SetFailure, CreateOrRetryInstall, MarkConfigDeleted, Purge, queries | unconditional updates by key; read-back after the update | rows follow the documented life cycle |
| Runtime manager (`runtime_goplugin.go`) | map of go-plugin clients | Start, Stop, EnsureStopped, Health | the handshake may end after its deadline, with the subprocess alive | exactly the enabled versions run |
| Health supervisor (`supervisor.go`) | failure windows | tick, restart with backoff, auto-disable | works on a list it read earlier, without the lock | an enabled version that is down is brought back or given up |
| Terminal session and browser client (`internal/terminal/session.go`, `rolling.go`, `protocol.go`, pump in `hub.go`, `lib/terminalClient.ts`) | sequence numbers, rolling dump, fanout channel, pause counter, pending buffer, attached websockets; in the browser the last position received | readLoop, fanoutLoop, waitLoop, AttachAndPump, replay, Kill; connect, reconnect, deduplicate | four goroutines and four mutexes, none held across two steps; reconnects | a client displays everything once and in order; nobody stays silent |
| Terminal hub (`hub.go`, `pty_unix.go`, handler `terminal.go`) | `sessions`, `byUser`, dumps on disk | AttachOrCreate, Create, Kill, exit callback, sweeper | check, spawn and register are separate critical sections; callbacks by id | listed sessions are alive, shells are listed, the cap, idle sessions end |
| Job worker (`internal/infra/job/worker.go`, `internal/repository/sqlite/job.go`, stream in handler `cron.go`) | `job_runs` rows, two queues, worker goroutines | Enqueue, process, complete, StreamSSE | full queues spill into goroutines; rows outlive the process; a client polls a column that changes its meaning | a run is started once, ends once, and its output arrives exactly |
| Cron service and scheduler (`internal/service/cron/service.go`, `internal/app/scheduler.go`, `internal/repository/sqlite/cronjob.go`) | `cronjobs` rows, the last tick | create, update, delete, RunManual, ShouldRun, tick | late and lost ticks; edits between the list and the start | a cron starts exactly when its interval's boundary was crossed |
| Sessions and lockscreen (`internal/service/auth/`, `internal/repository/sqlite/session.go`) | cache over SQLite rows, lock map in memory | Login, Get, Logout, Me, LockSession, Unlock | Get fills the cache from a row it read earlier; restart | after logout the cookie is dead |
| Website, nginx and SSL services (`internal/service/website`, `internal/infra/nginx`, `internal/service/ssl`) | rows, `site.d`, `active.d`, certificates | List, Create, Update, Toggle, Delete, UpdateNginxConfig, UpdateManual, EnqueueCertbot | several stores without a transaction, hand-written rollback, whole-row writes from reads | rows, files and links agree; no refused configuration stays |
| File service (`internal/service/files/service.go`) | none; the disk | Browse, Read, Save, BatchSave, Create, Copy, Move, Delete, Extract, Upload | batches stop half-way; a save looks for the file and then writes it; the disk has other writers | saving makes no file that was not there when it looked |
| Log search and tail (`internal/observability/splunklite/service.go`) | `tailCursor` per source, saved queries | Query, TailQuery, CRUD of saved queries | the cursor is a time, shared by every tail of a source; events come late and within one second | a tail passes over nothing that was stored in time |
| Remote plugin sources (`internal/service/plugin/remote/`) | resolve tokens | Resolve, ResolveAndFetch | single-use tokens with expiry; a source may change between preview and install | what is installed was consented to |

### The browser

| Part | State it keeps | Operations | What is hard about it | What makes it correct |
|---|---|---|---|---|
| Request hooks (`lib/hooks.ts`, `api/client.ts`) | per `useAsync`: data, error, the cancelled flag of the last run | mount, run on changed dependencies, reload, cleanup | answers out of order; reload after navigation | what is shown answers the last request |
| File manager (`views/Files.tsx`, `components/CodeEditor.tsx`) | listing, drafts with dirty flags, viewer, ticked rows, dialogs | navigate, open, edit, save one or all, batch delete, copy and move, drag and drop, dialogs, upload | answers write into drafts that were edited meanwhile; batches fail half-way | no edit is lost or called stored when it is not |
| Plugins page (`views/Plugins.tsx`) | list, install dialog with source, preview and acknowledgement | row actions, resolve, install | a preview that arrives after the source was changed; an install repeated after its answer was lost | only what was acknowledged is installed |
| Logs page (`views/Logs.tsx`, `components/LogsSearch.tsx`, `EventStream.tsx`) | search, mode, running query or EventSource, live queue, seen set, saved queries | Run/Stop, live, change of query and source, saved queries | fetch, EventSource, flush timer and effects race; reconnects | rows belong to the last run, each event once |
| Websites page (`views/Websites.tsx`, `components/JobStream.tsx`, `lib/sse.ts`) | list, one dialog, the stream of a certbot job | toggle, delete, form, configuration, SSL dialogs | toggles and saves over a list that is out of date; the end of a stream | a button does what it says |
| Terminal popup (`lib/terminalStore.tsx`, `components/TerminalWindow.tsx`, `TerminalPane.tsx`, `lib/terminalClient.ts`) | stored session id, window state, client with queue and reconnect timer | open, minimize, close, kill, type | unmounts, reconnects and restarts while keystrokes are queued | a pane and its keystrokes stay with one shell |
| Sign-in, lockscreen, idle timer (`App.tsx`, `components/Layout.tsx`, `views/Login.tsx`, `lib/idleLock.ts`, `lib/store.tsx`) | user, locked flag, ticker | boot, login, logout, lock, unlock, idle lock | overlapping requests, other tabs on the same cookie | the view shown is the one the service would show |

Section 8 lists what is not modelled and the hazards there.

### How the components interact

- The HTTP handlers call the plugin service on the request's context; the service
  calls the registry, the runtime manager and the dispatcher in that order. The
  supervisor calls the same three from its own ticker, and start-up reconciliation
  from the main goroutine before the server listens.
- The terminal handler calls `Hub.AttachAndPump`; a session calls the hub back
  (`onExit`) from its `waitLoop`. The browser reconnects to the same session id.
- The cron handler and the scheduler insert `job_runs` rows and put their ids on
  two different workers' queues (`NewRouter` builds one, `RunServe` the other). The
  SSL service does the same for certbot. The worker asks plugins through the hook
  bus before it runs a command and tells them afterwards.
- Each page of the panel talks to its service only through requests (and one
  EventSource or websocket); pages share no state. The session cookie is shared by
  all tabs.

## 2. Modules

| Module | Models | Instantiated or extended by |
|---|---|---|
| `PluginRegistry` | what the registry promises: the life cycle of a version | `PluginLifecycle` (refinement) |
| `PluginLifecycle` | lifecycle service, registry, runtime manager, supervisor, OpLock, reconciliation | `MCPluginLifecycle` |
| `TerminalSession` | one PTY session and the browsers attached to it | `MCTerminalSession` |
| `TerminalHub` | the registry of sessions, sweeper and restarts | `MCTerminalHub` |
| `JobRuns` | crons, scheduler, workers, runs and their followers | `MCJobRuns` |
| `AsyncHook` | `useAsync`, and requests in flight | every page |
| `FilesPage`, `PluginsPage`, `LogsPage`, `WebsitesPage` | a page and the service behind it | `Panel` |
| `TerminalPopup` | the floating terminal over a hub reduced to live shells | `Panel` |
| `PanelSession` | sign-in, lock, idle timer; the session store | `Panel` |
| `Panel` | a tab of the panel on one of these pages | `MCPanel` |
| `PluginLifecycleProofs`, `TerminalSessionProofs`, `TerminalHubProofs`, `JobRunsProofs`, `FilesPageProofs`, `TerminalPopupProofs`, `PanelSessionProofs`, `PanelProofs` | theorems (section 5) | |

### PluginLifecycle

State. `rows` is table `plugin_versions` (state and failure class for every
`<<plugin, version>>`; `absent` is "no row"), `files` the artifact directories,
`running` the runtime manager's client map, `orphans` the subprocesses it lost,
`targets` the dispatcher's enabled map, `locks` the OpLock, `req` the request
goroutines, `sup` the supervisor with its failure windows, `boot` the start-up.

Actions. One action is one database statement, one call of the runtime manager or
one call of the dispatcher, because those are the points where another goroutine
can step in. A request's `pc` names the next step; `InstallX`, `EnableX`,
`DisableX`, `SwitchX`, `UninstallX` are the steps of the function of that name,
in its order, with its compensations (`EnableUndoStop`, `EnableUndoMark`,
`DisableUndo`, ...). `Update` is a `SetState` or `SetFailure`: it fails when the
unique index refuses, when the row is missing, when the request's context has
ended or when a fault is allowed. `SupX` are the supervisor's steps, `BootX`
SeedBundled and Reconcile, `Crash` a restart: rows and files stay, everything
else is lost. Versions are numbers in semver order, so that "latest installable"
is the code's.

The zero record. `record, err = s.repo.SetState(...)` assigns the zero value on
error, and the compensation that follows works on it; `EnableCommit` does the same
(`NoVersion`), which is what the violation run shows.

### TerminalSession

State. The shell prints numbered units, one to a chunk; a unit's number is its true
position, so a frame is a tag (the sequence number the code sends) and the units it
really carries, and a wrong tag is visible. `hand`/`fanout`/`fan` follow a chunk
from readLoop over the channel to the broadcast; `pauseCount`, `pending` are the
pause protocol; `conn[c]` is `AttachAndPump` of websocket `c` with its program
counter; `view[t]` is tab `t`: `lastReceivedEnd` and what it displayed over all its
connections; `got[c]` is what was written to websocket `c`.

Actions. One critical section of one mutex each: `FanTake` (maybeBuffer),
`FanCheck` (IsBroadcastPaused), `FanTargets`, `FanWrite`; `PauseBroadcast`,
`Attach`, `Snapshot`, `SendReady`, `ResumeBroadcast`, `FlushNext`, `FlushWrite`,
`Replay`, `ReplaySend`, `PumpEnds`, `Detach`; `ShellExits`, `WaitTargets`,
`WaitSend`, `Kill`. Writes to a websocket that is breaking may succeed or fail.

### TerminalHub

State. `sessions` and `byUser` are the hub's maps, `inst` the session objects
(alive or dead, how far `waitLoop` is, whether readLoop holds output, whether the
sticky timeout has passed), `dumps` the files on disk, `req` the requests between
two critical sections of `Create` and `Kill`, `sweep` the sweeper's pass.
`SweeperKept` says whether the context given to `RunSweeper` stays live: TRUE is the
hub by itself, FALSE the wiring of `NewRouter`.

### JobRuns

State. `crons` and `runs` are the tables, `queue` and `overflow` the channel of each
worker and the goroutines that wait for it, `worker` the goroutines, `req` and
`sched` the producers between insert and enqueue, `stream` the clients that follow a
run, `live` whether RunServe's context is live. A run's output is a sequence of
pieces; while it is pending its column holds the command, as in the table. The
clock is an integer with a scaled calendar (`Scale`: ticks a minute, minutes an
hour, hours a day, days a month), so that every boundary occurs within the bound.
History variables: `started` (how often the command of a run was started) and
`calm` (no statement failed, no signal, no restart so far); no guard reads them.

### AsyncHook and the pages

`AsyncHook` is `useAsync` as a record: its dependencies, what it shows (`data`,
`failed`) and the set of calls whose answer it would still take. A run replaces that
set (the cleanup sets `cancelled`), an answer is delivered only from it. A hook's
call is served (the service reads) and delivered in two steps; everything may happen
between them. Other requests of a page are a sequence of records with an `ans`
field: sent, served, and then delivered, failed or lost, in any order. An action of
a page is one event handler with its effects flushed; an action of a service is one
handler, or one per step where the steps can be interleaved.

**FilesPage.** `filesDisk` maps paths to absent, directory or a text; the service's
operations are sets of outcomes on it, with partial outcomes for `MkdirAll`,
`BatchSave`, `copyTree`, extraction and upload. `filesDrafts` are the drafts with their
dirty flags; `raced` is a history flag that a draft was edited while an answer that
writes it was on its way: a read or a save of its path, or any batch save, which marks
every draft of the moment clean (`FilesConcerned`). `FilesOther` is any other writer of the disk. `SaveSelected`,
`RunBatchSave`, `RunBatchDelete`, `SelectedToParent`, `MoveDroppedPath`,
`FilesSubmitModal` are the page's functions; `FilesServeStat` (the `os.Stat` of a save),
`FilesServeCall` (the write of a save, an item of everything else) and `FilesServeRead` the service, `FilesReadArrives` and the arrival of other answers the
continuations of the `await`s.

**PluginsPage.** A remote source is a form and a reference, served by an upstream that
may change (`PiUpstreamMoves`). `piTokens` is the resolve cache: `Consume` and `sameSource`
are the checks of `ResolveAndFetch`. `piForm` is the install dialog with mode,
typed reference, preview, acknowledgement and busy flag. `piInstalled` remembers
what went through, what the form said when Install was pressed and what was
acknowledged.

**LogsPage.** `lgLog` holds the events of each source in the order they were stored, and
`lgCursor` is `tailCursor`, a time. An event is its timestamp and the beginning of its
message, which together are its id (`EventId`); two events may share the time, or both.
`LgAppend` stores one with any time, also one long past, as the ingestor does with the
lines of nginx; `LgJobGrows` changes the message of a job, which keeps its time. `Since` is
the `ts > ?` of the repositories and `OldestFirst` their `ORDER BY ts`, with equal times in
any order. `late` is a history flag of an event that was stored, or grew, when the cursor
of its source was already at or past its time.
`lgWork` holds the query in flight, the EventSource with its wire, the live queue
and the seen set of the current run. `PressButton`, `ToggleMode`, `ChangeSource`,
`ChangeQuery` are the handlers with the effect that stops and starts a run; `LgTick`
is a poll of `TailQuery`, `CursorsOnConnect` where a connection begins, `LgOtherTail`
another client's tail; `FlushLiveQueue` the flush timer. Saved queries have their requests
and the two-step rows of the popover.

**WebsitesPage.** `wsServer` is rows, `site.d` (by content class) and `active.d`. A
request reads its row (`WsServeRead`), a configuration is written (`WsServeWrite`)
and then tested; `WsServe` gives the outcomes of the rest, one for each step that can
fail. What Create, Toggle and UpdateNginxConfig do to undo a failed step runs on the same
request context with its errors ignored, so it may fail in its turn, a step of it at a time
(`Undoings`), and an INSERT or UPDATE may be carried out and its read-back fail: such
outcomes are `Half`. A listing computes the SSL flags and writes rows back afterwards (`WsWriteBack`).
The dialogs have hooks of their own; `JobLine`, `JobDone`, `JobDisconnected` are the
handlers of the job's EventSource. `wsSpoilt` records the domains on which an
operation stopped half-way, was not undone or not known to have been done, or came out of turn.

**TerminalPopup.** A shell is numbered in the order of creation and runs under a
session id; `tpClient` is the `TerminalClient` of the mounted pane: socket, the id it
asks for, the shell it is attached to, the shell it shows, its role and its queue.

**PanelSession.** `psRows`, `psCache`, `psLocks` are the store and the lockscreen; a
request looks up its session (`PsLookup`, `PsFill`) and then acts; a logout
deletes the row (`DeleteRow`: the statement may fail, which the code ignores) and then
the cache entry. `psIdle` is the ticker of the view on show, `psStray` one that survived
its view, whose requests belong to no view. The history variables `psOut`, `psUndeleted`
and `psRevived` are the sessions whose logout was answered, those whose DELETE failed and
those put back by an overlapping lookup.

**Panel** is the union of the pages: a tab is on one page and does that page's steps.
It bundles properties of the same kind (`ListsCurrent`, `RowsOfTheLastRequest`,
`ShownIsMeant`, `PanelTypeOK`).

## 3. Runs

TLC explores every reachable state of each instance; deadlock is checked everywhere
except for `TerminalSession`, where a session whose shell has ended and whose
websockets are used up really stops, and for `Panel`, where the user may have made
every gesture of the bound and every request been answered.

| Run | Instance | Checks |
|---|---|---|
| `plugin_faults` | 1 plugin, 2 versions, 2 requests, supervisor ticking; start, stop, delete, validation, migration and database faults | `TypeOK`, `LockDiscipline`, `OneEnabled`, `EnabledHasArtifact` |
| `plugin_quiescent` | 2 plugins of 1 version, one of them bundled and auto-enabled, 2 requests, no database fault, no tick | `NoHalfEnabled` |
| `plugin_dispatcher` | 1 plugin, 2 versions, 2 requests, 2 restarts, no tick | `DispatcherMatchesRegistry`, refinement `RegistrySpec` |
| `plugin_healing` | 1 plugin, 1 version, supervisor, slow handshakes, disconnecting clients, 1 restart; fair | `OperationsEnd`, `EnabledIsHealed` |
| `plugin_half_enabled` | 1 plugin, 2 versions, no fault at all | violates `NoHalfEnabled` (finding) |
| `term_attach` | 1 tab, 1 websocket, 3 units, replay, disconnect, exit; fair | `TypeOK`, `NothingUnsent`, `AttachedHearExit` |
| `term_tabs` | 2 tabs, 2 websockets, 2 units, disconnects | `NoDoublePrint`, `NoStuckPause`, `OneWriter` |
| `hub_concurrent` | 1 user, 3 ids, 3 session objects, 2 requests, cap 1 | `TypeOK`, `RegistrySound`, `LostOnlyByReuse`, `CapOvershoot` |
| `hub_sweep` | 1 id, 2 session objects, 1 restart, sweeper kept; fair | `IdleIsSwept` |
| `hub_sweeper_wiring` | 3 session objects with the router's context; fair | violates `IdleIsSwept` (finding) |
| `jobs` | 1 cron, 2 runs, both workers with queues of 1, 1 request, 1 follower, restart, SIGTERM, vetoes, failed statements; fair | `TypeOK`, `HeldOnce`, `NothingForgotten`, `StreamFaithful`, `DueIffCrossed`, `FinishedIsFinal`, `EveryRunEnds` |
| `panel` | the six pages on the bounds below; about 3.7 million distinct states | `PanelTypeOK`, `ListsCurrent`, `RowsOfTheLastRequest`, `CleanMeansStored`, `EditsAreSafe`, `InstalledAsConsented`, `TailExact`, `StopButton`, `SitesMatchRows`, `ShownIsMeant`, `OneShell`, `LoggedOutIsOut`, `PageAgrees` |

What they show, beyond what their names say:

- **Plugin.** The supervisor and Purge write rows without the OpLock and from lists
  they read earlier; nevertheless no version is enabled without files and no two
  versions of a plugin are enabled. The first holds because every path to `enabled`
  goes through a request that holds the lock from the check of the row to the
  commit, and the supervisor never writes `enabled`; the second only because of the
  partial index (the mutant that drops the index breaks it). `RegistrySpec` is the
  documented life cycle, in which an uninstalled version only comes back by being
  installed; it holds as long as the supervisor does not act, see the divergences.
- **Terminal.** The pause counter is shared by all attachers and decremented by a
  deferred second resume; still it never stays up and never strands a chunk
  (`NoStuckPause`), and whatever the snapshot misses is written to the websocket
  (`NothingUnsent`, one attacher). Deduplication in the browser hides every frame
  the server sends twice (`NoDoublePrint`).
- **Hub.** The cap is checked and used in different critical sections; it is exceeded
  by at most the number of concurrent creations (`CapOvershoot`). A shell drops out
  of the list only when its id is used twice in one server run.
- **Jobs.** Spilled enqueues, vetoes and failed statements never make two
  goroutines hold a run, and the follower's byte position stays valid although the
  column holds the command first and the output later. `DueIffCrossed` compares
  `ShouldRun` with "a boundary of the interval lies between the ticks" for every
  interval, every lateness up to an hour minus a minute and every tick within a scaled
  month of the scheduler's.
- **File manager.** Answers that arrive late, twice or never cannot show one directory
  under another's path. A draft that is called clean has been on the disk, unless it
  was edited while an answer that writes it was on its way; a batch save that stops half-way
  leaves every draft dirty. Saving brings a deleted file back only if it was deleted
  between the `os.Stat` and the write of that save (`SaveCreatesNothing`).
- **Plugins page.** A preview of another source may be on show when Install is
  pressed, but `sameSource` refuses it, a repeated install fails because `Consume`
  removes the token whatever becomes of the fetch, and a pinned source gives the
  archive that was previewed.
- **Logs page.** The rows are always of the last run, although a stopped query may
  still be answered, a flush may still be due and an EventSource may still deliver.
  A tail shows an id once. One that no other tail interfered with passes over an event
  only if it was stored, or a job's grew, when the cursor was at or past its time already
  (`late`), or at a connection that broke within a second of the last event seen (`sure`).
- **Websites page.** Row, file and link agree on every domain on which no operation
  stopped half-way or overlapped with another: a create, a toggle or a configuration that
  fails at any step leaves them agreeing if what undoes it goes through. A configuration
  typed in that nginx refuses is in `site.d` only while it is tested.
- **Popup.** A pane that reconnects comes back to its shell, and queued keystrokes
  reach the shell they were typed at or the one that replaced it under its id.
- **Session.** Once a logout was answered the session has no row, unless its DELETE failed
  (`psUndeleted`), and it is in the cache only after a lookup that overlapped the logout
  (`psRevived`); the panel shows the view the service would.

Bounds, and why they are enough. Two requests are the least that race, and the lock
excludes a third on the same plugin; two versions are the least that compete for the
unique index and the least a switch needs; two plugins the least that share the
dispatcher. Two websockets are the least that share the pause counter; three units
are one for the snapshot, one for the pending buffer and one for the broadcast. Three
session objects let an id be reused while a third session is being created.
Queues of one with two runs are full at once. `MaxCrashes` 1 or 2, `MaxRestarts` 1
give a restart in every state and, with 2, one during reconciliation. `DumpMax` is
never reached in the two session runs: when it is, sequence numbers and dump drift
apart, which is a divergence below. `MaxGap` is the number of scheduler ticks that
may pass as one.

The pages are bounded by the gestures of the user, the requests in flight and the
moves of everybody else. Gestures that only lead to others count for more, so that
the budget goes to what interleaves:

| Page | Bounds | Enough for |
|---|---|---|
| Files | a root, a directory, two files; 2 requests, 1 change by others, 4 gestures (navigation, reload and dialogs count for 2) | open, edit, save and edit again with the disk changed in between; a batch over two drafts; a navigation between two listings |
| Plugins | three versions (enabled, installed, absent), two references of which one is pinned; 2 requests, 1 move, 7 gestures (those outside the dialog count for 3) | preview, acknowledge, install, install again; change the source while the preview is on its way |
| Logs | 2 sources (a site's access log, the jobs), 2 queries, 2 timestamps, 2 messages, 3 events a source, 2 rows on show, 3 moves, 2 requests about saved queries, 4 gestures (changes of query and the popover count for 2); 4 moves and gestures together | stop and start between answer and flush; a reconnect and another tail; an event of the second the cursor is at, one before it and one of a known id; a job that grows while it is on the wire |
| Websites | 1 site, 2 domains, 2 ids, 2 requests, 6 gestures (page 2, dialog 1) | two operations on a site; a second site on the same domain |
| Terminal | 3 shells, 5 gestures, 2 of lost socket, exit or restart | a shell replaced under its id while keys are queued; a third beside it |
| Session | 2 sessions, 2 requests, 2 moves, 3 gestures | lookup, logout and another tab's act on one cookie; a login after it |

Symmetry is used in safety runs only (requests, tabs; ids of a single user).

## 4. Fairness

`FairSpec` asks for weak fairness of what the Go runtime schedules, and nothing of
users, clients, the network or time:

- `PluginLifecycle`: every request's next step, the supervisor's steps and its
  ticker, and the boot sequence. A statement and a handshake return (the runtime
  manager has a 15 s deadline); failing forever is allowed.
- `TerminalSession`: readLoop's send, the fanout goroutine, waitLoop and each
  attach. A write to a websocket returns, with or without an error: the code sets no
  write deadline, so for a peer that has vanished this is TCP's doing.
- `TerminalHub`: started requests, session goroutines and the sweeper's ticker.
- `JobRuns`: producers, spilled enqueues and workers take the steps they can take, and
  commands end, an assumption about users' commands: the code gives them no deadline.
  Nothing is asked of followers, whom no run waits for.

`Panel` states no fairness: a request may stay unanswered for ever (the browser sets
no timeout), so nothing is promised of when the page is up to date, only of what it
shows once requests are answered.

## 5. Proofs

`PluginLifecycleProofs` proves, for any sets of plugins, versions and requests,
any bundled index, any faults and any number of restarts:

| Theorem | States |
|---|---|
| `TypeCorrect` | `Spec => []TypeOK` |
| `LocksCorrect` | `Spec => []LockDiscipline` |
| `EnabledVersionHasFiles` | `Spec => []EnabledHasArtifact` |
| `AtMostOneEnabled` | `Spec => []OneEnabled` |
| `RegistryImplemented` | `Spec => RegistrySpec`, if `Ticking = FALSE` |
| `NothingHalfEnabled` | `Spec => []NoHalfEnabled`, if `Ticking = FALSE`, `MaxCrashes = 0`, there is one version, and `"db"`, `"ctx"` and `"stop"` are not in `Faults` |
| `DispatcherInStep` | `Spec => []DispatcherMatchesRegistry`, if `Ticking = FALSE`, `"db"` and `"ctx"` are not in `Faults`, and there is one plugin or one request |

Assumptions: those of the module (`NoPlugin` is not a plugin, versions are positive
numbers, bounds are numbers, `Faults` is a set of the named kinds); TLC evaluates
them in every run.

*The inductive invariant.* `EnabledHasArtifact` is not inductive: a step that
deletes files must know that its version is not enabled, and the step that commits
`enabled` must know that the files are there. `ArtifactInv` adds what makes that
true: an operation in flight holds its plugin's lock and no other operation works on
that plugin (`LockDiscipline`), it knows its plugin and versions by the time it uses
them (`OperandsOK`), a request about to commit holds an artifact, and one that is
installing or uninstalling works on a version that is not enabled (`ArtifactHeld`).
The actors without a lock preserve it because none of them writes `enabled` or
deletes the files of an enabled row; that is one step each of `SupervisorSteps`,
`BootSteps` and `PurgeKeeps`.

*The argument.* `InitInv` and `NextInv` are the two halves. Most actions move one
request and change one row, so the steps are reduced to three shapes, each proved
once: a request returns (`ReturnKeeps`), a request moves on (`MoveKeeps`), a
statement succeeds or fails and the request does one or the other (`GotoKeeps`).
`OthersHold` says that the other requests keep their part because the lock
separates them. One lemma for each operation (`EnableSteps`, ...) then has one step
for each of its actions. `OneEnabled` is proved on top: `UniqueStatement` is the
index, `UniqueNext` has one case for each way a row is written.

*The refinement.* `RegistryImplemented` maps every step to a step of `PluginRegistry` or
to a stutter. A statement changes one row (`RegistryMove`) or, where the index or a
fault refuses it, none; whether the change is a transition of the documented life
cycle depends on the state the row is in when the statement runs, several statements
after it was checked. `RegistryInv` adds that knowledge to `ArtifactInv`: `RowsTied`
gives for each program counter of a request (`Tie`) the states its two rows may be
in. `Ticking = FALSE` is the hypothesis because the refinement is false with the
supervisor (section 6); the run `plugin_dispatcher` checks it under the same one.

*Half enabled, and the dispatcher.* Both theorems rest on `Undisturbed`: as long as
statements and contexts do not fail, no request is on the way back from a failed
statement (`UndoPC`) or gone. Each further hypothesis of `NothingHalfEnabled` rules out
a real way to stay half enabled: a second version (finding 1), a supervisor that
restarts what was disabled, a restart in the middle of an operation (`TransitionsEnd`),
a kill that fails on the way back. Files, archives, hooks, migrations and subprocesses
may fail. `HalfInv` says of every program counter whether the version worked on is
settled, runs or does not (`Stage`), and that a version whose plugin is free is settled.
`DispatcherInStep` allows restarts and any versions. `DispatchInv` says what a request
has made of the targets at each of its steps (`Synced`): the list it is about to apply is
the one of the registry, or the targets lack the version that is being disabled, or they
are up to date. With two plugins and two requests a list is stale by the time it is
applied (section 6).

*Terminal hub.* `TerminalHubProofs` proves `RegistryIsSound` (`Spec => []RegistrySound`)
and `HubTyped` (`Spec => []TypeOK`) for any users, ids, session objects, requests, cap
and number of restarts, under the assumption `"early" \notin Events`: no shell ends
before `Create` has registered it. The assumption is needed, not convenient: such a
shell's exit callback finds nothing to remove, and the registration that follows
lists a dead session (divergences). The run `hub_concurrent` has the same events.
`RegistrySound` is not inductive; `HubInv` adds what the maps hold (`Listed`: a session
under its own id, registered, its exit not handled), what a request is about to
register (`Creating`: a running shell of its own, which no other request has), that
only started sessions end (`Started`) and that the sweeper unregisters an id
(`SweepsAnId`). `UnregisterKeeps` is the lemma of the three callers of
`unregister`, which delete whatever is registered under the id.

Two more theorems need no assumption about early exits. `CapOvershootIsBounded`
(`Spec => []CapOvershoot`, finitely many requests): `CapInv` counts a user's sessions
together with his creations that have passed the check (`Passed`); a creation enters
that count only below the cap, and then at most all the other requests are in it.
`OnlyReuseLosesShells` (`Spec => []LostOnlyByReuse`): `KeptInv` says that a running
shell is registered, about to be registered, or shares its id with another session
(`NoneLost`), and that whoever is about to unregister an id, a request, an exit
callback or the sweeper, knows an ended session of it (`Promised`, `EndsForGood`,
`SweepsDead`); a running shell it removes by mistake then shares that id.

*Terminal session.* `TerminalSessionProofs` proves, for any websockets, tabs, output and
gestures, `SessionTyped` (`Spec => []TypeOK`), `PauseNeverSticks`
(`Spec => []NoStuckPause`), `OneWriterOnly` (`Spec => []OneWriter`) and `NoUnitTwice`
(`Spec => []NoDoublePrint`). `SessionInv` adds to the types that every pause belongs to
a websocket that has not finished attaching (`PausesHeld`: the counter is at most
the number of attachers, which is what makes the second, deferred resume harmless)
and that an attached websocket with the writer's role is the writer (`RolesAgree`).
`NoUnitTwice` has the hypothesis `NothingCutOff`: nothing was restored from a dump and
the output fits into one. It is needed: after a trim the dump is labelled with a
later position than its first byte has, and a browser does display units twice
(section 6). Under it `DedupInv` says that the dump is the whole output
(`DumpWhole`), that a frame's number is the position of its first unit
(`SnapsAligned`), and that what a browser shows ascends and is covered by its position
(`ViewsInOrder`), whatever frames arrive and in which order.
`EverythingIsSent` (`Spec => []NothingUnsent`) has two hypotheses: one websocket, because
two that attach, or one tab that reconnects, share the pause and the buffer
(section 6), and `FanCap >= MaxOutput`, because `readLoop` drops what a full channel
does not take. `DeliveryInv` follows each unit from the start of the websocket's snapshot: it
was written, or is in a hand, a channel, the pending buffer or a flush (`UnderWay`), or
in the snapshot that the websocket waits for (`ToCome`); and the channel never fills up
(`RoomLeft`).

*Jobs.* `JobRunsProofs` proves `RunsAreHeldOnce` (`Spec => []HeldOnce`), `ResultsAreFinal`
(`Spec => FinishedIsFinal`) and `JobsTyped` (`Spec => []TypeOK`) for any crons, workers,
queue capacity, requests and number of runs, with failing statements, refusing
plugins, SIGTERM and restarts, under the assumptions of the module. `JobsInv` says
that a run is held by one place at most, counted over all the kinds of place
(`HeldAlone`), that a held run has no result yet (`HeldUnfinished`), that whoever is at
work names an existing run and whoever rests names none (`Tied`), and that a run that
waits was not started (`StartedOnce`). `Holders` is a set built from five variables;
`HoldersAre` lists its members one by one (`IsHolder`), and the steps fall into four
shapes: a run is let go (`LetGo`), moves to one new place (`MovesOn`, over
`EnqueueGives`), moves up in a queue (`TakeKeeps`) or is created (`CreateKeeps`). A
worker's steps share `WorkerKeeps`. `ResultsAreFinal` follows from `WhoWrites`: a row is
only written by the worker that holds it, and nobody holds a finished run.
`NoRunIsForgotten` (`Spec => []NothingForgotten`) is the counterpart of `HeldOnce`: every
unfinished run has a holder as long as `calm`; each step that drops one, a failed
statement, SIGTERM, a restart, ends `calm`. `StreamsAreFaithful`
(`Spec => []StreamFaithful`) rests on `StageInv`, which ties a row's status and output
to the worker's next statement: one statement sets `running` and replaces the
command by the header, so a poll never counts the command as output (`SentOf`).
`TicksAreExact` (`Spec => []DueIffCrossed`) holds for every calendar `Scale`, where the run
has one in which a minute is a tick. `SameHour` says that the fields `ShouldRun` compares for
an hourly cron, the hour and the day, tell any two hours apart; `SameMinute` that the
minute and the day tell two minutes apart if the ticks lie an hour minus a minute apart
at most, which is the exact bound: 12:00:59 and 13:00:01 have the same minute. The
provers do not reason about `\div` and `%` with a divisor that is not a number, so the
lemmas they rest on are proved from the quotient and the remainder (`DivIs`): that they are
unique (`DivUnique`), that a multiple lies between two numbers with different
quotients (`BoundaryBetween`), and that quotients compose (`DivOfDiv`).

*The panel.* Each page's theorem is proved in the page's own specification and lifted
to the panel by `PagesTakeTurns`: a step of `PanelSpec` is a step of the page or
leaves its variables alone.

| Module | Theorem | In the panel | Inductive invariant |
|---|---|---|---|
| `FilesPageProofs` | `ListingIsOfThisDirectory` | `PanelListsThisDirectory` | `ListingInv`: every call whose answer the hook would still take asks for the directory on show, and an answer is of the directory that was asked for (`HookOfDirectory`) |
| `FilesPageProofs` | `FilesPageTyped`, `DraftsAreHonest`, `EditsAreKept` | `PanelDraftsAreHonest` (`CleanMeansStored`), `PanelEditsAreSafe` (`EditsAreSafe`) | `EditInv`: every outcome of the service is a disk and its texts are known (`FilesDiskOK`), a read found and a save is through with texts that have been on the disk (`AnswerStored`), and a draft not edited under way is dirty or stored, known to every batch save, what a save of it was sent with, and not about to be read (`DraftKept`). That a save makes no file that its own `os.Stat` had not found is proved step by step (`EditsAreKept`): the item whose file was found is part of the request |
| `TerminalPopupProofs` | `PaneIsOneShells`, `PopupTyped` | `PanelPanesKeepTheirShell` (`OneShell`) | `PopupInv`: live shells have different ids (`IdsApart`), a new shell's id is free (`IdsKnown`), the client asks for the id of the shell on show and its queue was typed at that shell (`ClientTied`) |
| `PanelProofs` | | `PanelInstallsAsConsented` (`InstalledAsConsented`) | `ConsentInv`: what is ticked beside a preview was ticked on that preview (`InstallFormOK`), previews and answers are plans the service issued (`Genuine`), a remote install carries the token of the plan that was ticked (`PiCallOK`), and the token of what is installed is gone for good (`ConsentedTo`). `Later` is what an issued, used or forgotten token may do to the plans that are out |
| `PanelProofs` | | `PanelStopButton` (`StopButton`) | `ButtonInv`: a query under way is the only one and has no stream beside it (`WorkShape`), nothing runs before the metadata is there, and a button at Stop has work or a changed source |
| `PanelProofs` | | `PanelTailIsExact` (`TailExact`), `PanelShowsTheLastRequest` (`RowsOfTheLastRequest`) | `LogsInv`: rows, queue and answers are of the run, each live row is remembered as seen, and no event is shown live twice (`ListOK`, `WorkOK`); what is on the wire of a tail is in the order of time, not before the last event it was given and not past the cursor (`Ordered`); of what was stored in time (`InTime`) everything from its start to the cursor was given or is on the wire by its id (`Complete`), and everything up to the last event was given before it connects again (`Resumes`). `OldestFirst` leaves the order within a second open: `WireGrows` and `TickOrders` say what one tick adds, `ListingGives` that a listing has every event of the log. A lemma for each thing that happens to a tail or its log (`FollowConnects`, `FollowTicks`, `FollowTakes`, `FollowBreaks`, `FollowUnsure`, `FollowLog`, `LogGrows`, `JobGrows`) |
| `PanelProofs` | | `PanelSitesMatchRows` (`SitesMatchRows`) | `SitesInv`: ids are given in order (`ServerOK`); row, file and link of a domain that was not spoilt agree and the domain is one site's (`Agreed`); of such a domain one request at most tests a configuration, it knows a good one to put back, and a refused file is the one it tests (`Tested`). For each operation a lemma (`CreateAgrees` to `ConfigAgrees`) says that every outcome, failed ones included, leaves other domains alone (`Confined`) and its own agreeing or spoilt (`OutcomeAgrees`); an outcome that is `Half` spoils it |
| `PanelProofs` | | `PanelListsAreCurrent` (`ListsCurrent`) | A hook waits for one answer at most (`HookAlone`). `FilesListed`, `PiListed` and `WsListed`: unless an operation under way will reload the list or the page has been told that something failed, what is on show, or is on its way, is what the service has. `SavedInv`: a request about the saved queries that is not raced is alone, and what its answer will make of the rows on show is what the service has |
| `PanelProofs` | | `PanelShownIsMeant` (`ShownIsMeant`) | `PiMeant`, `WsMeant`: a Disable or a toggle that nothing came between is alone and finds what its button showed, which rests on the lists above, on one version being enabled at most (`OneEnabled`), and for the toggle on what `SitesInv` says of the site; `WsVerdicts`: an SSL dialog has one certbot request under way at most and none once its stream is there, and a stream with a verdict is over |
| `PanelProofs` | | `PanelIsTyped` (`PanelTypeOK`) | Those above, with `PiTyped` and `SitesTyped` for the two pages whose invariants say little of types: every outcome of the plugin service is a registry of known states and every plan names a source there is; every outcome of the website service, failed ones included, is a server of rows with flags, classes of configuration and links of domains (`ServerTyped`, one lemma for each operation), and so is what a request read, a listing shows, writes back, or a dialog puts into its editor (`CallTexts`, `ShownTyped`, `DialogTyped`) |
| `PanelSessionProofs` | `LogoutWorks` | `PanelLogoutWorks` (`LoggedOutIsOut`) | `LogoutInv`: what the cache holds has a row, but for the two cases, and the types of the requests; each action keeps the logouts in flight or removes the cache entry (`RemoveAtKeeps`). `OutInv`: a logout past its DELETE and one that was answered have no row unless the statement failed (`RowGone`), which no step takes back, because a login makes a session that was never there |
| `PanelSessionProofs` | `SessionPageTyped`, `PanelAgreesWithService` | `PanelAgrees` (`PageAgrees`) | `TabTyped`, and `AgreeInv`: as long as nothing was mixed, one request at most is in flight, and each of its stages says what the view is and what it will be once the answer is there |

The bounds of the pages (gestures, moves) are constants without an assumption, but that
those of requests in flight are numbers: the theorems hold for every value of them. `FilesAssumption` says that the paths are closed
under parents, that the editor takes files of them and that a text is not a directory;
`PsSessionsAssumption` that there may be a session at all; `WebsitesAssumption` that the
sites the page is opened on are as many as there are ids at most and start with a
domain each, that "none" is no domain, and that what is typed into the editor is of one
of the classes of configuration. `LogsAssumption` says that the
search of the first visit is of a source there is, that some name can be saved, that there is
a message, and that the bounds of logs, times and lists are numbers (of logs and times, above 0). `PluginsAssumption` says that
"none" is no form, that the rows the page is opened on have states of the registry and that one
version is enabled at most, which the unique index of the
registry's table (`migrations/005_plugin_registry.sql`) guarantees. The service does not keep two
sites from sharing a domain later; that domain then counts as spoilt. `DraftKept` is where the proof found
what the bounds of the run hide: an edit of another draft while a batch save is on its
way is marked clean as well, which `raced` has to count (section 6).

What a flush of a tail's queue keeps (`Accepted`) is computed by a loop. `TakenGrows` and
`AcceptedGives` are inductions over its steps. The library's induction theorem needs an
operator for its hypothesis; `CountUp` does without, for the *set* of the
steps that keep what is claimed, from the fact that a set of numbers that is not empty
has a least one (`LeastNumber`, from the library's `WFMin`). The model remembers every id
of a tail, the code the last 5000 (`liveSeenCap`): the theorems speak of a tail that was
given 5000 events at most since Run was pressed.

*Checked by TLC only.* Liveness (`OperationsEnd`, `EnabledIsHealed`,
`AttachedHearExit`, `IdleIsSwept`, `EveryRunEnds`) is out of the prover's reach, and
so are statements with ENABLED.

## 6. Findings and known divergences

Two runs are expected to fail; each shows the code contradicting a sentence of the
repository.

1. `plugin_half_enabled`: enabling version 2 while version 1 is enabled leaves
   version 2 in `enabling` for ever with its subprocess running
   (`internal/service/plugin/service.go:635`), although the sequence document
   promises the compensation.
2. `hub_sweeper_wiring`: `NewRouter` cancels the sweeper's context when it returns
   (`internal/delivery/http/router.go:197`), so idle sessions are never killed.

Further properties are stated in the modules and hold in no run, because TLC finds
a behaviour of the code that breaks them. They are kept as statements of what one
would like; the constants in the table reproduce the trace.

| Property | Broken when | What happens |
|---|---|---|
| `OnlyEnabledRun` | `Versions = {1}`, `Ticking`, fault `health` | the supervisor restarts a plugin that was disabled during its backoff |
| `DispatcherMatchesRegistry` | two plugins of one version | the refresh applies a list read before another plugin's change |
| `RegistrySpec` | `Ticking`, fault `health` | the supervisor marks a version that was uninstalled meanwhile as failed, so that it is back in the registry |
| `NoOrphanProcess` | fault `slow` | a handshake that ends after the deadline leaves a subprocess nobody stops |
| `TransitionsEnd` | fair, `MaxCrashes = 1` | rows left `enabling`, `disabling`, ... by a restart are never repaired |
| `ReadyFirst` | `MaxOutput = 1` | a chunk that passed the pause check before the pause is broadcast to the new websocket before its ready frame |
| `NothingUnsent` | two tabs, or a tab that reconnects | a chunk that was neither buffered (not paused yet) nor broadcast (paused by then) is lost |
| `NothingMissed` | `MaxOutput = 2`, or `Restored = 1` | a frame that arrives early raises the browser's position, so the snapshot is dropped as already seen |
| `SnapshotShown` | two websockets, `disconnect` | the same, over a reconnect |
| `NoDoublePrint` | `MaxOutput = 6`, `DumpMax = 5`, `FanCap = 6` | after a trim the dump is labelled with a later position than its first byte has |
| `ExitReachesAll` | fair, `exit` | a websocket that attaches after waitLoop collected its targets is never told |
| `AliveIsRegistered` | two requests for one id, or kill and reuse of an id | unregister works by id and removes the newer session |
| `CapRespected` | two requests, cap 1 | the check and the registration are separate |
| `RegisteredIsAlive` | event `early` | a shell that ends before it is registered is listed until it is swept |
| `DumpRemoved` | events `output`, `kill` | readLoop appends after the dump was removed |
| `EveryRunEnds` without `~calm` | restart or SIGTERM | pending and running rows are never taken up again or completed |
| `DueIffCrossed` with `late > PerHour - PerMinute` | ticks more than an hour minus a minute apart | ShouldRun compares the minute of the hour: a tick late in a minute and one early in the same minute of the next hour look like the same minute |
| `ReopenResumes` (`TerminalPopup`) | open, close | the id of a new shell is never stored (`lib/terminalStore.tsx:242` says that the ready frame will fill it in; `TerminalPane` handles `exit` and `error` only), so that opening the window again starts another shell; `components/TerminalWindow.tsx:3` promises the same one |
| `LoggedOutIsOut` without `psUndeleted` | the DELETE of a logout fails | its error is ignored, the entry of the cache and the cookie go and the answer is 204; the next request with that cookie reads the row and is accepted (`internal/service/auth/session.go:158`) |
| `LoggedOutIsOut` without `psRevived` | a lookup reads the row, a logout deletes row and entry, the lookup fills the cache | the session is accepted again until it expires or the service restarts (`internal/service/auth/session.go:146`) |
| `PageAgrees` without `psMixed` | restart with a locked session | locks are kept in memory: the panel shows its lockscreen, a reload shows the Shell |
| `psStray = 0` (`PanelSession`) | the idle lock's request fails after the view is gone | `fireLock`'s error path starts a ticker nobody clears (`lib/idleLock.ts:50`) |
| `SaveCreatesNothing` without `found` | a file is deleted or moved away between the `os.Stat` and the `os.WriteFile` of a save | the write makes it again (`internal/service/files/service.go:154`, `:164`) |
| `CleanMeansStored`, `EditsSurvive` without `raced` | an edit while a save or a read of the draft, or a batch save of any drafts, is on its way | the answer writes the captured draft back, or marks the newer text clean, that of another draft included (`views/Files.tsx:385`, `:417`) |
| `NothingPassedOver` without `sure` | two tails of one source, or a reconnect before the first event | a tail starts from the shared cursor, and the other tail moves it (`internal/observability/splunklite/service.go:568`) |
| the same | the connection breaks after the first of several events of one second arrived | the tail resumes after the *time* of the last event, a nanosecond on, so that the others of that second are lost (`internal/observability/splunklite/service.go:566`, `internal/repository/sqlite/log_events.go:224`) |
| `NothingPassedOver` without `late` | one tail, which nobody interferes with | only what has a later time than the cursor is read (`internal/repository/sqlite/log_events.go:224`; `ListSince` of `audit.go:189` and `job.go:254` beside it), and the cursor is the time of the newest event written out (`internal/observability/splunklite/service.go:593`). The lines of nginx carry whole seconds (`ingestor.go:349`) and are ingested only when somebody tails or queries (`service.go:525`, `internal/delivery/http/handler/observability.go:97`, `:169`, `:373`), long after they were written perhaps: a line of the second the cursor is at, or of an earlier one, that is stored after the tick is never written out |
| every event shown once (`TailRowsOnce` says every *id* once) | two events with the same source, time and first 64 bytes of their message; a job that grows | the id is all that the page knows an event by (`internal/observability/splunklite/service.go:414`, `views/Logs.tsx:118`): two requests for one page within a second are one row; a job whose message became its output or its error has another id and, read again, is shown as another row (`service.go:363` beside it) |
| `StopMeansWork` without `lgTurned` | the source is changed during a run | the button reads Stop and nothing is under way (`views/Logs.tsx:458`) |
| `RowMatchesLink` without `wsSpoilt` | a step of Update or Delete fails, or a domain is changed or shared | the row is written first and not restored; the old link stays (`internal/service/website/service.go:174`, `:216`) |
| the same | a step of Create or Toggle fails and so does what undoes it, as when the client leaves during `nginx -t` or the reload: the undoing runs on the request's context and its errors are ignored | an active row without file or link, or a link that the row denies (`internal/service/website/service.go:119`, `:257`, `:266`) |
| the same | an INSERT or UPDATE is carried out and the SELECT that reads the row back fails | Create answers with an error and leaves a row without a file; Toggle puts the link back although the row has changed (`internal/repository/sqlite/website.go:57`, `:156`) |
| `NoRefusedConfig` without `wsSpoilt` | writing the old configuration back fails | its error is ignored and the refused text stays (`internal/infra/nginx/service.go:245`) |
| the same | two saves of one configuration | the second save takes the first one's untested text for the original and restores it (`internal/infra/nginx/service.go:230`) |
| `RowMatchesLink` without `wsSpoilt` | the SSL write-back of a listing | it writes the whole row it read and undoes a concurrent Update or Toggle (`internal/service/website/service.go:347`) |

The properties checked exclude exactly the situations in the middle column, by a
history variable or flag each, so that everything else that could break them would show.

Observations made while modelling that are not properties: runs of the scheduler are
executed by RunServe's worker, which has no hook bus, so `job.before_run` is not asked
for them (`docs/architecture/plugin-platform.md` lists it); SIGTERM cancels the background
context while the HTTP server goes on serving; `onSaved` of the Websites page closes
whichever form is open when an answer arrives (`views/Websites.tsx:351`); a tail ingests
the logs of nginx when it begins and never again, so that between two requests of others
it has no new line to write out (`internal/observability/splunklite/service.go:525`);
the comment at `service.go:410` beside it says that two events a nanosecond apart never collide,
which is of no use to timestamps of one second.

## 7. Abstractions

- *Statements are atomic.* SQLite executes one statement at a time; transactions are
  one statement. A statement's read-back (`Find` after an update) is part of it in
  the plugin module, where it cannot matter, and a statement of its own where it can.
- *Plugin lifecycle.* The read-back after an UPDATE that was carried out does not fail by
  itself (`internal/repository/sqlite/plugin.go:176`, `:300`, `:345`). Uninstall's `RemoveAll` removes the
  directory or leaves it whole. Reconcile's clean-up of one version (`service.go:816` to `:830`: remove, mark,
  refresh) is one step, in which a mark whose error the code ignores does not fail, and its
  early return on a bundled index it cannot read (`:813`) happens as a database fault only.
  Compatibility and permission checks refuse a request before
  it changes anything and are left out, like configuration rows and tokens, of which
  only the point where they may fail remains. Failure classes no guard reads are one
  value. Manifest contents, logs and audit entries are left out.
- *Terminal.* Chunks are one unit; splitting of UTF-8, resizing and control frames other
  than ready, replay and exit are left out. A websocket is opened once; a tab that
  reconnects opens another. A browser names only session ids it was given. readLoop reads from
  a shell that is alive and open; what the PTY still holds at the exit is the chunk in hand (`session.go:322`).
- *Hub.* A kill finds the session and kills it in one step (`hub.go:234`). Time is whether the sticky timeout has passed since the last input and since
  the last attach. The content of a session is left out.
- *Jobs.* A payload is blank or not, a chunk of output is a piece, `executed_at` and the
  `after_` hooks, which nothing reads back and which cannot fail a run, are left out.
  Users choose among the intervals in `Everys`.
- *All pages.* A page whose tab leaves it is not modelled beyond that: its mount in every state of
  the service is the initial state, or for the file manager `FilesOther` after it.
  Effects run with the event that caused them: keystrokes are slower than React's
  flush. Toasts and texts of errors are left out.
- *File manager.* Paths are a fixed tree; which are editable is a constant. The items
  of a batch are handled one a step in any order, for a save in two (look, write). A service that goes on working
  after its client lost the connection is `FilesOther`.
- *Plugins page.* The registry's operations are one step with every outcome; their
  detail is `PluginLifecycle`. The forms for an archive and for a manifest work alike
  and are one. Rows are busy each for itself. Plugin settings are left out.
- *Logs page.* Every query matches all events of its source; the time range is part of
  the query. A tail follows one source. The nanosecond by which a resumed cursor passes the
  time of the last event is left out: no event lies within it. An event's message is what its first 64 bytes are.
  The seen set is unbounded (5000 in the code).
  The flush of the queue and the microtask that follows it are one step, and an abort is
  handled before the next event. Another tail is any move of the cursor. The seed's
  rows may be repeated by the tail, as in the code. A restored search has the
  default query.
- *Websites page.* A handler reads its row and then acts in one step, the manual
  certificate's test of the configuration it wrote, and its writing back of the old one
  (`internal/service/ssl/service.go:188`), included; the
  configuration of the dialog is read, written and tested in three. What is rendered from the
  form is taken to be accepted by nginx: an inactive site's is not tested by the code
  (`internal/service/website/service.go:179`). Before it queues certbot, `prepareForCertbot` points
  a placeholder certificate at the default one and removes the placeholder
  (`internal/service/ssl/service.go:315`): the file stays of its class, and that its read
  and write may overlap with a save is left out. SSL write-backs may come after
  the list's answer, as after a slow client. The Validate and Test buttons,
  certificate files, and type, upstream and path with its uniqueness are left out.
  The job that is queued for certbot is in `JobRuns`.
- *Popup.* The hub is which shells live and under which id. The role of a client is
  a choice of the service. Asking the hub for its list when the window opens is part of
  the click. Input frames are delivered at once while the socket is open.
  Kill closes the window in the same step and does not fail: in the code the window closes when the
  answer is there, whatever it is (`components/TerminalWindow.tsx:140`). The pane is mounted with its
  settings; one mounted before the metadata arrive is mounted again then, on another shell (`TerminalPane.tsx:136`).
- *Session.* The DELETE of a logout and what a login does may fail; the SELECT of a lookup
  does not. A ticker whose
  `lock_after_seconds` is 0 is one that never fires. A handler looks its session up once. The four requests of the boot are one.
  The metadata that are fetched again after a login are left out. A session does not
  expire, and the service and the page are not restarted, between lookup and fill. An act of
  another tab is one step, but for its lookups.
- *Panel.* A behaviour is on one page; pages share nothing, so that any behaviour of the
  panel is, page by page, one of these.

## 8. Not modelled

| Part | Why | Hazards there |
|---|---|---|
| Hook bus (`internal/service/plugin/hookbus/`) | the enabled map is in `PluginLifecycle` and a strict hook's outcome is a choice in `JobRuns`; breaker windows are a clock-driven component of their own | `bus.go:263` a target whose breaker is open is skipped, also in a strict `before_` dispatch; `:296` breakerOpen deletes an entry it read before the lock |
| Access tokens (`integration_token.go`, `middleware/access_token.go`) | single-row operations by token | `:61` scopes are checked and then written while a switch may come between; `:248` ReconcileAfterSwitch stops at the first failure |
| Log ingestion and traffic metrics (`splunklite/ingestor.go`, `grafanalite/collector.go`) | byte offsets in files nginx writes and rotates | `ingestor.go:90` two scans of one file; `:222` a last line without newline; `:254` a log truncated and grown past the offset; `collector.go:98`, `:160` offsets saved after upserts that add, half-written lines |
| Remote distribution beyond resolve and fetch (`service/plugin/remote/`) | protocols of hosts, downloads and builds | none met that the tokens do not cover |
| Mounts (`service/mount/`) | host files | `service.go:78` read-modify-write of fstab without a lock; `:165` the password file is removed first |
| Nginx repair, global configuration, certificate files | text of configurations and errors, files of certificates | `infra/nginx/service.go:323` a restored file is not reloaded; `:364` the self-signed pair is copied over `live/<domain>`; `ssl/service.go:169` a certificate is overwritten before the test |
| Log search language | a parser and a compiler to SQL, read-only | |
| Docker, database browser, settings, system readings, UI metadata, catalog, plugin configuration | single calls on the host or on one row | |
| Bootstrap, command line, routing, encoding, cryptography, error values | sequential or stateless | |
| The other views of the panel, navigation, themes, charts, window geometry | tables over one `useAsync` and buttons over `useAction`, which `AsyncHook` models, without interplay of their own | |

Hazards of modelled parts that are divergences above and not in `PROJECT.json`:
`terminal/hub.go:137` (after a restart sequence numbers continue from the size of the
dump: `NothingMissed` with `Restored = 1`), `terminal/session.go:337` (output read before
a kill is written after it: `DumpRemoved`), and the intended loss of a chunk when 256
wait for a slow tab, of which no document says how a client should notice.
