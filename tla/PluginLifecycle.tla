-------------------------- MODULE PluginLifecycle --------------------------
(***************************************************************************)
(* The plugin lifecycle of internal/service/plugin: the registry rows in   *)
(* SQLite, the artifact directories, the runtime manager's client map, the *)
(* hook dispatcher's enabled map, the per-plugin OpLock, the HTTP requests *)
(* that run the lifecycle operations, the health supervisor and start-up   *)
(* reconciliation.                                                         *)
(*                                                                         *)
(* One action is one database statement, one call of the runtime manager   *)
(* or one call of the dispatcher: those are the points at which requests   *)
(* for different plugins, the supervisor and a crash interleave.           *)
(***************************************************************************)
EXTENDS Integers

CONSTANTS
    Plugins,      \* plugin ids
    NoPlugin,     \* the plugin of a request that is not in flight
    Versions,     \* versions, as their rank in semver order
    Requests,     \* request goroutines that may be in flight together
    Bundled,      \* the <<plugin, version>> pairs of the bundled index
    AutoEnable,   \* PLUGIN_BUNDLED_AUTO_ENABLE outside production
    Ticking,      \* whether the supervisor ticks within the horizon
    MaxAttempts,  \* PluginRestartMaxAttempts
    MaxCrashes,   \* bound on the process restarts of one behaviour
    Faults        \* the failures of the environment that may happen

FaultKinds == {"start",    \* the plugin's handshake fails
               "slow",     \* the handshake ends after the 15 s deadline
               "stop",     \* the runtime's kill function reports an error
               "health",   \* a running plugin reports itself unhealthy
               "migrate",  \* the config migrator rejects the configuration
               "rm",       \* os.RemoveAll fails
               "install",  \* extraction or validation of an artifact fails
               "db",       \* one database statement fails
               "ctx"}      \* the client goes away: the request context ends

ASSUME NoPluginAssumption == NoPlugin \notin Plugins
ASSUME VersionsAssumption == Versions \subseteq (Nat \ {0})
ASSUME BundledAssumption == Bundled \subseteq Plugins \X Versions
ASSUME FlagsAssumption == AutoEnable \in BOOLEAN /\ Ticking \in BOOLEAN
ASSUME MaxAttemptsAssumption == MaxAttempts \in Nat \ {0}
ASSUME MaxCrashesAssumption == MaxCrashes \in Nat
ASSUME FaultsAssumption == Faults \subseteq FaultKinds

VARIABLES
    rows,     \* plugin_versions: state and failure class of every version
    files,    \* versions whose artifact directory exists
    running,  \* GoPluginRuntimeManager.clients
    orphans,  \* subprocesses that were started and that no map holds
    targets,  \* Dispatcher.enabled: the version whose hooks are called
    locks,    \* OpLock.locks
    req,      \* the requests in flight
    sup,      \* the supervisor: its tick and its failure windows
    boot      \* start-up: seeding, reconciliation, then serving

vars == <<rows, files, running, orphans, targets, locks, req, sup, boot>>

Key == Plugins \X Versions
NoVersion == 0

States == {"absent", "installing", "installed", "install_failed", "enabling",
           "enabled", "enable_failed", "disabling", "uninstalling",
           "uninstalled"}

\* The guards read two failure classes; the others are one value.
Classes == {"none", "other", "compensation_failed", "fs_delete_failed"}

Row == [state : States, class : Classes]
NoRow == [state |-> "absent", class |-> "none"]

InstallPC == {"iFind", "iFiles", "iCreate", "iValidate"}
EnablePC == {"eFind", "eMark", "eStart", "eCommit", "eUndoStop", "eUndoMark",
             "eUndoComp"}
DisablePC == {"dFind", "dMark", "dHooks", "dStop", "dUndo", "dComp", "dDone", "dWarn"}
SwitchPC == {"sFind", "sMigrate"}
UninstallPC == {"uFind", "uMark", "uStop", "uFiles", "uDone"}
RefreshPC == {"rRead", "rApply"}
PCs == {"idle"} \cup InstallPC \cup EnablePC \cup DisablePC \cup SwitchPC
         \cup UninstallPC \cup RefreshPC

Ops == {"none", "install", "restore", "enable", "disable", "switch", "uninstall"}

\* What refreshEnabled was called for.
Afters == {"none", "enabled", "disabled", "undoEnable", "undoDisable"}

Target == [Plugins -> Versions \cup {NoVersion}]
NoTargets == [p \in Plugins |-> NoVersion]

Request == [pc : PCs, op : Ops, p : Plugins \cup {NoPlugin},
            v : Versions \cup {NoVersion}, cur : Versions \cup {NoVersion},
            live : BOOLEAN, list : Target, after : Afters]

IdleRequest == [pc |-> "idle", op |-> "none", p |-> NoPlugin, v |-> NoVersion,
                cur |-> NoVersion, live |-> TRUE, list |-> NoTargets,
                after |-> "none"]

IsIdle(r) == req[r].pc = "idle"

-----------------------------------------------------------------------------
(* The registry: repository/sqlite/plugin.go.                              *)

EnabledVersions(p) == {v \in Versions : rows[<<p, v>>].state = "enabled"}

\* FindEnabled, and each plugin's entry of ListEnabled.
FindEnabled(p) == IF EnabledVersions(p) = {} THEN NoVersion
                  ELSE CHOOSE v \in EnabledVersions(p) : TRUE

ListEnabled == [p \in Plugins |-> FindEnabled(p)]

\* ListInstallable: the versions that Enable without a version chooses from.
Installable(p) ==
    {v \in Versions : rows[<<p, v>>].state \in {"installed", "enable_failed"}}

\* The first of them in descending semver order, if there is one.
Latest(p) == {v \in Installable(p) : \A w \in Installable(p) : w <= v}

UniqueEnabledMissingIndex(k, st) == TRUE

\* idx_plugin_versions_one_enabled: one enabled row for a plugin id.
UniqueEnabled(k, st) ==
    st = "enabled" => EnabledVersions(k[1]) \subseteq {k[2]}

\* setState is an UPDATE by key followed by a Find: it fails when the index
\* refuses the new state or when there is no such row.
CanSetState(k, st) == rows[k].state # "absent" /\ UniqueEnabled(k, st)

SetState(k, st, cl) == [rows EXCEPT ![k] = [state |-> st, class |-> cl]]

\* How a statement of request r may end. Every statement after the end of
\* the request context fails.
DbOutcomes(r) ==
    {ok \in BOOLEAN : IF ok THEN req[r].live
                            ELSE ~req[r].live \/ "db" \in Faults}

\* A SetState or SetFailure of request r, and how r goes on in either case.
Update(r, k, st, cl, Good, Bad) ==
    \E ok \in DbOutcomes(r) :
        IF ok /\ CanSetState(k, st)
        THEN rows' = SetState(k, st, cl) /\ Good
        ELSE rows' = rows /\ Bad

-----------------------------------------------------------------------------
(* Control of a request.                                                   *)

TryAcquireUnchecked(p) == locks' = locks \cup {p}

TryAcquire(p) == p \notin locks /\ locks' = locks \cup {p}

\* The deferred opLock.Release.
Return(r) == /\ req' = [req EXCEPT ![r] = IdleRequest]
             /\ locks' = locks \ {req[r].p}

Goto(r, pc) == req' = [req EXCEPT ![r].pc = pc] /\ UNCHANGED locks

Refresh(r, after) ==
    /\ req' = [req EXCEPT ![r].pc = "rRead", ![r].after = after]
    /\ UNCHANGED locks

ThisKey(r) == <<req[r].p, req[r].v>>
CurKey(r) == <<req[r].p, req[r].cur>>

Begin(r, op, p, v, pc) ==
    /\ IsIdle(r)
    /\ TryAcquire(p)
    /\ req' = [req EXCEPT ![r] = [IdleRequest EXCEPT !.pc = pc, !.op = op,
                                   !.p = p, !.v = v]]
    /\ UNCHANGED <<rows, files, running, orphans, targets, sup>>

-----------------------------------------------------------------------------
(* refreshEnabled: read the enabled rows, then replace the dispatcher's    *)
(* map. It fails only when the read fails.                                 *)

AfterRefreshRetries(r) ==
    CASE req[r].after = "disabled" /\ req[r].op = "switch" -> Goto(r, "eFind")
      [] req[r].after = "undoDisable" -> Goto(r, "rRead")
      [] OTHER -> Return(r)

AfterRefresh(r) ==
    CASE req[r].after = "disabled" /\ req[r].op = "switch" -> Goto(r, "eFind")
      [] OTHER -> Return(r)

RefreshRead(r) ==
    /\ req[r].pc = "rRead"
    /\ \E ok \in DbOutcomes(r) :
         \/ /\ ok
            /\ req' = [req EXCEPT ![r].pc = "rApply", ![r].list = ListEnabled]
            /\ UNCHANGED locks
         \/ /\ ~ok
            /\ CASE req[r].after = "enabled" -> Goto(r, "eUndoStop")
                 [] req[r].after = "disabled" -> Goto(r, "dWarn")
                 [] req[r].after = "undoDisable" -> Goto(r, "dComp")
                 [] OTHER -> Return(r)
    /\ UNCHANGED <<rows, files, running, orphans, targets, sup, boot>>

RefreshApply(r) ==
    /\ req[r].pc = "rApply"
    /\ targets' = req[r].list
    /\ AfterRefresh(r)
    /\ UNCHANGED <<rows, files, running, orphans, sup, boot>>

-----------------------------------------------------------------------------
(* Install and RestoreBundled, from the point where the lock is taken: the *)
(* checks of the uploaded artifact before it change no state.              *)

InstallCall(r, k) ==
    /\ boot.phase = "serving"
    /\ Begin(r, "install", k[1], k[2], "iFind")
    /\ UNCHANGED boot

RestoreCall(r, k) ==
    /\ boot.phase = "serving"
    /\ k \in Bundled
    /\ Begin(r, "restore", k[1], k[2], "iFind")
    /\ UNCHANGED boot

MayInstallOverAny(op) == States

MayInstallOver(op) == {"absent", "install_failed"}
                        \cup (IF op = "restore" THEN {"uninstalled"} ELSE {})

\* A version in another state is a conflict; leftovers of an earlier
\* attempt are removed (the error of RemoveAll is ignored).
InstallFind(r) ==
    /\ req[r].pc = "iFind"
    /\ LET st == rows[ThisKey(r)].state IN
       \E ok \in DbOutcomes(r) :
          \/ /\ ok /\ st \in MayInstallOver(req[r].op)
             /\ files' = IF st = "absent" THEN files ELSE files \ {ThisKey(r)}
             /\ Goto(r, "iFiles")
          \/ /\ ~ok \/ st \notin MayInstallOver(req[r].op)
             /\ UNCHANGED files
             /\ Return(r)
    /\ UNCHANGED <<rows, running, orphans, targets, sup, boot>>

\* MkdirAll, extractZipArtifact and WriteFile: an error leaves the directory.
InstallFiles(r) ==
    /\ req[r].pc = "iFiles"
    /\ \/ files' = files \cup {ThisKey(r)} /\ Goto(r, "iCreate")
       \/ /\ "install" \in Faults
          /\ files' \in {files, files \cup {ThisKey(r)}}
          /\ Return(r)
    /\ UNCHANGED <<rows, running, orphans, targets, sup, boot>>

\* CreateOrRetryInstall reads the state again in its own transaction; when
\* it fails the directory is removed.
InstallCreate(r) ==
    /\ req[r].pc = "iCreate"
    /\ \E ok \in DbOutcomes(r) :
          IF ok /\ rows[ThisKey(r)].state
                     \in {"absent", "install_failed", "uninstalled"}
          THEN /\ rows' = SetState(ThisKey(r), "installing", "none")
               /\ UNCHANGED files
               /\ Goto(r, "iValidate")
          ELSE /\ files' = files \ {ThisKey(r)}
               /\ UNCHANGED rows
               /\ Return(r)
    /\ UNCHANGED <<running, orphans, targets, sup, boot>>

\* runValidate is skipped for a bundled artifact, unless the context ended.
InstallValidate(r) ==
    /\ req[r].pc = "iValidate"
    /\ \/ /\ req[r].live
          /\ Update(r, ThisKey(r), "installed", "none", Return(r), Return(r))
       \/ /\ ~req[r].live \/ ("install" \in Faults /\ req[r].op = "install")
          /\ Update(r, ThisKey(r), "install_failed", "other", Return(r), Return(r))
    /\ UNCHANGED <<files, running, orphans, targets, sup, boot>>

\* Purge takes no lock: DELETE ... WHERE state = 'uninstalled'.
Purge(k) ==
    /\ boot.phase = "serving"
    /\ rows[k].state = "uninstalled"
    /\ rows' = [rows EXCEPT ![k] = NoRow]
    /\ UNCHANGED <<files, running, orphans, targets, locks, req, sup, boot>>

-----------------------------------------------------------------------------
(* Enable.                                                                 *)

EnableCall(r, p, v) ==
    /\ boot.phase = "serving"
    /\ Begin(r, "enable", p, v, "eFind")
    /\ UNCHANGED boot

\* findForEnable and the checks of enableUnlocked.
Enableable(k) ==
    /\ rows[k].state \in {"installed", "enable_failed"}
    /\ rows[k] # [state |-> "enable_failed", class |-> "compensation_failed"]

EnableFind(r) ==
    /\ req[r].pc = "eFind"
    /\ LET p == req[r].p
           named == {req[r].v} \ {NoVersion}
           found == {v \in IF named = {} THEN Latest(p) ELSE named :
                        Enableable(<<p, v>>)}
       IN \E ok \in DbOutcomes(r) :
             \/ \E v \in found :
                   /\ ok
                   /\ req' = [req EXCEPT ![r].pc = "eMark", ![r].v = v]
                   /\ UNCHANGED locks
             \/ /\ ~ok \/ found = {}
                /\ Return(r)
    /\ UNCHANGED <<rows, files, running, orphans, targets, sup, boot>>

EnableMark(r) ==
    /\ req[r].pc = "eMark"
    /\ Update(r, ThisKey(r), "enabling", "none", Goto(r, "eStart"), Return(r))
    /\ UNCHANGED <<files, running, orphans, targets, sup, boot>>

\* runtime.Start: the factory runs the binary of the artifact directory and
\* the client replaces (and kills) one that is already in the map.
StartOK(k) == k \in files

\* runtime.Stop takes the client out of the map first; only then may its
\* kill function fail.
KillFails(k) == "stop" \in Faults /\ k \in running

EnableStartOK(r) ==
    /\ req[r].pc = "eStart"
    /\ req[r].live
    /\ StartOK(ThisKey(r))
    /\ running' = running \cup {ThisKey(r)}
    /\ Goto(r, "eCommit")
    /\ UNCHANGED <<rows, files, orphans, targets, sup, boot>>

EnableStartFailsSilently(r) ==
    /\ req[r].pc = "eStart"
    /\ ~StartOK(ThisKey(r)) \/ "start" \in Faults
    /\ Return(r)
    /\ UNCHANGED <<rows, files, running, orphans, targets, sup, boot>>

\* An error is recorded. A handshake that outlives its deadline, or its
\* context, is an error too, but the subprocess goes on.
EnableStartFails(r) ==
    /\ req[r].pc = "eStart"
    /\ \/ /\ ~StartOK(ThisKey(r)) \/ "start" \in Faults
          /\ UNCHANGED orphans
       \/ /\ StartOK(ThisKey(r))
          /\ ~req[r].live \/ "slow" \in Faults
          /\ orphans' = orphans \cup {ThisKey(r)}
    /\ Update(r, ThisKey(r), "enable_failed", "other", Return(r), Return(r))
    /\ UNCHANGED <<files, running, targets, sup, boot>>

EnableCommitNoRefresh(r) ==
    /\ req[r].pc = "eCommit"
    /\ Update(r, ThisKey(r), "enabled", "none", Return(r), Return(r))
    /\ UNCHANGED <<files, running, orphans, targets, sup, boot>>

\* On an error SetState returns the zero record, and the compensation works
\* on that record: Stop and SetFailure find nothing to change.
EnableCommit(r) ==
    /\ req[r].pc = "eCommit"
    /\ Update(r, ThisKey(r), "enabled", "none", Refresh(r, "enabled"), Return(r))
    /\ UNCHANGED <<files, running, orphans, targets, sup, boot>>

\* Compensation of a failed refreshEnabled.
EnableUndoStop(r) ==
    /\ req[r].pc = "eUndoStop"
    /\ running' = running \ {ThisKey(r)}
    /\ \/ Goto(r, "eUndoMark")
       \/ KillFails(ThisKey(r)) /\ Goto(r, "eUndoComp")
    /\ UNCHANGED <<rows, files, orphans, targets, sup, boot>>

EnableUndoMark(r) ==
    /\ \/ /\ req[r].pc = "eUndoMark"
          /\ Update(r, ThisKey(r), "enable_failed", "other",
                    Refresh(r, "undoEnable"), Refresh(r, "undoEnable"))
       \/ /\ req[r].pc = "eUndoComp"
          /\ Update(r, ThisKey(r), "enable_failed", "compensation_failed",
                    Return(r), Return(r))
    /\ UNCHANGED <<files, running, orphans, targets, sup, boot>>

-----------------------------------------------------------------------------
(* Disable. SwitchEnabledVersion runs the same steps, then those of Enable.*)

DisableCall(r, p) ==
    /\ boot.phase = "serving"
    /\ Begin(r, "disable", p, NoVersion, "dFind")
    /\ UNCHANGED boot

DisableFind(r) ==
    /\ req[r].pc = "dFind"
    /\ LET cur == FindEnabled(req[r].p) IN
       \E ok \in DbOutcomes(r) :
          IF ok /\ cur # NoVersion
          THEN /\ req' = [req EXCEPT ![r].pc = "dMark", ![r].cur = cur]
               /\ UNCHANGED locks
          ELSE Return(r)
    /\ UNCHANGED <<rows, files, running, orphans, targets, sup, boot>>

DisableMark(r) ==
    /\ req[r].pc = "dMark"
    /\ Update(r, CurKey(r), "disabling", "none", Goto(r, "dHooks"), Return(r))
    /\ UNCHANGED <<files, running, orphans, targets, sup, boot>>

DisableHooks(r) ==
    /\ req[r].pc = "dHooks"
    /\ targets' = [targets EXCEPT ![req[r].p] = NoVersion]
    /\ Goto(r, "dStop")
    /\ UNCHANGED <<rows, files, running, orphans, sup, boot>>

DisableStop(r) ==
    /\ req[r].pc = "dStop"
    /\ running' = running \ {CurKey(r)}
    /\ \/ Goto(r, "dDone")
       \/ KillFails(CurKey(r)) /\ Goto(r, "dUndo")
    /\ UNCHANGED <<rows, files, orphans, targets, sup, boot>>

\* A Stop that failed puts the version back to enabled and refreshes.
DisableUndo(r) ==
    /\ \/ /\ req[r].pc = "dUndo"
          /\ Update(r, CurKey(r), "enabled", "other",
                    Refresh(r, "undoDisable"), Refresh(r, "undoDisable"))
       \/ /\ req[r].pc = "dComp"
          /\ Update(r, CurKey(r), "enabled", "compensation_failed",
                    Return(r), Return(r))
    /\ UNCHANGED <<files, running, orphans, targets, sup, boot>>

DisableDoneOtherName(r) ==
    /\ req[r].pc = "dDone"
    /\ Update(r, CurKey(r), "disabled", "none", Refresh(r, "disabled"), Return(r))
    /\ UNCHANGED <<files, running, orphans, targets, sup, boot>>

\* On an error the failure is again written to the zero record.
DisableDone(r) ==
    /\ req[r].pc = "dDone"
    /\ Update(r, CurKey(r), "installed", "none", Refresh(r, "disabled"), Return(r))
    /\ UNCHANGED <<files, running, orphans, targets, sup, boot>>

\* The refresh failed: recorded, and a switch ends here.
DisableWarn(r) ==
    /\ req[r].pc = "dWarn"
    /\ Update(r, CurKey(r), "installed", "other", Return(r), Return(r))
    /\ UNCHANGED <<files, running, orphans, targets, sup, boot>>

-----------------------------------------------------------------------------
(* SwitchEnabledVersion.                                                   *)

SwitchCall(r, k) ==
    /\ boot.phase = "serving"
    /\ Begin(r, "switch", k[1], k[2], "sFind")
    /\ UNCHANGED boot

SwitchFind(r) ==
    /\ req[r].pc = "sFind"
    /\ LET cur == FindEnabled(req[r].p) IN
       \E ok \in DbOutcomes(r) :
          \/ ok /\ cur = NoVersion /\ Goto(r, "eFind")
          \/ /\ ok /\ cur \notin {NoVersion, req[r].v}
             /\ Enableable(ThisKey(r))
             /\ Goto(r, "sMigrate")
          \/ /\ ~ok \/ cur = req[r].v
                \/ (cur # NoVersion /\ ~Enableable(ThisKey(r)))
             /\ Return(r)
    /\ UNCHANGED <<rows, files, running, orphans, targets, sup, boot>>

\* Migrate, then the Upsert of the target's configuration.
SwitchMigrate(r) ==
    /\ req[r].pc = "sMigrate"
    /\ \/ /\ \E ok \in DbOutcomes(r) : IF ok THEN Goto(r, "dFind") ELSE Return(r)
          /\ UNCHANGED rows
       \/ /\ "migrate" \in Faults
          /\ Update(r, ThisKey(r), "installed", "other", Return(r), Return(r))
    /\ UNCHANGED <<files, running, orphans, targets, sup, boot>>

-----------------------------------------------------------------------------
(* Uninstall.                                                              *)

UninstallCall(r, k) ==
    /\ boot.phase = "serving"
    /\ Begin(r, "uninstall", k[1], k[2], "uFind")
    /\ UNCHANGED boot

StableUninstallStateAny(st) == st \notin {"absent", "uninstalled"}

StableUninstallState(st) == st \in {"installed", "install_failed", "enable_failed"}

UninstallFind(r) ==
    /\ req[r].pc = "uFind"
    /\ \E ok \in DbOutcomes(r) :
          IF ok /\ StableUninstallState(rows[ThisKey(r)].state)
          THEN Goto(r, "uMark") ELSE Return(r)
    /\ UNCHANGED <<rows, files, running, orphans, targets, sup, boot>>

UninstallMark(r) ==
    /\ req[r].pc = "uMark"
    /\ Update(r, ThisKey(r), "uninstalling", "none", Goto(r, "uStop"), Return(r))
    /\ UNCHANGED <<files, running, orphans, targets, sup, boot>>

\* EnsureStopped is Stop.
UninstallStop(r) ==
    /\ req[r].pc = "uStop"
    /\ running' = running \ {ThisKey(r)}
    /\ \/ Goto(r, "uFiles") /\ UNCHANGED rows
       \/ /\ KillFails(ThisKey(r))
          /\ Update(r, ThisKey(r), "installed", "other", Return(r), Return(r))
    /\ UNCHANGED <<files, orphans, targets, sup, boot>>

UninstallFiles(r) ==
    /\ req[r].pc = "uFiles"
    /\ \/ /\ files' = files \ {ThisKey(r)}
          /\ Goto(r, "uDone")
          /\ UNCHANGED rows
       \/ /\ "rm" \in Faults
          /\ Update(r, ThisKey(r), "installed", "fs_delete_failed",
                    Return(r), Return(r))
          /\ UNCHANGED files
    /\ UNCHANGED <<running, orphans, targets, sup, boot>>

\* MarkConfigDeleted. Access tokens are another component's state.
UninstallDone(r) ==
    /\ req[r].pc = "uDone"
    /\ Update(r, ThisKey(r), "uninstalled", "none", Return(r), Return(r))
    /\ UNCHANGED <<files, running, orphans, targets, sup, boot>>

-----------------------------------------------------------------------------
(* HealthSupervisor: one goroutine, no OpLock. fails is failureWindow.count*)
(* (attempts always equals it), saturated at the limit it is compared with.*)

SupPC == {"idle", "check", "disable", "stop", "backoff", "start", "mark"}

NoKey == <<NoPlugin, NoVersion>>

IdleSup == [pc |-> "idle", todo |-> {}, k |-> NoKey, fails |-> [k \in Key |-> 0]]

EnabledKeys == {k \in Key : rows[k].state = "enabled"}

SupDb == {ok \in BOOLEAN : ok \/ "db" \in Faults}

SupTickRunningOnly ==
    /\ Ticking /\ boot.phase = "serving"
    /\ sup.pc = "idle"
    /\ EnabledKeys \cap running # {}
    /\ sup' = [sup EXCEPT !.pc = "check", !.todo = EnabledKeys \cap running]
    /\ UNCHANGED <<rows, files, running, orphans, targets, locks, req, boot>>

SupTick ==
    /\ Ticking /\ boot.phase = "serving"
    /\ sup.pc = "idle"
    /\ EnabledKeys # {}
    /\ sup' = [sup EXCEPT !.pc = "check", !.todo = EnabledKeys]
    /\ UNCHANGED <<rows, files, running, orphans, targets, locks, req, boot>>

\* Health, then recordSuccess or recordFailure; the window may have elapsed.
SupHealthy(k) ==
    /\ sup.pc = "check" /\ k \in sup.todo
    /\ k \in running
    /\ LET todo == sup.todo \ {k} IN
       sup' = [pc |-> IF todo = {} THEN "idle" ELSE "check", todo |-> todo,
               k |-> NoKey, fails |-> [sup.fails EXCEPT ![k] = 0]]
    /\ UNCHANGED <<rows, files, running, orphans, targets, locks, req, boot>>

SupUnhealthy(k) ==
    /\ sup.pc = "check" /\ k \in sup.todo
    /\ k \notin running \/ "health" \in Faults
    /\ \E n \in {sup.fails[k] + 1, 1} :
          LET count == IF n > MaxAttempts THEN MaxAttempts ELSE n IN
          sup' = [pc |-> IF count >= MaxAttempts THEN "disable" ELSE "backoff",
                  todo |-> sup.todo \ {k}, k |-> k,
                  fails |-> [sup.fails EXCEPT ![k] = count]]
    /\ UNCHANGED <<rows, files, running, orphans, targets, locks, req, boot>>

SupDone == [sup EXCEPT !.pc = IF sup.todo = {} THEN "idle" ELSE "check", !.k = NoKey]

\* A SetFailure of the supervisor: an UPDATE by key, whatever the row says by
\* now; it fails when the row has been purged.
SupUpdate(st, Good, Bad) ==
    \E ok \in SupDb :
        IF ok /\ CanSetState(sup.k, st)
        THEN rows' = SetState(sup.k, st, "other") /\ Good
        ELSE rows' = rows /\ Bad

\* disableAfterRepeatedFailure: SetFailure, then Stop. The dispatcher is not
\* told, and the failure window stays.
SupDisable ==
    /\ sup.pc = "disable"
    /\ SupUpdate("installed", sup' = [sup EXCEPT !.pc = "stop"], sup' = SupDone)
    /\ UNCHANGED <<files, running, orphans, targets, locks, req, boot>>

SupStop ==
    /\ sup.pc = "stop"
    /\ running' = running \ {sup.k}
    /\ sup' = SupDone
    /\ UNCHANGED <<rows, files, orphans, targets, locks, req, boot>>

\* restartWithBackoff: after the delay Stop, then Start.
SupRestartStop ==
    /\ sup.pc = "backoff"
    /\ running' = running \ {sup.k}
    /\ \/ sup' = [sup EXCEPT !.pc = "start"]
       \/ KillFails(sup.k) /\ sup' = [sup EXCEPT !.pc = "mark"]
    /\ UNCHANGED <<rows, files, orphans, targets, locks, req, boot>>

SupRestartStart ==
    /\ sup.pc = "start"
    /\ \/ /\ StartOK(sup.k)
          /\ running' = running \cup {sup.k}
          /\ sup' = SupDone
          /\ UNCHANGED orphans
       \/ /\ ~StartOK(sup.k) \/ "start" \in Faults
          /\ sup' = [sup EXCEPT !.pc = "mark"]
          /\ UNCHANGED <<running, orphans>>
       \/ /\ StartOK(sup.k) /\ "slow" \in Faults
          /\ orphans' = orphans \cup {sup.k}
          /\ sup' = [sup EXCEPT !.pc = "mark"]
          /\ UNCHANGED running
    /\ UNCHANGED <<rows, files, targets, locks, req, boot>>

\* markRestartFailed.
SupMark ==
    /\ sup.pc = "mark"
    /\ SupUpdate("enable_failed", sup' = SupDone, sup' = SupDone)
    /\ UNCHANGED <<files, running, orphans, targets, locks, req, boot>>

-----------------------------------------------------------------------------
(* Start-up: NewRouter calls Reconcile before it serves and before the     *)
(* supervisor runs. SeedBundled calls Install and Enable one at a time.    *)

AllIdle == \A r \in Requests : IsIdle(r)

\* shouldSeedBundled for a restorable entry.
ShouldSeed(k) == \/ rows[k].state \in {"absent", "install_failed", "uninstalled"}
                 \/ Installable(k[1]) = {}

SeedNext(r, k) ==
    /\ boot.phase = "seed" /\ AllIdle
    /\ k \in boot.todo
    /\ boot' = [boot EXCEPT !.todo = @ \ {k}]
    /\ IF ShouldSeed(k) THEN Begin(r, "restore", k[1], k[2], "iFind")
       ELSE UNCHANGED <<rows, files, running, orphans, targets, locks, req, sup>>

BundledPlugins == {k \in Bundled : \A j \in Bundled : j[1] = k[1] => j[2] <= k[2]}

SeedDone ==
    /\ boot.phase = "seed" /\ boot.todo = {} /\ AllIdle
    /\ boot' = [boot EXCEPT !.phase = "auto",
                            !.todo = IF AutoEnable THEN BundledPlugins ELSE {}]
    /\ UNCHANGED <<rows, files, running, orphans, targets, locks, req, sup>>

\* The highest installable version is enabled if its state is installed.
AutoEnableNext(r, k) ==
    /\ boot.phase = "auto" /\ AllIdle
    /\ k \in boot.todo
    /\ boot' = [boot EXCEPT !.todo = @ \ {k}]
    /\ LET p == k[1]
           ready == {v \in Latest(p) : rows[<<p, v>>].state = "installed"} IN
       \/ \E v \in ready : Begin(r, "enable", p, v, "eFind")
       \/ /\ ready = {}
          /\ UNCHANGED <<rows, files, running, orphans, targets, locks, req, sup>>

PendingCleanup ==
    {k \in Key : rows[k] = [state |-> "installed", class |-> "fs_delete_failed"]}

\* The rest of Reconcile. A failed statement is logged and serving begins.
Reconcile ==
    /\ boot.phase = "auto" /\ boot.todo = {} /\ AllIdle
    /\ boot' = [boot EXCEPT !.phase = "serving"]
    /\ \/ /\ running' = running \cap EnabledKeys
          /\ \E S \in SUBSET PendingCleanup :
                /\ S = PendingCleanup \/ "rm" \in Faults
                /\ files' = files \ S
                /\ rows' = [k \in Key |->
                      IF k \in S THEN [state |-> "uninstalled", class |-> "none"]
                                 ELSE rows[k]]
          /\ targets' = ListEnabled
       \/ /\ "db" \in Faults
          /\ UNCHANGED <<rows, files, running, targets>>
    /\ UNCHANGED <<orphans, locks, req, sup>>

\* The client of a request goes away.
Cancel(r) ==
    /\ "ctx" \in Faults /\ boot.phase = "serving"
    /\ ~IsIdle(r) /\ req[r].live
    /\ req' = [req EXCEPT ![r].live = FALSE]
    /\ UNCHANGED <<rows, files, running, orphans, targets, locks, sup, boot>>

\* The process ends and starts again: what is in memory is lost.
Crash ==
    /\ boot.crashes < MaxCrashes
    /\ running' = {} /\ orphans' = {}
    /\ targets' = NoTargets
    /\ locks' = {}
    /\ req' = [r \in Requests |-> IdleRequest]
    /\ sup' = IdleSup
    /\ boot' = [phase |-> "seed", todo |-> Bundled, crashes |-> boot.crashes + 1]
    /\ UNCHANGED <<rows, files>>

-----------------------------------------------------------------------------

Init ==
    /\ rows = [k \in Key |-> NoRow]
    /\ files = {}
    /\ running = {} /\ orphans = {}
    /\ targets = NoTargets
    /\ locks = {}
    /\ req = [r \in Requests |-> IdleRequest]
    /\ sup = IdleSup
    /\ boot = [phase |-> "seed", todo |-> Bundled, crashes |-> 0]

Call(r) ==
    \/ \E k \in Key : \/ InstallCall(r, k) \/ RestoreCall(r, k)
                      \/ SwitchCall(r, k) \/ UninstallCall(r, k)
    \/ \E p \in Plugins : \/ DisableCall(r, p)
                          \/ \E v \in Versions \cup {NoVersion} : EnableCall(r, p, v)

\* A step of the request in flight.
Step(r) ==
    \/ InstallFind(r) \/ InstallFiles(r) \/ InstallCreate(r) \/ InstallValidate(r)
    \/ EnableFind(r) \/ EnableMark(r) \/ EnableStartOK(r) \/ EnableStartFails(r)
    \/ EnableCommit(r) \/ EnableUndoStop(r) \/ EnableUndoMark(r)
    \/ DisableFind(r) \/ DisableMark(r) \/ DisableHooks(r) \/ DisableStop(r)
    \/ DisableUndo(r) \/ DisableDone(r) \/ DisableWarn(r)
    \/ SwitchFind(r) \/ SwitchMigrate(r)
    \/ UninstallFind(r) \/ UninstallMark(r) \/ UninstallStop(r)
    \/ UninstallFiles(r) \/ UninstallDone(r)
    \/ RefreshRead(r) \/ RefreshApply(r)

SupStep ==
    \/ \E k \in Key : SupHealthy(k) \/ SupUnhealthy(k)
    \/ SupDisable \/ SupStop \/ SupRestartStop \/ SupRestartStart \/ SupMark

Boot ==
    \/ \E r \in Requests : \E k \in Key : SeedNext(r, k) \/ AutoEnableNext(r, k)
    \/ SeedDone \/ Reconcile

Next ==
    \/ \E r \in Requests : Call(r) \/ Step(r) \/ Cancel(r)
    \/ \E k \in Key : Purge(k)
    \/ SupTick \/ SupStep
    \/ Boot
    \/ Crash

\* Goroutines that can take a step are scheduled, the ticker fires, start-up
\* goes on. Calls, purges, cancellations and crashes need not happen.
Fairness ==
    /\ \A r \in Requests : WF_vars(Step(r))
    /\ WF_vars(SupTick) /\ WF_vars(SupStep)
    /\ WF_vars(Boot)

Spec == Init /\ [][Next]_vars

FairSpec == Spec /\ Fairness

-----------------------------------------------------------------------------
(* Properties.                                                             *)

\* Every variable has the type the code gives it.
TypeOK ==
    /\ rows \in [Key -> Row]
    /\ files \subseteq Key
    /\ running \subseteq Key
    /\ orphans \subseteq Key
    /\ targets \in Target
    /\ locks \subseteq Plugins
    /\ req \in [Requests -> Request]
    /\ sup \in [pc : SupPC, todo : SUBSET Key, k : Key \cup {NoKey},
                fails : [Key -> 0..MaxAttempts]]
    /\ boot \in [phase : {"seed", "auto", "serving"}, todo : SUBSET Bundled,
                 crashes : 0..MaxCrashes]

\* OpLock.TryAcquire: two operations on one plugin are never in flight
\* together, and a lock is held exactly as long as its operation runs.
LockDiscipline ==
    /\ locks = {req[r].p : r \in {r \in Requests : ~IsIdle(r)}}
    /\ \A r1, r2 \in Requests :
          ~IsIdle(r1) /\ ~IsIdle(r2) /\ req[r1].p = req[r2].p => r1 = r2

\* At most one version of a plugin is enabled, whatever requests, the
\* supervisor and failed statements do.
OneEnabled == \A p \in Plugins : \A v, w \in EnabledVersions(p) : v = w

\* A version is only ever enabled while its artifact directory exists: no
\* interleaving with Uninstall, a failed Install, the supervisor or
\* reconciliation deletes the files of an enabled version.
EnabledHasArtifact == \A k \in Key : rows[k].state = "enabled" => k \in files

\* The plugin and the versions an operation in flight works on are known by
\* the time it uses them.
OperandOK(r) ==
    /\ req[r].p \in Plugins
    /\ \/ req[r].pc \in InstallPC \cup UninstallPC \cup SwitchPC \cup (EnablePC \ {"eFind"})
       \/ req[r].op = "switch"
       \/ req[r].after \in {"enabled", "undoEnable"}
       => req[r].v \in Versions
    /\ \/ req[r].pc \in DisablePC \ {"dFind"}
       \/ req[r].after \in {"disabled", "undoDisable"}
       => req[r].cur \in Versions

OperandsOK == \A r \in Requests : ~IsIdle(r) => OperandOK(r)

\* An operation that may write "enabled" holds the artifact; one that may
\* delete files works on a version that is not enabled.
HoldsArtifact(r) ==
    /\ req[r].pc = "eCommit" => ThisKey(r) \in files
    /\ \/ req[r].pc \in {"dMark", "dHooks", "dStop", "dUndo", "dComp"}
       \/ req[r].pc \in RefreshPC /\ req[r].after = "undoDisable"
       => CurKey(r) \in files
    /\ req[r].pc \in {"iFiles", "iCreate", "iValidate", "uStop", "uFiles", "uDone"}
       => rows[ThisKey(r)].state # "enabled"

ArtifactHeld == \A r \in Requests : ~IsIdle(r) => HoldsArtifact(r)

SupOperandOK == sup.pc \notin {"idle", "check"} => sup.k \in Key

\* The inductive invariant behind EnabledHasArtifact.
ArtifactInv ==
    /\ TypeOK /\ LockDiscipline /\ OperandsOK /\ SupOperandOK
    /\ EnabledHasArtifact /\ ArtifactHeld

Transitional == {"installing", "enabling", "disabling", "uninstalling"}

\* "no half-enabled": when no operation on the plugin is in flight, none of
\* its versions is left in between and exactly the enabled ones run.
NoHalfEnabled ==
    \A k \in Key : boot.phase = "serving" /\ k[1] \notin locks =>
        /\ rows[k].state \notin Transitional
        /\ k \in running <=> rows[k].state = "enabled"

\* When nothing is in flight the dispatcher calls the hooks of exactly the
\* versions the registry has as enabled.
DispatcherMatchesRegistry ==
    boot.phase = "serving" /\ AllIdle /\ sup.pc = "idle" => targets = ListEnabled

\* When nothing is in flight only enabled versions run: Disable and the
\* supervisor's auto-disable leave no runtime behind.
OnlyEnabledRun ==
    AllIdle /\ sup.pc = "idle" => running \subseteq EnabledKeys

\* No plugin subprocess is left that the runtime manager cannot stop.
NoOrphanProcess == orphans = {}

\* The documented life cycle: as long as the supervisor does not interfere,
\* the registry rows implement the abstract state machine.
RegistryState == [k \in Key |-> rows[k].state]

Registry == INSTANCE PluginRegistry WITH state <- RegistryState

RegistrySpec == Registry!Spec

\* Every lifecycle operation ends, so that its lock is released.
OperationsEnd == \A r \in Requests : ~IsIdle(r) ~> IsIdle(r)

\* Recovery: no version stays in a state that only an operation in flight
\* can leave.
TransitionsEnd ==
    \A k \in Key : rows[k].state \in Transitional ~> rows[k].state \notin Transitional

\* Self-healing: an enabled version that does not run is started again, or
\* is no longer enabled.
EnabledIsHealed ==
    \A k \in Key : rows[k].state = "enabled" /\ k \notin running
                     ~> (k \in running \/ rows[k].state # "enabled")

=============================================================================
