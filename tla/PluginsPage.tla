----------------------------- MODULE PluginsPage -----------------------------
(***************************************************************************)
(* The Plugins page: the registry of the versions of a plugin, the install *)
(* dialog with its preview of a remote source, and a plugin's own route;   *)
(* behind them the resolve tokens and the registry of the service, whose   *)
(* operations are one step here (PluginLifecycle has them in detail).      *)
(*                                                                         *)
(* A remote source is a form (url, github, gitlab, catalog) and what is    *)
(* typed or selected in it.  What a source serves may change at any time.  *)
(***************************************************************************)
EXTENDS AsyncHook, FiniteSets

CONSTANTS
    PiArtifacts,     \* plugin archives
    PiVersionOf,     \* the version an archive's manifest names
    PiRefs,          \* remote form of the install dialog -> what can be typed or selected in it
    PiPinned,        \* the refs whose source names a digest
    PiUpstream0,     \* the archive each ref's source serves at first
    PiRegistry0,     \* the registry when the page is opened
    PiMaxCalls,      \* bound: requests in flight other than the list
    PiMaxMoves,      \* bound: changes made upstream and restarts
    PiMaxGestures,   \* bound: gestures of the user and changes by others
    PiPageCost       \* bound: what a gesture outside the dialog counts for among them

VARIABLES
    piRegistry,      \* version -> state of its row on the service
    piUpstream,      \* ref -> the archive its source serves now
    piTokens,        \* resolve cache: token -> the plan it was issued for
    piIssued,        \* tokens issued so far
    piHook,          \* useAsync of the list; deps is the view it is in
    piForm,          \* the install dialog, or NoForm
    piCalls,         \* requests in flight other than the list
    piMoves,         \* moves so far
    piGestures,      \* gestures so far
    piInstalled,     \* history: the remote installs that went through
    piUnseen         \* history: the registry changed with no reload to follow

piVars == <<piRegistry, piUpstream, piTokens, piIssued, piHook, piForm, piCalls, piMoves,
            piGestures, piInstalled, piUnseen>>
piServer == <<piRegistry, piUpstream, piTokens, piIssued, piMoves, piInstalled>>

PiVersions == DOMAIN PiRegistry0
PiStates == {"absent", "installed", "install_failed", "enabled", "enable_failed", "uninstalled"}
PiModes == DOMAIN PiRefs
PiSources == UNION {{m} \X PiRefs[m] : m \in PiModes}
NoForm == [mode |-> "none"]
NoRef == "noRef"
NoSource == <<"none", NoRef>>
NoPlan == [src |-> NoSource, art |-> "none", pinned |-> FALSE, token |-> 0]
\* The two forms for a file of the user's own, archive and manifest, work alike.
LocalModes == {"artifact"}

\* One version is enabled at most when the page is opened: the registry's table has a
\* unique index for it.  "none" stands for no form.
ASSUME PluginsAssumption ==
    /\ PiRegistry0 \in [PiVersions -> PiStates]
    /\ \A v, w \in PiVersions : PiRegistry0[v] = "enabled" /\ PiRegistry0[w] = "enabled" => v = w
    /\ "none" \notin PiModes
    /\ PiMaxCalls \in Nat

(***************************************************************************)
(* The service: resolve tokens and the operations on the registry.         *)
(***************************************************************************)
\* Consume: the token is gone, whatever becomes of the install.
Consume(tokens, t) == [u \in DOMAIN tokens \ {t} |-> tokens[u]]

SameSourceUnchecked(a, b) == TRUE
sameSource(a, b) == a = b

\* Fetch: a digest in the plan is compared with what was downloaded.
PiFetched(plan) ==
    LET art == piUpstream[plan.src[2]] IN IF plan.pinned /\ art # plan.art THEN {} ELSE {art}

PiEnabled(reg) == {v \in PiVersions : reg[v] = "enabled"}
PiOutcome(reg, v, st, ok) == [reg |-> [reg EXCEPT ![v] = st], ok |-> ok]

\* The outcomes of an operation: it goes through, fails and says so in the row,
\* or is refused with nothing changed.
PiOutcomes(reg, op, v) ==
    LET enabling == IF reg[v] \in {"installed", "enable_failed"}
                    THEN {PiOutcome(reg, v, "enable_failed", FALSE)} ELSE {}
        off == [w \in PiVersions |-> IF reg[w] = "enabled" THEN "installed" ELSE reg[w]]
    IN  {[reg |-> reg, ok |-> FALSE]} \cup
        CASE op = "install" ->
                IF reg[v] \in {"absent", "install_failed"}
                THEN {PiOutcome(reg, v, "installed", TRUE), PiOutcome(reg, v, "install_failed", FALSE)} ELSE {}
          [] op = "enable" ->
                IF enabling # {} /\ PiEnabled(reg) = {}
                THEN enabling \cup {PiOutcome(reg, v, "enabled", TRUE)} ELSE enabling
          [] op = "disable" ->
                IF PiEnabled(reg) = {} THEN {} ELSE {[reg |-> off, ok |-> TRUE]}
          [] op = "switch" ->
                IF enabling = {} THEN {}
                ELSE {[reg |-> off, ok |-> FALSE], PiOutcome(off, v, "enabled", TRUE),
                      PiOutcome(off, v, "enable_failed", FALSE)}
          [] op = "uninstall" ->
                IF reg[v] \in {"installed", "install_failed", "enable_failed"}
                THEN {PiOutcome(reg, v, "uninstalled", TRUE)} ELSE {}

(***************************************************************************)
(* The page.                                                               *)
(***************************************************************************)
PiInit ==
    /\ piRegistry = PiRegistry0
    /\ piUpstream = PiUpstream0
    /\ piTokens = <<>>
    /\ piIssued = 0
    /\ piHook = AsyncMount("registry")
    /\ piForm = NoForm
    /\ piCalls = <<>>
    /\ piMoves = 0
    /\ piGestures = 0
    /\ piInstalled = {}
    /\ piUnseen = FALSE

PiGestures(n) == piGestures + n <= PiMaxGestures /\ piGestures' = piGestures + n
PiGesture == PiGestures(1)
PiMove == piMoves < PiMaxMoves /\ piMoves' = piMoves + 1

\* groupPlugins: the rows on show, without the uninstalled ones.
groupPlugins ==
    IF AsyncShown(piHook) THEN {v \in PiVersions : piHook.data[2][v] \notin {"absent", "uninstalled"}} ELSE {}

\* PluginRegistry: the row of a version.
PiRowState(v) == piHook.data[2][v]
PiShownEnabled == {v \in groupPlugins : PiRowState(v) = "enabled"}
stableForUninstall(st) == st \in {"installed", "install_failed", "enable_failed"}
PiStartable(v) == PiRowState(v) \in {"installed", "enable_failed"}

\* The buttons of a row.
PluginActions(v) ==
    {op \in {"enable", "switch", "disable", "uninstall"} :
        CASE op = "enable" -> PiStartable(v) /\ PiShownEnabled = {}
          [] op = "switch" -> PiStartable(v) /\ PiShownEnabled # {}
          [] op = "disable" -> PiRowState(v) = "enabled"
          [] op = "uninstall" -> stableForUninstall(PiRowState(v))}

\* A plugin's own route: the plugin while one version is enabled, a button to
\* enable a version otherwise.
PluginContributionView(v) == {op \in {"enable"} : PiShownEnabled = {} /\ PiStartable(v)}

PiButtons(v) == IF piHook.deps = "registry" THEN PluginActions(v) ELSE PluginContributionView(v)

\* A request: page and modal tell whether what sent it is still mounted, shown
\* is the preview whose permissions were acknowledged, raced that something
\* else was going on between its sending and its handling.
PiCall(op, v, src, token, shown) ==
    [op |-> op, v |-> v, src |-> src, token |-> token, shown |-> shown, page |-> TRUE, modal |-> TRUE,
     raced |-> piUnseen \/ piCalls # <<>> \/ ~AsyncSettled(piHook), ans |-> Waiting]
PiSend(c) ==
    /\ Len(piCalls) < PiMaxCalls
    /\ piCalls' = Send([i \in DOMAIN piCalls |-> [piCalls[i] EXCEPT !.raced = TRUE]], c)
PiOrphans(field) == [i \in DOMAIN piCalls |-> [piCalls[i] EXCEPT ![field] = FALSE]]
PiBusy(S) == \E i \in DOMAIN piCalls : piCalls[i].op \in S /\ piCalls[i].modal

\* The router: the list page or a plugin's own route.
PiNavigate(view) ==
    /\ PiGestures(PiPageCost)
    /\ view # piHook.deps
    /\ piForm = NoForm
    /\ piHook' = AsyncMount(view)
    /\ piCalls' = PiOrphans("page")
    /\ UNCHANGED <<piServer, piForm, piUnseen>>

PiReload ==
    /\ PiGestures(PiPageCost)
    /\ piForm = NoForm
    /\ piHook' = AsyncReload(piHook)
    /\ UNCHANGED <<piServer, piForm, piCalls, piUnseen>>

PiServeList(c) ==
    /\ c.ans = Waiting
    /\ \E res \in {Value(piRegistry), Failed} : piHook' = AsyncServe(piHook, c, res)
    /\ piUnseen' = FALSE
    /\ UNCHANGED <<piServer, piForm, piCalls, piGestures>>

PiListArrives(c) ==
    /\ c.ans # Waiting
    /\ piHook' = AsyncDeliver(piHook, c)
    /\ UNCHANGED <<piServer, piForm, piCalls, piGestures, piUnseen>>

\* A button of a row; a row is busy with one request at a time.
PiRowAction(op, v) ==
    /\ PiGestures(PiPageCost)
    /\ piForm = NoForm
    /\ v \in groupPlugins /\ op \in PiButtons(v)
    /\ ~\E i \in DOMAIN piCalls : piCalls[i].v = v /\ piCalls[i].page
    /\ PiSend(PiCall(op, v, NoSource, 0, NoPlan))
    /\ UNCHANGED <<piServer, piHook, piForm, piUnseen>>

\* The Install button mounts the dialog: all of its state starts afresh.
PiOpenInstall ==
    /\ PiGesture
    /\ piForm = NoForm /\ piHook.deps = "registry"
    /\ piForm' = [mode |-> "artifact", ref |-> [m \in PiModes |-> NoRef], preview |-> NoPlan, ack |-> NoPlan]
    /\ UNCHANGED <<piServer, piHook, piCalls, piUnseen>>

PiCloseInstall ==
    /\ PiGesture
    /\ piForm # NoForm
    /\ piForm' = NoForm
    /\ piCalls' = PiOrphans("modal")
    /\ UNCHANGED <<piServer, piHook, piUnseen>>

PiFormChange(form) ==
    /\ PiGesture
    /\ piForm # NoForm
    /\ piForm' = form
    /\ UNCHANGED <<piServer, piHook, piCalls, piUnseen>>

\* switchMode: the catalog selection does not survive it, typed fields do.
switchMode(mode) ==
    LET kept == IF piForm = NoForm THEN <<>>
                ELSE [m \in PiModes |-> IF m = "catalog" THEN NoRef ELSE piForm.ref[m]]
    IN  PiFormChange([mode |-> mode, ref |-> kept, preview |-> NoPlan, ack |-> NoPlan])

\* Typing in a field drops the preview and leaves the tick; selecting an entry
\* of the catalog drops both.
PiEdit(ref) ==
    /\ piForm.mode \in PiModes /\ ref \in PiRefs[piForm.mode]
    /\ PiFormChange([piForm EXCEPT !.ref[piForm.mode] = ref, !.preview = NoPlan,
                                   !.ack = IF piForm.mode = "catalog" THEN NoPlan ELSE @])

\* The checkbox of the preview card.
PiAcknowledge ==
    /\ piForm.mode \in PiModes
    /\ piForm.preview # NoPlan
    /\ PiFormChange([piForm EXCEPT !.ack = IF @ = NoPlan THEN piForm.preview ELSE NoPlan])

PiSource == <<piForm.mode, piForm.ref[piForm.mode]>>

PiResolve ==
    /\ PiGesture
    /\ piForm.mode \in PiModes
    /\ PiSource[2] # NoRef
    /\ ~PiBusy({"resolve"})
    /\ PiSend(PiCall("resolve", "none", PiSource, 0, NoPlan))
    /\ UNCHANGED <<piServer, piHook, piForm, piUnseen>>

\* installDisabled
installDisabled ==
    \/ PiBusy({"install"})
    \/ piForm.mode \in PiModes /\ (piForm.preview = NoPlan \/ piForm.ack = NoPlan \/ PiSource[2] = NoRef)

\* submit: an archive of the user's own, or the source the form names now with
\* the token of the preview on show.
PiSubmit(art) ==
    /\ PiGesture
    /\ piForm # NoForm
    /\ ~installDisabled
    /\ IF piForm.mode \in LocalModes
       THEN PiSend(PiCall("install", PiVersionOf[art], NoSource, 0, NoPlan))
       ELSE PiSend(PiCall("install", "none", PiSource, piForm.preview.token, piForm.ack))
    /\ UNCHANGED <<piServer, piHook, piForm, piUnseen>>

(***************************************************************************)
(* The service handles a request.                                          *)
(***************************************************************************)
PiServed(i, ans) == piCalls' = Answer(piCalls, i, ans)

\* Resolve: a plan for what the source serves, kept under a new token.
PiServeResolve(i) ==
    LET c == piCalls[i]
        token == piIssued + 1
        plan == [src |-> c.src, art |-> piUpstream[c.src[2]], pinned |-> c.src[2] \in PiPinned, token |-> token]
    IN  /\ c.op = "resolve" /\ Unserved(piCalls, i)
        /\ piTokens' = [t \in DOMAIN piTokens \cup {token} |-> IF t = token THEN plan ELSE piTokens[t]]
        /\ piIssued' = token
        /\ PiServed(i, Value(plan))
        /\ UNCHANGED <<piRegistry, piUpstream, piHook, piForm, piMoves, piGestures, piInstalled, piUnseen>>

\* ResolveAndFetch, then Install.  A token may have expired.
PiServeInstall(i) ==
    LET c == piCalls[i]
        known == c.token \in DOMAIN piTokens
        fetched == IF known /\ sameSource(piTokens[c.token].src, c.src) THEN PiFetched(piTokens[c.token]) ELSE {}
    IN  /\ c.op = "install" /\ c.v = "none" /\ Unserved(piCalls, i)
        /\ piTokens' = Consume(piTokens, c.token)
        /\ \/ \E a \in fetched : \E out \in PiOutcomes(piRegistry, "install", PiVersionOf[a]) :
                /\ piRegistry' = out.reg
                /\ PiServed(i, IF out.ok THEN Value("") ELSE Failed)
                /\ piInstalled' = piInstalled \cup
                     {[no |-> Cardinality(piInstalled), asked |-> c.src, ack |-> c.shown, plan |-> piTokens[c.token], art |-> a] :
                         x \in {y \in {1} : out.reg # piRegistry}}
           \/ /\ PiServed(i, Failed)
              /\ UNCHANGED <<piRegistry, piInstalled>>
        /\ UNCHANGED <<piUpstream, piIssued, piHook, piForm, piMoves, piGestures, piUnseen>>

\* The operations on a row, and an install from a file.
PiServeRow(i) ==
    /\ piCalls[i].v # "none" /\ Unserved(piCalls, i)
    /\ \E out \in PiOutcomes(piRegistry, piCalls[i].op, piCalls[i].v) :
         /\ piRegistry' = out.reg
         /\ PiServed(i, IF out.ok THEN Value("") ELSE Failed)
    /\ UNCHANGED <<piUpstream, piTokens, piIssued, piMoves, piInstalled, piHook, piForm, piGestures, piUnseen>>

PiCallLost(i) ==
    /\ piCalls[i].ans # Failed
    /\ PiServed(i, Failed)
    /\ UNCHANGED <<piServer, piHook, piForm, piGestures, piUnseen>>

(***************************************************************************)
(* The answer arrives.                                                     *)
(***************************************************************************)
\* A toast; a failed resolve also drops the preview.  Nothing is reloaded.
PiCallFails(i) ==
    LET c == piCalls[i]
    IN  /\ c.ans = Failed
        /\ piCalls' = Forget(piCalls, i)
        /\ piForm' = IF c.op = "resolve" /\ c.modal THEN [piForm EXCEPT !.preview = NoPlan] ELSE piForm
        /\ piUnseen' = (piUnseen \/ c.op # "resolve")
        /\ UNCHANGED <<piServer, piHook, piGestures>>

\* A preview was never acknowledged.
PreviewShown(form, plan) == [form EXCEPT !.preview = plan, !.ack = NoPlan]

\* The preview is shown in the dialog that asked, whatever its form says now.
PiResolveArrives(i) ==
    LET c == piCalls[i]
    IN  /\ c.op = "resolve" /\ c.ans \notin {Waiting, Failed}
        /\ piCalls' = Forget(piCalls, i)
        /\ piForm' = IF c.modal THEN PreviewShown(piForm, c.ans[2]) ELSE piForm
        /\ UNCHANGED <<piServer, piHook, piGestures, piUnseen>>

PiReloadedNever(c) == piHook
\* reload() of the page that sent it; an install also closes the dialog, be it
\* a newer one.
PiReloaded(c) == IF c.page THEN AsyncReload(piHook) ELSE piHook

PiCallArrives(i) ==
    LET c == piCalls[i]
        closes == c.op = "install" /\ c.page
    IN  /\ c.op # "resolve" /\ c.ans = Value("")
        /\ piHook' = PiReloaded(c)
        /\ piForm' = IF closes THEN NoForm ELSE piForm
        /\ piCalls' = Forget(IF closes THEN PiOrphans("modal") ELSE piCalls, i)
        /\ piUnseen' = (piUnseen \/ ~c.page)
        /\ UNCHANGED <<piServer, piGestures>>

(***************************************************************************)
(* The rest of the world.                                                  *)
(***************************************************************************)
\* A release is replaced, or moved to another archive.
PiUpstreamMoves(ref, art) ==
    /\ PiMove
    /\ piUpstream[ref] # art
    /\ piUpstream' = [piUpstream EXCEPT ![ref] = art]
    /\ UNCHANGED <<piRegistry, piTokens, piIssued, piHook, piForm, piCalls, piGestures, piInstalled, piUnseen>>

\* The service restarts: tokens live in its memory.
PiRestart ==
    /\ PiMove
    /\ piTokens # <<>>
    /\ piTokens' = <<>>
    /\ UNCHANGED <<piRegistry, piUpstream, piIssued, piHook, piForm, piCalls, piGestures, piInstalled, piUnseen>>

\* Another tab, or the health supervisor.
PiOther(op, v) ==
    /\ PiGestures(PiPageCost)
    /\ \E out \in PiOutcomes(piRegistry, op, v) : piRegistry' = out.reg
    /\ piUnseen' = TRUE
    /\ piCalls' = [i \in DOMAIN piCalls |-> [piCalls[i] EXCEPT !.raced = TRUE]]
    /\ UNCHANGED <<piUpstream, piTokens, piIssued, piMoves, piHook, piForm, piInstalled>>

PiNext ==
    \/ \E view \in {"registry", "route"} : PiNavigate(view)
    \/ PiReload
    \/ \E c \in piHook.calls : PiServeList(c) \/ PiListArrives(c)
    \/ \E op \in {"enable", "switch", "disable", "uninstall"}, v \in PiVersions : PiRowAction(op, v) \/ PiOther(op, v)
    \/ PiOpenInstall \/ PiCloseInstall
    \/ \E mode \in LocalModes \cup PiModes : switchMode(mode)
    \/ \E ref \in UNION {PiRefs[m] : m \in PiModes} : PiEdit(ref)
    \/ PiAcknowledge
    \/ PiResolve
    \/ \E art \in PiArtifacts : PiSubmit(art)
    \/ \E i \in DOMAIN piCalls :
         \/ PiServeResolve(i) \/ PiServeInstall(i) \/ PiServeRow(i)
         \/ PiCallLost(i) \/ PiCallFails(i) \/ PiResolveArrives(i) \/ PiCallArrives(i)
    \/ \E ref \in DOMAIN PiUpstream0, art \in PiArtifacts : PiUpstreamMoves(ref, art)
    \/ PiRestart

PiSpec == PiInit /\ [][PiNext]_piVars

(***************************************************************************)
(* Properties.                                                             *)
(***************************************************************************)

\* The variables have the types the code gives them.
PiTypeOK ==
    /\ piRegistry \in [PiVersions -> PiStates]
    /\ DOMAIN piTokens \subseteq 1..piIssued
    /\ \A t \in DOMAIN piTokens : piTokens[t].token = t /\ piTokens[t].src \in PiSources
    /\ piHook.deps \in {"registry", "route"}
    /\ piForm.mode \in {"none"} \cup LocalModes \cup PiModes
    /\ Len(piCalls) <= PiMaxCalls

\* What a remote install put in the registry came from the source the form named
\* when Install was pressed: the preview of another source, shown because its
\* answer came late, never installs that other source.
InstalledAsAsked == \A x \in piInstalled : x.plan.src = x.asked

\* ...and its permissions were acknowledged on the preview of that very plan; a
\* source that names a digest gives the archive that was previewed.
InstalledAsAcknowledged ==
    \A x \in piInstalled : x.ack = x.plan /\ (x.plan.pinned => x.art = x.plan.art)

\* A resolve token goes through once: an install sent again after its answer was
\* lost, or from a second dialog, does not fetch under an old consent.
TokenUsedOnce == \A x, y \in piInstalled : x.plan.token = y.plan.token => x = y

\* Consent: an install is what was asked for and acknowledged, once.
InstalledAsConsented == InstalledAsAsked /\ InstalledAsAcknowledged /\ TokenUsedOnce

\* When nothing is in flight and nothing failed, the rows are the registry.
PiRowsCurrent ==
    piCalls = <<>> /\ AsyncSettled(piHook) /\ AsyncShown(piHook) /\ ~piUnseen
        => piHook.data = Value(piRegistry)

\* The request of Disable names the plugin and no version: it takes down the
\* version of the row it was pressed on, unless something else was under way or
\* the rows were known to be old when it was pressed.
DisableHitsItsRow ==
    [][\A i \in DOMAIN piCalls :
         /\ piCalls[i].op = "disable" /\ ~piCalls[i].raced
         /\ Unserved(piCalls, i) /\ piRegistry' # piRegistry
         /\ Len(piCalls') = Len(piCalls) /\ ~Unserved(piCalls', i)
         => PiEnabled(piRegistry) = {piCalls[i].v}
      ]_piVars
=============================================================================
