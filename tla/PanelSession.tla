---------------------------- MODULE PanelSession ----------------------------
(***************************************************************************)
(* Who is signed in: the boot of the panel, its login screen, lockscreen,  *)
(* idle timer and Lock and Logout buttons in one tab; behind them the      *)
(* session store of the service, a cache over the rows of the database,    *)
(* and the locks it keeps in memory.  Other tabs share the cookie.         *)
(*                                                                         *)
(* A request that needs a session looks it up first: in the cache, else in *)
(* the database, and then puts it in the cache.                            *)
(***************************************************************************)
EXTENDS AsyncHook, FiniteSets

CONSTANTS
    PsMaxSessions,   \* bound: sessions ever made
    PsMaxCalls,      \* bound: requests of this tab in flight
    PsMaxMoves,      \* bound: acts of other tabs, restarts, expiries, lost answers
    PsMaxGestures    \* bound: gestures in this tab

ASSUME PsSessionsAssumption == PsMaxSessions \in Nat \ {0}

VARIABLES
    psRows,          \* sessions in the database
    psCache,         \* sessions in Store.sessions
    psLocks,         \* sessions in Lockscreen.locked
    psIssued,        \* sessions made so far
    psFills,         \* sessions a request of another tab read and will put in the cache
    psCookie,        \* the browser's session cookie, 0 for none
    psBoot,          \* BootGate: "loading" or "ready"
    psMeta,          \* the panel knows that the lockscreen is enabled
    psUser,          \* the store has a user
    psLocked,        \* the store says locked
    psMount,         \* number of the view on show, a new one at each mount
    psIdle,          \* the ticker runs; the time without activity is over
    psStray,         \* tickers started by a view that is gone
    psCalls,         \* requests of this tab in flight
    psMoves,         \* moves so far
    psGestures,      \* gestures so far
    psRevived,       \* history: sessions put in the cache after their row was deleted
    psUndeleted,     \* history: sessions with a row whose DELETE failed
    psOut,           \* history: sessions whose logout was answered
    psMixed          \* history: since the boot, requests of the tab overlapped, an
                     \* answer was lost, or somebody else acted

psVars == <<psRows, psCache, psLocks, psIssued, psFills, psCookie, psBoot, psMeta, psUser, psLocked, psMount,
            psIdle, psStray, psCalls, psMoves, psGestures, psRevived, psUndeleted, psOut, psMixed>>
psStore == <<psRows, psCache, psLocks, psIssued, psFills, psRevived, psUndeleted, psOut>>
psPage == <<psBoot, psMeta, psUser, psLocked, psMount, psIdle, psStray>>

PsSessions == 1 .. PsMaxSessions
Valid == psCache \cup psRows
NoTicker == [ticker |-> FALSE, overdue |-> FALSE]
PsCall(op) == [op |-> op, sid |-> psCookie, mount |-> psMount, at |-> "sent", ans |-> Waiting]

\* The tab is opened with the cookie of a session that may be over, or with none.
PsInit ==
    /\ psIssued = 1
    /\ psRows \in {{}, {1}}
    /\ psCache \in {{}, psRows}
    /\ psLocks \in {{}, psCache}
    /\ psFills = {}
    /\ psCookie \in {0, 1}
    /\ psBoot = "loading"
    /\ psMeta = FALSE
    /\ psUser = FALSE
    /\ psLocked = FALSE
    /\ psMount = 0
    /\ psIdle = NoTicker
    /\ psStray = 0
    /\ psCalls = Send(<<>>, [op |-> "boot", sid |-> psCookie, mount |-> 0, at |-> "sent", ans |-> Waiting])
    /\ psMoves = 0
    /\ psGestures = 0
    /\ psRevived = {}
    /\ psUndeleted = {}
    /\ psOut = {}
    /\ psMixed = FALSE

PsGesture == psGestures < PsMaxGestures /\ psGestures' = psGestures + 1
PsMove == psMoves < PsMaxMoves /\ psMoves' = psMoves + 1

(***************************************************************************)
(* The store.                                                              *)
(***************************************************************************)
\* The DELETE of a row, whose error is ignored.
DeleteRow(s) ==
    \/ psRows' = psRows \ {s} /\ UNCHANGED psUndeleted
    \/ s \in psRows /\ psUndeleted' = psUndeleted \cup {s} /\ UNCHANGED psRows

\* Delete in two steps, the cache first.
DeleteCacheFirst(step, s) ==
    IF step = 1 THEN psCache' = psCache \ {s} /\ UNCHANGED <<psRows, psUndeleted>>
    ELSE DeleteRow(s) /\ UNCHANGED psCache

\* Delete: the row, then the cache.
Delete(step, s) ==
    IF step = 1 THEN DeleteRow(s) /\ UNCHANGED psCache
    ELSE psCache' = psCache \ {s} /\ UNCHANGED <<psRows, psUndeleted>>

\* Get puts what it read in the cache, even if it was deleted meanwhile.
CacheFill(s) ==
    /\ psCache' = psCache \cup {s}
    /\ psRevived' = IF s \in psRows THEN psRevived ELSE psRevived \cup {s}

At(i, at) == [psCalls EXCEPT ![i].at = at]
Answered(i, ans) == [psCalls EXCEPT ![i].at = "done", ![i].ans = ans]

\* What a request without a session is answered; BootGate takes it as signed out.
NoSession(c) == IF c.op = "boot" THEN Value("out") ELSE Failed

\* RequireSession and Get, up to the cache or the row.
PsLookup(i) ==
    LET c == psCalls[i] IN
    /\ c.at = "sent" /\ c.op # "login"
    /\ psCalls' = IF c.sid \in psCache THEN At(i, "in")
                  ELSE IF c.sid \in psRows THEN At(i, "found") ELSE Answered(i, NoSession(c))
    /\ UNCHANGED <<psStore, psPage, psCookie, psMoves, psGestures, psMixed>>

PsFill(i) ==
    /\ psCalls[i].at = "found"
    /\ CacheFill(psCalls[i].sid)
    /\ psCalls' = At(i, "in")
    /\ UNCHANGED <<psRows, psLocks, psIssued, psFills, psUndeleted, psOut, psPage, psCookie, psMoves, psGestures, psMixed>>

\* LockSession, Unlock with the password or a wrong one, Me and LockscreenStatus.
PsAct(i) ==
    LET c == psCalls[i]
        says(ans, locks) == psCalls' = Answered(i, ans) /\ psLocks' = locks
    IN  /\ c.at = "in" /\ c.op # "logout"
        /\ \/ c.op = "boot" /\ says(Value(IF c.sid \in psLocks THEN "locked" ELSE "open"), psLocks)
           \/ c.op \in {"lock", "idle"} /\ says(Value("locked"), psLocks \cup {c.sid})
           \/ c.op = "unlock" /\ c.sid \in psLocks /\ says(Value("open"), psLocks \ {c.sid})
           \/ c.op = "unlock" /\ says(Failed, psLocks)
        /\ UNCHANGED <<psRows, psCache, psIssued, psFills, psRevived, psUndeleted, psOut, psPage, psCookie, psMoves,
                       psGestures, psMixed>>

PsLogout(i) ==
    LET c == psCalls[i]
        step == IF c.at = "in" THEN 1 ELSE 2
    IN  /\ c.op = "logout" /\ c.at \in {"in", "dropped"}
        /\ Delete(step, c.sid)
        /\ psCalls' = IF step = 1 THEN At(i, "dropped") ELSE Answered(i, Value("out"))
        /\ psOut' = IF step = 1 THEN psOut ELSE psOut \cup {c.sid}
        /\ UNCHANGED <<psLocks, psIssued, psFills, psRevived, psPage, psCookie, psMoves, psGestures, psMixed>>

\* CreateFor, or the password is wrong.
PsLogin(i) ==
    /\ psCalls[i].op = "login" /\ psCalls[i].at = "sent"
    /\ \/ /\ psIssued < PsMaxSessions
          /\ psIssued' = psIssued + 1
          /\ psRows' = psRows \cup {psIssued'}
          /\ psCache' = psCache \cup {psIssued'}
          /\ psCalls' = [Answered(i, Value("open")) EXCEPT ![i].sid = psIssued']
       \/ psCalls' = Answered(i, Failed) /\ UNCHANGED <<psIssued, psRows, psCache>>
    /\ UNCHANGED <<psLocks, psFills, psRevived, psUndeleted, psOut, psPage, psCookie, psMoves, psGestures, psMixed>>

(***************************************************************************)
(* The views.                                                              *)
(***************************************************************************)
PsViewOf(boot, user, locked) ==
    IF boot = "loading" THEN "boot" ELSE IF locked THEN "lockscreen" ELSE IF user THEN "shell" ELSE "login"
PsView == PsViewOf(psBoot, psUser, psLocked)

\* The effect of useIdleLock has no cleanup.
IdleKept(view, meta) == IF view = "shell" THEN [ticker |-> meta, overdue |-> FALSE] ELSE psIdle

\* useIdleLock: the Shell starts the ticker when it mounts, and stops it.
IdleOf(view, meta) == IF view = "shell" THEN [ticker |-> meta, overdue |-> FALSE] ELSE NoTicker

\* setUser, setLocked and setMeta: the view may be another one.
PsShow(boot, meta, user, locked) ==
    LET view == PsViewOf(boot, user, locked) IN
    /\ psBoot' = boot /\ psMeta' = meta /\ psUser' = user /\ psLocked' = locked
    /\ psMount' = IF view = PsView THEN psMount ELSE psMount + 1
    /\ psIdle' = IF view = PsView THEN psIdle ELSE IdleOf(view, meta)

PsSendFrom(mount, op) ==
    /\ Len(psCalls) < PsMaxCalls
    /\ psCalls' = Send(psCalls, [PsCall(op) EXCEPT !.mount = mount])
    /\ psMixed' = (psMixed \/ psCalls # <<>>)
PsSend(op) == PsSendFrom(psMount, op)
PsBusy(op) == \E i \in DOMAIN psCalls : psCalls[i].op = op /\ psCalls[i].mount = psMount

\* reset: any activity puts the end of the idle time off.
Touched == IF psMeta THEN [ticker |-> TRUE, overdue |-> FALSE] ELSE psIdle

PsClick(view, op) ==
    /\ PsView = view
    /\ PsGesture
    /\ ~PsBusy(op)
    /\ PsSend(op)
    /\ psIdle' = IF view = "shell" THEN Touched ELSE psIdle
    /\ UNCHANGED <<psStore, psBoot, psMeta, psUser, psLocked, psMount, psStray, psCookie, psMoves>>

SignIn == PsClick("login", "login")
logout == PsClick("shell", "logout")
lock == psMeta /\ PsClick("shell", "lock")
UnlockSubmit == PsClick("lockscreen", "unlock")

PsActivity ==
    /\ PsView = "shell" /\ psIdle # Touched
    /\ PsGesture
    /\ psIdle' = Touched
    /\ UNCHANGED <<psStore, psBoot, psMeta, psUser, psLocked, psMount, psStray, psCookie, psCalls, psMoves, psMixed>>

\* Never, when lock_after_seconds is 0.
PsTimePasses ==
    /\ psIdle.ticker /\ ~psIdle.overdue
    /\ psIdle' = [psIdle EXCEPT !.overdue = TRUE]
    /\ UNCHANGED <<psStore, psBoot, psMeta, psUser, psLocked, psMount, psStray, psCookie, psCalls, psMoves, psGestures, psMixed>>

\* fireLock stops the ticker and asks for the lock, from the Shell on show or from
\* one that is gone (as mount 0, which never has a Shell).
fireLock ==
    /\ \/ /\ psIdle.ticker /\ psIdle.overdue
          /\ psIdle' = NoTicker
          /\ PsSend("idle")
          /\ UNCHANGED psStray
       \/ /\ psStray > 0
          /\ psStray' = psStray - 1
          /\ PsSendFrom(0, "idle")
          /\ UNCHANGED psIdle
    /\ UNCHANGED <<psStore, psBoot, psMeta, psUser, psLocked, psMount, psCookie, psMoves, psGestures>>

(***************************************************************************)
(* Answers.                                                                *)
(***************************************************************************)
\* The lockscreen is left whatever the answer, a wrong password too.
LeftAnyway(c) ==
    IF c.op # "unlock" /\ (c.ans = Failed \/ c.op = "logout") THEN psLocked
    ELSE CASE c.op = "boot" -> c.ans = Value("locked")
           [] c.op # "boot" -> c.op \in {"lock", "idle"}

\* Only an answer locks or unlocks the panel.
LockedAfter(c) ==
    IF c.ans = Failed \/ c.op = "logout" THEN psLocked
    ELSE CASE c.op = "boot" -> c.ans = Value("locked")
           [] c.op \in {"lock", "idle"} -> TRUE
           [] c.op \in {"unlock", "login"} -> FALSE

UserAfter(c) ==
    CASE c.op = "boot" -> c.ans # Value("out")
      [] c.op = "login" /\ c.ans # Failed -> TRUE
      [] c.op = "logout" /\ c.ans # Failed -> FALSE
      [] OTHER -> psUser

CookieAfter(c) ==
    CASE c.op = "login" /\ c.ans # Failed -> c.sid
      [] c.op = "logout" /\ c.ans # Failed -> 0
      [] OTHER -> psCookie

PsAnswerArrives(i) ==
    LET c == psCalls[i]
        meta == IF c.op = "boot" THEN BOOLEAN ELSE {psMeta}
    IN  /\ c.at = "done"
        /\ ~(c.op = "idle" /\ c.ans = Failed)
        /\ \E m \in meta : PsShow("ready", m, UserAfter(c), LockedAfter(c))
        /\ psCookie' = CookieAfter(c)
        /\ psCalls' = Forget(psCalls, i)
        /\ UNCHANGED <<psStore, psStray, psMoves, psGestures, psMixed>>

\* fireLock's catch starts a ticker, the view's own or one that nothing will stop.
PsIdleLockFails(i) ==
    LET c == psCalls[i]
        own == PsView = "shell" /\ c.mount = psMount
    IN  /\ c.at = "done" /\ c.op = "idle" /\ c.ans = Failed
        /\ psIdle' = IF own THEN [ticker |-> TRUE, overdue |-> FALSE] ELSE psIdle
        /\ psStray' = IF own THEN psStray ELSE psStray + 1
        /\ psCalls' = Forget(psCalls, i)
        /\ UNCHANGED <<psStore, psBoot, psMeta, psUser, psLocked, psMount, psCookie, psMoves, psGestures, psMixed>>

(***************************************************************************)
(* Around the tab.                                                         *)
(***************************************************************************)
\* No request of the tab is half-way through the service.
PsQuiet == \A i \in DOMAIN psCalls : psCalls[i].at \in {"sent", "done"}

\* The page is loaded again.
PsReload ==
    /\ PsQuiet
    /\ PsGesture
    /\ psBoot' = "loading" /\ psMeta' = FALSE /\ psUser' = FALSE /\ psLocked' = FALSE
    /\ psMount' = psMount + 1
    /\ psIdle' = NoTicker
    /\ psStray' = 0
    /\ psCalls' = Send(<<>>, [PsCall("boot") EXCEPT !.mount = psMount + 1])
    /\ psMixed' = FALSE
    /\ UNCHANGED <<psStore, psCookie, psMoves>>

\* A request of the tab, or its answer, is lost.
PsLost(i) ==
    /\ psCalls[i].at \in {"sent", "done"}
    /\ psCalls[i].ans # NoSession(psCalls[i])
    /\ PsMove
    /\ psCalls' = Answered(i, NoSession(psCalls[i]))
    /\ psMixed' = TRUE
    /\ UNCHANGED <<psStore, psPage, psCookie, psGestures>>

\* Another tab is used: its requests look the session up too.
PsOtherGet ==
    /\ PsMove
    /\ psCookie \in psRows \ psCache
    /\ psFills' = psFills \cup {psCookie}
    /\ UNCHANGED <<psRows, psCache, psLocks, psIssued, psRevived, psUndeleted, psOut, psPage, psCookie, psCalls, psGestures,
                   psMixed>>

PsOtherFill(s) ==
    /\ CacheFill(s)
    /\ psFills' = psFills \ {s}
    /\ psMixed' = (psMixed \/ s \notin psRows)
    /\ UNCHANGED <<psRows, psLocks, psIssued, psUndeleted, psOut, psPage, psCookie, psCalls, psMoves, psGestures>>

PsOther ==
    /\ PsMove
    /\ psCookie \in Valid
    /\ \/ psLocks' = psLocks \cup {psCookie} /\ UNCHANGED <<psRows, psCache, psUndeleted, psOut, psCookie>>
       \/ psLocks' = psLocks \ {psCookie} /\ UNCHANGED <<psRows, psCache, psUndeleted, psOut, psCookie>>
       \/ /\ DeleteRow(psCookie)
          /\ psCache' = psCache \ {psCookie}
          /\ psOut' = psOut \cup {psCookie}
          /\ psCookie' = 0
          /\ UNCHANGED psLocks
    /\ psMixed' = TRUE
    /\ UNCHANGED <<psIssued, psFills, psRevived, psPage, psCalls, psGestures>>

\* The service is restarted: what was in memory is gone.
PsRestart ==
    /\ PsMove
    /\ PsQuiet /\ psFills = {}
    /\ psCache' = {} /\ psLocks' = {} /\ psRevived' = {}
    /\ psMixed' = (psMixed \/ psLocks # {} \/ psRevived # {})
    /\ UNCHANGED <<psRows, psIssued, psFills, psUndeleted, psOut, psPage, psCookie, psCalls, psGestures>>

\* A session expires, not while it is being looked up.
PsExpires(s) ==
    /\ PsMove
    /\ PsQuiet /\ s \notin psFills
    /\ psRows' = psRows \ {s} /\ psCache' = psCache \ {s} /\ psRevived' = psRevived \ {s}
    /\ psMixed' = TRUE
    /\ UNCHANGED <<psLocks, psIssued, psFills, psUndeleted, psOut, psPage, psCookie, psCalls, psGestures>>

PsNext ==
    \/ SignIn \/ logout \/ lock \/ UnlockSubmit \/ PsActivity \/ PsTimePasses \/ fireLock
    \/ \E i \in DOMAIN psCalls :
         \/ PsLookup(i) \/ PsFill(i) \/ PsAct(i) \/ PsLogout(i) \/ PsLogin(i)
         \/ PsAnswerArrives(i) \/ PsIdleLockFails(i) \/ PsLost(i)
    \/ PsReload \/ PsOtherGet \/ PsOther \/ PsRestart
    \/ \E s \in psFills : PsOtherFill(s)
    \/ \E s \in Valid : PsExpires(s)

PsSpec == PsInit /\ [][PsNext]_psVars

(***************************************************************************)
(* Properties.                                                             *)
(***************************************************************************)
\* Types; the idle timer of the panel runs only while its Shell is on show.
PsTypeOK ==
    /\ psIssued \in PsSessions
    /\ psRows \cup psCache \cup psLocks \cup psFills \cup psRevived \cup psUndeleted \cup psOut \subseteq 1 .. psIssued
    /\ psCookie \in 0 .. psIssued
    /\ psIdle.ticker => PsView = "shell"
    /\ psStray \in Nat

\* A session whose logout was answered is no longer accepted: it has no row, unless
\* the DELETE of the row failed; and what the cache holds has a row, but for a
\* logout that is under way and for a lookup that read the row before it was
\* deleted and filled the cache after.
LoggedOutIsOut ==
    /\ psOut \cap psRows \subseteq psUndeleted
    /\ \A s \in psCache \ psRows :
         \/ s \in psRevived
         \/ \E i \in DOMAIN psCalls : psCalls[i].op = "logout" /\ psCalls[i].at = "dropped" /\ psCalls[i].sid = s

\* Once its requests are answered the panel shows what the service says: the
\* lockscreen for a locked session, the Shell for an open one, the login screen
\* without a session; unless requests overlapped, an answer was lost or somebody
\* else acted since the page was loaded.
PageAgrees ==
    psBoot = "ready" /\ psCalls = <<>> /\ ~psMixed =>
        CASE PsView = "login" -> psCookie \notin Valid
          [] PsView = "lockscreen" -> psCookie \in Valid \cap psLocks
          [] PsView = "shell" -> psCookie \in Valid \ psLocks
=============================================================================
