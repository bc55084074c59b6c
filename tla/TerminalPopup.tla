---------------------------- MODULE TerminalPopup ----------------------------
(***************************************************************************)
(* The floating terminal: the popup's store, its window, the pane that is  *)
(* mounted while the window is open and not minimized, and the client that *)
(* keeps the pane's websocket.  The hub is reduced to which shells live    *)
(* (TerminalHub has its bookkeeping, TerminalSession the stream).          *)
(*                                                                         *)
(* A shell is a number, in the order of creation; the session id it runs   *)
(* under is its own number, or that of a dead shell it replaces.           *)
(***************************************************************************)
EXTENDS Naturals, Sequences, FiniteSets, SequencesExt

CONSTANTS
    TpMaxShells,     \* bound: shells created
    TpMaxGestures,   \* bound: gestures of the user
    TpMaxDrops       \* bound: lost sockets, exits of a shell, restarts

VARIABLES
    tpShells,        \* hub: shell -> its session id and whether it is alive
    tpActive,        \* activeSessionId, as stored in localStorage
    tpWindow,        \* "closed", "open" or "minimized"
    tpClient,        \* the TerminalClient of the mounted pane, or NoClient
    tpGestures, tpDrops,
    tpDelivered,     \* history: keystrokes that reached a shell
    tpLast           \* history: the shell a window showed last, unless killed

tpVars == <<tpShells, tpActive, tpWindow, tpClient, tpGestures, tpDrops, tpDelivered, tpLast>>

NoId == 0
NoShell == 0
NoClient == [ws |-> "none", id |-> NoId, on |-> NoShell, shown |-> NoShell, role |-> "none",
             heard |-> FALSE, pending |-> <<>>]

TpLives(s) == s \in DOMAIN tpShells /\ tpShells[s].alive
TpShellOf(id) == {s \in DOMAIN tpShells : tpShells[s].alive /\ tpShells[s].id = id}

TpInit ==
    /\ tpShells = <<>>
    /\ tpActive = NoId
    /\ tpWindow = "closed"
    /\ tpClient = NoClient
    /\ tpGestures = 0
    /\ tpDrops = 0
    /\ tpDelivered = {}
    /\ tpLast = NoShell

TpGesture == tpGestures < TpMaxGestures /\ tpGestures' = tpGestures + 1
TpDrop == tpDrops < TpMaxDrops /\ tpDrops' = tpDrops + 1

(***************************************************************************)
(* The store and the window.                                               *)
(***************************************************************************)
\* TerminalPane mounts: a client of its own, which connects at once.
MountPane(id) == [NoClient EXCEPT !.ws = "connecting", !.id = id]

\* A pane that goes without closing its client.
UnmountPaneLeaksClient(client) == client

\* The pane unmounts: the client is closed for good and its queue dropped.
UnmountPane(client) == NoClient

\* openTerminal: the stored session if the hub still lists it, else a new one.
openTerminal ==
    LET id == IF TpShellOf(tpActive) # {} THEN tpActive ELSE NoId
    IN  /\ tpWindow' = "open"
        /\ tpActive' = id
        /\ tpClient' = MountPane(id)

closeTerminal ==
    /\ tpWindow' = "closed"
    /\ tpClient' = UnmountPane(tpClient)

\* The icon in the top bar: it also closes a minimized window.
toggleTerminal ==
    /\ TpGesture
    /\ IF tpWindow = "closed" THEN openTerminal ELSE closeTerminal /\ UNCHANGED tpActive
    /\ UNCHANGED <<tpShells, tpDrops, tpDelivered, tpLast>>

\* Minimize, or the first Escape: the pane goes, the shell stays.
TpMinimize ==
    /\ TpGesture
    /\ tpWindow = "open"
    /\ tpWindow' = "minimized"
    /\ tpClient' = UnmountPane(tpClient)
    /\ UNCHANGED <<tpShells, tpActive, tpDrops, tpDelivered, tpLast>>

\* Close, or the second Escape.
TpClose ==
    /\ TpGesture
    /\ tpWindow # "closed"
    /\ closeTerminal
    /\ UNCHANGED <<tpShells, tpActive, tpDrops, tpDelivered, tpLast>>

\* Kill session: the service is asked to kill the active session, if there is
\* an id for it; the window closes and the id is forgotten either way.
TpKillSession ==
    /\ TpGesture
    /\ tpWindow # "closed"
    /\ closeTerminal
    /\ tpActive' = NoId
    /\ tpShells' = [s \in DOMAIN tpShells |->
                      [tpShells[s] EXCEPT !.alive = @ /\ (tpActive = NoId \/ tpShells[s].id # tpActive)]]
    /\ tpLast' = NoShell
    /\ UNCHANGED <<tpDrops, tpDelivered>>

(***************************************************************************)
(* The client.                                                             *)
(***************************************************************************)
TpSendable(client) == client.ws = "open" /\ client.role = "writer"

\* A keystroke was meant for the shell on show; the server hands it to the
\* shell the socket is attached to, if that is alive.
TpArrive(queue, client) ==
    tpDelivered \cup
        {[meant |-> queue[i], got |-> client.on, gone |-> ~TpLives(queue[i])] :
            i \in {j \in DOMAIN queue : TpLives(client.on)}}

\* sendInput.  xterm takes keystrokes only once a ready frame made this client
\* the writer; while the socket is down they are queued.
sendInput ==
    /\ TpGesture
    /\ tpClient.role = "writer"
    /\ IF TpSendable(tpClient)
       THEN /\ tpDelivered' = TpArrive(<<tpClient.shown>>, tpClient)
            /\ UNCHANGED tpClient
       ELSE /\ tpClient' = [tpClient EXCEPT !.pending = Append(@, tpClient.shown)]
            /\ UNCHANGED tpDelivered
    /\ UNCHANGED <<tpShells, tpActive, tpWindow, tpDrops, tpLast>>

\* connect, and AttachOrCreate on the service: the session the client knows, or
\* a new shell, under the id asked for if there was one.
TpConnect ==
    /\ tpClient.ws = "connecting"
    /\ LET there == TpShellOf(tpClient.id)
           new == Len(tpShells) + 1
           on == IF there # {} THEN CHOOSE s \in there : TRUE ELSE new
           opened == [tpClient EXCEPT !.ws = "open", !.on = on, !.heard = FALSE]
       IN  /\ there = {} => new <= TpMaxShells
           /\ tpShells' = IF there # {} THEN tpShells
                          ELSE Append(tpShells, [id |-> IF tpClient.id = NoId THEN new ELSE tpClient.id,
                                                 alive |-> TRUE])
           /\ IF TpSendable(opened)
              THEN /\ tpClient' = [opened EXCEPT !.pending = <<>>]
                   /\ tpDelivered' = tpDelivered \cup
                        {[meant |-> tpClient.pending[i], got |-> on, gone |-> ~TpLives(tpClient.pending[i])] :
                            i \in DOMAIN tpClient.pending}
              ELSE tpClient' = opened /\ UNCHANGED tpDelivered
    /\ UNCHANGED <<tpActive, tpWindow, tpGestures, tpDrops, tpLast>>

ReadyForgetsSession(client, role) == [client EXCEPT !.role = role, !.heard = TRUE, !.shown = client.on]

\* The ready frame: role and session id are those of this socket from now on.
ReadyFrame(client, role) ==
    [client EXCEPT !.role = role, !.heard = TRUE, !.shown = client.on, !.id = tpShells[client.on].id]

\* handleText of a ready frame; queued keystrokes of a writer go out.
TpReady(role) ==
    LET ready == ReadyFrame(tpClient, role)
    IN  /\ tpClient.ws = "open" /\ ~tpClient.heard
        /\ IF role = "writer"
           THEN /\ tpClient' = [ready EXCEPT !.pending = <<>>]
                /\ tpDelivered' = TpArrive(tpClient.pending, ready)
           ELSE tpClient' = ready /\ UNCHANGED tpDelivered
        /\ tpLast' = tpClient.on
        /\ UNCHANGED <<tpShells, tpActive, tpWindow, tpGestures, tpDrops>>

\* onclose: the client waits and connects again.
TpDisconnected == [tpClient EXCEPT !.ws = "waiting", !.on = NoShell]

TpSocketDrops ==
    /\ TpDrop
    /\ tpClient.ws = "open"
    /\ tpClient' = TpDisconnected
    /\ UNCHANGED <<tpShells, tpActive, tpWindow, tpGestures, tpDelivered, tpLast>>

\* scheduleReconnect: the timer fires.
TpReconnect ==
    /\ tpClient.ws = "waiting"
    /\ tpClient' = [tpClient EXCEPT !.ws = "connecting"]
    /\ UNCHANGED <<tpShells, tpActive, tpWindow, tpGestures, tpDrops, tpDelivered, tpLast>>

\* A shell exits, is swept or killed from elsewhere; S is all of them when the
\* service restarts.  Its sockets close.
TpShellsGone(S) ==
    /\ TpDrop
    /\ S # {} /\ \A s \in S : TpLives(s)
    /\ tpShells' = [s \in DOMAIN tpShells |-> [tpShells[s] EXCEPT !.alive = @ /\ s \notin S]]
    /\ tpClient' = IF tpClient.on \in S THEN TpDisconnected ELSE tpClient
    /\ UNCHANGED <<tpActive, tpWindow, tpGestures, tpDelivered, tpLast>>

TpNext ==
    \/ toggleTerminal \/ TpMinimize \/ TpClose \/ TpKillSession
    \/ sendInput
    \/ TpConnect \/ TpReconnect \/ TpSocketDrops
    \/ \E role \in {"writer", "reader"} : TpReady(role)
    \/ \E S \in {{s} : s \in DOMAIN tpShells} \cup {{s \in DOMAIN tpShells : TpLives(s)}} : TpShellsGone(S)

TpSpec == TpInit /\ [][TpNext]_tpVars

(***************************************************************************)
(* Properties.                                                             *)
(***************************************************************************)

\* The variables have the types the code gives them; a pane, and so a client, is
\* there exactly while the window is open and not minimized.
TpTypeOK ==
    /\ tpShells \in Seq([id : Nat, alive : BOOLEAN])
    /\ tpWindow \in {"closed", "open", "minimized"}
    /\ tpActive \in Nat
    /\ tpClient \in [ws : {"none", "connecting", "open", "waiting"}, id : Nat, on : Nat, shown : Nat,
                     role : {"none", "writer", "reader"}, heard : BOOLEAN, pending : Seq(Nat)]
    /\ (tpWindow = "open") = (tpClient.ws # "none")
    /\ tpLast \in Nat

\* A keystroke reaches the shell that was on show when it was typed, or, when
\* that one is gone, the one that replaced it under the same pane: what was
\* queued while the socket was down never ends up in a shell beside it.
TypedReachesItsShell == \A k \in tpDelivered : k.meant = k.got \/ k.gone

\* A pane that lost its socket is attached again to the shell it shows, as long
\* as that shell lives.
PaneKeepsItsShell ==
    tpClient.ws = "open" /\ TpLives(tpClient.shown) => tpClient.on = tpClient.shown

\* "reopening resumes it via the session id stored in localStorage": while the
\* window is closed and the shell it showed last is alive and was not killed,
\* the id of that shell is what the next click will resume.
ReopenResumes ==
    tpWindow = "closed" /\ TpLives(tpLast) => tpActive = tpShells[tpLast].id

\* A pane is one shell's: what is shown and what is typed belong to it, through
\* lost sockets, reconnects and a restart of the service.
OneShell == PaneKeepsItsShell /\ TypedReachesItsShell
=============================================================================
