---------------------------- MODULE TerminalHub ----------------------------
(***************************************************************************)
(* The registry of PTY sessions (internal/terminal/hub.go): requests that  *)
(* attach to or create sessions and kill them, the exit callback of every  *)
(* session, the sweeper, the rolling dumps on disk and restarts of the     *)
(* server. What happens inside a session is TerminalSession.               *)
(*                                                                         *)
(* One action is one critical section of Hub.mu, one file operation or the *)
(* start or end of a shell.                                                *)
(***************************************************************************)
EXTENDS Integers, FiniteSets

CONSTANTS
    Users, Ids,      \* users and session ids
    OwnerOf,         \* a browser only names ids it was given: their user
    Insts,           \* PtySession objects, each created at most once
    NoInst,
    Requests,        \* request goroutines
    PerUser,         \* TERMINAL_PER_USER_MAX
    SweeperKept,     \* whether the context given to RunSweeper stays live
    MaxRestarts,     \* bound on restarts
    Events           \* what may happen: see EventKinds

EventKinds == {"exit",    \* a registered shell ends by itself
               "early",   \* a shell ends before Create has registered it
               "kill",    \* users kill sessions
               "output",  \* shells print
               "age"}     \* the sticky timeout passes

ASSUME OwnerAssumption == OwnerOf \in [Ids -> Users]
ASSUME InstAssumption == NoInst \notin Insts
ASSUME LimitsAssumption == PerUser \in Nat \ {0} /\ MaxRestarts \in Nat
ASSUME EventsAssumption == Events \subseteq EventKinds /\ SweeperKept \in BOOLEAN

VARIABLES
    sessions,   \* Hub.sessions
    byUser,     \* Hub.byUser
    inst,       \* the PtySession objects
    dumps,      \* ids with a rolling dump on disk
    req,        \* requests in flight
    sweep,      \* the sweeper: ids it still has to kill
    restarts

vars == <<sessions, byUser, inst, dumps, req, sweep, restarts>>

\* wait is waitLoop: it runs once the shell has ended. hand: readLoop has
\* read output that it has not appended to the dump yet.
Inst == [st : {"unused", "alive", "dead"}, id : Ids \cup {"none"},
         wait : {"none", "exit", "kill", "done"}, closed : BOOLEAN,
         hand : BOOLEAN, registered : BOOLEAN, writer : BOOLEAN,
         inputOld : BOOLEAN, attachOld : BOOLEAN]

NewInst == [st |-> "unused", id |-> "none", wait |-> "none", closed |-> FALSE,
            hand |-> FALSE, registered |-> FALSE, writer |-> FALSE,
            inputOld |-> FALSE, attachOld |-> FALSE]

RequestPC == {"idle", "cap", "spawn", "register", "killed"}
Idle == [pc |-> "idle", id |-> "none", i |-> NoInst]

UserOf(i) == OwnerOf[inst[i].id]

-----------------------------------------------------------------------------
(* Steps shared by several actors.                                         *)

UnregisterOnlyMap(id) ==
    /\ sessions' = [sessions EXCEPT ![id] = NoInst]
    /\ UNCHANGED byUser

\* unregister deletes whatever is registered under the id by now.
Unregister(id) ==
    /\ sessions' = [sessions EXCEPT ![id] = NoInst]
    /\ byUser' = IF sessions[id] = NoInst THEN byUser
                 ELSE [byUser EXCEPT ![UserOf(sessions[id])] = @ \ {<<id, sessions[id]>>}]

\* PtySession.Kill, once: the shell is killed and the dump removed.
KillInst(i) ==
    IF inst[i].closed THEN UNCHANGED <<inst, dumps>>
    ELSE /\ inst' = [inst EXCEPT ![i].closed = TRUE, ![i].st = "dead",
                       ![i].wait = IF inst[i].st = "alive" THEN "exit" ELSE @]
         /\ dumps' = dumps \ {inst[i].id}

-----------------------------------------------------------------------------
(* AttachOrCreate and Create.                                              *)

\* Get: a registered session is attached to.
AttachExisting(r, id) ==
    /\ req[r].pc = "idle"
    /\ sessions[id] # NoInst
    /\ inst' = [inst EXCEPT ![sessions[id]].writer = TRUE, ![sessions[id]].attachOld = FALSE]
    /\ UNCHANGED <<sessions, byUser, dumps, req, sweep, restarts>>

AttachMissing(r, id) ==
    /\ req[r].pc = "idle"
    /\ sessions[id] = NoInst
    /\ req' = [req EXCEPT ![r] = [pc |-> "cap", id |-> id, i |-> NoInst]]
    /\ UNCHANGED <<sessions, byUser, inst, dumps, sweep, restarts>>

CheckCapOffByOne(r) ==
    /\ req[r].pc = "cap"
    /\ req' = [req EXCEPT ![r] =
                 IF Cardinality(byUser[OwnerOf[req[r].id]]) > PerUser THEN Idle
                 ELSE [@ EXCEPT !.pc = "spawn"]]
    /\ UNCHANGED <<sessions, byUser, inst, dumps, sweep, restarts>>

\* The cap is checked and Hub.mu released.
CheckCap(r) ==
    /\ req[r].pc = "cap"
    /\ req' = [req EXCEPT ![r] =
                 IF Cardinality(byUser[OwnerOf[req[r].id]]) >= PerUser THEN Idle
                 ELSE [@ EXCEPT !.pc = "spawn"]]
    /\ UNCHANGED <<sessions, byUser, inst, dumps, sweep, restarts>>

\* Start spawns the shell and the goroutines of the session.
Spawn(r, i) ==
    /\ req[r].pc = "spawn"
    /\ inst[i].st = "unused"
    /\ inst' = [inst EXCEPT ![i].st = "alive", ![i].id = req[r].id]
    /\ req' = [req EXCEPT ![r].pc = "register", ![r].i = i]
    /\ UNCHANGED <<sessions, byUser, dumps, sweep, restarts>>

SpawnFailsUnnoticed(r) ==
    /\ req[r].pc = "spawn"
    /\ req' = [req EXCEPT ![r].pc = "register"]
    /\ UNCHANGED <<sessions, byUser, inst, dumps, sweep, restarts>>

\* The PTY or the shell cannot be started.
SpawnFails(r) ==
    /\ req[r].pc = "spawn"
    /\ req' = [req EXCEPT ![r] = Idle]
    /\ UNCHANGED <<sessions, byUser, inst, dumps, sweep, restarts>>

RegisterRefused(r) ==
    /\ req[r].pc = "register"
    /\ IF Cardinality(byUser[OwnerOf[req[r].id]]) >= PerUser
       THEN UNCHANGED <<sessions, byUser, inst>>
       ELSE /\ sessions' = [sessions EXCEPT ![req[r].id] = req[r].i]
            /\ byUser' = [byUser EXCEPT ![OwnerOf[req[r].id]] =
                            {e \in @ : e[1] # req[r].id} \cup {<<req[r].id, req[r].i>>}]
            /\ inst' = [inst EXCEPT ![req[r].i].registered = TRUE, ![req[r].i].writer = TRUE]
    /\ req' = [req EXCEPT ![r] = Idle]
    /\ UNCHANGED <<dumps, sweep, restarts>>

\* Both maps are keyed by id: an earlier session of the id is overwritten.
\* The request then attaches to its session.
Register(r) ==
    /\ req[r].pc = "register"
    /\ sessions' = [sessions EXCEPT ![req[r].id] = req[r].i]
    /\ byUser' = [byUser EXCEPT ![OwnerOf[req[r].id]] =
                    {e \in @ : e[1] # req[r].id} \cup {<<req[r].id, req[r].i>>}]
    /\ inst' = [inst EXCEPT ![req[r].i].registered = TRUE, ![req[r].i].writer = TRUE]
    /\ req' = [req EXCEPT ![r] = Idle]
    /\ UNCHANGED <<dumps, sweep, restarts>>

-----------------------------------------------------------------------------
(* Hub.Kill, by a user or by the sweeper: Get and PtySession.Kill, then    *)
(* unregister by id.                                                       *)

KillCall(r, id) ==
    /\ "kill" \in Events
    /\ req[r].pc = "idle"
    /\ sessions[id] # NoInst
    /\ KillInst(sessions[id])
    /\ req' = [req EXCEPT ![r] = [Idle EXCEPT !.pc = "killed", !.id = id]]
    /\ UNCHANGED <<sessions, byUser, sweep, restarts>>

KillDone(r) ==
    /\ req[r].pc = "killed"
    /\ Unregister(req[r].id)
    /\ req' = [req EXCEPT ![r] = Idle]
    /\ UNCHANGED <<inst, dumps, sweep, restarts>>

-----------------------------------------------------------------------------
(* The goroutines of a session.                                            *)

ShellExits(i) ==
    /\ inst[i].st = "alive"
    /\ IF inst[i].registered THEN "exit" \in Events ELSE "early" \in Events
    /\ inst' = [inst EXCEPT ![i].st = "dead", ![i].wait = "exit"]
    /\ UNCHANGED <<sessions, byUser, dumps, req, sweep, restarts>>

\* onExit, then (after the exit frames) Kill.
WaitUnregister(i) ==
    /\ inst[i].wait = "exit"
    /\ Unregister(inst[i].id)
    /\ inst' = [inst EXCEPT ![i].wait = "kill"]
    /\ UNCHANGED <<dumps, req, sweep, restarts>>

WaitKill(i) ==
    /\ inst[i].wait = "kill"
    /\ inst' = [inst EXCEPT ![i].wait = "done", ![i].closed = TRUE, ![i].writer = FALSE]
    /\ dumps' = IF inst[i].closed THEN dumps ELSE dumps \ {inst[i].id}
    /\ UNCHANGED <<sessions, byUser, req, sweep, restarts>>

\* readLoop reads, and appends in a second step that nothing orders with
\* Kill.
Output(i) ==
    /\ "output" \in Events
    /\ inst[i].st = "alive" /\ ~inst[i].hand
    /\ inst' = [inst EXCEPT ![i].hand = TRUE]
    /\ UNCHANGED <<sessions, byUser, dumps, req, sweep, restarts>>

AppendDump(i) ==
    /\ inst[i].hand
    /\ inst' = [inst EXCEPT ![i].hand = FALSE]
    /\ dumps' = dumps \cup {inst[i].id}
    /\ UNCHANGED <<sessions, byUser, req, sweep, restarts>>

\* The writer's websocket goes away; the writer types; time passes.
WriterLeaves(i) ==
    /\ "age" \in Events
    /\ inst[i].writer
    /\ inst' = [inst EXCEPT ![i].writer = FALSE]
    /\ UNCHANGED <<sessions, byUser, dumps, req, sweep, restarts>>

Input(i) ==
    /\ inst[i].writer /\ inst[i].inputOld /\ ~inst[i].closed
    /\ inst' = [inst EXCEPT ![i].inputOld = FALSE]
    /\ UNCHANGED <<sessions, byUser, dumps, req, sweep, restarts>>

\* stickyTTL passes since the last input or the last attach.
Age(i) ==
    /\ "age" \in Events
    /\ inst[i].st = "alive"
    /\ \/ ~inst[i].inputOld /\ inst' = [inst EXCEPT ![i].inputOld = TRUE]
       \/ ~inst[i].attachOld /\ inst' = [inst EXCEPT ![i].attachOld = TRUE]
    /\ UNCHANGED <<sessions, byUser, dumps, req, sweep, restarts>>

-----------------------------------------------------------------------------
(* The sweeper.                                                            *)

ExpiredWhenLeft(i) == ~inst[i].writer /\ inst[i].inputOld /\ inst[i].attachOld

Expired(i) == inst[i].inputOld \/ (~inst[i].writer /\ inst[i].attachOld)

ToKill == {id \in Ids : sessions[id] # NoInst /\ Expired(sessions[id])}

\* NewRouter cancels the context of RunSweeper when it returns, before the
\* first request is served.
SweepTick ==
    /\ SweeperKept
    /\ sweep.pc = "idle" /\ ToKill # {}
    /\ sweep' = [sweep EXCEPT !.pc = "next", !.ids = ToKill]
    /\ UNCHANGED <<sessions, byUser, inst, dumps, req, restarts>>

SweepKill(id) ==
    /\ sweep.pc = "next" /\ id \in sweep.ids
    /\ IF sessions[id] = NoInst
       THEN /\ sweep' = [sweep EXCEPT !.ids = @ \ {id},
                           !.pc = IF sweep.ids = {id} THEN "idle" ELSE "next"]
            /\ UNCHANGED <<inst, dumps>>
       ELSE /\ KillInst(sessions[id])
            /\ sweep' = [sweep EXCEPT !.pc = "killed", !.id = id]
    /\ UNCHANGED <<sessions, byUser, req, restarts>>

SweepDone ==
    /\ sweep.pc = "killed"
    /\ Unregister(sweep.id)
    /\ sweep' = [sweep EXCEPT !.ids = @ \ {sweep.id}, !.id = "none",
                   !.pc = IF sweep.ids = {sweep.id} THEN "idle" ELSE "next"]
    /\ UNCHANGED <<inst, dumps, req, restarts>>

-----------------------------------------------------------------------------

IdleSweep == [pc |-> "idle", ids |-> {}, id |-> "none"]

\* The server restarts: shells and memory are gone, dumps stay.
Restart ==
    /\ restarts < MaxRestarts
    /\ restarts' = restarts + 1
    /\ sessions' = [id \in Ids |-> NoInst]
    /\ byUser' = [u \in Users |-> {}]
    /\ inst' = [i \in Insts |-> NewInst]
    /\ req' = [r \in Requests |-> Idle]
    /\ sweep' = IdleSweep
    /\ UNCHANGED dumps

Init ==
    /\ sessions = [id \in Ids |-> NoInst]
    /\ byUser = [u \in Users |-> {}]
    /\ inst = [i \in Insts |-> NewInst]
    /\ dumps = {}
    /\ req = [r \in Requests |-> Idle]
    /\ sweep = IdleSweep
    /\ restarts = 0

Call(r) == \E id \in Ids : AttachExisting(r, id) \/ AttachMissing(r, id) \/ KillCall(r, id)

Step(r) == CheckCap(r) \/ (\E i \in Insts : Spawn(r, i)) \/ SpawnFails(r) \/ Register(r) \/ KillDone(r)

Goroutine(i) == WaitUnregister(i) \/ WaitKill(i) \/ AppendDump(i)

Environment(i) == \/ ShellExits(i) \/ Output(i) \/ WriterLeaves(i) \/ Input(i) \/ Age(i)

Sweeping == SweepTick \/ (\E id \in Ids : SweepKill(id)) \/ SweepDone

Next ==
    \/ \E r \in Requests : Call(r) \/ Step(r)
    \/ \E i \in Insts : Goroutine(i) \/ Environment(i)
    \/ Sweeping
    \/ Restart

\* Goroutines are scheduled and the ticker fires; users, shells and time do
\* what they like.
Fairness == /\ \A r \in Requests : WF_vars(Step(r))
            /\ \A i \in Insts : WF_vars(Goroutine(i))
            /\ WF_vars(Sweeping)

Spec == Init /\ [][Next]_vars

FairSpec == Spec /\ Fairness

-----------------------------------------------------------------------------
(* Properties.                                                             *)

\* Every variable has the type the code gives it.
TypeOK ==
    /\ sessions \in [Ids -> Insts \cup {NoInst}]
    /\ byUser \in [Users -> SUBSET (Ids \X Insts)]
    /\ inst \in [Insts -> Inst]
    /\ dumps \subseteq Ids
    /\ req \in [Requests -> [pc : RequestPC, id : Ids \cup {"none"}, i : Insts \cup {NoInst}]]
    /\ sweep \in [pc : {"idle", "next", "killed"}, ids : SUBSET Ids, id : Ids \cup {"none"}]
    /\ restarts \in 0..MaxRestarts

\* The two maps of the hub always describe the same sessions: the cap and
\* the list of a user count exactly the sessions that Get finds.
RegistryConsistent ==
    \A u \in Users : byUser[u] = {<<id, sessions[id]>> : id \in
                         {id \in Ids : sessions[id] # NoInst /\ OwnerOf[id] = u}}

AllIdle == \A r \in Requests : req[r].pc = "idle"

\* No request, no exit callback and no sweep is under way.
Quiet == /\ AllIdle /\ sweep.pc = "idle"
         /\ \A i \in Insts : inst[i].wait \in {"none", "done"} /\ ~inst[i].hand

\* A session that is listed has a shell, once its exit has been handled.
RegisteredIsAlive ==
    \A id \in Ids : sessions[id] # NoInst =>
        LET i == sessions[id] IN inst[i].wait \in {"none", "exit"}

\* What Get and List find is right: the maps agree, and no session in them is
\* one whose exit was handled.
RegistrySound == RegistryConsistent /\ RegisteredIsAlive

\* Every shell can be listed, attached to and killed: it is registered, once
\* the request that created it has ended.
AliveIsRegistered ==
    Quiet => \A i \in Insts : inst[i].st = "alive" => sessions[inst[i].id] = i

\* A shell is lost from the registry only when its id is used by two sessions
\* of one server run; no order of creating, ending, killing and sweeping
\* sessions with ids of their own loses one.
LostOnlyByReuse ==
    Quiet => \A i \in Insts : inst[i].st = "alive" =>
                 \/ sessions[inst[i].id] = i
                 \/ \E j \in Insts \ {i} : inst[j].id = inst[i].id

\* The cap is checked and used in separate critical sections of Create, so it
\* can be exceeded, but only by the creations that were under way together.
CapOvershoot ==
    \A u \in Users :
        Cardinality(byUser[u]) <= PerUser + Cardinality(Requests) - 1

\* "enforces a per-user cap".
CapRespected == \A u \in Users : Cardinality(byUser[u]) <= PerUser

\* Killing a session, or its end, removes its dump.
DumpRemoved ==
    Quiet /\ restarts = 0 =>
        \A id \in dumps : \E i \in Insts : inst[i].st = "alive" /\ inst[i].id = id

\* A listed session that got no input for the sticky timeout is terminated
\* and leaves the list.
IdleIsSwept ==
    \A id \in Ids : \A i \in Insts :
        sessions[id] = i /\ inst[i].inputOld ~> (sessions[id] # i \/ ~inst[i].inputOld)

=============================================================================
