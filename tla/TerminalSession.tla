-------------------------- MODULE TerminalSession --------------------------
(***************************************************************************)
(* The output path of one PTY session (internal/terminal/session.go and    *)
(* the pump of hub.go) and the browser clients attached to it              *)
(* (web/src/lib/terminalClient.ts): readLoop, fanoutLoop, waitLoop, one    *)
(* AttachAndPump for every websocket, the pause counter and the pending    *)
(* buffer, the rolling dump and the clients' deduplication by sequence.    *)
(*                                                                         *)
(* One action is one critical section (bufMu, pauseMu, attachMu, writeMu)  *)
(* of one goroutine. The shell prints numbered units, one to a chunk; a    *)
(* unit's number is its true position in the output.                       *)
(***************************************************************************)
EXTENDS Integers, Sequences

CONSTANTS
    Conns,      \* websockets, each opened at most once
    Clients,    \* browser tabs
    NoConn,     \* no websocket
    MaxOutput,  \* bound on the units the shell prints
    Restored,   \* size of the dump an earlier process left
    DumpMax,    \* TERMINAL_DUMP_MAX in units
    FanCap,     \* capacity of the fanout channel
    Events      \* what else may happen: see EventKinds

EventKinds == {"disconnect",  \* websockets break
               "replay",      \* clients send replay frames
               "exit"}        \* the shell ends or is killed

ASSUME ConnsAssumption == NoConn \notin Conns
ASSUME BoundsAssumption == /\ MaxOutput \in Nat /\ Restored \in 0..DumpMax
                           /\ DumpMax \in Nat \ {0} /\ FanCap \in Nat \ {0}
ASSUME EventsAssumption == Events \subseteq EventKinds

VARIABLES
    firstSeq, endSeq,  \* PtySession.firstSeq, endSeq
    dumpLen,           \* size of the rolling dump: the last dumpLen units
    hand,              \* the chunk readLoop is about to send, or NoUnit
    fanout,            \* the channel
    fan,               \* fanoutLoop: pc, chunk and broadcast targets
    pauseCount, pending,
    writer, readers,   \* the attached websockets
    conn,              \* AttachAndPump of every websocket
    shell,             \* the process and waitLoop
    closed,            \* Kill has been called
    open,              \* the websocket a client has open
    view,              \* a client's lastReceivedEnd and what it displayed
    got, ready         \* what was written to a websocket so far

vars == <<firstSeq, endSeq, dumpLen, hand, fanout, fan, pauseCount, pending,
          writer, readers, conn, shell, closed, open, view, got, ready>>

outVars == <<firstSeq, endSeq, dumpLen, hand, fanout>>
pauseVars == <<pauseCount, pending>>
attachVars == <<writer, readers>>
clientVars == <<open, view, got, ready>>
exitVars == <<shell, closed>>

Units == 0..(Restored + MaxOutput)
NoUnit == -1

Attached == readers \cup ({writer} \ {NoConn})

\* The websocket is open in a browser tab.
IsOpen(c) == \E t \in Clients : open[t] = c

\* A binary frame: its sequence number and the units lo..hi-1 it carries.
Frame == [tag : Units, lo : Units, hi : Units]
ChunkFrame(u) == [tag |-> u, lo |-> u, hi |-> u + 1]

-----------------------------------------------------------------------------
(* The clients.                                                            *)

HandleBinaryNoDedup(v, f) ==
    [last |-> f.tag + (f.hi - f.lo) - 1,
     shown |-> v.shown \o [i \in 1..(f.hi - f.lo) |-> f.lo + i - 1]]

\* handleBinary: a frame whose first byte is covered is dropped as a whole.
HandleBinary(v, f) ==
    IF f.tag <= v.last THEN v
    ELSE [last |-> f.tag + (f.hi - f.lo) - 1,
          shown |-> v.shown \o [i \in 1..(f.hi - f.lo) |-> f.lo + i - 1]]

\* WriteMessage of f to every websocket of S. A frame that is still under
\* way when its websocket breaks is one written after the break.
Deliver(S, f) ==
    LET live == {c \in S : IsOpen(c)} IN
    /\ view' = [t \in Clients |-> IF open[t] \in S
                                  THEN HandleBinary(view[t], f) ELSE view[t]]
    /\ got' = [c \in Conns |-> IF c \in live THEN got[c] \cup f.lo..(f.hi - 1)
                                             ELSE got[c]]

\* Detach of the websockets S.
DetachAll(S) == /\ writer' = IF writer \in S THEN NoConn ELSE writer
                /\ readers' = readers \ S

\* broadcast after it collected its targets: write, then close and detach
\* the websockets whose write failed. A write to a broken websocket may
\* still succeed.
Broadcast(S, f) ==
    LET broken == {c \in S : ~IsOpen(c)} IN
    /\ Deliver(S, f)
    /\ \E failed \in SUBSET broken : DetachAll(failed)
    /\ UNCHANGED <<open, ready>>

-----------------------------------------------------------------------------
(* readLoop.                                                               *)

\* Append: above DumpMax the newest three quarters of the old bytes stay.
AppendedLen ==
    IF dumpLen + 1 <= DumpMax THEN dumpLen + 1
    ELSE LET keep == (3 * DumpMax) \div 4
             kept == IF dumpLen > keep THEN keep ELSE dumpLen
         IN IF kept + 1 > DumpMax THEN DumpMax ELSE kept + 1

Read ==
    /\ ~closed /\ shell = "run"
    /\ hand = NoUnit
    /\ endSeq < Restored + MaxOutput
    /\ hand' = endSeq
    /\ dumpLen' = AppendedLen
    /\ endSeq' = endSeq + 1
    /\ firstSeq' = IF endSeq' - firstSeq > DumpMax THEN endSeq' - DumpMax ELSE firstSeq
    /\ UNCHANGED <<fanout, fan, exitVars, conn>> /\ UNCHANGED <<pauseVars, attachVars, clientVars>>

\* The send does not block: a full channel loses the chunk.
Send ==
    /\ hand # NoUnit
    /\ hand' = NoUnit
    /\ fanout' = IF ~closed /\ Len(fanout) < FanCap THEN Append(fanout, hand) ELSE fanout
    /\ UNCHANGED <<firstSeq, endSeq, dumpLen, fan, conn>>
    /\ UNCHANGED <<pauseVars, attachVars, clientVars, exitVars>>

-----------------------------------------------------------------------------
(* fanoutLoop.                                                             *)

MaybeBuffer(u) == IF pauseCount > 0 THEN Append(pending, u) ELSE pending

FanTake ==
    /\ fan.pc = "idle" /\ ~closed
    /\ fanout # <<>>
    /\ fanout' = Tail(fanout)
    /\ pending' = MaybeBuffer(Head(fanout))
    /\ fan' = [fan EXCEPT !.pc = "check", !.unit = Head(fanout)]
    /\ UNCHANGED <<firstSeq, endSeq, dumpLen, hand, pauseCount, conn>>
    /\ UNCHANGED <<attachVars, clientVars, exitVars>>

FanCheck ==
    /\ fan.pc = "check"
    /\ fan' = IF pauseCount > 0 THEN [fan EXCEPT !.pc = "idle", !.unit = NoUnit]
                                ELSE [fan EXCEPT !.pc = "targets"]
    /\ UNCHANGED <<conn>>
    /\ UNCHANGED <<outVars, pauseVars, attachVars, clientVars, exitVars>>

FanTargets ==
    /\ fan.pc = "targets"
    /\ fan' = [fan EXCEPT !.pc = "write", !.to = Attached]
    /\ UNCHANGED <<conn>>
    /\ UNCHANGED <<outVars, pauseVars, attachVars, clientVars, exitVars>>

FanWrite ==
    /\ fan.pc = "write"
    /\ Broadcast(fan.to, ChunkFrame(fan.unit))
    /\ fan' = [fan EXCEPT !.pc = "idle", !.unit = NoUnit, !.to = {}]
    /\ UNCHANGED <<conn>>
    /\ UNCHANGED <<outVars, pauseVars, exitVars>>

-----------------------------------------------------------------------------
(* AttachAndPump.                                                          *)

ConnPC == {"new", "pause", "attach", "snapshot", "ready", "resume", "flush",
           "flushTo", "pump", "replay", "detach", "gone"}

NewConn == [pc |-> "new", role |-> "none", last |-> FALSE, todo |-> <<>>,
            to |-> {}, snap |-> [tag |-> 0, lo |-> 0, hi |-> 0]]

At(c, pc) == conn[c].pc = pc
To(c, pc) == conn' = [conn EXCEPT ![c].pc = pc]

\* A client (re)connects while the session is registered.
Connect(t, c) ==
    /\ At(c, "new") /\ open[t] = NoConn
    /\ shell # "told"
    /\ open' = [open EXCEPT ![t] = c]
    /\ To(c, "pause")
    /\ UNCHANGED <<fan, view, got, ready>>
    /\ UNCHANGED <<outVars, pauseVars, attachVars, exitVars>>

PauseBroadcast(c) ==
    /\ At(c, "pause")
    /\ pauseCount' = pauseCount + 1
    /\ To(c, "attach")
    /\ UNCHANGED <<fan, pending>>
    /\ UNCHANGED <<outVars, attachVars, clientVars, exitVars>>

AttachTakesOver(c) ==
    /\ At(c, "attach")
    /\ writer' = c
    /\ readers' = readers \cup ({writer} \ {NoConn})
    /\ conn' = [conn EXCEPT ![c].pc = "snapshot", ![c].role = "writer"]
    /\ UNCHANGED <<fan>>
    /\ UNCHANGED <<outVars, pauseVars, clientVars, exitVars>>

\* The first websocket without a writer becomes the writer.
Attach(c) ==
    /\ At(c, "attach")
    /\ writer' = IF writer = NoConn THEN c ELSE writer
    /\ readers' = IF writer = NoConn THEN readers ELSE readers \cup {c}
    /\ conn' = [conn EXCEPT ![c].pc = "snapshot",
                            ![c].role = IF writer = NoConn THEN "writer" ELSE "reader"]
    /\ UNCHANGED <<fan>>
    /\ UNCHANGED <<outVars, pauseVars, clientVars, exitVars>>

\* Snapshot: the dump, labelled with firstSeq.
Dump == [tag |-> firstSeq, lo |-> endSeq - dumpLen, hi |-> endSeq]

Snapshot(c) ==
    /\ At(c, "snapshot")
    /\ conn' = [conn EXCEPT ![c].pc = "ready", ![c].snap = Dump]
    /\ UNCHANGED <<fan>>
    /\ UNCHANGED <<outVars, pauseVars, attachVars, clientVars, exitVars>>

\* The ready frame and, unless it is empty, the snapshot, under writeMu.
SendReady(c) ==
    /\ At(c, "ready")
    /\ \/ /\ ready' = ready \cup {c}
          /\ IF conn[c].snap.lo < conn[c].snap.hi THEN Deliver({c}, conn[c].snap)
             ELSE UNCHANGED <<view, got>>
          /\ To(c, "resume")
       \/ /\ ~IsOpen(c)
          /\ conn' = [conn EXCEPT ![c].pc = "resume", ![c].last = TRUE]
          /\ UNCHANGED <<view, got, ready>>
    /\ UNCHANGED <<fan, open>>
    /\ UNCHANGED <<outVars, pauseVars, attachVars, exitVars>>

ResumeBroadcastByToken(c) ==
    /\ At(c, "resume")
    /\ pauseCount' = IF pauseCount > 0 THEN pauseCount - 1 ELSE 0
    /\ pending' = <<>>
    /\ conn' = [conn EXCEPT ![c].pc = "flush", ![c].todo = IF pauseCount = 2 THEN pending ELSE <<>>]
    /\ UNCHANGED <<fan>>
    /\ UNCHANGED <<outVars, attachVars, clientVars, exitVars>>

ResumeBroadcastUnclamped(c) ==
    /\ At(c, "resume")
    /\ pauseCount' = pauseCount - 1
    /\ pending' = <<>>
    /\ conn' = [conn EXCEPT ![c].pc = "flush", ![c].todo = pending]
    /\ UNCHANGED <<fan>>
    /\ UNCHANGED <<outVars, attachVars, clientVars, exitVars>>

ResumeBroadcastKeepsCount(c) ==
    /\ At(c, "resume")
    /\ pauseCount' = IF conn[c].last THEN pauseCount ELSE pauseCount - 1
    /\ pending' = <<>>
    /\ conn' = [conn EXCEPT ![c].pc = "flush", ![c].todo = pending]
    /\ UNCHANGED <<fan>>
    /\ UNCHANGED <<outVars, attachVars, clientVars, exitVars>>

\* The first call follows the snapshot, the second is deferred.
ResumeBroadcast(c) ==
    /\ At(c, "resume")
    /\ pauseCount' = IF pauseCount > 0 THEN pauseCount - 1 ELSE 0
    /\ pending' = <<>>
    /\ conn' = [conn EXCEPT ![c].pc = "flush",
                            ![c].todo = IF pauseCount > 0 THEN pending ELSE <<>>]
    /\ UNCHANGED <<fan>>
    /\ UNCHANGED <<outVars, attachVars, clientVars, exitVars>>

\* The flush broadcasts the chunks taken, one by one, outside pauseMu.
FlushNext(c) ==
    /\ At(c, "flush")
    /\ conn' = [conn EXCEPT
                  ![c].to = IF conn[c].todo = <<>> THEN {} ELSE Attached,
                  ![c].pc = IF conn[c].todo # <<>> THEN "flushTo"
                            ELSE IF conn[c].last THEN "detach" ELSE "pump"]
    /\ UNCHANGED <<fan>>
    /\ UNCHANGED <<outVars, pauseVars, attachVars, clientVars, exitVars>>

FlushWrite(c) ==
    /\ At(c, "flushTo")
    /\ Broadcast(conn[c].to, ChunkFrame(Head(conn[c].todo)))
    /\ conn' = [conn EXCEPT ![c].pc = "flush", ![c].todo = Tail(@), ![c].to = {}]
    /\ UNCHANGED <<fan>>
    /\ UNCHANGED <<outVars, pauseVars, exitVars>>

\* A replay frame of the client: the snapshot again.
Replay(c) ==
    /\ "replay" \in Events
    /\ At(c, "pump") /\ IsOpen(c)
    /\ conn' = [conn EXCEPT ![c].pc = "replay", ![c].snap = Dump]
    /\ UNCHANGED <<fan>>
    /\ UNCHANGED <<outVars, pauseVars, attachVars, clientVars, exitVars>>

ReplaySend(c) ==
    /\ At(c, "replay")
    /\ IF conn[c].snap.lo < conn[c].snap.hi THEN Deliver({c}, conn[c].snap)
       ELSE UNCHANGED <<view, got>>
    /\ To(c, "pump")
    /\ UNCHANGED <<fan, open, ready>>
    /\ UNCHANGED <<outVars, pauseVars, attachVars, exitVars>>

\* ReadMessage fails once the websocket is broken or closed, and Write of a
\* client's input fails once the session is closed.
PumpEnds(c) ==
    /\ At(c, "pump") /\ ~IsOpen(c)
    /\ conn' = [conn EXCEPT ![c].pc = "resume", ![c].last = TRUE]
    /\ UNCHANGED <<fan>>
    /\ UNCHANGED <<outVars, pauseVars, attachVars, clientVars, exitVars>>

Detach(c) ==
    /\ At(c, "detach")
    /\ DetachAll({c})
    /\ conn' = [conn EXCEPT ![c] = [NewConn EXCEPT !.pc = "gone"]]
    /\ UNCHANGED <<fan>>
    /\ UNCHANGED <<outVars, pauseVars, clientVars, exitVars>>

\* The network or the tab breaks a client's websocket.
Disconnect(t) ==
    /\ "disconnect" \in Events
    /\ open[t] # NoConn
    /\ open' = [open EXCEPT ![t] = NoConn]
    /\ UNCHANGED <<fan, conn, view, got, ready>>
    /\ UNCHANGED <<outVars, pauseVars, attachVars, exitVars>>

-----------------------------------------------------------------------------
(* The end of the session.                                                 *)

\* Kill: the process group is killed and the dump removed.
Kill ==
    /\ "exit" \in Events
    /\ ~closed
    /\ closed' = TRUE
    /\ dumpLen' = 0
    /\ shell' = IF shell = "run" THEN "dead" ELSE shell
    /\ UNCHANGED <<firstSeq, endSeq, hand, fanout, fan, conn>>
    /\ UNCHANGED <<pauseVars, attachVars, clientVars>>

ShellExits ==
    /\ "exit" \in Events
    /\ shell = "run"
    /\ shell' = "dead"
    /\ UNCHANGED <<fan, conn, closed>>
    /\ UNCHANGED <<outVars, pauseVars, attachVars, clientVars>>

\* waitLoop sends the exit frame to the websockets attached now, closes and
\* detaches them, and calls Kill.
WaitTargets ==
    /\ shell = "dead"
    /\ shell' = "tell"
    /\ fan' = [fan EXCEPT !.exit = Attached]
    /\ UNCHANGED <<conn, closed>>
    /\ UNCHANGED <<outVars, pauseVars, attachVars, clientVars>>

WaitSendNoClose ==
    /\ shell = "tell"
    /\ shell' = "told"
    /\ DetachAll(fan.exit)
    /\ closed' = TRUE /\ dumpLen' = 0
    /\ fan' = [fan EXCEPT !.exit = {}]
    /\ UNCHANGED <<firstSeq, endSeq, hand, fanout, conn, open, view, got, ready>>
    /\ UNCHANGED <<pauseVars>>

WaitSend ==
    /\ shell = "tell"
    /\ shell' = "told"
    /\ open' = [t \in Clients |-> IF open[t] \in fan.exit THEN NoConn ELSE open[t]]
    /\ DetachAll(fan.exit)
    /\ closed' = TRUE /\ dumpLen' = 0
    /\ fan' = [fan EXCEPT !.exit = {}]
    /\ UNCHANGED <<firstSeq, endSeq, hand, fanout, conn, view, got, ready>>
    /\ UNCHANGED <<pauseVars>>

-----------------------------------------------------------------------------

\* NewPtySession: both sequence numbers start at the size of the dump.
Init ==
    /\ firstSeq = Restored /\ endSeq = Restored /\ dumpLen = Restored
    /\ hand = NoUnit /\ fanout = <<>>
    /\ fan = [pc |-> "idle", unit |-> NoUnit, to |-> {}, exit |-> {}]
    /\ pauseCount = 0 /\ pending = <<>>
    /\ writer = NoConn /\ readers = {}
    /\ conn = [c \in Conns |-> NewConn]
    /\ shell = "run" /\ closed = FALSE
    /\ open = [t \in Clients |-> NoConn]
    /\ view = [t \in Clients |-> [last |-> -1, shown |-> <<>>]]
    /\ got = [c \in Conns |-> {}] /\ ready = {}

Attaching(c) ==
    \/ PauseBroadcast(c) \/ Attach(c) \/ Snapshot(c) \/ SendReady(c)
    \/ ResumeBroadcast(c) \/ FlushNext(c) \/ FlushWrite(c)
    \/ ReplaySend(c) \/ PumpEnds(c) \/ Detach(c)

Fanning == FanTake \/ FanCheck \/ FanTargets \/ FanWrite

Waiting == WaitTargets \/ WaitSend

Next ==
    \/ Read \/ Send \/ Fanning
    \/ \E c \in Conns : Attaching(c) \/ Replay(c)
    \/ \E t \in Clients : Disconnect(t) \/ \E c \in Conns : Connect(t, c)
    \/ Kill \/ ShellExits \/ Waiting

\* The goroutines of the session are scheduled; the shell, the clients and
\* the network do what they like.
Fairness == /\ WF_vars(Send) /\ WF_vars(Fanning) /\ WF_vars(Waiting)
            /\ \A c \in Conns : WF_vars(Attaching(c))

Spec == Init /\ [][Next]_vars

FairSpec == Spec /\ Fairness

-----------------------------------------------------------------------------
(* Properties.                                                             *)

\* Every variable has the type the code gives it.
TypeOK ==
    /\ firstSeq \in Units /\ endSeq \in Units /\ dumpLen \in 0..DumpMax
    /\ hand \in Units \cup {NoUnit} /\ fanout \in Seq(Units)
    /\ fan \in [pc : {"idle", "check", "targets", "write"}, unit : Units \cup {NoUnit},
                to : SUBSET Conns, exit : SUBSET Conns]
    /\ pauseCount \in Nat /\ pending \in Seq(Units)
    /\ writer \in Conns \cup {NoConn} /\ readers \subseteq Conns
    /\ conn \in [Conns -> [pc : ConnPC, role : {"none", "writer", "reader"},
                           last : BOOLEAN, todo : Seq(Units), to : SUBSET Conns,
                           snap : Frame]]
    /\ shell \in {"run", "dead", "tell", "told"} /\ closed \in BOOLEAN
    /\ open \in [Clients -> Conns \cup {NoConn}]
    /\ view \in [Clients -> [last : Nat \cup {NoUnit}, shown : Seq(Units)]]
    /\ got \in [Conns -> SUBSET Units] /\ ready \subseteq Conns

InAttach == {c \in Conns : conn[c].pc \in {"attach", "snapshot", "ready", "resume"}}

\* The broadcast is paused only while somebody is attaching, and chunks wait
\* in the pending buffer only while it is paused: no attach, failed attach or
\* detach in any order leaves the session silent or strands a chunk.
NoStuckPause ==
    /\ pauseCount > 0 => InAttach # {}
    /\ pending # <<>> => pauseCount > 0

\* No goroutine of the server holds a chunk or is attaching.
Quiet ==
    /\ ~closed /\ hand = NoUnit /\ fanout = <<>> /\ fan.pc = "idle"
    /\ \A c \in Conns : conn[c].pc \in {"new", "pump", "gone"}

Connected(c) == At(c, "pump") /\ IsOpen(c)

\* Everything from the start of its snapshot on was written to a websocket
\* that is attached: what the snapshot misses is flushed or broadcast.
NothingUnsent ==
    Quiet => \A c \in Conns : Connected(c) =>
                conn[c].snap.lo..(endSeq - 1) \subseteq got[c]

TabOf(c) == CHOOSE t \in Clients : open[t] = c

Displayed(t) == {view[t].shown[i] : i \in DOMAIN view[t].shown}

\* A connected client displays everything from the start of its snapshot on.
NothingMissed ==
    Quiet => \A c \in Conns : Connected(c) =>
                conn[c].snap.lo..(endSeq - 1) \subseteq Displayed(TabOf(c))

\* "without double-printing": a client displays output in order and no unit
\* twice, over all its connections.
NoDoublePrint ==
    \A t \in Clients : \A i \in 1..(Len(view[t].shown) - 1) :
        view[t].shown[i] < view[t].shown[i + 1]

\* After a reconnect the client has displayed the whole snapshot, including
\* the output of the time it was away.
SnapshotShown ==
    \A c \in Conns : At(c, "resume") /\ ~conn[c].last /\ IsOpen(c) =>
        conn[c].snap.lo..(conn[c].snap.hi - 1) \subseteq Displayed(TabOf(c))

\* The first message on a websocket is the ready frame.
ReadyFirst == \A c \in Conns : got[c] # {} => c \in ready

\* Two attached websockets never both have the writer role.
OneWriter ==
    \A c, d \in Attached : conn[c].role = "writer" /\ conn[d].role = "writer" => c = d

\* A websocket that is attached when the shell ends is closed and its
\* goroutine ends, whatever the attach, a replay or a flush was doing.
AttachedHearExit ==
    \A c \in Conns : c \in Attached /\ shell = "dead" ~> At(c, "gone")

\* When the shell has ended every client is told and its websocket closed.
ExitReachesAll == \A c \in Conns : At(c, "pump") /\ shell = "told" ~> ~At(c, "pump")

=============================================================================
