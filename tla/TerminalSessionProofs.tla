------------------------ MODULE TerminalSessionProofs ------------------------
(***************************************************************************)
(* The output path of a session for any number of websockets, browser tabs *)
(* and units: its types, the broadcast that never stays paused, the one    *)
(* writer, as long as nothing of the output was cut off the clients that   *)
(* display no unit twice, and a single websocket nothing is kept from.     *)
(***************************************************************************)
EXTENDS TerminalSession, FiniteSetTheorems, SequenceTheorems, TLAPS

ConnType == [pc : ConnPC, role : {"none", "writer", "reader"}, last : BOOLEAN,
             todo : Seq(Units), to : SUBSET Conns, snap : Frame]

ViewType == [last : Nat \cup {NoUnit}, shown : Seq(Units)]

-----------------------------------------------------------------------------
(* The inductive invariant.                                                *)

\* The dump is a part of the output, and so is what the counters bound.
SeqsAgree == firstSeq <= endSeq /\ dumpLen <= endSeq

\* fanoutLoop has a chunk while it is at work, and so has a flush.
HasChunk ==
    /\ fan.pc # "idle" => fan.unit \in Units
    /\ \A c \in Conns : conn[c].pc = "flushTo" => conn[c].todo # <<>>

\* Every pause was taken by a websocket that has not resumed yet. The
\* converse does not hold: the deferred resume takes no pause before it.
PausesHeld ==
    /\ IsFiniteSet(InAttach)
    /\ pauseCount <= Cardinality(InAttach)
    /\ pending # <<>> => pauseCount > 0

\* An attached websocket that was made the writer still is the writer.
RolesAgree == \A c \in readers : conn[c].role = "writer" => c = writer

SessionInv == TypeOK /\ SeqsAgree /\ HasChunk /\ PausesHeld /\ RolesAgree

-----------------------------------------------------------------------------
(* Frames, websockets and their detaching.                                 *)

LEMMA UnitFacts ==
  /\ Units \subseteq Nat /\ NoUnit \notin Nat /\ Restored \in Nat /\ DumpMax \in Nat \ {0}
  /\ MaxOutput \in Nat /\ FanCap \in Nat \ {0} /\ Restored \in Units
  BY BoundsAssumption DEF Units, NoUnit

\* A frame that carries something.
Carries(f) == f.tag \in Nat /\ f.lo \in Nat /\ f.hi \in Nat /\ f.lo < f.hi /\ f.hi - 1 \in Units

\* The units a frame carries.
LEMMA CarriedUnits ==
  ASSUME NEW f, Carries(f)
  PROVE  /\ f.lo..(f.hi - 1) \subseteq Units
         /\ [i \in 1..(f.hi - f.lo) |-> f.lo + i - 1] \in Seq(Units)
  <1>1. PICK lo \in Nat, hi \in Nat : lo = f.lo /\ hi = f.hi
    BY DEF Carries
  <1>2. PICK n \in Nat : n = hi - lo
    BY <1>1 DEF Carries
  <1>3. lo < hi /\ hi - 1 \in Units
    BY <1>1 DEF Carries
  <1>4. \A u \in lo..(hi - 1) : u \in Units
    BY <1>3, UnitFacts DEF Units
  <1>5. \A i \in 1..n : lo + i - 1 \in Units
    BY <1>2, <1>4
  <1>6. [i \in 1..n |-> lo + i - 1] \in Seq(Units)
    BY <1>5, SeqDef
  <1> QED
    BY <1>1, <1>2, <1>4, <1>6

\* handleBinary of a frame that carries something.
LEMMA HandleBinaryTypes ==
  ASSUME NEW v \in ViewType, NEW f, Carries(f)
  PROVE  HandleBinary(v, f) \in ViewType
  <1>1. PICK more : more = [i \in 1..(f.hi - f.lo) |-> f.lo + i - 1]
    OBVIOUS
  <1>2. v.shown \o more \in Seq(Units)
    BY <1>1, CarriedUnits, ConcatProperties DEF ViewType
  <1>3. PICK end : end = f.tag + (f.hi - f.lo) - 1
    OBVIOUS
  <1>4. end \in Nat
    BY <1>3 DEF Carries
  <1>5. [last |-> end, shown |-> v.shown \o more] \in ViewType
    BY <1>2, <1>4 DEF ViewType
  <1> QED
    BY <1>1, <1>3, <1>5 DEF HandleBinary

LEMMA DeliverTypes ==
  ASSUME TypeOK, NEW S, NEW f, Carries(f), Deliver(S, f)
  PROVE  view' \in [Clients -> ViewType] /\ got' \in [Conns -> SUBSET Units]
  <1>1. view \in [Clients -> ViewType] /\ got \in [Conns -> SUBSET Units]
    BY DEF TypeOK, ViewType
  <1>2. \A t \in Clients : HandleBinary(view[t], f) \in ViewType
    BY <1>1, HandleBinaryTypes
  <1>3. view' \in [Clients -> ViewType]
    BY <1>1, <1>2 DEF Deliver
  <1>4. PICK carried : carried = f.lo..(f.hi - 1) /\ carried \subseteq Units
    BY CarriedUnits
  <1>5. got' = [c \in Conns |-> IF c \in {d \in S : IsOpen(d)} THEN got[c] \cup carried ELSE got[c]]
    BY <1>4 DEF Deliver
  <1>6. got' \in [Conns -> SUBSET Units]
    BY <1>1, <1>4, <1>5
  <1> QED
    BY <1>3, <1>6

\* Websockets that are detached leave the attached ones, and nobody joins.
LEMMA DetachOnly ==
  ASSUME TypeOK, NEW S, DetachAll(S)
  PROVE  /\ writer' \in Conns \cup {NoConn} /\ readers' \subseteq Conns
         /\ \A c \in readers' : c \in readers /\ (c = writer => c = writer')
  BY DEF TypeOK, DetachAll

LEMMA ChunkCarries ==
  ASSUME NEW u \in Units PROVE Carries(ChunkFrame(u))
  BY UnitFacts DEF ChunkFrame, Carries, Units

\* What a broadcast does to those it is sent to.
LEMMA BroadcastTypes ==
  ASSUME TypeOK, NEW S, NEW u \in Units, Broadcast(S, ChunkFrame(u))
  PROVE  /\ view' \in [Clients -> ViewType] /\ got' \in [Conns -> SUBSET Units]
         /\ UNCHANGED <<open, ready>>
         /\ \E T : DetachAll(T)
  <1>1. Deliver(S, ChunkFrame(u)) /\ UNCHANGED <<open, ready>> /\ \E T : DetachAll(T)
    BY DEF Broadcast
  <1> QED
    BY <1>1, ChunkCarries, DeliverTypes

LEMMA DumpCarries ==
  ASSUME TypeOK, SeqsAgree
  PROVE  Dump \in Frame
  BY UnitFacts DEF TypeOK, SeqsAgree, Dump, Frame, Units

LEMMA SnapCarries ==
  ASSUME NEW f \in Frame, f.lo < f.hi
  PROVE  Carries(f)
  BY UnitFacts DEF Frame, Carries, Units
-----------------------------------------------------------------------------
(* Parts of a step.                                                        *)

\* The types, without those of the websockets.
RestTyped ==
    /\ firstSeq \in Units /\ endSeq \in Units /\ dumpLen \in 0..DumpMax
    /\ hand \in Units \cup {NoUnit} /\ fanout \in Seq(Units)
    /\ fan \in [pc : {"idle", "check", "targets", "write"}, unit : Units \cup {NoUnit},
                to : SUBSET Conns, exit : SUBSET Conns]
    /\ pauseCount \in Nat /\ pending \in Seq(Units)
    /\ writer \in Conns \cup {NoConn} /\ readers \subseteq Conns
    /\ shell \in {"run", "dead", "tell", "told"} /\ closed \in BOOLEAN
    /\ open \in [Clients -> Conns \cup {NoConn}]
    /\ view \in [Clients -> ViewType]
    /\ got \in [Conns -> SUBSET Units] /\ ready \subseteq Conns

LEMMA TypeIs == TypeOK <=> RestTyped /\ conn \in [Conns -> ConnType]
  BY DEF TypeOK, RestTyped, ConnType, ViewType

\* Whoever has the writer role and is still attached stays what it is.
LEMMA RolesKeep ==
  ASSUME RolesAgree,
         \A c \in readers' : c \in readers /\ (c = writer => c = writer'),
         \A c \in readers : conn'[c].role = "writer" => conn[c].role = "writer"
  PROVE  RolesAgree'
  BY DEF RolesAgree

\* A step of readLoop, fanoutLoop, waitLoop, a client or the network.
LEMMA NoConnMoves ==
  ASSUME SessionInv, conn' = conn, RestTyped', SeqsAgree',
         fan'.pc # "idle" => fan'.unit \in Units,
         pauseCount' = pauseCount, pending' = pending \/ pauseCount > 0,
         \A c \in readers' : c \in readers /\ (c = writer => c = writer')
  PROVE  SessionInv'
  <1>1. TypeOK'
    BY TypeIs DEF SessionInv, TypeOK, RestTyped, ConnType, ViewType
  <1>2. HasChunk'
    BY DEF SessionInv, HasChunk
  <1>3. PausesHeld'
    BY DEF SessionInv, PausesHeld, InAttach
  <1>4. RolesAgree'
    BY RolesKeep DEF SessionInv
  <1> QED
    BY <1>1, <1>2, <1>3, <1>4 DEF SessionInv

AttachPC == {"attach", "snapshot", "ready", "resume"}

\* A websocket leaves or joins those that are attaching.
LEMMA InAttachMoves ==
  ASSUME SessionInv, NEW c \in Conns, NEW rec \in ConnType, conn' = [conn EXCEPT ![c] = rec]
  PROVE  /\ conn' \in [Conns -> ConnType] /\ conn'[c] = rec
         /\ \A d \in Conns \ {c} : conn'[d] = conn[d]
         /\ InAttach' = IF rec.pc \in AttachPC THEN InAttach \cup {c} ELSE InAttach \ {c}
         /\ c \in InAttach <=> conn[c].pc \in AttachPC
  <1>1. /\ conn' \in [Conns -> ConnType] /\ conn'[c] = rec
        /\ \A d \in Conns \ {c} : conn'[d] = conn[d]
    BY TypeIs DEF SessionInv
  <1>2. \A d : d \in InAttach' <=> d \in Conns /\ conn'[d].pc \in AttachPC
    BY DEF InAttach, AttachPC
  <1>3. \A d : d \in InAttach <=> d \in Conns /\ conn[d].pc \in AttachPC
    BY DEF InAttach, AttachPC
  <1>4. CASE rec.pc \in AttachPC
    BY <1>1, <1>2, <1>3, <1>4
  <1>5. CASE rec.pc \notin AttachPC
    BY <1>1, <1>2, <1>3, <1>5
  <1> QED
    BY <1>1, <1>3, <1>4, <1>5

\* A websocket's step that leaves the pause alone: it does not end the attach.
LEMMA ConnMoves ==
  ASSUME SessionInv, NEW c \in Conns, NEW rec \in ConnType, conn' = [conn EXCEPT ![c] = rec],
         RestTyped', UNCHANGED <<firstSeq, endSeq, dumpLen, fan>>, UNCHANGED <<pauseCount, pending>>,
         rec.pc = "flushTo" => rec.todo # <<>>,
         conn[c].pc \in AttachPC => rec.pc \in AttachPC,
         RolesAgree'
  PROVE  SessionInv'
  <1>1. /\ conn' \in [Conns -> ConnType] /\ conn'[c] = rec
        /\ \A d \in Conns \ {c} : conn'[d] = conn[d]
        /\ InAttach' = IF rec.pc \in AttachPC THEN InAttach \cup {c} ELSE InAttach \ {c}
        /\ c \in InAttach <=> conn[c].pc \in AttachPC
    BY InAttachMoves
  <1>2. TypeOK'
    BY <1>1 DEF TypeOK, RestTyped, ConnType, ViewType
  <1>3. SeqsAgree' /\ HasChunk'
    BY <1>1 DEF SessionInv, SeqsAgree, HasChunk
  <1>4. PausesHeld'
    <2>1. IsFiniteSet(InAttach) /\ pauseCount <= Cardinality(InAttach) /\ pauseCount \in Nat
      BY DEF SessionInv, PausesHeld, TypeOK
    <2>2. CASE rec.pc \notin AttachPC
      <3>1. InAttach' = InAttach
        BY <1>1, <2>2
      <3> QED
        BY <3>1 DEF SessionInv, PausesHeld
    <2>3. CASE rec.pc \in AttachPC
      <3>1. PICK A : A = InAttach
        OBVIOUS
      <3>2. /\ IsFiniteSet(A \cup {c})
            /\ Cardinality(A \cup {c}) \in {Cardinality(A), Cardinality(A) + 1}
            /\ Cardinality(A) \in Nat
        BY <2>1, <3>1, FS_AddElement, FS_CardinalityType
      <3>3. InAttach' = A \cup {c}
        BY <1>1, <2>3, <3>1
      <3>4. pauseCount' <= Cardinality(A \cup {c})
        BY <2>1, <3>1, <3>2
      <3> QED
        BY <3>2, <3>3, <3>4 DEF SessionInv, PausesHeld
    <2> QED
      BY <2>2, <2>3
  <1> QED
    BY <1>2, <1>3, <1>4 DEF SessionInv
-----------------------------------------------------------------------------
(* readLoop, fanoutLoop, waitLoop, the clients and the end of the shell.   *)

\* Nobody was detached.
LEMMA SameRoles ==
  ASSUME readers' = readers, writer' = writer
  PROVE  \A c \in readers' : c \in readers /\ (c = writer => c = writer')
  OBVIOUS

\* The rolling dump never holds more than DumpMax, nor more than was printed.
LEMMA AppendedLenBounds ==
  ASSUME TypeOK, SeqsAgree
  PROVE  AppendedLen \in 0..DumpMax /\ AppendedLen <= endSeq + 1
  <1>1. PICK keep : keep = (3 * DumpMax) \div 4
    OBVIOUS
  <1>2. PICK n \in Nat : n = DumpMax /\ n > 0
    BY UnitFacts
  <1>3. keep \in Nat
    BY <1>1, <1>2
  <1>4. PICK d \in Nat, e \in Nat : d = dumpLen /\ e = endSeq /\ d <= n /\ d <= e
    BY <1>2, UnitFacts DEF TypeOK, SeqsAgree
  <1>5. PICK kept \in Nat : kept = (IF d > keep THEN keep ELSE d) /\ kept <= d
    BY <1>3, <1>4
  <1>6. AppendedLen = IF d + 1 <= n THEN d + 1 ELSE IF kept + 1 > n THEN n ELSE kept + 1
    BY <1>1, <1>2, <1>4, <1>5 DEF AppendedLen
  <1> QED
    BY <1>2, <1>4, <1>5, <1>6

LEMMA ReadStep ==
  ASSUME SessionInv, Read
  PROVE  SessionInv'
  <1>1. TypeOK /\ SeqsAgree /\ RestTyped
    BY TypeIs DEF SessionInv
  <1>2. dumpLen' \in 0..DumpMax /\ dumpLen' <= endSeq + 1
    BY <1>1, AppendedLenBounds DEF Read
  <1>3. endSeq \in Nat /\ firstSeq \in Nat /\ endSeq' = endSeq + 1 /\ endSeq' \in Units /\ firstSeq <= endSeq
    BY <1>1, UnitFacts DEF Read, TypeOK, Units, SeqsAgree
  <1>4. firstSeq' \in Units /\ firstSeq' <= endSeq'
    <2>1. firstSeq' = IF endSeq' - firstSeq > DumpMax THEN endSeq' - DumpMax ELSE firstSeq
      BY DEF Read
    <2> QED
      BY <1>1, <1>3, <2>1, UnitFacts DEF TypeOK, Units
  <1>5. hand' \in Units
    BY <1>1 DEF Read, TypeOK
  <1>6. RestTyped'
    BY <1>1, <1>2, <1>3, <1>4, <1>5
       DEF RestTyped, Read, pauseVars, attachVars, clientVars, exitVars
  <1>7. SeqsAgree'
    BY <1>2, <1>3, <1>4 DEF SeqsAgree
  <1>8. /\ conn' = conn /\ fan' = fan /\ pauseCount' = pauseCount /\ pending' = pending
        /\ readers' = readers /\ writer' = writer
    BY DEF Read, pauseVars, attachVars
  <1>9. fan'.pc # "idle" => fan'.unit \in Units
    BY <1>8 DEF SessionInv, HasChunk
  <1> QED
    BY <1>6, <1>7, <1>8, <1>9, SameRoles, NoConnMoves

LEMMA SendStep ==
  ASSUME SessionInv, Send
  PROVE  SessionInv'
  <1>1. RestTyped /\ SeqsAgree
    BY TypeIs DEF SessionInv
  <1>2. hand \in Units /\ fanout \in Seq(Units)
    BY <1>1 DEF RestTyped, Send
  <1>3. fanout' \in Seq(Units) /\ hand' = NoUnit
    BY <1>2, AppendProperties DEF Send
  <1>4. RestTyped'
    BY <1>1, <1>3 DEF RestTyped, Send, pauseVars, attachVars, clientVars, exitVars
  <1>5. /\ conn' = conn /\ fan' = fan /\ pauseCount' = pauseCount /\ pending' = pending
        /\ readers' = readers /\ writer' = writer /\ SeqsAgree'
    BY <1>1 DEF Send, pauseVars, attachVars, SeqsAgree
  <1>6. fan'.pc # "idle" => fan'.unit \in Units
    BY <1>5 DEF SessionInv, HasChunk
  <1> QED
    BY <1>4, <1>5, <1>6, SameRoles, NoConnMoves

FanType == [pc : {"idle", "check", "targets", "write"}, unit : Units \cup {NoUnit},
            to : SUBSET Conns, exit : SUBSET Conns]

LEMMA FanTakeStep ==
  ASSUME SessionInv, FanTake
  PROVE  SessionInv'
  <1>1. RestTyped /\ SeqsAgree
    BY TypeIs DEF SessionInv
  <1>2. fanout \in Seq(Units) /\ fanout # <<>> /\ pending \in Seq(Units) /\ fan \in FanType
    BY <1>1 DEF RestTyped, FanTake, FanType
  <1>3. PICK u \in Units : u = Head(fanout)
    BY <1>2, HeadTailProperties
  <1>4. fanout' \in Seq(Units)
    BY <1>2, HeadTailProperties DEF FanTake
  <1>5. pending' = IF pauseCount > 0 THEN Append(pending, u) ELSE pending
    BY <1>3 DEF FanTake, MaybeBuffer
  <1>6. pending' \in Seq(Units)
    BY <1>2, <1>5, AppendProperties
  <1>7. fan' = [fan EXCEPT !.pc = "check", !.unit = u]
    BY <1>3 DEF FanTake
  <1>8. fan' \in FanType /\ fan'.unit \in Units
    BY <1>2, <1>7 DEF FanType
  <1>9. RestTyped'
    BY <1>1, <1>4, <1>6, <1>8 DEF RestTyped, FanTake, FanType, attachVars, clientVars, exitVars
  <1>10. /\ conn' = conn /\ pauseCount' = pauseCount /\ readers' = readers /\ writer' = writer
         /\ SeqsAgree'
    BY <1>1 DEF FanTake, attachVars, SeqsAgree
  <1>11. pending' = pending \/ pauseCount > 0
    BY <1>5
  <1> QED
    BY <1>8, <1>9, <1>10, <1>11, SameRoles, NoConnMoves

\* A step of a loop of the session that changes its own state only.
LEMMA OwnStep ==
  ASSUME SessionInv, fan' \in FanType, shell' \in {"run", "dead", "tell", "told"},
         fan'.pc # "idle" => fan'.unit \in Units,
         UNCHANGED <<conn, closed>>, UNCHANGED outVars, UNCHANGED pauseVars,
         UNCHANGED attachVars, UNCHANGED clientVars
  PROVE  SessionInv'
  <1>1. RestTyped /\ SeqsAgree
    BY TypeIs DEF SessionInv
  <1>2. RestTyped'
    BY <1>1 DEF RestTyped, FanType, outVars, pauseVars, attachVars, clientVars
  <1>3. /\ conn' = conn /\ pauseCount' = pauseCount /\ pending' = pending
        /\ readers' = readers /\ writer' = writer /\ SeqsAgree'
    BY <1>1 DEF outVars, pauseVars, attachVars, SeqsAgree
  <1> QED
    BY <1>2, <1>3, SameRoles, NoConnMoves

\* What is known of fanoutLoop and the attached websockets.
LEMMA FanFacts ==
  ASSUME SessionInv
  PROVE  /\ fan \in FanType /\ shell \in {"run", "dead", "tell", "told"}
         /\ fan.pc # "idle" => fan.unit \in Units
         /\ Attached \in SUBSET Conns
  BY DEF SessionInv, TypeOK, FanType, HasChunk, Attached

LEMMA FanCheckStep ==
  ASSUME SessionInv, FanCheck
  PROVE  SessionInv'
  <1>1. fan.unit \in Units /\ fan \in FanType /\ NoUnit \notin Nat
    BY FanFacts, UnitFacts DEF FanCheck
  <1>2. fan' \in FanType /\ (fan'.pc # "idle" => fan'.unit \in Units)
    <2>1. CASE pauseCount > 0
      BY <1>1, <2>1 DEF FanCheck, FanType
    <2>2. CASE ~(pauseCount > 0)
      BY <1>1, <2>2 DEF FanCheck, FanType
    <2> QED
      BY <2>1, <2>2
  <1> QED
    BY <1>2, FanFacts, OwnStep DEF FanCheck, exitVars

LEMMA FanTargetsStep ==
  ASSUME SessionInv, FanTargets
  PROVE  SessionInv'
  <1>1. PICK S \in SUBSET Conns : S = Attached
    BY FanFacts
  <1>2. fan.unit \in Units /\ fan \in FanType
    BY FanFacts DEF FanTargets
  <1>3. fan' = [fan EXCEPT !.pc = "write", !.to = S]
    BY <1>1 DEF FanTargets
  <1>4. fan' \in FanType /\ fan'.unit \in Units
    BY <1>2, <1>3 DEF FanType
  <1> QED
    BY <1>4, FanFacts, OwnStep DEF FanTargets, exitVars

LEMMA FanWriteStep ==
  ASSUME SessionInv, FanWrite
  PROVE  SessionInv'
  <1>1. RestTyped /\ SeqsAgree /\ TypeOK
    BY TypeIs DEF SessionInv
  <1>2. PICK u \in Units : u = fan.unit
    BY FanFacts DEF FanWrite
  <1>3. Broadcast(fan.to, ChunkFrame(u))
    BY <1>2 DEF FanWrite
  <1>4. /\ view' \in [Clients -> ViewType] /\ got' \in [Conns -> SUBSET Units]
        /\ UNCHANGED <<open, ready>> /\ \E T : DetachAll(T)
    BY <1>1, <1>3, BroadcastTypes
  <1>5. /\ writer' \in Conns \cup {NoConn} /\ readers' \subseteq Conns
        /\ \A c \in readers' : c \in readers /\ (c = writer => c = writer')
    BY <1>1, <1>4, DetachOnly
  <1>6. fan' \in FanType /\ fan'.pc = "idle"
    BY FanFacts DEF FanWrite, FanType
  <1>7. RestTyped'
    BY <1>1, <1>4, <1>5, <1>6 DEF RestTyped, FanWrite, FanType, outVars, pauseVars, exitVars
  <1>8. conn' = conn /\ pauseCount' = pauseCount /\ pending' = pending /\ SeqsAgree'
    BY <1>1 DEF FanWrite, outVars, pauseVars, SeqsAgree
  <1> QED
    BY <1>5, <1>6, <1>7, <1>8, NoConnMoves

LEMMA WaitTargetsStep ==
  ASSUME SessionInv, WaitTargets
  PROVE  SessionInv'
  <1>1. PICK S \in SUBSET Conns : S = Attached
    BY FanFacts
  <1>2. fan' = [fan EXCEPT !.exit = S] /\ fan \in FanType
    BY <1>1, FanFacts DEF WaitTargets
  <1>3. fan' \in FanType /\ fan'.pc = fan.pc /\ fan'.unit = fan.unit
    BY <1>2 DEF FanType
  <1> QED
    BY <1>3, FanFacts, OwnStep DEF WaitTargets

LEMMA ShellExitsStep ==
  ASSUME SessionInv, ShellExits
  PROVE  SessionInv'
  BY FanFacts, OwnStep DEF ShellExits

LEMMA WaitSendStep ==
  ASSUME SessionInv, WaitSend
  PROVE  SessionInv'
  <1>1. RestTyped /\ SeqsAgree /\ TypeOK
    BY TypeIs DEF SessionInv
  <1>2. PICK S : S = fan.exit /\ DetachAll(S)
    BY DEF WaitSend
  <1>3. /\ writer' \in Conns \cup {NoConn} /\ readers' \subseteq Conns
        /\ \A c \in readers' : c \in readers /\ (c = writer => c = writer')
    BY <1>1, <1>2, DetachOnly
  <1>4. fan' \in FanType /\ fan'.pc = fan.pc /\ fan'.unit = fan.unit
    BY FanFacts DEF WaitSend, FanType
  <1>5. open' \in [Clients -> Conns \cup {NoConn}]
    BY <1>1 DEF WaitSend, RestTyped
  <1>6. dumpLen' = 0 /\ 0 \in 0..DumpMax /\ closed' = TRUE /\ shell' = "told"
    BY UnitFacts DEF WaitSend
  <1>7. RestTyped'
    BY <1>1, <1>3, <1>4, <1>5, <1>6 DEF RestTyped, WaitSend, FanType, pauseVars
  <1>8. conn' = conn /\ pauseCount' = pauseCount /\ pending' = pending
    BY DEF WaitSend, pauseVars
  <1>9. SeqsAgree'
    BY <1>1, <1>6, UnitFacts DEF WaitSend, SeqsAgree, RestTyped
  <1> QED
    BY <1>3, <1>4, <1>7, <1>8, <1>9, FanFacts, NoConnMoves

LEMMA KillStep ==
  ASSUME SessionInv, Kill
  PROVE  SessionInv'
  <1>1. RestTyped /\ SeqsAgree
    BY TypeIs DEF SessionInv
  <1>2. dumpLen' = 0 /\ 0 \in 0..DumpMax /\ closed' = TRUE
    BY UnitFacts DEF Kill
  <1>3. shell' \in {"run", "dead", "tell", "told"}
    BY <1>1 DEF Kill, RestTyped
  <1>4. RestTyped'
    BY <1>1, <1>2, <1>3 DEF RestTyped, Kill, pauseVars, attachVars, clientVars
  <1>5. /\ conn' = conn /\ fan' = fan /\ pauseCount' = pauseCount /\ pending' = pending
        /\ readers' = readers /\ writer' = writer
    BY DEF Kill, pauseVars, attachVars
  <1>6. SeqsAgree'
    BY <1>1, <1>2, UnitFacts DEF Kill, SeqsAgree, RestTyped
  <1>7. fan'.pc # "idle" => fan'.unit \in Units
    BY <1>5, FanFacts
  <1> QED
    BY <1>4, <1>5, <1>6, <1>7, SameRoles, NoConnMoves

LEMMA DisconnectStep ==
  ASSUME SessionInv, NEW t \in Clients, Disconnect(t)
  PROVE  SessionInv'
  <1>1. RestTyped /\ SeqsAgree
    BY TypeIs DEF SessionInv
  <1>2. open' \in [Clients -> Conns \cup {NoConn}]
    BY <1>1 DEF Disconnect, RestTyped
  <1>3. RestTyped'
    BY <1>1, <1>2 DEF RestTyped, Disconnect, outVars, pauseVars, attachVars, exitVars
  <1>4. /\ conn' = conn /\ fan' = fan /\ pauseCount' = pauseCount /\ pending' = pending
        /\ readers' = readers /\ writer' = writer /\ SeqsAgree'
    BY <1>1 DEF Disconnect, pauseVars, attachVars, outVars, SeqsAgree
  <1>5. fan'.pc # "idle" => fan'.unit \in Units
    BY <1>4, FanFacts
  <1> QED
    BY <1>3, <1>4, <1>5, SameRoles, NoConnMoves
-----------------------------------------------------------------------------
(* The websockets: AttachAndPump.                                          *)

\* What is known of a websocket.
LEMMA ConnFacts ==
  ASSUME SessionInv, NEW c \in Conns
  PROVE  /\ RestTyped /\ SeqsAgree /\ TypeOK /\ RolesAgree
         /\ conn \in [Conns -> ConnType] /\ conn[c] \in ConnType /\ conn[c].snap \in Frame
         /\ conn[c].pc = "flushTo" => conn[c].todo # <<>>
  <1>1. conn \in [Conns -> ConnType] /\ RestTyped
    BY TypeIs DEF SessionInv
  <1>2. conn[c] \in ConnType
    BY <1>1
  <1> QED
    BY <1>1, <1>2 DEF SessionInv, ConnType, HasChunk

\* A websocket keeps its role, and whoever else is attached stays so or not.
LEMMA RoleStays ==
  ASSUME SessionInv, NEW c \in Conns, NEW rec \in ConnType, conn' = [conn EXCEPT ![c] = rec],
         c \notin readers' \/ rec.role = conn[c].role,
         \A d \in readers' : d \in readers /\ (d = writer => d = writer')
  PROVE  RolesAgree'
  <1>1. conn'[c] = rec /\ \A d \in Conns \ {c} : conn'[d] = conn[d]
    BY ConnFacts
  <1>2. readers \subseteq Conns
    BY ConnFacts DEF RestTyped
  <1> QED
    BY <1>1, <1>2 DEF SessionInv, RolesAgree

\* A step of a websocket that concerns nobody but itself.
LEMMA AloneStep ==
  ASSUME SessionInv, NEW c \in Conns, NEW rec \in ConnType, conn' = [conn EXCEPT ![c] = rec],
         rec.role = conn[c].role,
         rec.pc = "flushTo" => rec.todo # <<>>,
         conn[c].pc \in AttachPC => rec.pc \in AttachPC,
         UNCHANGED fan, UNCHANGED outVars, UNCHANGED pauseVars, UNCHANGED attachVars,
         UNCHANGED exitVars,
         open' \in [Clients -> Conns \cup {NoConn}], view' \in [Clients -> ViewType],
         got' \in [Conns -> SUBSET Units], ready' \subseteq Conns
  PROVE  SessionInv'
  <1>1. RestTyped
    BY ConnFacts
  <1>2. RestTyped'
    BY <1>1 DEF RestTyped, outVars, pauseVars, attachVars, exitVars
  <1>3. RolesAgree'
    <2>1. readers' = readers /\ writer' = writer
      BY DEF attachVars
    <2> QED
      BY <2>1, SameRoles, RoleStays
  <1>4. UNCHANGED <<firstSeq, endSeq, dumpLen, fan>> /\ UNCHANGED <<pauseCount, pending>>
    BY DEF outVars, pauseVars
  <1> QED
    BY <1>2, <1>3, <1>4, ConnMoves

\* The clients' side is typed, when a step leaves it alone too.
LEMMA ClientsTyped ==
  ASSUME SessionInv
  PROVE  /\ open \in [Clients -> Conns \cup {NoConn}] /\ view \in [Clients -> ViewType]
         /\ got \in [Conns -> SUBSET Units] /\ ready \subseteq Conns
  BY TypeIs DEF SessionInv, RestTyped

\* A websocket goes on to another line of AttachAndPump.
LEMMA GoesTo ==
  ASSUME SessionInv, NEW c \in Conns, NEW pc \in ConnPC, To(c, pc)
  PROVE  \E rec \in ConnType : /\ conn' = [conn EXCEPT ![c] = rec]
                               /\ rec.pc = pc /\ rec.role = conn[c].role /\ rec.todo = conn[c].todo
  <1>1. PICK old \in ConnType : old = conn[c]
    BY ConnFacts
  <1>2. PICK rec \in ConnType : rec = [old EXCEPT !.pc = pc]
    BY DEF ConnType
  <1>3. conn' = [conn EXCEPT ![c] = rec]
    BY <1>1, <1>2 DEF To
  <1> QED
    BY <1>1, <1>2, <1>3 DEF ConnType

LEMMA ConnectStep ==
  ASSUME SessionInv, NEW t \in Clients, NEW c \in Conns, Connect(t, c)
  PROVE  SessionInv'
  <1>1. "pause" \in ConnPC /\ To(c, "pause") /\ conn[c].pc = "new"
    BY DEF Connect, ConnPC, At
  <1>2. PICK rec \in ConnType : /\ conn' = [conn EXCEPT ![c] = rec]
                                /\ rec.pc = "pause" /\ rec.role = conn[c].role
    BY <1>1, GoesTo
  <1>3. open' \in [Clients -> Conns \cup {NoConn}]
    BY ClientsTyped DEF Connect
  <1>4. conn[c].pc \notin AttachPC
    BY <1>1 DEF AttachPC
  <1>5. rec.pc # "flushTo"
    BY <1>2
  <1>6. view' = view /\ got' = got /\ ready' = ready
    BY DEF Connect
  <1>7. UNCHANGED fan /\ UNCHANGED outVars /\ UNCHANGED pauseVars /\ UNCHANGED attachVars /\ UNCHANGED exitVars
    BY DEF Connect
  <1> QED
    BY <1>2, <1>3, <1>4, <1>5, <1>6, <1>7, ClientsTyped, AloneStep

LEMMA SnapshotStep ==
  ASSUME SessionInv, NEW c \in Conns, Snapshot(c)
  PROVE  SessionInv'
  <1>1. PICK old \in ConnType : old = conn[c] /\ old.pc = "snapshot"
    BY ConnFacts DEF Snapshot, At
  <1>2. PICK d \in Frame : d = Dump
    BY ConnFacts, DumpCarries
  <1>3. PICK rec \in ConnType : rec = [old EXCEPT !.pc = "ready", !.snap = d]
    BY DEF ConnType, ConnPC
  <1>4. conn' = [conn EXCEPT ![c] = rec]
    BY <1>1, <1>2, <1>3 DEF Snapshot
  <1>5. rec.role = conn[c].role /\ rec.pc = "ready" /\ rec.pc \in AttachPC
    BY <1>1, <1>3 DEF ConnType, AttachPC
  <1>6. open' = open /\ view' = view /\ got' = got /\ ready' = ready
    BY DEF Snapshot, clientVars
  <1>7. UNCHANGED fan /\ UNCHANGED outVars /\ UNCHANGED pauseVars /\ UNCHANGED attachVars /\ UNCHANGED exitVars
    BY DEF Snapshot
  <1> QED
    BY <1>4, <1>5, <1>6, <1>7, ClientsTyped, AloneStep

\* What SendReady and ReplaySend do to the clients.
LEMMA SnapDelivered ==
  ASSUME SessionInv, NEW c \in Conns,
         IF conn[c].snap.lo < conn[c].snap.hi THEN Deliver({c}, conn[c].snap)
         ELSE UNCHANGED <<view, got>>
  PROVE  view' \in [Clients -> ViewType] /\ got' \in [Conns -> SUBSET Units]
  <1>1. PICK f \in Frame : f = conn[c].snap
    BY ConnFacts
  <1>2. CASE f.lo < f.hi
    <2>1. Deliver({c}, f) /\ Carries(f)
      BY <1>1, <1>2, SnapCarries
    <2> QED
      BY <2>1, ConnFacts, DeliverTypes
  <1>3. CASE ~(f.lo < f.hi)
    BY <1>1, <1>3, ClientsTyped
  <1> QED
    BY <1>2, <1>3

\* A websocket is to resume for the last time.
LEMMA ResumesLast ==
  ASSUME SessionInv, NEW c \in Conns,
         conn' = [conn EXCEPT ![c].pc = "resume", ![c].last = TRUE]
  PROVE  \E rec \in ConnType : /\ conn' = [conn EXCEPT ![c] = rec]
                               /\ rec.pc = "resume" /\ rec.role = conn[c].role
  <1>1. PICK old \in ConnType : old = conn[c]
    BY ConnFacts
  <1>2. PICK rec \in ConnType : rec = [old EXCEPT !.pc = "resume", !.last = TRUE]
    BY DEF ConnType, ConnPC
  <1>3. conn' = [conn EXCEPT ![c] = rec]
    BY <1>1, <1>2
  <1> QED
    BY <1>1, <1>2, <1>3 DEF ConnType

LEMMA SendReadyStep ==
  ASSUME SessionInv, NEW c \in Conns, SendReady(c)
  PROVE  SessionInv'
  <1>1. UNCHANGED fan /\ UNCHANGED outVars /\ UNCHANGED pauseVars /\ UNCHANGED attachVars /\ UNCHANGED exitVars
    BY DEF SendReady
  <1>2. open' = open
    BY DEF SendReady
  <1>3. \E rec \in ConnType : /\ conn' = [conn EXCEPT ![c] = rec]
                              /\ rec.pc = "resume" /\ rec.role = conn[c].role
    <2>1. CASE To(c, "resume")
      BY <2>1, GoesTo DEF ConnPC
    <2>2. CASE conn' = [conn EXCEPT ![c].pc = "resume", ![c].last = TRUE]
      BY <2>2, ResumesLast
    <2> QED
      BY <2>1, <2>2 DEF SendReady
  <1>4. view' \in [Clients -> ViewType] /\ got' \in [Conns -> SUBSET Units] /\ ready' \subseteq Conns
    <2>1. CASE /\ ready' = ready \cup {c}
               /\ IF conn[c].snap.lo < conn[c].snap.hi THEN Deliver({c}, conn[c].snap)
                  ELSE UNCHANGED <<view, got>>
      BY <2>1, SnapDelivered, ClientsTyped
    <2>2. CASE UNCHANGED <<view, got, ready>>
      BY <2>2, ClientsTyped
    <2> QED
      BY <2>1, <2>2 DEF SendReady
  <1>5. "resume" \in AttachPC /\ "resume" # "flushTo"
    BY DEF AttachPC
  <1> QED
    BY <1>1, <1>2, <1>3, <1>4, <1>5, ClientsTyped, AloneStep

LEMMA ReplayStep ==
  ASSUME SessionInv, NEW c \in Conns, Replay(c)
  PROVE  SessionInv'
  <1>1. PICK old \in ConnType : old = conn[c] /\ old.pc = "pump"
    BY ConnFacts DEF Replay, At
  <1>2. PICK d \in Frame : d = Dump
    BY ConnFacts, DumpCarries
  <1>3. PICK rec \in ConnType : rec = [old EXCEPT !.pc = "replay", !.snap = d]
    BY DEF ConnType, ConnPC
  <1>4. conn' = [conn EXCEPT ![c] = rec]
    BY <1>1, <1>2, <1>3 DEF Replay
  <1>5. rec.role = conn[c].role /\ rec.pc = "replay" /\ conn[c].pc \notin AttachPC
    BY <1>1, <1>3 DEF ConnType, AttachPC
  <1>6. open' = open /\ view' = view /\ got' = got /\ ready' = ready
    BY DEF Replay, clientVars
  <1>7. UNCHANGED fan /\ UNCHANGED outVars /\ UNCHANGED pauseVars /\ UNCHANGED attachVars /\ UNCHANGED exitVars
    BY DEF Replay
  <1> QED
    BY <1>4, <1>5, <1>6, <1>7, ClientsTyped, AloneStep

LEMMA ReplaySendStep ==
  ASSUME SessionInv, NEW c \in Conns, ReplaySend(c)
  PROVE  SessionInv'
  <1>1. UNCHANGED fan /\ UNCHANGED outVars /\ UNCHANGED pauseVars /\ UNCHANGED attachVars /\ UNCHANGED exitVars
    BY DEF ReplaySend
  <1>2. open' = open /\ ready' = ready
    BY DEF ReplaySend
  <1>3. \E rec \in ConnType : /\ conn' = [conn EXCEPT ![c] = rec]
                              /\ rec.pc = "pump" /\ rec.role = conn[c].role
    BY GoesTo DEF ReplaySend, ConnPC
  <1>4. view' \in [Clients -> ViewType] /\ got' \in [Conns -> SUBSET Units]
    BY SnapDelivered DEF ReplaySend
  <1>5. conn[c].pc \notin AttachPC
    BY DEF AttachPC, ReplaySend, At
  <1> QED
    BY <1>1, <1>2, <1>3, <1>4, <1>5, ClientsTyped, AloneStep

LEMMA PumpEndsStep ==
  ASSUME SessionInv, NEW c \in Conns, PumpEnds(c)
  PROVE  SessionInv'
  <1>1. PICK rec \in ConnType : /\ conn' = [conn EXCEPT ![c] = rec]
                                /\ rec.pc = "resume" /\ rec.role = conn[c].role
    BY ResumesLast DEF PumpEnds
  <1>2. conn[c].pc \notin AttachPC
    BY DEF AttachPC, PumpEnds, At
  <1>3. open' = open /\ view' = view /\ got' = got /\ ready' = ready
    BY DEF PumpEnds, clientVars
  <1>4. UNCHANGED fan /\ UNCHANGED outVars /\ UNCHANGED pauseVars /\ UNCHANGED attachVars /\ UNCHANGED exitVars
    BY DEF PumpEnds
  <1> QED
    BY <1>1, <1>2, <1>3, <1>4, ClientsTyped, AloneStep

LEMMA FlushNextStep ==
  ASSUME SessionInv, NEW c \in Conns, FlushNext(c)
  PROVE  SessionInv'
  <1>1. PICK old \in ConnType : old = conn[c] /\ old.pc = "flush"
    BY ConnFacts DEF FlushNext, At
  <1>2. PICK S \in SUBSET Conns : S = IF old.todo = <<>> THEN {} ELSE Attached
    BY FanFacts
  <1>3. PICK pc \in ConnPC : pc = IF old.todo # <<>> THEN "flushTo"
                                  ELSE IF old.last THEN "detach" ELSE "pump"
    BY DEF ConnPC
  <1>4. PICK rec \in ConnType : rec = [old EXCEPT !.to = S, !.pc = pc]
    BY DEF ConnType
  <1>5. conn' = [conn EXCEPT ![c] = rec]
    BY <1>1, <1>2, <1>3, <1>4 DEF FlushNext
  <1>6. rec.role = old.role /\ rec.pc = pc /\ rec.todo = old.todo
    BY <1>4 DEF ConnType
  <1>7. rec.pc = "flushTo" => rec.todo # <<>>
    BY <1>3, <1>6
  <1>8. conn[c].pc \notin AttachPC
    BY <1>1 DEF AttachPC
  <1>9. open' = open /\ view' = view /\ got' = got /\ ready' = ready
    BY DEF FlushNext, clientVars
  <1>10. UNCHANGED fan /\ UNCHANGED outVars /\ UNCHANGED pauseVars /\ UNCHANGED attachVars /\ UNCHANGED exitVars
    BY DEF FlushNext
  <1> QED
    BY <1>1, <1>5, <1>6, <1>7, <1>8, <1>9, <1>10, ClientsTyped, AloneStep
\* The first websocket without a writer becomes the writer: then no other
\* attached websocket has that role.
LEMMA AttachStep ==
  ASSUME SessionInv, NEW c \in Conns, Attach(c)
  PROVE  SessionInv'
  <1>1. PICK old \in ConnType : old = conn[c] /\ old.pc = "attach"
    BY ConnFacts DEF Attach, At
  <1>2. PICK role \in {"writer", "reader"} : role = IF writer = NoConn THEN "writer" ELSE "reader"
    OBVIOUS
  <1>3. PICK rec \in ConnType : rec = [old EXCEPT !.pc = "snapshot", !.role = role]
    BY DEF ConnType, ConnPC
  <1>4. conn' = [conn EXCEPT ![c] = rec]
    BY <1>1, <1>2, <1>3 DEF Attach
  <1>5. rec.role = role /\ rec.pc = "snapshot" /\ rec.pc \in AttachPC
    BY <1>3 DEF ConnType, AttachPC
  <1>6. RestTyped /\ RolesAgree /\ readers \subseteq Conns
    BY ConnFacts DEF RestTyped
  <1>7. RestTyped'
    BY <1>6 DEF RestTyped, Attach, outVars, pauseVars, clientVars, exitVars
  <1>8. conn'[c] = rec /\ \A d \in Conns \ {c} : conn'[d] = conn[d]
    BY <1>4, ConnFacts
  <1>9. RolesAgree'
    <2>1. CASE writer = NoConn
      <3>1. writer' = c /\ readers' = readers
        BY <2>1 DEF Attach
      <3>2. \A d \in readers : conn[d].role # "writer"
        BY <1>6, <2>1, ConnsAssumption DEF RolesAgree
      <3> QED
        BY <1>6, <1>8, <3>1, <3>2 DEF RolesAgree
    <2>2. CASE writer # NoConn
      <3>1. writer' = writer /\ readers' = readers \cup {c} /\ conn'[c].role = "reader"
        BY <1>2, <1>5, <1>8, <2>2 DEF Attach
      <3> QED
        BY <1>6, <1>8, <3>1 DEF RolesAgree
    <2> QED
      BY <2>1, <2>2
  <1>10. UNCHANGED <<firstSeq, endSeq, dumpLen, fan>> /\ UNCHANGED <<pauseCount, pending>>
    BY DEF Attach, outVars, pauseVars
  <1> QED
    BY <1>4, <1>5, <1>7, <1>9, <1>10, ConnMoves

LEMMA FlushWriteStep ==
  ASSUME SessionInv, NEW c \in Conns, FlushWrite(c)
  PROVE  SessionInv'
  <1>1. PICK old \in ConnType : old = conn[c] /\ old.pc = "flushTo" /\ old.todo # <<>>
    BY ConnFacts DEF FlushWrite, At
  <1>2. old.todo \in Seq(Units)
    BY DEF ConnType
  <1>3. PICK u \in Units : u = Head(old.todo)
    BY <1>1, <1>2, HeadTailProperties
  <1>4. PICK rest \in Seq(Units) : rest = Tail(old.todo)
    BY <1>1, <1>2, HeadTailProperties
  <1>5. Broadcast(old.to, ChunkFrame(u))
    BY <1>1, <1>3 DEF FlushWrite
  <1>6. /\ view' \in [Clients -> ViewType] /\ got' \in [Conns -> SUBSET Units]
        /\ UNCHANGED <<open, ready>> /\ \E T : DetachAll(T)
    BY <1>5, ConnFacts, BroadcastTypes
  <1>7. /\ writer' \in Conns \cup {NoConn} /\ readers' \subseteq Conns
        /\ \A d \in readers' : d \in readers /\ (d = writer => d = writer')
    BY <1>6, ConnFacts, DetachOnly
  <1>8. PICK rec \in ConnType : rec = [old EXCEPT !.pc = "flush", !.todo = rest, !.to = {}]
    BY DEF ConnType, ConnPC
  <1>9. conn' = [conn EXCEPT ![c] = rec]
    BY <1>1, <1>4, <1>8 DEF FlushWrite
  <1>10. rec.role = conn[c].role /\ rec.pc = "flush"
    BY <1>1, <1>8 DEF ConnType
  <1>11. RestTyped'
    BY <1>6, <1>7, ConnFacts DEF RestTyped, FlushWrite, outVars, pauseVars, exitVars
  <1>12. RolesAgree'
    BY <1>7, <1>9, <1>10, RoleStays
  <1>13. UNCHANGED <<firstSeq, endSeq, dumpLen, fan>> /\ UNCHANGED <<pauseCount, pending>>
    BY DEF FlushWrite, outVars, pauseVars
  <1>14. conn[c].pc \notin AttachPC /\ rec.pc # "flushTo"
    BY <1>1, <1>10 DEF AttachPC
  <1> QED
    BY <1>9, <1>11, <1>12, <1>13, <1>14, ConnMoves

LEMMA GoneConn ==
  /\ NewConn \in ConnType
  /\ [NewConn EXCEPT !.pc = "gone"] \in ConnType
  /\ [NewConn EXCEPT !.pc = "gone"].pc = "gone"
  <1>1. 0 \in Units
    BY UnitFacts DEF Units
  <1>2. [tag |-> 0, lo |-> 0, hi |-> 0] \in Frame
    BY <1>1 DEF Frame
  <1>3. <<>> \in Seq(Units)
    OBVIOUS
  <1> QED
    BY <1>2, <1>3 DEF NewConn, ConnType, ConnPC

LEMMA DetachStep ==
  ASSUME SessionInv, NEW c \in Conns, Detach(c)
  PROVE  SessionInv'
  <1>1. PICK rec \in ConnType : rec = [NewConn EXCEPT !.pc = "gone"] /\ rec.pc = "gone"
    BY GoneConn
  <1>2. conn' = [conn EXCEPT ![c] = rec]
    BY <1>1 DEF Detach
  <1>3. DetachAll({c}) /\ conn[c].pc = "detach"
    BY DEF Detach, At
  <1>4. /\ writer' \in Conns \cup {NoConn} /\ readers' \subseteq Conns
        /\ \A d \in readers' : d \in readers /\ (d = writer => d = writer')
    BY <1>3, ConnFacts, DetachOnly
  <1>5. RestTyped'
    BY <1>4, ConnFacts DEF RestTyped, Detach, outVars, pauseVars, clientVars, exitVars
  <1>6. c \notin readers'
    BY <1>3 DEF DetachAll
  <1>7. RolesAgree'
    BY <1>2, <1>4, <1>6, RoleStays
  <1>8. UNCHANGED <<firstSeq, endSeq, dumpLen, fan>> /\ UNCHANGED <<pauseCount, pending>>
    BY DEF Detach, outVars, pauseVars
  <1>9. conn[c].pc \notin AttachPC /\ rec.pc # "flushTo"
    BY <1>1, <1>3 DEF AttachPC
  <1> QED
    BY <1>2, <1>5, <1>7, <1>8, <1>9, ConnMoves

\* A pause is counted together with the websocket that takes it.
LEMMA PauseBroadcastStep ==
  ASSUME SessionInv, NEW c \in Conns, PauseBroadcast(c)
  PROVE  SessionInv'
  <1>1. PICK rec \in ConnType : /\ conn' = [conn EXCEPT ![c] = rec]
                                /\ rec.pc = "attach" /\ rec.role = conn[c].role
    BY GoesTo DEF PauseBroadcast, ConnPC
  <1>2. "attach" \in AttachPC /\ conn[c].pc \notin AttachPC
    BY DEF AttachPC, PauseBroadcast, At
  <1>3. PICK A : A = InAttach
    OBVIOUS
  <1>4. /\ conn' \in [Conns -> ConnType] /\ conn'[c] = rec
        /\ \A d \in Conns \ {c} : conn'[d] = conn[d]
        /\ InAttach' = A \cup {c} /\ c \notin A
    <2>1. rec.pc \in AttachPC
      BY <1>1, <1>2
    <2>2. /\ conn' \in [Conns -> ConnType] /\ conn'[c] = rec
          /\ \A d \in Conns \ {c} : conn'[d] = conn[d]
          /\ InAttach' = IF rec.pc \in AttachPC THEN InAttach \cup {c} ELSE InAttach \ {c}
          /\ c \in InAttach <=> conn[c].pc \in AttachPC
      BY <1>1, InAttachMoves
    <2> QED
      BY <1>2, <1>3, <2>1, <2>2
  <1>5. /\ IsFiniteSet(A) /\ pauseCount <= Cardinality(A) /\ pauseCount \in Nat
        /\ (pending # <<>> => pauseCount > 0)
    BY <1>3 DEF SessionInv, PausesHeld, TypeOK
  <1>6. /\ IsFiniteSet(A \cup {c}) /\ Cardinality(A \cup {c}) = Cardinality(A) + 1
        /\ Cardinality(A) \in Nat
    BY <1>4, <1>5, FS_AddElement, FS_CardinalityType
  <1>7. pauseCount' = pauseCount + 1 /\ pending' = pending
    BY DEF PauseBroadcast
  <1>8. PausesHeld'
    BY <1>4, <1>5, <1>6, <1>7 DEF PausesHeld
  <1>9. TypeOK'
    <2>1. RestTyped
      BY ConnFacts
    <2>2. RestTyped'
      BY <1>5, <1>7, <2>1
         DEF RestTyped, PauseBroadcast, outVars, attachVars, clientVars, exitVars
    <2> QED
      BY <1>4, <2>2 DEF TypeOK, RestTyped, ConnType, ViewType
  <1>10. HasChunk' /\ SeqsAgree'
    BY <1>1, <1>4 DEF PauseBroadcast, SessionInv, HasChunk, SeqsAgree, outVars
  <1>11. RolesAgree'
    <2>1. readers' = readers /\ writer' = writer
      BY DEF PauseBroadcast, attachVars
    <2> QED
      BY <1>1, <2>1, SameRoles, RoleStays
  <1> QED
    BY <1>8, <1>9, <1>10, <1>11 DEF SessionInv

\* Whoever resumes leaves those that are attaching, and takes what is pending
\* along: the count cannot stay above them.
LEMMA ResumeBroadcastStep ==
  ASSUME SessionInv, NEW c \in Conns, ResumeBroadcast(c)
  PROVE  SessionInv'
  <1>1. PICK old \in ConnType : old = conn[c] /\ old.pc = "resume"
    BY ConnFacts DEF ResumeBroadcast, At
  <1>2. PICK todo \in Seq(Units) : todo = IF pauseCount > 0 THEN pending ELSE <<>>
    <2>1. pending \in Seq(Units) /\ <<>> \in Seq(Units)
      BY ConnFacts DEF RestTyped
    <2> QED
      BY <2>1
  <1>3. PICK rec \in ConnType : rec = [old EXCEPT !.pc = "flush", !.todo = todo]
    BY DEF ConnType, ConnPC
  <1>4. conn' = [conn EXCEPT ![c] = rec]
    BY <1>1, <1>2, <1>3 DEF ResumeBroadcast
  <1>5. rec.role = conn[c].role /\ rec.pc = "flush"
    BY <1>1, <1>3 DEF ConnType
  <1>6. PICK A : A = InAttach
    OBVIOUS
  <1>7. "resume" \in AttachPC /\ "flush" \notin AttachPC
    BY DEF AttachPC
  <1>8. /\ conn' \in [Conns -> ConnType] /\ conn'[c] = rec
        /\ \A d \in Conns \ {c} : conn'[d] = conn[d]
        /\ InAttach' = A \ {c} /\ c \in A
    <2>1. rec.pc \notin AttachPC /\ conn[c].pc \in AttachPC
      BY <1>1, <1>5, <1>7
    <2>2. /\ conn' \in [Conns -> ConnType] /\ conn'[c] = rec
          /\ \A d \in Conns \ {c} : conn'[d] = conn[d]
          /\ InAttach' = IF rec.pc \in AttachPC THEN InAttach \cup {c} ELSE InAttach \ {c}
          /\ c \in InAttach <=> conn[c].pc \in AttachPC
      BY <1>4, InAttachMoves
    <2> QED
      BY <1>6, <2>1, <2>2
  <1>9. IsFiniteSet(A) /\ pauseCount <= Cardinality(A) /\ pauseCount \in Nat
    BY <1>6 DEF SessionInv, PausesHeld, TypeOK
  <1>10. /\ IsFiniteSet(A \ {c}) /\ Cardinality(A \ {c}) = Cardinality(A) - 1
         /\ Cardinality(A) \in Nat /\ Cardinality(A \ {c}) \in Nat
    BY <1>8, <1>9, FS_RemoveElement, FS_CardinalityType
  <1>11. pauseCount' = (IF pauseCount > 0 THEN pauseCount - 1 ELSE 0) /\ pending' = <<>>
    BY DEF ResumeBroadcast
  <1>12. pauseCount' \in Nat /\ pauseCount' <= Cardinality(A \ {c})
    BY <1>9, <1>10, <1>11
  <1>13. PausesHeld'
    BY <1>8, <1>10, <1>11, <1>12 DEF PausesHeld
  <1>14. TypeOK'
    <2>1. RestTyped /\ <<>> \in Seq(Units)
      BY ConnFacts
    <2>2. RestTyped'
      BY <1>11, <1>12, <2>1
         DEF RestTyped, ResumeBroadcast, outVars, attachVars, clientVars, exitVars
    <2> QED
      BY <1>8, <2>2 DEF TypeOK, RestTyped, ConnType, ViewType
  <1>15. HasChunk' /\ SeqsAgree'
    BY <1>5, <1>8 DEF ResumeBroadcast, SessionInv, HasChunk, SeqsAgree, outVars
  <1>16. RolesAgree'
    <2>1. readers' = readers /\ writer' = writer
      BY DEF ResumeBroadcast, attachVars
    <2> QED
      BY <1>4, <1>5, <2>1, SameRoles, RoleStays
  <1> QED
    BY <1>13, <1>14, <1>15, <1>16 DEF SessionInv
-----------------------------------------------------------------------------
(* The theorems.                                                           *)

LEMMA SessionInit == Init => SessionInv
  <1> SUFFICES ASSUME Init PROVE SessionInv
    OBVIOUS
  <1>1. RestTyped
    <2>1. /\ firstSeq \in Units /\ endSeq \in Units /\ dumpLen \in 0..DumpMax
          /\ hand \in Units \cup {NoUnit} /\ pauseCount \in Nat
      BY UnitFacts, BoundsAssumption DEF Init
    <2>2. fan \in FanType
      BY DEF Init, FanType
    <2>3. <<>> \in Seq(Units)
      OBVIOUS
    <2>4. [last |-> -1, shown |-> <<>>] \in ViewType
      BY <2>3 DEF ViewType, NoUnit
    <2>5. view \in [Clients -> ViewType]
      BY <2>4 DEF Init
    <2>6. /\ fanout \in Seq(Units) /\ pending \in Seq(Units)
          /\ writer \in Conns \cup {NoConn} /\ readers \subseteq Conns
          /\ shell \in {"run", "dead", "tell", "told"} /\ closed \in BOOLEAN
      BY <2>3 DEF Init
    <2>7. /\ open \in [Clients -> Conns \cup {NoConn}]
          /\ got \in [Conns -> SUBSET Units] /\ ready \subseteq Conns
      BY DEF Init
    <2> QED
      BY <2>1, <2>2, <2>5, <2>6, <2>7 DEF RestTyped, FanType
  <1>2. conn \in [Conns -> ConnType] /\ \A c \in Conns : conn[c] = NewConn
    BY GoneConn DEF Init
  <1>3. TypeOK
    BY <1>1, <1>2, TypeIs
  <1>4. \A c \in Conns : conn[c].pc = "new"
    <2>1. NewConn.pc = "new"
      BY DEF NewConn
    <2> QED
      BY <1>2, <2>1, Zenon
  <1>5. InAttach = {}
    BY <1>4 DEF InAttach
  <1>6. PausesHeld
    BY <1>5, FS_EmptySet DEF PausesHeld, Init
  <1>7. SeqsAgree /\ HasChunk /\ RolesAgree
    BY <1>4, UnitFacts DEF Init, SeqsAgree, HasChunk, RolesAgree
  <1> QED
    BY <1>3, <1>6, <1>7 DEF SessionInv

LEMMA SessionNext == SessionInv /\ [Next]_vars => SessionInv'
  <1> SUFFICES ASSUME SessionInv, [Next]_vars PROVE SessionInv'
    OBVIOUS
  <1>1. CASE Read \/ Send
    BY <1>1, ReadStep, SendStep
  <1>2. CASE Fanning
    BY <1>2, FanTakeStep, FanCheckStep, FanTargetsStep, FanWriteStep DEF Fanning
  <1>3. CASE Waiting
    BY <1>3, WaitTargetsStep, WaitSendStep DEF Waiting
  <1>4. CASE Kill \/ ShellExits
    BY <1>4, KillStep, ShellExitsStep
  <1>5. CASE \E t \in Clients : Disconnect(t) \/ \E c \in Conns : Connect(t, c)
    BY <1>5, DisconnectStep, ConnectStep
  <1>6. ASSUME NEW c \in Conns, Attaching(c) PROVE SessionInv'
    BY <1>6, PauseBroadcastStep, AttachStep, SnapshotStep, SendReadyStep, ResumeBroadcastStep,
       FlushNextStep, FlushWriteStep, ReplaySendStep, PumpEndsStep, DetachStep DEF Attaching
  <1>7. ASSUME NEW c \in Conns, Replay(c) PROVE SessionInv'
    BY <1>7, ReplayStep
  <1>8. CASE UNCHANGED vars
    <2>1. conn' = conn /\ InAttach' = InAttach
      BY <1>8 DEF vars, InAttach
    <2>2. TypeOK'
      BY <1>8 DEF vars, TypeOK, SessionInv
    <2>3. SeqsAgree' /\ HasChunk' /\ RolesAgree'
      BY <1>8 DEF vars, SessionInv, SeqsAgree, HasChunk, RolesAgree
    <2>4. PausesHeld'
      BY <1>8, <2>1 DEF vars, SessionInv, PausesHeld
    <2> QED
      BY <2>2, <2>3, <2>4 DEF SessionInv
  <1> QED
    BY <1>1, <1>2, <1>3, <1>4, <1>5, <1>6, <1>7, <1>8 DEF Next

LEMMA SessionHolds == Spec => []SessionInv
  <1>1. Init => SessionInv
    BY SessionInit
  <1>2. SessionInv /\ [Next]_vars => SessionInv'
    BY SessionNext
  <1> QED
    BY <1>1, <1>2, PTL DEF Spec

\* Every variable of a session keeps its type, for any number of websockets,
\* tabs and units: the pause count never falls below zero, although the
\* deferred ResumeBroadcast has no PauseBroadcast of its own, and the rolling
\* dump never exceeds TERMINAL_DUMP_MAX.
THEOREM SessionTyped == Spec => []TypeOK
  <1>1. SessionInv => TypeOK
    BY DEF SessionInv
  <1> QED
    BY <1>1, SessionHolds, PTL

\* PauseBroadcast and ResumeBroadcast of AttachAndPump never leave the
\* broadcast paused when nobody is attaching any more, and never leave a
\* chunk in pendingBroadcast that no resume will flush, in whatever order any
\* number of websockets attach, fail, break and detach.
THEOREM PauseNeverSticks == Spec => []NoStuckPause
  <1>1. SessionInv => NoStuckPause
    <2> SUFFICES ASSUME SessionInv PROVE NoStuckPause
      OBVIOUS
    <2>1. pauseCount \in Nat /\ pauseCount <= Cardinality(InAttach)
      BY DEF SessionInv, TypeOK, PausesHeld
    <2>2. pauseCount > 0 => InAttach # {}
      BY <2>1, FS_EmptySet
    <2> QED
      BY <2>2 DEF SessionInv, PausesHeld, NoStuckPause
  <1> QED
    BY <1>1, SessionHolds, PTL

\* Attach and Detach never leave two attached websockets that were both told
\* they are the writer, whoever attaches while the writer breaks, is detached
\* by a broadcast or ends.
THEOREM OneWriterOnly == Spec => []OneWriter
  <1>1. SessionInv => OneWriter
    <2> SUFFICES ASSUME SessionInv,
                        NEW c \in Attached, NEW d \in Attached,
                        conn[c].role = "writer", conn[d].role = "writer"
                 PROVE  c = d
      BY DEF OneWriter
    <2>1. \A e \in Attached : conn[e].role = "writer" => e = writer
      BY DEF SessionInv, RolesAgree, Attached
    <2> QED
      BY <2>1
  <1> QED
    BY <1>1, SessionHolds, PTL
-----------------------------------------------------------------------------
(* No unit is displayed twice as long as nothing was cut off: a session     *)
(* without a restored dump whose output fits into the rolling dump. Then a  *)
(* frame's sequence number is the position of its first unit. Once          *)
(* something was cut off, firstSeq and the first unit of the dump differ,   *)
(* and so a client may display a unit twice.                                *)

NothingCutOff == Restored = 0 /\ MaxOutput <= DumpMax

\* A frame's sequence number is the position of its first unit.
Aligned(f) == f.lo < f.hi => f.tag = f.lo

\* What a client displays ascends and is covered by lastReceivedEnd.
InOrder(v) ==
    /\ \A i \in 1..(Len(v.shown) - 1) : v.shown[i] < v.shown[i + 1]
    /\ \A i \in 1..Len(v.shown) : v.shown[i] <= v.last

DumpWhole == firstSeq = 0 /\ (dumpLen = endSeq \/ (closed /\ dumpLen = 0))
SnapsAligned == \A c \in Conns : Aligned(conn[c].snap)
ViewsInOrder == \A t \in Clients : InOrder(view[t])

DedupInv == DumpWhole /\ SnapsAligned /\ ViewsInOrder

\* What two sequences of units hold, one after the other.
LEMMA TwoParts ==
  ASSUME NEW a \in Seq(Units), NEW b \in Seq(Units)
  PROVE  /\ Len(a) \in Nat /\ Len(b) \in Nat /\ Len(a \o b) = Len(a) + Len(b)
         /\ \A i \in 1..Len(a) : (a \o b)[i] = a[i] /\ a[i] \in Nat
         /\ \A j \in 1..Len(b) : (a \o b)[Len(a) + j] = b[j] /\ b[j] \in Nat
  <1>1. PICK n \in Nat, k \in Nat, r \in Seq(Units) :
                n = Len(a) /\ k = Len(b) /\ r = a \o b
    BY LenProperties, ConcatProperties
  <1>2. Len(r) = n + k /\ \A i \in 1..(n + k) : r[i] = IF i <= n THEN a[i] ELSE b[i - n]
    BY <1>1, ConcatProperties
  <1>3. /\ \A i \in 1..n : a[i] \in Nat
        /\ \A j \in 1..k : b[j] \in Nat
    BY <1>1, ElementOfSeq, UnitFacts
  <1>4. ASSUME NEW i \in 1..n PROVE r[i] = a[i]
    BY <1>1, <1>2
  <1>5. ASSUME NEW j \in 1..k PROVE r[n + j] = b[j]
    <2>1. n + j \in 1..(n + k) /\ ~(n + j <= n) /\ n + j - n = j
      BY <1>1
    <2> QED
      BY <1>2, <2>1
  <1> QED
    BY <1>1, <1>2, <1>3, <1>4, <1>5

Ascends(q) == \A i \in 1..(Len(q) - 1) : q[i] < q[i + 1]

\* Two ascending sequences ascend together when the second begins above the
\* first.
LEMMA AscendTogether ==
  ASSUME NEW a \in Seq(Units), NEW b \in Seq(Units), Ascends(a), Ascends(b),
         Len(b) > 0, NEW low \in Int, \A i \in 1..Len(a) : a[i] <= low, low < b[1]
  PROVE  Ascends(a \o b)
  <1>1. PICK n \in Nat, k \in Nat, r \in Seq(Units) :
                n = Len(a) /\ k = Len(b) /\ r = a \o b
    BY LenProperties, ConcatProperties
  <1>2. /\ Len(r) = n + k
        /\ \A i \in 1..n : r[i] = a[i] /\ a[i] \in Nat
        /\ \A j \in 1..k : r[n + j] = b[j] /\ b[j] \in Nat
    BY <1>1, TwoParts
  <1>3. ASSUME NEW i \in 1..(n + k - 1) PROVE r[i] < r[i + 1]
    <2>1. CASE i + 1 <= n
      <3>1. i \in 1..(n - 1) /\ i \in 1..n /\ i + 1 \in 1..n
        BY <1>1, <2>1
      <3> QED
        BY <1>1, <1>2, <3>1 DEF Ascends
    <2>2. CASE i = n
      <3>1. n \in 1..n /\ 1 \in 1..k
        BY <1>1, <2>2
      <3>2. r[i] = a[n] /\ a[n] \in Nat /\ r[i + 1] = b[1] /\ b[1] \in Nat
        BY <1>2, <2>2, <3>1
      <3>3. a[n] <= low
        BY <1>1, <3>1
      <3> QED
        BY <3>2, <3>3
    <2>3. CASE i > n
      <3>1. PICK j \in 1..(k - 1) : i = n + j
        <4>1. i - n \in 1..(k - 1) /\ i = n + (i - n)
          BY <1>1, <2>3
        <4> QED
          BY <4>1
      <3>2. j \in 1..k /\ j + 1 \in 1..k /\ i + 1 = n + (j + 1)
        BY <1>1, <3>1
      <3>3. r[i] = b[j] /\ r[i + 1] = b[j + 1]
        BY <1>2, <3>1, <3>2
      <3> QED
        BY <1>1, <3>1, <3>3 DEF Ascends
    <2> QED
      BY <1>1, <2>1, <2>2, <2>3
  <1> QED
    BY <1>1, <1>2, <1>3 DEF Ascends

LEMMA BoundTogether ==
  ASSUME NEW a \in Seq(Units), NEW b \in Seq(Units), NEW top,
         \A i \in 1..Len(a) : a[i] <= top, \A j \in 1..Len(b) : b[j] <= top
  PROVE  \A i \in 1..Len(a \o b) : (a \o b)[i] <= top
  <1>1. PICK n \in Nat, k \in Nat, r \in Seq(Units) :
                n = Len(a) /\ k = Len(b) /\ r = a \o b
    BY LenProperties, ConcatProperties
  <1>2. /\ Len(r) = n + k
        /\ \A i \in 1..n : r[i] = a[i]
        /\ \A j \in 1..k : r[n + j] = b[j]
    BY <1>1, TwoParts
  <1>3. ASSUME NEW i \in 1..(n + k) PROVE r[i] <= top
    <2>1. CASE i <= n
      <3>1. i \in 1..n
        BY <1>1, <2>1
      <3> QED
        BY <1>1, <1>2, <3>1
    <2>2. CASE i > n
      <3>1. PICK j \in 1..k : i = n + j
        <4>1. i - n \in 1..k /\ i = n + (i - n)
          BY <1>1, <2>2
        <4> QED
          BY <4>1
      <3> QED
        BY <1>1, <1>2, <3>1
    <2> QED
      BY <1>1, <2>1, <2>2
  <1> QED
    BY <1>1, <1>2, <1>3

\* The units lo..lo+k-1 as a sequence.
LEMMA CarriedElements ==
  ASSUME NEW lo \in Nat, NEW k \in Nat
  PROVE  \E more : /\ more = [i \in 1..k |-> lo + i - 1]
                   /\ DOMAIN more = 1..k /\ \A i \in 1..k : more[i] = lo + i - 1
  <1>1. PICK more : more = [i \in 1..k |-> lo + i - 1]
    OBVIOUS
  <1>2. DOMAIN more = 1..k /\ \A i \in 1..k : more[i] = lo + i - 1
    BY <1>1
  <1> QED
    BY <1>1, <1>2

\* What a frame carries ascends from its first unit to its last.
LEMMA CarriedAscends ==
  ASSUME NEW lo \in Nat, NEW k \in Nat, k > 0, NEW more \in Seq(Units),
         DOMAIN more = 1..k, \A i \in 1..k : more[i] = lo + i - 1
  PROVE  /\ Len(more) = k /\ Ascends(more) /\ more[1] = lo
         /\ \A i \in 1..Len(more) : more[i] <= lo + k - 1
  <1>1. Len(more) = k
    BY LenProperties
  <1>2. \A i \in 1..(k - 1) : more[i] < more[i + 1]
    OBVIOUS
  <1>3. more[1] = lo /\ \A i \in 1..k : more[i] <= lo + k - 1
    OBVIOUS
  <1> QED
    BY <1>1, <1>2, <1>3 DEF Ascends

\* handleBinary keeps what a client displays in order.
LEMMA ShownInOrder ==
  ASSUME NEW v \in ViewType, InOrder(v), NEW f, Carries(f), f.tag = f.lo
  PROVE  InOrder(HandleBinary(v, f))
  <1>1. CASE f.tag <= v.last
    BY <1>1 DEF HandleBinary
  <1>2. CASE ~(f.tag <= v.last)
    <2>1. PICK lo \in Nat, k \in Nat : lo = f.lo /\ k = f.hi - f.lo /\ k > 0
      BY DEF Carries
    <2>2. PICK s \in Seq(Units), last \in Int : s = v.shown /\ last = v.last
      <3>1. v.shown \in Seq(Units) /\ v.last \in Nat \cup {-1}
        BY DEF ViewType, NoUnit
      <3> QED
        BY <3>1
    <2>3. PICK more : /\ more = [i \in 1..k |-> lo + i - 1]
                      /\ DOMAIN more = 1..k /\ \A i \in 1..k : more[i] = lo + i - 1
      BY CarriedElements, Zenon
    <2> more \in Seq(Units)
      BY <2>1, <2>3, CarriedUnits
    <2>4. /\ Len(more) = k /\ Ascends(more) /\ more[1] = lo
          /\ \A i \in 1..Len(more) : more[i] <= lo + k - 1
      <3>1. DOMAIN more = 1..k /\ \A i \in 1..k : more[i] = lo + i - 1
        BY <2>3, Zenon
      <3>2. k > 0
        BY <2>1
      <3> QED
        BY <3>1, <3>2, CarriedAscends, Zenon
    <2>5. last < lo
      BY <1>2, <2>1, <2>2
    <2>6. Ascends(s) /\ \A i \in 1..Len(s) : s[i] <= last
      BY <2>2 DEF InOrder, Ascends
    <2>7. Len(more) > 0 /\ last < more[1]
      BY <2>1, <2>4, <2>5
    <2>8. Ascends(s \o more)
      BY <2>4, <2>6, <2>7, AscendTogether
    <2>9. \A i \in 1..Len(s) : s[i] <= lo + k - 1
      <3>1. \A i \in 1..Len(s) : s[i] \in Nat
        BY <2>3, TwoParts
      <3>2. ASSUME NEW i \in 1..Len(s) PROVE s[i] <= lo + k - 1
        <4>1. s[i] \in Nat /\ s[i] <= last
          BY <2>6, <3>1
        <4> QED
          BY <2>1, <2>5, <4>1
      <3> QED
        BY <3>2
    <2>10. PICK end : end = lo + k - 1
      OBVIOUS
    <2>11. \A i \in 1..Len(s \o more) : (s \o more)[i] <= end
      BY <2>4, <2>9, <2>10, BoundTogether
    <2>12. HandleBinary(v, f) = [last |-> end, shown |-> s \o more]
      BY <1>2, <2>1, <2>2, <2>3, <2>10 DEF HandleBinary
    <2> QED
      BY <2>8, <2>11, <2>12 DEF InOrder, Ascends
  <1> QED
    BY <1>1, <1>2

LEMMA DeliverInOrder ==
  ASSUME SessionInv, ViewsInOrder, NEW S, NEW f, Carries(f), f.tag = f.lo, Deliver(S, f)
  PROVE  ViewsInOrder'
  <1>1. \A t \in Clients : view[t] \in ViewType /\ InOrder(view[t])
    BY ClientsTyped DEF ViewsInOrder
  <1>2. \A t \in Clients : InOrder(HandleBinary(view[t], f))
    BY <1>1, ShownInOrder
  <1>3. \A t \in Clients : view'[t] = view[t] \/ view'[t] = HandleBinary(view[t], f)
    BY DEF Deliver
  <1> QED
    BY <1>1, <1>2, <1>3 DEF ViewsInOrder

LEMMA ChunkInOrder ==
  ASSUME SessionInv, ViewsInOrder, NEW S, NEW u \in Units, Broadcast(S, ChunkFrame(u))
  PROVE  ViewsInOrder'
  <1>1. Carries(ChunkFrame(u)) /\ ChunkFrame(u).tag = ChunkFrame(u).lo
    BY ChunkCarries DEF ChunkFrame
  <1>2. Deliver(S, ChunkFrame(u))
    BY DEF Broadcast
  <1> QED
    BY <1>1, <1>2, DeliverInOrder

LEMMA SnapInOrder ==
  ASSUME SessionInv, ViewsInOrder, SnapsAligned, NEW c \in Conns,
         IF conn[c].snap.lo < conn[c].snap.hi THEN Deliver({c}, conn[c].snap)
         ELSE UNCHANGED <<view, got>>
  PROVE  ViewsInOrder'
  <1>1. PICK f \in Frame : f = conn[c].snap /\ Aligned(f)
    BY ConnFacts DEF SnapsAligned
  <1>2. CASE f.lo < f.hi
    <2>1. Carries(f) /\ f.tag = f.lo /\ Deliver({c}, f)
      BY <1>1, <1>2, SnapCarries DEF Aligned
    <2> QED
      BY <2>1, DeliverInOrder
  <1>3. CASE ~(f.lo < f.hi)
    BY <1>1, <1>3 DEF ViewsInOrder
  <1> QED
    BY <1>2, <1>3

\* A step that shows nothing to anybody.
LEMMA ViewsStay ==
  ASSUME ViewsInOrder, view' = view
  PROVE  ViewsInOrder'
  BY DEF ViewsInOrder

LEMMA ViewsNext ==
  ASSUME SessionInv, SnapsAligned, ViewsInOrder, [Next]_vars
  PROVE  ViewsInOrder'
  <1>1. CASE Read \/ Send \/ FanTake \/ FanCheck \/ FanTargets
    <2>1. view' = view
      BY <1>1 DEF Read, Send, FanTake, FanCheck, FanTargets, clientVars
    <2> QED
      BY <2>1, ViewsStay
  <1>2. CASE FanWrite
    <2>1. PICK u \in Units : u = fan.unit
      BY <1>2, FanFacts DEF FanWrite
    <2> QED
      BY <1>2, <2>1, ChunkInOrder DEF FanWrite
  <1>3. CASE Waiting \/ Kill \/ ShellExits
    <2>1. view' = view
      BY <1>3 DEF Waiting, WaitTargets, WaitSend, Kill, ShellExits, clientVars
    <2> QED
      BY <2>1, ViewsStay
  <1>4. CASE \E t \in Clients : Disconnect(t) \/ \E c \in Conns : Connect(t, c)
    <2>1. view' = view
      BY <1>4 DEF Disconnect, Connect
    <2> QED
      BY <2>1, ViewsStay
  <1>5. ASSUME NEW c \in Conns, SendReady(c) PROVE ViewsInOrder'
    <2>1. CASE IF conn[c].snap.lo < conn[c].snap.hi THEN Deliver({c}, conn[c].snap)
               ELSE UNCHANGED <<view, got>>
      BY <2>1, SnapInOrder
    <2>2. CASE UNCHANGED <<view, got, ready>>
      BY <2>2, ViewsStay
    <2> QED
      BY <1>5, <2>1, <2>2 DEF SendReady
  <1>6. ASSUME NEW c \in Conns, ReplaySend(c) PROVE ViewsInOrder'
    BY <1>6, SnapInOrder DEF ReplaySend
  <1>7. ASSUME NEW c \in Conns, FlushWrite(c) PROVE ViewsInOrder'
    <2>1. conn[c].todo \in Seq(Units) /\ conn[c].todo # <<>>
      BY <1>7, ConnFacts DEF FlushWrite, At, ConnType
    <2>2. PICK u \in Units : u = Head(conn[c].todo)
      BY <2>1, HeadTailProperties
    <2> QED
      BY <1>7, <2>2, ChunkInOrder DEF FlushWrite
  <1>8. ASSUME NEW c \in Conns,
               \/ PauseBroadcast(c) \/ Attach(c) \/ Snapshot(c) \/ ResumeBroadcast(c)
               \/ FlushNext(c) \/ PumpEnds(c) \/ Detach(c) \/ Replay(c)
        PROVE  ViewsInOrder'
    <2>1. view' = view
      BY <1>8 DEF PauseBroadcast, Attach, Snapshot, ResumeBroadcast, FlushNext, PumpEnds, Detach,
         Replay, clientVars
    <2> QED
      BY <2>1, ViewsStay
  <1>9. CASE UNCHANGED vars
    BY <1>9, ViewsStay DEF vars
  <1> QED
    BY <1>1, <1>2, <1>3, <1>4, <1>5, <1>6, <1>7, <1>8, <1>9 DEF Next, Fanning, Attaching
\* The dump is the whole output until the session is closed.
LEMMA DumpNext ==
  ASSUME NothingCutOff, SessionInv, DumpWhole, [Next]_vars
  PROVE  DumpWhole'
  <1>1. CASE Read
    <2>1. PICK e \in Nat, n \in Nat, m \in Nat :
                e = endSeq /\ n = DumpMax /\ m = MaxOutput /\ e < m /\ m <= n
      BY <1>1, UnitFacts DEF NothingCutOff, SessionInv, TypeOK, Read
    <2>2. dumpLen = e /\ firstSeq = 0 /\ ~closed
      BY <1>1, <2>1 DEF Read, DumpWhole
    <2>3. dumpLen' = e + 1
      BY <1>1, <2>1, <2>2 DEF Read, AppendedLen
    <2>4. endSeq' = e + 1
      BY <1>1, <2>1 DEF Read
    <2>5. firstSeq' = IF endSeq' - firstSeq > DumpMax THEN endSeq' - DumpMax ELSE firstSeq
      BY <1>1 DEF Read
    <2>6. firstSeq' = 0
      BY <2>1, <2>2, <2>4, <2>5
    <2> QED
      BY <2>3, <2>4, <2>6 DEF DumpWhole
  <1>2. CASE Kill \/ WaitSend
    BY <1>2 DEF Kill, WaitSend, DumpWhole
  <1>3. CASE UNCHANGED <<firstSeq, endSeq, dumpLen, closed>>
    BY <1>3 DEF DumpWhole
  <1>4. CASE Send \/ Fanning \/ WaitTargets \/ ShellExits
    <2>1. UNCHANGED <<firstSeq, endSeq, dumpLen, closed>>
      BY <1>4 DEF Send, Fanning, FanTake, FanCheck, FanTargets, FanWrite, WaitTargets, ShellExits,
         outVars, exitVars
    <2> QED
      BY <1>3, <2>1
  <1>5. CASE \E t \in Clients : Disconnect(t) \/ \E c \in Conns : Connect(t, c)
    <2>1. UNCHANGED <<firstSeq, endSeq, dumpLen, closed>>
      BY <1>5 DEF Disconnect, Connect, outVars, exitVars
    <2> QED
      BY <1>3, <2>1
  <1>6. ASSUME NEW c \in Conns, Attaching(c) \/ Replay(c) PROVE DumpWhole'
    <2>1. CASE PauseBroadcast(c) \/ Attach(c) \/ Snapshot(c) \/ SendReady(c) \/ ResumeBroadcast(c)
      <3>1. UNCHANGED <<firstSeq, endSeq, dumpLen, closed>>
        BY <2>1 DEF PauseBroadcast, Attach, Snapshot, SendReady, ResumeBroadcast, outVars, exitVars
      <3> QED
        BY <1>3, <3>1
    <2>2. CASE FlushNext(c) \/ FlushWrite(c) \/ ReplaySend(c) \/ PumpEnds(c) \/ Detach(c) \/ Replay(c)
      <3>1. UNCHANGED <<firstSeq, endSeq, dumpLen, closed>>
        BY <2>2 DEF FlushNext, FlushWrite, ReplaySend, PumpEnds, Detach, Replay, outVars, exitVars
      <3> QED
        BY <1>3, <3>1
    <2> QED
      BY <1>6, <2>1, <2>2 DEF Attaching
  <1>7. CASE UNCHANGED vars
    BY <1>3, <1>7 DEF vars
  <1> QED
    BY <1>1, <1>2, <1>4, <1>5, <1>6, <1>7 DEF Next, Waiting

LEMMA DumpAligned ==
  ASSUME SessionInv, DumpWhole
  PROVE  Aligned(Dump)
  <1>1. endSeq \in Nat
    BY UnitFacts DEF SessionInv, TypeOK
  <1> QED
    BY <1>1 DEF DumpWhole, Dump, Aligned

\* A websocket that takes no snapshot keeps the one it took.
LEMMA SnapsStay ==
  ASSUME SnapsAligned, \A c \in Conns : conn'[c].snap = conn[c].snap
  PROVE  SnapsAligned'
  BY DEF SnapsAligned

LEMMA SnapsNext ==
  ASSUME SessionInv, DumpWhole, SnapsAligned, [Next]_vars
  PROVE  SnapsAligned'
  <1> USE ConnFacts
  <1>1. CASE conn' = conn
    BY <1>1, SnapsStay
  <1>2. CASE Read \/ Send \/ Fanning \/ Waiting \/ Kill \/ ShellExits
    <2>1. conn' = conn
      BY <1>2 DEF Read, Send, Fanning, FanTake, FanCheck, FanTargets, FanWrite, Waiting,
         WaitTargets, WaitSend, Kill, ShellExits
    <2> QED
      BY <1>1, <2>1
  <1>3. ASSUME NEW t \in Clients, Disconnect(t) PROVE SnapsAligned'
    BY <1>1, <1>3 DEF Disconnect
  <1>4. ASSUME NEW c \in Conns, NEW pc \in ConnPC, To(c, pc) PROVE SnapsAligned'
    <2>1. \A d \in Conns : conn'[d].snap = conn[d].snap
      BY <1>4 DEF To, ConnType
    <2> QED
      BY <2>1, SnapsStay
  <1>5. ASSUME NEW t \in Clients, NEW c \in Conns, Connect(t, c) PROVE SnapsAligned'
    BY <1>4, <1>5 DEF Connect, ConnPC
  <1>6. ASSUME NEW c \in Conns, PauseBroadcast(c) \/ ReplaySend(c) PROVE SnapsAligned'
    BY <1>4, <1>6 DEF PauseBroadcast, ReplaySend, ConnPC
  <1>7. ASSUME NEW c \in Conns, Attach(c) PROVE SnapsAligned'
    <2>1. \A d \in Conns : conn'[d].snap = conn[d].snap
      BY <1>7 DEF Attach, ConnType
    <2> QED
      BY <2>1, SnapsStay
  <1>8. ASSUME NEW c \in Conns, conn' = [conn EXCEPT ![c].pc = "resume", ![c].last = TRUE]
        PROVE  SnapsAligned'
    <2>1. \A d \in Conns : conn'[d].snap = conn[d].snap
      BY <1>8 DEF ConnType
    <2> QED
      BY <2>1, SnapsStay
  <1>9. ASSUME NEW c \in Conns, SendReady(c) PROVE SnapsAligned'
    BY <1>4, <1>8, <1>9 DEF SendReady, ConnPC
  <1>10. ASSUME NEW c \in Conns, PumpEnds(c) PROVE SnapsAligned'
    BY <1>8, <1>10 DEF PumpEnds
  <1>11. ASSUME NEW c \in Conns, ResumeBroadcast(c) PROVE SnapsAligned'
    <2>1. \A d \in Conns : conn'[d].snap = conn[d].snap
      BY <1>11 DEF ResumeBroadcast, ConnType
    <2> QED
      BY <2>1, SnapsStay
  <1>12. ASSUME NEW c \in Conns, FlushNext(c) PROVE SnapsAligned'
    <2>1. \A d \in Conns : conn'[d].snap = conn[d].snap
      BY <1>12 DEF FlushNext, ConnType
    <2> QED
      BY <2>1, SnapsStay
  <1>13. ASSUME NEW c \in Conns, FlushWrite(c) PROVE SnapsAligned'
    <2>1. \A d \in Conns : conn'[d].snap = conn[d].snap
      BY <1>13 DEF FlushWrite, ConnType
    <2> QED
      BY <2>1, SnapsStay
  <1>14. ASSUME NEW c \in Conns, Snapshot(c) \/ Replay(c) PROVE SnapsAligned'
    <2>1. PICK f : f = Dump /\ Aligned(f)
      BY DumpAligned
    <2>2. conn'[c].snap = f
      BY <1>14, <2>1 DEF Snapshot, Replay, ConnType
    <2>3. \A d \in Conns \ {c} : conn'[d] = conn[d]
      BY <1>14 DEF Snapshot, Replay
    <2> QED
      BY <2>1, <2>2, <2>3 DEF SnapsAligned
  <1>15. ASSUME NEW c \in Conns, Detach(c) PROVE SnapsAligned'
    <2>1. PICK rec : rec = [NewConn EXCEPT !.pc = "gone"]
      OBVIOUS
    <2>2. Aligned(rec.snap)
      BY <2>1 DEF NewConn, Aligned
    <2>3. conn'[c] = rec /\ \A d \in Conns \ {c} : conn'[d] = conn[d]
      BY <1>15, <2>1 DEF Detach
    <2> QED
      BY <2>2, <2>3 DEF SnapsAligned
  <1>16. CASE UNCHANGED vars
    BY <1>1, <1>16 DEF vars
  <1> QED
    BY <1>2, <1>3, <1>5, <1>6, <1>7, <1>9, <1>10, <1>11, <1>12, <1>13, <1>14, <1>15, <1>16
       DEF Next, Attaching

LEMMA DedupInit == NothingCutOff /\ Init => DedupInv
  <1> SUFFICES ASSUME NothingCutOff, Init PROVE DedupInv
    OBVIOUS
  <1>1. DumpWhole
    BY DEF NothingCutOff, Init, DumpWhole
  <1>2. Aligned(NewConn.snap)
    BY DEF Aligned, NewConn
  <1>3. \A c \in Conns : conn[c] = NewConn
    BY Zenon DEF Init
  <1>4. \A t \in Clients : Len(view[t].shown) = 0
    BY DEF Init
  <1>5. 1..0 = {} /\ 1..(0 - 1) = {}
    OBVIOUS
  <1>6. ViewsInOrder
    BY <1>4, <1>5 DEF ViewsInOrder, InOrder
  <1> QED
    BY <1>1, <1>2, <1>3, <1>6 DEF DedupInv, SnapsAligned

\* "without double-printing": as long as nothing of the output was cut off
\* the snapshots, the flushed and the broadcast chunks that handleBinary lets
\* through reach a tab in order and no unit twice, over all the connections
\* it opens and the replays it asks for.
THEOREM NoUnitTwice ==
  ASSUME Restored = 0, MaxOutput <= DumpMax
  PROVE  Spec => []NoDoublePrint
  <1>1. NothingCutOff
    BY DEF NothingCutOff
  <1>2. Init => DedupInv
    BY <1>1, DedupInit
  <1>3. SessionInv /\ DedupInv /\ [Next]_vars => DedupInv'
    BY <1>1, DumpNext, SnapsNext, ViewsNext DEF DedupInv
  <1>4. DedupInv => NoDoublePrint
    BY DEF DedupInv, ViewsInOrder, InOrder, NoDoublePrint
  <1> QED
    BY <1>2, <1>3, <1>4, SessionHolds, PTL DEF Spec
-----------------------------------------------------------------------------
(* Nothing is left unsent to a session's only websocket: of every unit      *)
(* after the start of its snapshot it is known where it is on its way. A    *)
(* second websocket may pause the broadcast between fanoutLoop's look at    *)
(* pendingBroadcast and its look at the pause count; the chunk it holds is  *)
(* then neither kept for a resume nor sent to those that were attached.     *)

Alone == \A c, d \in Conns : c = d

Among(u, s) == \E i \in 1..Len(s) : s[i] = u

\* fanoutLoop will send the chunk it holds to c, or its write has c as target.
FanSends(c) ==
    \/ fan.pc = "check" /\ pauseCount = 0
    \/ fan.pc = "targets"
    \/ fan.pc = "write" /\ c \in fan.to

\* Whoever holds unit u will send it to c.
UnderWay(c, u) ==
    \/ hand = u \/ Among(u, fanout) \/ Among(u, pending) \/ Among(u, conn[c].todo)
    \/ fan.unit = u /\ FanSends(c)

\* Unit u was written to c, is under way, or is in the snapshot c waits for.
ToCome(c, u) ==
    \/ u \in got[c] \/ UnderWay(c, u)
    \/ conn[c].pc \in {"ready", "replay"} /\ u < conn[c].snap.hi

HasSnap == {"ready", "resume", "flush", "flushTo", "pump", "replay"}

\* An open websocket is attached from its snapshot on, and nothing is missing.
Served(c) ==
    /\ conn[c].pc \notin {"new", "detach", "gone"} /\ ~conn[c].last
    /\ conn[c].pc \in HasSnap \cup {"snapshot"} => c \in Attached
    /\ conn[c].pc = "flushTo" => c \in conn[c].to
    /\ conn[c].pc \in HasSnap =>
        /\ conn[c].snap.hi <= endSeq
        /\ \A u \in conn[c].snap.lo..(endSeq - 1) : ToCome(c, u)

\* The channel holds units that were printed by this process.
RoomLeft == Restored + Len(fanout) + (IF hand = NoUnit THEN 0 ELSE 1) <= endSeq

\* Only a flush has chunks to send, and nobody has failed before it connects.
FlushHolds(c) ==
    /\ conn[c].pc \notin {"flush", "flushTo"} => conn[c].todo = <<>>
    /\ conn[c].pc = "new" => ~conn[c].last

DeliveryInv ==
    /\ RoomLeft
    /\ \A c \in Conns : FlushHolds(c)
    /\ ~closed => \A c \in Conns : IsOpen(c) => Served(c)

LEMMA AmongGrows ==
  ASSUME NEW s \in Seq(Units), NEW e \in Units
  PROVE  /\ Append(s, e) \in Seq(Units) /\ Len(Append(s, e)) = Len(s) + 1 /\ Len(s) \in Nat
         /\ Among(e, Append(s, e))
         /\ \A u : Among(u, s) => Among(u, Append(s, e))
  <1>1. PICK n \in Nat, q \in Seq(Units) : n = Len(s) /\ q = Append(s, e)
    BY LenProperties, AppendProperties
  <1>2. Len(q) = n + 1 /\ q[n + 1] = e /\ \A i \in 1..n : q[i] = s[i]
    BY <1>1, AppendProperties
  <1>3. n + 1 \in 1..(n + 1) /\ \A i \in 1..n : i \in 1..(n + 1)
    OBVIOUS
  <1> QED
    BY <1>1, <1>2, <1>3 DEF Among

LEMMA AmongShrinks ==
  ASSUME NEW s \in Seq(Units), s # <<>>
  PROVE  /\ Head(s) \in Units /\ Tail(s) \in Seq(Units)
         /\ Len(Tail(s)) = Len(s) - 1 /\ Len(s) \in Nat \ {0}
         /\ \A u : Among(u, s) => u = Head(s) \/ Among(u, Tail(s))
  <1>1. PICK n \in Nat \ {0}, q \in Seq(Units) : n = Len(s) /\ q = Tail(s)
    BY LenProperties, EmptySeq, HeadTailProperties
  <1>2. Head(s) = s[1] /\ Head(s) \in Units /\ Len(q) = n - 1 /\ \A i \in 1..(n - 1) : q[i] = s[i + 1]
    BY <1>1, HeadTailProperties
  <1>3. ASSUME NEW u, NEW i \in 1..n, s[i] = u
        PROVE  u = Head(s) \/ Among(u, q)
    <2>1. CASE i = 1
      BY <1>2, <1>3, <2>1
    <2>2. CASE i # 1
      <3>1. i - 1 \in 1..(n - 1) /\ (i - 1) + 1 = i
        BY <2>2
      <3>2. q[i - 1] = u
        BY <1>2, <1>3, <3>1
      <3> QED
        BY <1>2, <3>1, <3>2 DEF Among
    <2> QED
      BY <2>1, <2>2
  <1> QED
    BY <1>1, <1>2, <1>3 DEF Among

LEMMA AmongNone == \A u : ~Among(u, <<>>)
  BY DEF Among

\* What a websocket that is open gets of a frame.
LEMMA DeliverReaches ==
  ASSUME SessionInv, NEW S, NEW f, Deliver(S, f), NEW c \in Conns
  PROVE  /\ got[c] \subseteq got'[c]
         /\ IsOpen(c) /\ c \in S => f.lo..(f.hi - 1) \subseteq got'[c]
  <1>1. PICK carried : carried = f.lo..(f.hi - 1)
    OBVIOUS
  <1>2. got' = [d \in Conns |-> IF d \in {e \in S : IsOpen(e)} THEN got[d] \cup carried ELSE got[d]]
    BY <1>1 DEF Deliver
  <1>3. got'[c] = IF c \in {e \in S : IsOpen(e)} THEN got[c] \cup carried ELSE got[c]
    BY <1>2
  <1> QED
    BY <1>1, <1>3

\* A broadcast reaches every open target, and detaches broken ones only.
LEMMA BroadcastReaches ==
  ASSUME SessionInv, NEW S, NEW u \in Units, Broadcast(S, ChunkFrame(u)), NEW c \in Conns
  PROVE  /\ got[c] \subseteq got'[c] /\ open' = open
         /\ IsOpen(c) /\ c \in S => u \in got'[c]
         /\ IsOpen(c) /\ c \in Attached => c \in Attached'
  <1>1. u \in ChunkFrame(u).lo..(ChunkFrame(u).hi - 1)
    <2>1. u \in Nat
      BY UnitFacts
    <2> QED
      BY <2>1 DEF ChunkFrame
  <1>2. Deliver(S, ChunkFrame(u)) /\ open' = open
    BY DEF Broadcast
  <1>3. PICK failed : DetachAll(failed) /\ (IsOpen(c) => c \notin failed)
    BY DEF Broadcast
  <1>4. IsOpen(c) /\ c \in Attached => c \in Attached'
    BY <1>3 DEF DetachAll, Attached
  <1> QED
    BY <1>1, <1>2, <1>4, DeliverReaches

LEMMA BelowEnd ==
  ASSUME NEW e \in Units, NEW lo \in Nat, NEW u \in lo..(e - 1)
  PROVE  u \in Units /\ u < e
  <1>1. e \in Nat /\ e <= Restored + MaxOutput /\ Restored + MaxOutput \in Nat
    BY UnitFacts DEF Units
  <1>2. u \in Nat /\ u < e
    BY <1>1
  <1>3. u <= Restored + MaxOutput
    BY <1>1, <1>2
  <1> QED
    BY <1>1, <1>2, <1>3 DEF Units

\* A step of the session's loops, of a client or of the network.
LEMMA StillServed ==
  ASSUME SessionInv, DeliveryInv, conn' = conn, closed => closed', RoomLeft',
         endSeq \in Nat, endSeq' \in Units, endSeq <= endSeq',
         \A c \in Conns : IsOpen(c)' => IsOpen(c),
         ~closed' => \A c \in Conns : IsOpen(c)' /\ c \in Attached => c \in Attached',
         ~closed' => \A c \in Conns : IsOpen(c) /\ c \in Attached =>
                        \A u \in Units : u < endSeq' /\ (u < endSeq => ToCome(c, u)) => ToCome(c, u)'
  PROVE  DeliveryInv'
  <1>1. \A c \in Conns : FlushHolds(c)'
    BY DEF DeliveryInv, FlushHolds
  <1>2. ASSUME ~closed', NEW c \in Conns, IsOpen(c)' PROVE Served(c)'
    <2>1. IsOpen(c) /\ Served(c)
      BY <1>2 DEF DeliveryInv
    <2>2. PICK rec \in ConnType : rec = conn[c] /\ rec = conn'[c]
      BY ConnFacts
    <2>3. PICK lo \in Nat, hi \in Nat : lo = rec.snap.lo /\ hi = rec.snap.hi
      BY <2>2, ConnFacts, UnitFacts DEF Frame
    <2>4. /\ rec.pc \notin {"new", "detach", "gone"} /\ ~rec.last
          /\ rec.pc \in HasSnap \cup {"snapshot"} => c \in Attached
          /\ rec.pc = "flushTo" => c \in rec.to
          /\ rec.pc \in HasSnap => hi <= endSeq /\ \A u \in lo..(endSeq - 1) : ToCome(c, u)
      BY <2>1, <2>2, <2>3 DEF Served
    <2>5. rec.pc \in HasSnap \cup {"snapshot"} => c \in Attached'
      BY <1>2, <2>4
    <2>6. ASSUME rec.pc \in HasSnap, NEW u \in lo..(endSeq' - 1) PROVE ToCome(c, u)'
      <3>1. u \in Units /\ u < endSeq'
        BY BelowEnd
      <3>2. u < endSeq => ToCome(c, u)
        BY <2>3, <2>4, <2>6
      <3> QED
        BY <1>2, <2>1, <2>4, <2>6, <3>1, <3>2
    <2>7. rec.pc \in HasSnap => hi <= endSeq'
      BY <2>3, <2>4, UnitFacts
    <2>8. rec = conn'[c] /\ lo = conn'[c].snap.lo /\ hi = conn'[c].snap.hi
      BY <2>2, <2>3
    <2> QED
      BY <2>4, <2>5, <2>6, <2>7, <2>8 DEF Served
  <1> QED
    BY <1>1, <1>2 DEF DeliveryInv
\* What is known of the chunk readLoop holds and of the channel.
LEMMA OutputFacts ==
  ASSUME SessionInv
  PROVE  /\ endSeq \in Units /\ endSeq \in Nat /\ NoUnit \notin Units
         /\ fanout \in Seq(Units) /\ pending \in Seq(Units) /\ pauseCount \in Nat
         /\ Len(fanout) \in Nat /\ hand \in Units \cup {NoUnit}
         /\ endSeq <= Restored + MaxOutput /\ closed \in BOOLEAN
  <1>1. /\ endSeq \in Units /\ fanout \in Seq(Units) /\ pending \in Seq(Units)
        /\ pauseCount \in Nat /\ hand \in Units \cup {NoUnit} /\ closed \in BOOLEAN
    BY DEF SessionInv, TypeOK
  <1>2. endSeq \in Nat /\ endSeq <= Restored + MaxOutput
    BY <1>1, UnitFacts DEF Units
  <1> QED
    BY <1>1, <1>2, UnitFacts, LenProperties

LEMMA DeliveryRead ==
  ASSUME SessionInv, DeliveryInv, Read
  PROVE  DeliveryInv'
  <1>1. /\ conn' = conn /\ open' = open /\ got' = got /\ fan' = fan /\ fanout' = fanout
        /\ pauseCount' = pauseCount /\ pending' = pending /\ closed' = closed
        /\ readers' = readers /\ writer' = writer /\ hand = NoUnit
        /\ hand' = endSeq /\ endSeq' = endSeq + 1 /\ endSeq < Restored + MaxOutput
    BY DEF Read, pauseVars, attachVars, clientVars, exitVars
  <1>2. endSeq' \in Units
    BY <1>1, OutputFacts, UnitFacts DEF Units
  <1>3. RoomLeft'
    <2>1. PICK n \in Nat, e \in Nat : n = Len(fanout) /\ e = endSeq
      BY OutputFacts
    <2>2. Restored + n <= e
      BY <1>1, <2>1, UnitFacts DEF DeliveryInv, RoomLeft
    <2>3. Len(fanout') = n /\ endSeq' = e + 1 /\ hand' # NoUnit
      BY <1>1, <2>1, OutputFacts
    <2> QED
      BY <2>2, <2>3, UnitFacts DEF RoomLeft
  <1>4. ASSUME NEW c \in Conns, NEW u \in Units, u < endSeq', u < endSeq => ToCome(c, u)
        PROVE  ToCome(c, u)'
    <2>1. CASE u = endSeq
      BY <1>1, <2>1 DEF ToCome, UnderWay
    <2>2. CASE u # endSeq
      <3>1. u \in Nat /\ u # NoUnit
        BY UnitFacts
      <3>2. u < endSeq
        BY <1>1, <1>4, <2>2, <3>1, OutputFacts
      <3>3. ToCome(c, u) /\ hand # u
        BY <1>1, <1>4, <3>1, <3>2
      <3> QED
        BY <1>1, <3>3 DEF ToCome, UnderWay, FanSends
    <2> QED
      BY <2>1, <2>2
  <1>5. endSeq <= endSeq'
    BY <1>1, OutputFacts
  <1>6. /\ \A c \in Conns : IsOpen(c)' => IsOpen(c)
        /\ Attached' = Attached
    BY <1>1 DEF IsOpen, Attached
  <1> QED
    BY <1>1, <1>2, <1>3, <1>4, <1>5, <1>6, OutputFacts, StillServed

\* The channel has room for whatever this process can print.
LEMMA DeliverySend ==
  ASSUME FanCap >= MaxOutput, SessionInv, DeliveryInv, Send
  PROVE  DeliveryInv'
  <1>1. /\ conn' = conn /\ open' = open /\ got' = got /\ fan' = fan /\ endSeq' = endSeq
        /\ pauseCount' = pauseCount /\ pending' = pending /\ closed' = closed
        /\ readers' = readers /\ writer' = writer /\ hand \in Units
        /\ hand' = NoUnit
    BY OutputFacts DEF Send, pauseVars, attachVars, clientVars, exitVars
  <1>2. PICK n \in Nat, e \in Nat : n = Len(fanout) /\ e = endSeq
    BY OutputFacts
  <1>3. Restored + n + 1 <= e /\ e <= Restored + MaxOutput
    BY <1>1, <1>2, OutputFacts DEF DeliveryInv, RoomLeft
  <1>4. n < FanCap
    BY <1>3, UnitFacts
  <1>5. fanout' = IF ~closed THEN Append(fanout, hand) ELSE fanout
    BY <1>2, <1>4 DEF Send
  <1>6. /\ Len(Append(fanout, hand)) = n + 1 /\ Among(hand, Append(fanout, hand))
        /\ \A u : Among(u, fanout) => Among(u, Append(fanout, hand))
    BY <1>1, <1>2, OutputFacts, AmongGrows
  <1>7. RoomLeft'
    <2>1. Len(fanout') \in {n, n + 1}
      BY <1>2, <1>5, <1>6
    <2>2. Restored + Len(fanout') <= e
      BY <1>3, <2>1, UnitFacts
    <2> QED
      BY <1>1, <1>2, <1>3, <2>1, <2>2, UnitFacts DEF RoomLeft
  <1>8. ASSUME ~closed', NEW c \in Conns, NEW u \in Units, u < endSeq', u < endSeq => ToCome(c, u)
        PROVE  ToCome(c, u)'
    <2>1. ToCome(c, u) /\ fanout' = Append(fanout, hand)
      BY <1>1, <1>5, <1>8
    <2>2. Among(u, fanout) => Among(u, fanout')
      BY <1>6, <2>1
    <2>3. hand = u => Among(u, fanout')
      BY <1>6, <2>1
    <2> QED
      BY <1>1, <2>1, <2>2, <2>3 DEF ToCome, UnderWay, FanSends
  <1>9. /\ \A c \in Conns : IsOpen(c)' => IsOpen(c)
        /\ Attached' = Attached /\ endSeq' \in Units /\ endSeq <= endSeq'
    BY <1>1, OutputFacts DEF IsOpen, Attached
  <1> QED
    BY <1>1, <1>7, <1>8, <1>9, OutputFacts, StillServed

\* A chunk that is not kept for the resume is not held back either.
LEMMA DeliveryTake ==
  ASSUME SessionInv, DeliveryInv, FanTake
  PROVE  DeliveryInv'
  <1>1. /\ conn' = conn /\ open' = open /\ got' = got /\ endSeq' = endSeq /\ hand' = hand
        /\ pauseCount' = pauseCount /\ closed' = closed
        /\ readers' = readers /\ writer' = writer /\ fan.pc = "idle"
        /\ fanout # <<>> /\ fanout' = Tail(fanout) /\ pending' = MaybeBuffer(Head(fanout))
        /\ fan' = [fan EXCEPT !.pc = "check", !.unit = Head(fanout)]
    BY DEF FanTake, attachVars, clientVars, exitVars
  <1>2. /\ Head(fanout) \in Units /\ Len(fanout') = Len(fanout) - 1 /\ Len(fanout) \in Nat
        /\ \A u : Among(u, fanout) => u = Head(fanout) \/ Among(u, fanout')
    BY <1>1, OutputFacts, AmongShrinks
  <1>3. PICK h \in Units : h = Head(fanout)
    BY <1>2
  <1>4. fan'.pc = "check" /\ fan'.unit = h
    BY <1>1, <1>3, FanFacts DEF FanType
  <1>5. \A u : Among(u, pending) => Among(u, pending')
    BY <1>1, <1>3, OutputFacts, AmongGrows DEF MaybeBuffer
  <1>6. pauseCount = 0 \/ Among(h, pending')
    BY <1>1, <1>3, OutputFacts, AmongGrows DEF MaybeBuffer
  <1>7. RoomLeft'
    BY <1>1, <1>2, OutputFacts, UnitFacts DEF DeliveryInv, RoomLeft
  <1>8. ASSUME NEW c \in Conns, NEW u \in Units, u < endSeq', u < endSeq => ToCome(c, u)
        PROVE  ToCome(c, u)'
    <2>1. ToCome(c, u) /\ ~FanSends(c)
      BY <1>1, <1>8 DEF FanSends
    <2>2. h = u => UnderWay(c, u)'
      BY <1>1, <1>4, <1>6 DEF UnderWay, FanSends
    <2>3. Among(u, fanout) => h = u \/ Among(u, fanout')
      BY <1>2, <1>3
    <2>4. Among(u, pending) => Among(u, pending')
      BY <1>5
    <2>5. UnderWay(c, u) => UnderWay(c, u)'
      BY <1>1, <2>1, <2>2, <2>3, <2>4 DEF UnderWay
    <2> QED
      BY <1>1, <2>1, <2>5 DEF ToCome
  <1>9. /\ \A c \in Conns : IsOpen(c)' => IsOpen(c)
        /\ Attached' = Attached /\ endSeq' \in Units /\ endSeq <= endSeq'
    BY <1>1, OutputFacts DEF IsOpen, Attached
  <1> QED
    BY <1>1, <1>7, <1>8, <1>9, OutputFacts, StillServed

\* A step of fanoutLoop that leaves the channel alone.
LEMMA DeliveryFan ==
  ASSUME SessionInv, DeliveryInv, UNCHANGED outVars, UNCHANGED pauseVars, conn' = conn,
         open' = open, closed' = closed,
         \A c \in Conns : IsOpen(c) /\ c \in Attached =>
             /\ c \in Attached' /\ got[c] \subseteq got'[c]
             /\ \/ FanSends(c) => FanSends(c)' /\ fan'.unit = fan.unit
                \/ fan.unit \in got'[c]
  PROVE  DeliveryInv'
  <1>1. endSeq' = endSeq /\ hand' = hand /\ fanout' = fanout /\ pauseCount' = pauseCount /\ pending' = pending
    BY DEF outVars, pauseVars
  <1>2. RoomLeft'
    BY <1>1 DEF DeliveryInv, RoomLeft
  <1>3. ASSUME NEW c \in Conns, IsOpen(c), c \in Attached, NEW u \in Units, u < endSeq', u < endSeq => ToCome(c, u)
        PROVE  ToCome(c, u)'
    <2>1. ToCome(c, u)
      BY <1>1, <1>3
    <2>2. UnderWay(c, u) => UnderWay(c, u)' \/ u \in got'[c]
      BY <1>1, <1>3 DEF UnderWay
    <2>3. u \in got[c] => u \in got'[c]
      BY <1>3
    <2> QED
      BY <1>1, <2>1, <2>2, <2>3 DEF ToCome
  <1>4. \A c \in Conns : IsOpen(c)' <=> IsOpen(c)
    BY DEF IsOpen
  <1>5. endSeq' \in Units /\ endSeq <= endSeq' /\ endSeq \in Nat
    BY <1>1, OutputFacts
  <1> QED
    BY <1>1, <1>2, <1>3, <1>4, <1>5, StillServed

LEMMA DeliveryCheck ==
  ASSUME SessionInv, DeliveryInv, FanCheck
  PROVE  DeliveryInv'
  <1>1. /\ UNCHANGED outVars /\ UNCHANGED pauseVars /\ conn' = conn /\ fan.pc = "check"
        /\ open' = open /\ closed' = closed /\ got' = got /\ readers' = readers /\ writer' = writer
    BY DEF FanCheck, attachVars, clientVars, exitVars
  <1>2. pauseCount = 0 => fan'.pc = "targets" /\ fan'.unit = fan.unit
    BY FanFacts DEF FanCheck, FanType
  <1>3. \A c \in Conns : FanSends(c) => FanSends(c)' /\ fan'.unit = fan.unit
    BY <1>1, <1>2 DEF FanSends
  <1>4. Attached' = Attached
    BY <1>1 DEF Attached
  <1> QED
    BY <1>1, <1>3, <1>4, DeliveryFan

LEMMA DeliveryTargets ==
  ASSUME SessionInv, DeliveryInv, FanTargets
  PROVE  DeliveryInv'
  <1>1. /\ UNCHANGED outVars /\ UNCHANGED pauseVars /\ conn' = conn /\ fan.pc = "targets"
        /\ open' = open /\ closed' = closed /\ got' = got /\ readers' = readers /\ writer' = writer
    BY DEF FanTargets, attachVars, clientVars, exitVars
  <1>2. fan'.pc = "write" /\ fan'.unit = fan.unit /\ fan'.to = Attached
    BY FanFacts DEF FanTargets, FanType
  <1>3. \A c \in Attached : FanSends(c)'
    BY <1>2 DEF FanSends
  <1>4. Attached' = Attached
    BY <1>1 DEF Attached
  <1> QED
    BY <1>1, <1>2, <1>3, <1>4, DeliveryFan

LEMMA DeliveryWrite ==
  ASSUME SessionInv, DeliveryInv, FanWrite
  PROVE  DeliveryInv'
  <1>1. /\ UNCHANGED outVars /\ UNCHANGED pauseVars /\ conn' = conn /\ closed' = closed
        /\ fan.pc = "write"
    BY DEF FanWrite, exitVars
  <1>2. PICK u \in Units : u = fan.unit /\ Broadcast(fan.to, ChunkFrame(u))
    BY FanFacts DEF FanWrite
  <1>3. open' = open
    BY <1>2 DEF Broadcast
  <1>4. ASSUME NEW c \in Conns, IsOpen(c), c \in Attached
        PROVE  /\ c \in Attached' /\ got[c] \subseteq got'[c]
               /\ ~FanSends(c) \/ fan.unit \in got'[c]
    <2>1. FanSends(c) => c \in fan.to
      BY <1>1 DEF FanSends
    <2> QED
      BY <1>2, <1>4, <2>1, BroadcastReaches
  <1> QED
    BY <1>1, <1>3, <1>4, DeliveryFan

\* Nobody has to be served any more once the session is closed.
LEMMA DeliveryClosed ==
  ASSUME SessionInv, DeliveryInv, conn' = conn, closed', UNCHANGED <<endSeq, hand, fanout>>
  PROVE  DeliveryInv'
  BY DEF DeliveryInv, RoomLeft, FlushHolds

\* A step that leaves the output on its way, and may break websockets.
LEMMA DeliveryElse ==
  ASSUME SessionInv, DeliveryInv, conn' = conn, closed' = closed,
         UNCHANGED <<endSeq, hand, fanout, pauseCount, pending, writer, readers, got>>,
         fan'.pc = fan.pc, fan'.unit = fan.unit, fan'.to = fan.to,
         \A c \in Conns : IsOpen(c)' => IsOpen(c)
  PROVE  DeliveryInv'
  <1>1. RoomLeft' /\ Attached' = Attached
    BY DEF DeliveryInv, RoomLeft, Attached
  <1>2. \A c, u : ToCome(c, u)' <=> ToCome(c, u)
    BY DEF ToCome, UnderWay, FanSends
  <1>3. endSeq' \in Units /\ endSeq <= endSeq' /\ endSeq \in Nat /\ endSeq' = endSeq
    BY OutputFacts
  <1> QED
    BY <1>1, <1>2, <1>3, StillServed

LEMMA DeliveryOthers ==
  ASSUME SessionInv, DeliveryInv,
         \/ Kill \/ ShellExits \/ WaitTargets \/ WaitSend
         \/ \E t \in Clients : Disconnect(t)
         \/ UNCHANGED vars
  PROVE  DeliveryInv'
  <1>1. CASE Kill
    BY <1>1, DeliveryClosed DEF Kill
  <1>2. CASE WaitSend
    BY <1>2, DeliveryClosed DEF WaitSend
  <1>3. CASE ShellExits
    <2>1. \A c \in Conns : IsOpen(c)' => IsOpen(c)
      BY <1>3 DEF ShellExits, clientVars, IsOpen
    <2> QED
      BY <1>3, <2>1, DeliveryElse DEF ShellExits, outVars, pauseVars, attachVars, clientVars
  <1>4. CASE WaitTargets
    <2>1. \A c \in Conns : IsOpen(c)' => IsOpen(c)
      BY <1>4 DEF WaitTargets, clientVars, IsOpen
    <2>2. fan'.pc = fan.pc /\ fan'.unit = fan.unit /\ fan'.to = fan.to
      BY <1>4, FanFacts DEF WaitTargets, FanType
    <2> QED
      BY <1>4, <2>1, <2>2, DeliveryElse DEF WaitTargets, outVars, pauseVars, attachVars, clientVars
  <1>5. ASSUME NEW t \in Clients, Disconnect(t) PROVE DeliveryInv'
    <2>1. open \in [Clients -> Conns \cup {NoConn}] /\ open' = [open EXCEPT ![t] = NoConn]
      BY <1>5, ClientsTyped DEF Disconnect
    <2>2. \A c \in Conns : IsOpen(c)' => IsOpen(c)
      BY <2>1, ConnsAssumption DEF IsOpen
    <2> QED
      BY <1>5, <2>2, DeliveryElse DEF Disconnect, outVars, pauseVars, attachVars, exitVars
  <1>6. CASE UNCHANGED vars
    <2>1. \A c \in Conns : IsOpen(c)' => IsOpen(c)
      BY <1>6 DEF vars, IsOpen
    <2> QED
      BY <1>6, <2>1, DeliveryElse DEF vars
  <1> QED
    BY <1>1, <1>2, <1>3, <1>4, <1>5, <1>6
\* A step of the only websocket.
LEMMA ConnServed ==
  ASSUME Alone, SessionInv, DeliveryInv, NEW c \in Conns, NEW rec \in ConnType,
         conn' = [conn EXCEPT ![c] = rec], UNCHANGED outVars, closed' = closed,
         rec.pc \notin {"flush", "flushTo"} => rec.todo = <<>>, rec.pc # "new",
         ~closed /\ IsOpen(c)' =>
             /\ rec.pc \notin {"detach", "gone"} /\ ~rec.last
             /\ rec.pc \in HasSnap \cup {"snapshot"} => c \in Attached'
             /\ rec.pc = "flushTo" => c \in rec.to
             /\ rec.pc \in HasSnap =>
                 /\ rec.snap.hi <= endSeq
                 /\ \A u \in rec.snap.lo..(endSeq - 1) : ToCome(c, u)'
  PROVE  DeliveryInv'
  <1>1. \A d \in Conns : d = c
    BY DEF Alone
  <1>2. endSeq' = endSeq /\ RoomLeft'
    BY DEF outVars, DeliveryInv, RoomLeft
  <1>3. conn'[c] = rec
    BY ConnFacts
  <1>4. FlushHolds(c)'
    BY <1>3 DEF FlushHolds
  <1>5. ASSUME ~closed', IsOpen(c)' PROVE Served(c)'
    <2>1. PICK lo, hi, e : lo = rec.snap.lo /\ hi = rec.snap.hi /\ e = endSeq
      OBVIOUS
    <2>2. /\ rec.pc \notin {"detach", "gone"} /\ ~rec.last
          /\ rec.pc \in HasSnap \cup {"snapshot"} => c \in Attached'
          /\ rec.pc = "flushTo" => c \in rec.to
          /\ rec.pc \in HasSnap => hi <= e /\ \A u \in lo..(e - 1) : ToCome(c, u)'
      BY <1>5, <2>1
    <2>3. lo = conn'[c].snap.lo /\ hi = conn'[c].snap.hi /\ e = endSeq'
      BY <1>2, <1>3, <2>1
    <2> QED
      BY <1>3, <2>2, <2>3 DEF Served
  <1> QED
    BY <1>1, <1>2, <1>4, <1>5, Zenon DEF DeliveryInv

\* What is known of a websocket that is open.
LEMMA ServedFacts ==
  ASSUME SessionInv, DeliveryInv, NEW c \in Conns, NEW old, old = conn[c]
  PROVE  /\ old.pc \notin {"flush", "flushTo"} => old.todo = <<>>
         /\ old.pc = "new" => ~old.last
         /\ ~closed /\ IsOpen(c) =>
             /\ old.pc \notin {"new", "detach", "gone"} /\ ~old.last
             /\ old.pc \in HasSnap \cup {"snapshot"} => c \in Attached
             /\ old.pc = "flushTo" => c \in old.to
             /\ old.pc \in HasSnap =>
                 /\ old.snap.hi <= endSeq
                 /\ \A u \in old.snap.lo..(endSeq - 1) : ToCome(c, u)
  <1>1. FlushHolds(c) /\ (~closed /\ IsOpen(c) => Served(c))
    BY DEF DeliveryInv
  <1> QED
    BY <1>1 DEF FlushHolds, Served

LEMMA DeliveryConnect ==
  ASSUME Alone, SessionInv, DeliveryInv, NEW t \in Clients, NEW c \in Conns, Connect(t, c)
  PROVE  DeliveryInv'
  <1>1. PICK old \in ConnType : old = conn[c] /\ old.pc = "new"
    BY ConnFacts DEF Connect, At
  <1>r. PICK rec \in ConnType : rec = [old EXCEPT !.pc = "pause"]
    BY DEF ConnType, ConnPC
  <1>2. rec.pc = "pause" /\ rec.todo = old.todo /\ rec.last = old.last
    BY <1>r DEF ConnType
  <1>3. conn' = [conn EXCEPT ![c] = rec]
    BY <1>r, <1>1, <1>2 DEF Connect, To
  <1>4. old.todo = <<>> /\ ~old.last
    BY <1>1, ServedFacts
  <1>5. rec.pc \notin HasSnap \cup {"snapshot", "detach", "gone", "new", "flush", "flushTo"}
    BY <1>2 DEF HasSnap
  <1>6. UNCHANGED outVars /\ closed' = closed
    BY DEF Connect, exitVars
  <1> QED
    BY <1>2, <1>3, <1>4, <1>5, <1>6, ConnServed

LEMMA DeliveryPause ==
  ASSUME Alone, SessionInv, DeliveryInv, NEW c \in Conns, PauseBroadcast(c)
  PROVE  DeliveryInv'
  <1>1. PICK old \in ConnType : old = conn[c] /\ old.pc = "pause"
    BY ConnFacts DEF PauseBroadcast, At
  <1>r. PICK rec \in ConnType : rec = [old EXCEPT !.pc = "attach"]
    BY DEF ConnType, ConnPC
  <1>2. rec.pc = "attach" /\ rec.todo = old.todo /\ rec.last = old.last
    BY <1>r DEF ConnType
  <1>3. conn' = [conn EXCEPT ![c] = rec]
    BY <1>r, <1>1, <1>2 DEF PauseBroadcast, To
  <1>4. UNCHANGED outVars /\ closed' = closed /\ (IsOpen(c)' => IsOpen(c))
    BY DEF PauseBroadcast, exitVars, clientVars, IsOpen
  <1>5. old.todo = <<>> /\ (~closed /\ IsOpen(c)' => ~old.last)
    BY <1>1, <1>4, ServedFacts
  <1>6. rec.pc \notin HasSnap \cup {"snapshot", "detach", "gone", "new", "flush", "flushTo"}
    BY <1>2 DEF HasSnap
  <1> QED
    BY <1>2, <1>3, <1>4, <1>5, <1>6, ConnServed

LEMMA DeliveryAttach ==
  ASSUME Alone, SessionInv, DeliveryInv, NEW c \in Conns, Attach(c)
  PROVE  DeliveryInv'
  <1>1. PICK old \in ConnType : old = conn[c] /\ old.pc = "attach"
    BY ConnFacts DEF Attach, At
  <1>2. PICK role \in {"writer", "reader"} : role = IF writer = NoConn THEN "writer" ELSE "reader"
    OBVIOUS
  <1>r. PICK rec \in ConnType : rec = [old EXCEPT !.pc = "snapshot", !.role = role]
    BY DEF ConnType, ConnPC
  <1>3. rec.pc = "snapshot" /\ rec.todo = old.todo /\ rec.last = old.last
    BY <1>r DEF ConnType
  <1>4. conn' = [conn EXCEPT ![c] = rec]
    BY <1>r, <1>1, <1>2, <1>3 DEF Attach
  <1>5. UNCHANGED outVars /\ closed' = closed /\ (IsOpen(c)' => IsOpen(c))
    BY DEF Attach, exitVars, clientVars, IsOpen
  <1>6. old.todo = <<>> /\ (~closed /\ IsOpen(c)' => ~old.last)
    BY <1>1, <1>5, ServedFacts
  <1>7. c \in Attached'
    BY ConnsAssumption DEF Attach, Attached
  <1>8. rec.pc \notin HasSnap \cup {"detach", "gone", "new", "flush", "flushTo"}
    BY <1>3 DEF HasSnap
  <1> QED
    BY <1>3, <1>4, <1>5, <1>6, <1>7, <1>8, ConnServed

\* Everything that was printed before is in the dump or in front of it.
LEMMA DeliverySnapshot ==
  ASSUME Alone, SessionInv, DeliveryInv, NEW c \in Conns, Snapshot(c) \/ Replay(c)
  PROVE  DeliveryInv'
  <1>1. PICK old \in ConnType : old = conn[c] /\ old.pc \in {"snapshot", "pump"}
    BY ConnFacts DEF Snapshot, Replay, At
  <1>2. PICK d \in Frame : d = Dump /\ d.hi = endSeq
    BY ConnFacts, DumpCarries DEF Dump
  <1>3. PICK pc \in {"ready", "replay"} : conn' = [conn EXCEPT ![c].pc = pc, ![c].snap = d]
    BY <1>2 DEF Snapshot, Replay
  <1>r. PICK rec \in ConnType : rec = [old EXCEPT !.pc = pc, !.snap = d]
    BY DEF ConnType, ConnPC
  <1>4. rec.pc = pc /\ rec.snap = d /\ rec.todo = old.todo /\ rec.last = old.last
    BY <1>r DEF ConnType
  <1>5. conn' = [conn EXCEPT ![c] = rec] /\ conn'[c] = rec
    BY <1>r, <1>1, <1>3, <1>4, ConnFacts
  <1>6. /\ UNCHANGED outVars /\ closed' = closed /\ (IsOpen(c)' => IsOpen(c))
        /\ readers' = readers /\ writer' = writer
    BY DEF Snapshot, Replay, exitVars, clientVars, attachVars, IsOpen
  <1>7. /\ old.todo = <<>>
        /\ ~closed /\ IsOpen(c)' => ~old.last /\ c \in Attached
    BY <1>1, <1>6, ServedFacts DEF HasSnap
  <1>8. Attached' = Attached
    BY <1>6 DEF Attached
  <1>9. \A u \in d.lo..(endSeq - 1) : ToCome(c, u)'
    <2>1. PICK lo \in Nat, e \in Nat : lo = d.lo /\ e = endSeq
      BY OutputFacts, UnitFacts DEF Frame
    <2>2. \A u \in lo..(e - 1) : u < e
      OBVIOUS
    <2>3. ASSUME NEW u, u < e PROVE ToCome(c, u)'
      <3>1. conn'[c].pc \in {"ready", "replay"} /\ u < conn'[c].snap.hi
        BY <1>2, <1>4, <1>5, <2>1, <2>3
      <3> QED
        BY <3>1 DEF ToCome
    <2> QED
      BY <2>1, <2>2, <2>3
  <1>10. endSeq <= endSeq
    BY OutputFacts
  <1>11. rec.pc \notin {"detach", "gone", "new", "flush", "flushTo"}
    BY <1>4
  <1> QED
    BY <1>2, <1>4, <1>5, <1>6, <1>7, <1>8, <1>9, <1>10, <1>11, ConnServed
\* The snapshot arrives at an open websocket, and goes on being what it waits for.
LEMMA SnapshotArrives ==
  ASSUME Alone, SessionInv, DeliveryInv, NEW c \in Conns, NEW old \in ConnType, old = conn[c],
         old.pc \in {"ready", "replay"},
         IF old.snap.lo < old.snap.hi THEN Deliver({c}, old.snap) ELSE UNCHANGED <<view, got>>,
         NEW rec \in ConnType, conn' = [conn EXCEPT ![c] = rec], rec.pc \in {"resume", "pump"},
         rec.todo = old.todo, rec.last = old.last, rec.snap = old.snap,
         UNCHANGED outVars, UNCHANGED pauseVars, UNCHANGED attachVars, open' = open,
         closed' = closed, fan' = fan
  PROVE  DeliveryInv'
  <1>1. /\ old.todo = <<>>
        /\ ~closed /\ IsOpen(c) =>
            /\ ~old.last /\ c \in Attached /\ old.snap.hi <= endSeq
            /\ \A u \in old.snap.lo..(endSeq - 1) : ToCome(c, u)
    <2>1. old.pc \in HasSnap /\ old.pc \notin {"flush", "flushTo"}
      BY DEF HasSnap
    <2> QED
      BY <2>1, ServedFacts
  <1>2. (IsOpen(c)' <=> IsOpen(c)) /\ Attached' = Attached
    BY DEF IsOpen, Attached, attachVars
  <1>3. PICK f \in Frame : f = old.snap
    BY DEF ConnType
  <1>4. PICK lo \in Nat, hi \in Nat : lo = f.lo /\ hi = f.hi
    BY UnitFacts DEF Frame
  <1>5. lo < hi => Deliver({c}, f)
    BY <1>3, <1>4
  <1>6. /\ got[c] \subseteq got'[c]
        /\ IsOpen(c) /\ lo < hi => lo..(hi - 1) \subseteq got'[c]
    <2>1. CASE lo < hi
      <3>1. Deliver({c}, f)
        BY <1>5, <2>1
      <3> QED
        BY <1>4, <3>1, DeliverReaches
    <2>2. CASE ~(lo < hi)
      BY <1>3, <1>4, <2>2
    <2> QED
      BY <2>1, <2>2
  <1>7. conn'[c] = rec
    BY ConnFacts
  <1>8. ASSUME IsOpen(c), NEW u \in lo..(endSeq - 1), ToCome(c, u) PROVE ToCome(c, u)'
    <2>1. u \in Nat /\ lo <= u
      BY <1>4, OutputFacts
    <2>2. UnderWay(c, u) => UnderWay(c, u)'
      BY <1>7 DEF UnderWay, FanSends, outVars, pauseVars
    <2>3. CASE u < hi
      <3>1. u \in lo..(hi - 1) /\ lo < hi
        BY <1>4, <2>1, <2>3
      <3> QED
        BY <1>6, <1>8, <3>1 DEF ToCome
    <2>4. CASE ~(u < hi)
      BY <1>3, <1>4, <1>6, <1>8, <2>2, <2>4 DEF ToCome
    <2> QED
      BY <2>3, <2>4
  <1>9. rec.pc \notin {"new", "detach", "gone", "flush", "flushTo"}
    OBVIOUS
  <1>10. ~closed /\ IsOpen(c)' =>
             /\ ~rec.last /\ c \in Attached' /\ rec.snap.hi <= endSeq
             /\ \A u \in rec.snap.lo..(endSeq - 1) : ToCome(c, u)'
    <2>1. rec.snap.lo = lo /\ rec.snap.hi = hi /\ old.snap.lo = lo /\ old.snap.hi = hi
      BY <1>3, <1>4
    <2> QED
      BY <1>1, <1>2, <1>8, <2>1
  <1> QED
    BY <1>1, <1>9, <1>10, ConnServed

\* The last thing that happens to a websocket that broke.
LEMMA BrokenUnserved ==
  ASSUME Alone, SessionInv, DeliveryInv, NEW c \in Conns, NEW rec \in ConnType,
         conn' = [conn EXCEPT ![c] = rec], UNCHANGED outVars, closed' = closed,
         rec.pc \in {"resume", "gone"}, rec.todo = <<>>,
         closed \/ ~IsOpen(c)'
  PROVE  DeliveryInv'
  BY ConnServed

LEMMA BreaksLast ==
  ASSUME Alone, SessionInv, DeliveryInv, NEW c \in Conns, conn[c].pc \in {"ready", "pump"},
         ~IsOpen(c), open' = open, UNCHANGED outVars, closed' = closed,
         conn' = [conn EXCEPT ![c].pc = "resume", ![c].last = TRUE]
  PROVE  DeliveryInv'
  <1>1. PICK old \in ConnType : old = conn[c]
    BY ConnFacts
  <1>r. PICK rec \in ConnType : rec = [old EXCEPT !.pc = "resume", !.last = TRUE]
    BY DEF ConnType, ConnPC
  <1>2. rec.pc = "resume" /\ rec.todo = old.todo
    BY <1>r DEF ConnType
  <1>3. conn' = [conn EXCEPT ![c] = rec]
    BY <1>1, <1>r
  <1>4. old.todo = <<>>
    BY <1>1, ServedFacts
  <1>5. ~IsOpen(c)'
    BY DEF IsOpen
  <1> QED
    BY <1>2, <1>3, <1>4, <1>5, BrokenUnserved

LEMMA DeliveryReady ==
  ASSUME Alone, SessionInv, DeliveryInv, NEW c \in Conns, SendReady(c)
  PROVE  DeliveryInv'
  <1>1. PICK old \in ConnType : old = conn[c] /\ old.pc = "ready"
    BY ConnFacts DEF SendReady, At
  <1>2. /\ UNCHANGED outVars /\ UNCHANGED pauseVars /\ UNCHANGED attachVars
        /\ open' = open /\ closed' = closed /\ fan' = fan
    BY DEF SendReady, exitVars
  <1>3. CASE /\ ~IsOpen(c)
             /\ conn' = [conn EXCEPT ![c].pc = "resume", ![c].last = TRUE]
    BY <1>1, <1>2, <1>3, BreaksLast
  <1>4. CASE /\ IF conn[c].snap.lo < conn[c].snap.hi THEN Deliver({c}, conn[c].snap)
                ELSE UNCHANGED <<view, got>>
             /\ To(c, "resume")
    <2>1. PICK rec \in ConnType : rec = [old EXCEPT !.pc = "resume"]
      BY DEF ConnType, ConnPC
    <2>2. rec.pc = "resume" /\ rec.todo = old.todo /\ rec.last = old.last /\ rec.snap = old.snap
      BY <2>1 DEF ConnType
    <2>3. conn' = [conn EXCEPT ![c] = rec]
      BY <1>1, <1>4, <2>1 DEF To
    <2>4. IF old.snap.lo < old.snap.hi THEN Deliver({c}, old.snap) ELSE UNCHANGED <<view, got>>
      BY <1>1, <1>4
    <2> QED
      BY <1>1, <1>2, <2>2, <2>3, <2>4, SnapshotArrives
  <1> QED
    BY <1>3, <1>4 DEF SendReady

LEMMA DeliveryReplay ==
  ASSUME Alone, SessionInv, DeliveryInv, NEW c \in Conns, ReplaySend(c)
  PROVE  DeliveryInv'
  <1>1. PICK old \in ConnType : old = conn[c] /\ old.pc = "replay"
    BY ConnFacts DEF ReplaySend, At
  <1>2. /\ UNCHANGED outVars /\ UNCHANGED pauseVars /\ UNCHANGED attachVars
        /\ open' = open /\ closed' = closed /\ fan' = fan
    BY DEF ReplaySend, exitVars
  <1>3. PICK rec \in ConnType : rec = [old EXCEPT !.pc = "pump"]
    BY DEF ConnType, ConnPC
  <1>4. rec.pc = "pump" /\ rec.todo = old.todo /\ rec.last = old.last /\ rec.snap = old.snap
    BY <1>3 DEF ConnType
  <1>5. conn' = [conn EXCEPT ![c] = rec]
    BY <1>1, <1>3 DEF ReplaySend, To
  <1>6. IF old.snap.lo < old.snap.hi THEN Deliver({c}, old.snap) ELSE UNCHANGED <<view, got>>
    BY <1>1 DEF ReplaySend
  <1> QED
    BY <1>1, <1>2, <1>4, <1>5, <1>6, SnapshotArrives

LEMMA DeliveryEnds ==
  ASSUME Alone, SessionInv, DeliveryInv, NEW c \in Conns, PumpEnds(c) \/ Detach(c)
  PROVE  DeliveryInv'
  <1>1. CASE PumpEnds(c)
    <2>1. conn[c].pc = "pump" /\ ~IsOpen(c) /\ open' = open /\ UNCHANGED outVars /\ closed' = closed
      BY <1>1 DEF PumpEnds, At, clientVars, exitVars
    <2> QED
      BY <1>1, <2>1, BreaksLast DEF PumpEnds
  <1>2. CASE Detach(c)
    <2>1. PICK rec \in ConnType : rec = [NewConn EXCEPT !.pc = "gone"] /\ rec.pc = "gone"
      BY GoneConn
    <2>2. rec.todo = <<>>
      BY <2>1 DEF NewConn
    <2>3. conn' = [conn EXCEPT ![c] = rec] /\ conn[c].pc = "detach"
      BY <1>2, <2>1 DEF Detach, At
    <2>4. closed \/ ~IsOpen(c)
      BY <2>3, ServedFacts
    <2>5. open' = open /\ UNCHANGED outVars /\ closed' = closed
      BY <1>2 DEF Detach, clientVars, exitVars
    <2>6. closed \/ ~IsOpen(c)'
      BY <2>4, <2>5 DEF IsOpen
    <2> QED
      BY <2>1, <2>2, <2>3, <2>5, <2>6, BrokenUnserved
  <1> QED
    BY <1>1, <1>2

\* Whoever resumes sends what was kept for it: nothing is kept while nobody
\* is paused, and one websocket's resume ends the pause.
LEMMA DeliveryResume ==
  ASSUME Alone, SessionInv, DeliveryInv, NEW c \in Conns, ResumeBroadcast(c)
  PROVE  DeliveryInv'
  <1>1. PICK old \in ConnType : old = conn[c] /\ old.pc = "resume"
    BY ConnFacts DEF ResumeBroadcast, At
  <1>2. PICK todo \in Seq(Units) : todo = pending
    BY OutputFacts
  <1>3. pauseCount > 0 \/ pending = <<>>
    BY DEF SessionInv, PausesHeld
  <1>4. conn' = [conn EXCEPT ![c].pc = "flush", ![c].todo = todo]
    BY <1>2, <1>3 DEF ResumeBroadcast
  <1>r. PICK rec \in ConnType : rec = [old EXCEPT !.pc = "flush", !.todo = todo]
    BY DEF ConnType, ConnPC
  <1>5. rec.pc = "flush" /\ rec.todo = todo /\ rec.last = old.last /\ rec.snap = old.snap
    BY <1>r DEF ConnType
  <1>6. conn' = [conn EXCEPT ![c] = rec] /\ conn'[c] = rec
    BY <1>1, <1>4, <1>r, ConnFacts
  <1>7. /\ UNCHANGED outVars /\ UNCHANGED attachVars /\ open' = open /\ closed' = closed
        /\ fan' = fan /\ got' = got /\ hand' = hand /\ fanout' = fanout
    BY DEF ResumeBroadcast, exitVars, clientVars, outVars
  <1>8. /\ old.todo = <<>>
        /\ ~closed /\ IsOpen(c) =>
            /\ ~old.last /\ c \in Attached /\ old.snap.hi <= endSeq
            /\ \A u \in old.snap.lo..(endSeq - 1) : ToCome(c, u)
    <2>1. old.pc \in HasSnap /\ old.pc \notin {"flush", "flushTo"}
      BY <1>1 DEF HasSnap
    <2> QED
      BY <1>1, <2>1, ServedFacts
  <1>9. (IsOpen(c)' <=> IsOpen(c)) /\ Attached' = Attached
    BY <1>7 DEF IsOpen, Attached, attachVars
  <1>10. pauseCount = 0 => pauseCount' = 0
    BY DEF ResumeBroadcast
  <1>11. ASSUME NEW u, ToCome(c, u) PROVE ToCome(c, u)'
    <2>1. u \in got[c] \/ UnderWay(c, u)
      BY <1>1, <1>11 DEF ToCome
    <2>2. FanSends(c) => FanSends(c)'
      BY <1>7, <1>10 DEF FanSends
    <2>3. Among(u, pending) => Among(u, conn'[c].todo)
      BY <1>2, <1>5, <1>6
    <2>4. ~Among(u, conn[c].todo)
      BY <1>1, <1>8, AmongNone
    <2>5. UnderWay(c, u) => UnderWay(c, u)'
      BY <1>7, <2>2, <2>3, <2>4 DEF UnderWay
    <2> QED
      BY <1>7, <2>1, <2>5 DEF ToCome
  <1>12. ~closed /\ IsOpen(c)' =>
             /\ ~rec.last /\ c \in Attached' /\ rec.snap.hi <= endSeq
             /\ \A u \in rec.snap.lo..(endSeq - 1) : ToCome(c, u)'
    BY <1>5, <1>8, <1>9, <1>11
  <1> QED
    BY <1>5, <1>6, <1>7, <1>12, ConnServed
LEMMA DeliveryFlush ==
  ASSUME Alone, SessionInv, DeliveryInv, NEW c \in Conns, FlushNext(c)
  PROVE  DeliveryInv'
  <1>1. PICK old \in ConnType : old = conn[c] /\ old.pc = "flush"
    BY ConnFacts DEF FlushNext, At
  <1>2. PICK S \in SUBSET Conns : S = IF old.todo = <<>> THEN {} ELSE Attached
    BY FanFacts
  <1>3. PICK pc \in ConnPC : pc = IF old.todo # <<>> THEN "flushTo"
                                  ELSE IF old.last THEN "detach" ELSE "pump"
    BY DEF ConnPC
  <1>r. PICK rec \in ConnType : rec = [old EXCEPT !.to = S, !.pc = pc]
    BY DEF ConnType
  <1>4. /\ rec.pc = pc /\ rec.to = S
        /\ rec.todo = old.todo /\ rec.last = old.last /\ rec.snap = old.snap
    BY <1>r DEF ConnType
  <1>5. conn' = [conn EXCEPT ![c] = rec] /\ conn'[c] = rec
    BY <1>r, <1>1, <1>2, <1>3, ConnFacts DEF FlushNext
  <1>6. /\ UNCHANGED outVars /\ UNCHANGED attachVars /\ UNCHANGED pauseVars /\ open' = open
        /\ closed' = closed /\ fan' = fan /\ got' = got
    BY DEF FlushNext, exitVars, clientVars
  <1>7. ~closed /\ IsOpen(c) =>
            /\ ~old.last /\ c \in Attached /\ old.snap.hi <= endSeq
            /\ \A u \in old.snap.lo..(endSeq - 1) : ToCome(c, u)
    <2>1. old.pc \in HasSnap
      BY <1>1 DEF HasSnap
    <2> QED
      BY <1>1, <2>1, ServedFacts
  <1>8. (IsOpen(c)' <=> IsOpen(c)) /\ Attached' = Attached
    BY <1>6 DEF IsOpen, Attached, attachVars
  <1>9. ASSUME NEW u, ToCome(c, u) PROVE ToCome(c, u)'
    <2>1. u \in got[c] \/ UnderWay(c, u)
      BY <1>1, <1>9 DEF ToCome
    <2>2. Among(u, conn[c].todo) => Among(u, conn'[c].todo)
      BY <1>1, <1>4, <1>5
    <2>3. UnderWay(c, u) => UnderWay(c, u)'
      BY <1>6, <2>2 DEF UnderWay, FanSends, outVars, pauseVars
    <2> QED
      BY <1>6, <2>1, <2>3 DEF ToCome
  <1>10. ~closed /\ IsOpen(c)' =>
             /\ ~rec.last /\ c \in Attached' /\ rec.snap.hi <= endSeq
             /\ \A u \in rec.snap.lo..(endSeq - 1) : ToCome(c, u)'
    BY <1>4, <1>7, <1>8, <1>9
  <1>11. /\ rec.pc \notin {"flush", "flushTo"} => rec.todo = <<>>
         /\ rec.pc \notin {"new", "gone"}
         /\ ~rec.last => rec.pc # "detach"
         /\ rec.pc = "flushTo" => rec.to = Attached
    BY <1>2, <1>3, <1>4
  <1> QED
    BY <1>5, <1>6, <1>8, <1>10, <1>11, ConnServed

\* A kept chunk is sent to those attached: this websocket is among them.
LEMMA DeliveryFlushed ==
  ASSUME Alone, SessionInv, DeliveryInv, NEW c \in Conns, FlushWrite(c)
  PROVE  DeliveryInv'
  <1>1. PICK old \in ConnType : old = conn[c] /\ old.pc = "flushTo" /\ old.todo # <<>>
    BY ConnFacts DEF FlushWrite, At
  <1>2. old.todo \in Seq(Units)
    BY DEF ConnType
  <1>3. PICK u \in Units, rest \in Seq(Units) :
            /\ u = Head(old.todo) /\ rest = Tail(old.todo)
            /\ \A x : Among(x, old.todo) => x = u \/ Among(x, rest)
    BY <1>1, <1>2, AmongShrinks
  <1>4. Broadcast(old.to, ChunkFrame(u))
    BY <1>1, <1>3 DEF FlushWrite
  <1>r. PICK rec \in ConnType : rec = [old EXCEPT !.pc = "flush", !.todo = rest, !.to = {}]
    BY DEF ConnType, ConnPC
  <1>5. rec.pc = "flush" /\ rec.todo = rest /\ rec.last = old.last /\ rec.snap = old.snap
    BY <1>r DEF ConnType
  <1>6. conn' = [conn EXCEPT ![c] = rec] /\ conn'[c] = rec
    BY <1>r, <1>1, <1>3, ConnFacts DEF FlushWrite
  <1>7. UNCHANGED outVars /\ UNCHANGED pauseVars /\ closed' = closed /\ fan' = fan
    BY DEF FlushWrite, exitVars
  <1>8. ~closed /\ IsOpen(c) =>
            /\ ~old.last /\ c \in Attached /\ c \in old.to /\ old.snap.hi <= endSeq
            /\ \A x \in old.snap.lo..(endSeq - 1) : ToCome(c, x)
    <2>1. old.pc \in HasSnap
      BY <1>1 DEF HasSnap
    <2> QED
      BY <1>1, <2>1, ServedFacts
  <1>9. /\ got[c] \subseteq got'[c] /\ open' = open
        /\ IsOpen(c) /\ c \in old.to => u \in got'[c]
        /\ IsOpen(c) /\ c \in Attached => c \in Attached'
    BY <1>4, BroadcastReaches
  <1>10. IsOpen(c)' <=> IsOpen(c)
    BY <1>9 DEF IsOpen
  <1>11. ASSUME IsOpen(c), c \in old.to, NEW x, ToCome(c, x) PROVE ToCome(c, x)'
    <2>1. x \in got[c] \/ UnderWay(c, x)
      BY <1>1, <1>11 DEF ToCome
    <2>2. Among(x, conn[c].todo) => Among(x, conn'[c].todo) \/ x \in got'[c]
      BY <1>1, <1>3, <1>5, <1>6, <1>9, <1>11
    <2>3. UnderWay(c, x) => UnderWay(c, x)' \/ x \in got'[c]
      BY <1>7, <2>2 DEF UnderWay, FanSends, outVars, pauseVars
    <2> QED
      BY <1>9, <2>1, <2>3 DEF ToCome
  <1>12. ~closed /\ IsOpen(c)' =>
             /\ ~rec.last /\ c \in Attached' /\ rec.snap.hi <= endSeq
             /\ \A x \in rec.snap.lo..(endSeq - 1) : ToCome(c, x)'
    BY <1>5, <1>8, <1>9, <1>10, <1>11
  <1> QED
    BY <1>5, <1>6, <1>7, <1>12, ConnServed

LEMMA DeliveryInit == Init => DeliveryInv
  <1> SUFFICES ASSUME Init PROVE DeliveryInv
    OBVIOUS
  <1>1. RoomLeft
    BY UnitFacts DEF Init, RoomLeft
  <1>2. \A c \in Conns : conn[c] = NewConn
    BY Zenon DEF Init
  <1>3. NewConn.todo = <<>> /\ ~NewConn.last
    BY DEF NewConn
  <1>4. \A c \in Conns : FlushHolds(c)
    BY <1>2, <1>3, Zenon DEF FlushHolds
  <1>5. \A c \in Conns : ~IsOpen(c)
    BY ConnsAssumption DEF Init, IsOpen
  <1> QED
    BY <1>1, <1>4, <1>5 DEF DeliveryInv

LEMMA DeliveryNext ==
  ASSUME Alone, FanCap >= MaxOutput
  PROVE  SessionInv /\ DeliveryInv /\ [Next]_vars => DeliveryInv'
  <1> SUFFICES ASSUME SessionInv, DeliveryInv, [Next]_vars PROVE DeliveryInv'
    OBVIOUS
  <1>1. CASE Read \/ Send
    BY <1>1, DeliveryRead, DeliverySend
  <1>2. CASE Fanning
    BY <1>2, DeliveryTake, DeliveryCheck, DeliveryTargets, DeliveryWrite DEF Fanning
  <1>3. CASE Waiting \/ Kill \/ ShellExits \/ UNCHANGED vars
    BY <1>3, DeliveryOthers DEF Waiting
  <1>4. CASE \E t \in Clients : Disconnect(t) \/ \E c \in Conns : Connect(t, c)
    BY <1>4, DeliveryOthers, DeliveryConnect
  <1>5. ASSUME NEW c \in Conns, Attaching(c) PROVE DeliveryInv'
    BY <1>5, DeliveryPause, DeliveryAttach, DeliverySnapshot, DeliveryReady, DeliveryResume,
       DeliveryFlush, DeliveryFlushed, DeliveryReplay, DeliveryEnds DEF Attaching
  <1>6. ASSUME NEW c \in Conns, Replay(c) PROVE DeliveryInv'
    BY <1>6, DeliverySnapshot
  <1> QED
    BY <1>1, <1>2, <1>3, <1>4, <1>5, <1>6 DEF Next

\* The snapshot, the pending buffer, its flush and the broadcast together
\* leave no gap: once the session is at rest, everything from the start of
\* its snapshot on was written to the session's websocket, however much the
\* shell printed while it was attaching, replaying or breaking, whenever
\* AttachAndPump paused and resumed the broadcast, and whatever dump an
\* earlier process had left. The fanout channel has room for the output: the
\* send of readLoop drops what a full one cannot take.
THEOREM EverythingIsSent ==
  ASSUME \A c, d \in Conns : c = d, FanCap >= MaxOutput
  PROVE  Spec => []NothingUnsent
  <1>1. Alone
    BY DEF Alone
  <1>2. SessionInv /\ DeliveryInv /\ [Next]_vars => DeliveryInv'
    BY <1>1, DeliveryNext
  <1>3. SessionInv /\ DeliveryInv => NothingUnsent
    <2> SUFFICES ASSUME SessionInv, DeliveryInv, Quiet,
                        NEW c \in Conns, Connected(c), NEW u \in conn[c].snap.lo..(endSeq - 1)
                 PROVE  u \in got[c]
      BY Zenon DEF NothingUnsent
    <2>1. conn[c].pc = "pump" /\ IsOpen(c) /\ ~closed /\ hand = NoUnit /\ fanout = <<>> /\ fan.pc = "idle"
      BY DEF Quiet, Connected, At
    <2>2. conn[c].todo = <<>> /\ ToCome(c, u)
      <3>1. conn[c].pc \in HasSnap
        BY <2>1 DEF HasSnap
      <3> QED
        BY <2>1, <3>1, ServedFacts
    <2>3. pending = <<>>
      <3>1. \A d \in Conns : conn[d].pc \in {"new", "pump", "gone"}
        BY DEF Quiet
      <3>2. InAttach = {}
        BY <3>1 DEF InAttach
      <3>3. pauseCount \in Nat /\ pauseCount <= Cardinality(InAttach)
        BY DEF SessionInv, TypeOK, PausesHeld
      <3>4. pauseCount = 0
        BY <3>2, <3>3, FS_EmptySet
      <3> QED
        BY <3>4 DEF SessionInv, PausesHeld
    <2>4. hand # u
      <3>1. conn[c].snap.lo \in Nat
        BY ConnFacts, UnitFacts DEF Frame
      <3>2. u \in Nat
        BY <3>1, OutputFacts
      <3> QED
        BY <2>1, <3>2, UnitFacts
    <2>5. ~UnderWay(c, u)
      BY <2>1, <2>2, <2>3, <2>4, AmongNone DEF UnderWay, FanSends
    <2> QED
      BY <2>1, <2>2, <2>5 DEF ToCome
  <1> QED
    BY <1>2, <1>3, DeliveryInit, SessionHolds, PTL DEF Spec
=============================================================================
