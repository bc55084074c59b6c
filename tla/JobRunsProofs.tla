---------------------------- MODULE JobRunsProofs ----------------------------
(***************************************************************************)
(* A run is held by one goroutine at most, its command is started once at  *)
(* most and its result is final, no run is forgotten without a fault and   *)
(* a follower receives the output column and nothing else: for any crons,  *)
(* workers, queue capacity, requests and runs, with any statement failing, *)
(* plugins refusing, SIGTERM and restarts. The scheduler starts what is    *)
(* due and nothing else, in any calendar.                                  *)
(***************************************************************************)
EXTENDS JobRuns, FiniteSetTheorems, SequenceTheorems, TLAPS

-----------------------------------------------------------------------------
(* The inductive invariant.                                                *)

\* The scheduler's record.
SchedShape ==
    /\ sched = [pc |-> sched.pc, prev |-> sched.prev, now |-> sched.now, todo |-> sched.todo, id |-> sched.id]
    /\ sched.id \in Ids \cup {NoRun}
    /\ \A c \in sched.todo : c[2] \in BOOLEAN

\* Whoever is at work names a run that exists, whoever is not names none.
Tied ==
    /\ \A r \in Requests : IF req[r].pc = "idle" THEN req[r].id = NoRun ELSE Exists(req[r].id)
    /\ IF sched.pc = "enqueue" THEN Exists(sched.id) ELSE sched.id = NoRun
    /\ \A w \in Workers : IF worker[w].pc \in {"idle", "gone"} THEN worker[w].id = NoRun ELSE Exists(worker[w].id)

\* A run that is held exists and has no result.
HeldUnfinished == \A id \in Ids : Holders(id) # {} => Unfinished(id)

\* A run has one holder at most.
HeldAlone == \A id \in Ids : \A g, h \in Holders(id) : g = h

\* No worker is past the start of the run's command.
NotBegun(id) == \A w \in Workers : worker[w].id = id => worker[w].pc \notin {"run", "done"}

\* The command was not started as long as the run waits.
StartedOnce ==
    /\ started \in [Ids -> {0, 1}]
    /\ \A id \in Ids : ~Exists(id) \/ (Holders(id) # {} /\ NotBegun(id)) => started[id] = 0

JobsInv == TypeOK /\ SchedShape /\ Tied /\ HeldUnfinished /\ HeldAlone /\ StartedOnce

-----------------------------------------------------------------------------
(* Holders.                                                                *)

\* h is a place that holds the run: the members of Holders(id), one by one.
IsHolder(h, id) ==
    \/ \E r \in Requests : h = <<"request", r>> /\ req[r].id = id
    \/ h = <<"scheduler", 1>> /\ sched.id = id
    \/ \E p \in Pools : \E i \in DOMAIN queue[p] : h = <<p, i>> /\ queue[p][i] = id
    \/ \E p \in Pools : h = <<"overflow", p>> /\ id \in overflow[p]
    \/ \E w \in Workers : h = <<"worker", w>> /\ worker[w].id = id

LEMMA HoldersAre ==
  ASSUME NEW id
  PROVE  /\ \A h : h \in Holders(id) <=> IsHolder(h, id)
         /\ \A h : h \in Holders(id)' <=> IsHolder(h, id)'
  <1> DEFINE HeldA(rq) == {<<"request", r>> : r \in {q \in Requests : rq[q].id = id}}
             HeldB(sc) == IF sc.id = id THEN {<<"scheduler", 1>>} ELSE {}
             HeldC(qu) == UNION {{<<p, i>> : i \in {j \in DOMAIN qu[p] : qu[p][j] = id}} : p \in Pools}
             HeldD(ov) == {<<"overflow", p>> : p \in {q \in Pools : id \in ov[q]}}
             HeldE(wk) == {<<"worker", w>> : w \in {v \in Workers : wk[v].id = id}}
  <1>1. /\ Holders(id) = HeldA(req) \cup HeldB(sched) \cup HeldC(queue) \cup HeldD(overflow) \cup HeldE(worker)
        /\ Holders(id)' = HeldA(req') \cup HeldB(sched') \cup HeldC(queue') \cup HeldD(overflow') \cup HeldE(worker')
    BY DEF Holders
  <1>2. \A h, rq : h \in HeldA(rq) <=> \E r \in Requests : h = <<"request", r>> /\ rq[r].id = id
    OBVIOUS
  <1>3. \A h, sc : h \in HeldB(sc) <=> h = <<"scheduler", 1>> /\ sc.id = id
    OBVIOUS
  <1>4. \A h, qu : h \in HeldC(qu) <=> \E p \in Pools : \E i \in DOMAIN qu[p] : h = <<p, i>> /\ qu[p][i] = id
    OBVIOUS
  <1>5. \A h, ov : h \in HeldD(ov) <=> \E p \in Pools : h = <<"overflow", p>> /\ id \in ov[p]
    OBVIOUS
  <1>6. \A h, wk : h \in HeldE(wk) <=> \E w \in Workers : h = <<"worker", w>> /\ wk[w].id = id
    OBVIOUS
  <1> HIDE DEF HeldA, HeldB, HeldC, HeldD, HeldE
  <1> QED
    BY <1>1, <1>2, <1>3, <1>4, <1>5, <1>6 DEF IsHolder

\* A step that gives the run to nobody.
LEMMA FewerHolders ==
  ASSUME NEW id,
         \A r \in Requests : req'[r].id = id => req[r].id = id,
         sched'.id = id => sched.id = id,
         \A p \in Pools : queue'[p] = queue[p] \/ queue'[p] = <<>>,
         \A p \in Pools : id \in overflow'[p] => id \in overflow[p],
         \A w \in Workers : worker'[w].id = id => worker[w].id = id
  PROVE  Holders(id)' \subseteq Holders(id)
  <1> SUFFICES ASSUME NEW h, IsHolder(h, id)' PROVE IsHolder(h, id)
    BY HoldersAre
  <1>1. CASE \E r \in Requests : h = <<"request", r>> /\ req'[r].id = id
    BY <1>1 DEF IsHolder
  <1>2. CASE h = <<"scheduler", 1>> /\ sched'.id = id
    BY <1>2 DEF IsHolder
  <1>3. CASE \E p \in Pools : \E i \in DOMAIN queue'[p] : h = <<p, i>> /\ queue'[p][i] = id
    BY <1>3 DEF IsHolder
  <1>4. CASE \E p \in Pools : h = <<"overflow", p>> /\ id \in overflow'[p]
    BY <1>4 DEF IsHolder
  <1>5. CASE \E w \in Workers : h = <<"worker", w>> /\ worker'[w].id = id
    BY <1>5 DEF IsHolder
  <1> QED
    BY <1>1, <1>2, <1>3, <1>4, <1>5 DEF IsHolder

\* The members of a queue and of its successors.
LEMMA QueueTypes ==
  ASSUME TypeOK, NEW p \in Pools
  PROVE  /\ queue[p] \in Seq(Ids) /\ Len(queue[p]) \in Nat
         /\ DOMAIN queue[p] = 1..Len(queue[p])
         /\ \A i \in DOMAIN queue[p] : queue[p][i] \in Ids
  <1>1. queue[p] \in Seq(Ids)
    BY DEF TypeOK
  <1> QED
    BY <1>1, LenProperties, ElementOfSeq

\* What is known of the runs.
LEMMA RunTypes ==
  ASSUME TypeOK
  PROVE  /\ runs \in Seq(Run) /\ Len(runs) \in Nat /\ Len(runs) <= MaxRuns
         /\ DOMAIN runs = 1..Len(runs)
         /\ DOMAIN runs \subseteq Ids /\ NoRun \notin Ids
         /\ \A id \in DOMAIN runs : runs[id] \in Run
  <1>1. runs \in Seq(Run) /\ Len(runs) <= MaxRuns
    BY DEF TypeOK
  <1>2. Len(runs) \in Nat /\ DOMAIN runs = 1..Len(runs) /\ \A id \in DOMAIN runs : runs[id] \in Run
    BY <1>1, LenProperties, ElementOfSeq
  <1> QED
    BY <1>1, <1>2, BoundsAssumption DEF Ids, NoRun

\* The step keeps runs and starts nothing; whoever holds a run afterwards is
\* alone and has it from somebody.
LEMMA HandedOn ==
  ASSUME JobsInv, TypeOK', SchedShape', Tied', runs' = runs, started' = started,
         \A id \in Ids : Holders(id)' # {} => Holders(id) # {},
         HeldAlone',
         \A id \in Ids : Holders(id)' # {} /\ NotBegun(id)' => NotBegun(id)
  PROVE  JobsInv'
  <1>1. HeldUnfinished'
    BY DEF JobsInv, HeldUnfinished, Unfinished, Exists, Finished
  <1>2. StartedOnce'
    BY DEF JobsInv, StartedOnce, Exists
  <1> QED
    BY <1>1, <1>2 DEF JobsInv

\* The special case that a run only loses holders.
LEMMA LetGo ==
  ASSUME JobsInv, TypeOK', SchedShape', Tied', runs' = runs, started' = started,
         \A id \in Ids : Holders(id)' \subseteq Holders(id),
         \A id \in Ids : Holders(id)' # {} /\ NotBegun(id)' => NotBegun(id)
  PROVE  JobsInv'
  <1>1. HeldAlone'
    BY DEF JobsInv, HeldAlone
  <1>2. \A id \in Ids : Holders(id)' # {} => Holders(id) # {}
    OBVIOUS
  <1> QED
    BY <1>1, <1>2, HandedOn

-----------------------------------------------------------------------------
(* Steps that hand no run on.                                              *)

LEMMA OutcomesAreBoolean ==
  ASSUME NEW ctx PROVE Outcomes(ctx) \subseteq BOOLEAN
  BY DEF Outcomes

\* A statement's effect on the history variable.
LEMMA CalmStays ==
  ASSUME calm \in BOOLEAN, NEW ok \in BOOLEAN, calm' = (calm /\ ok) PROVE calm' \in BOOLEAN
  <1>1. CASE ok = TRUE
    BY <1>1
  <1>2. CASE ok = FALSE
    BY <1>2
  <1> QED
    BY <1>1, <1>2

\* Runs and holders are left alone.
LEMMA AsideKeeps ==
  ASSUME JobsInv, UNCHANGED <<runs, queue, overflow, worker, req, started>>,
         crons' \in [Crons -> Cron], live' \in BOOLEAN, calm' \in BOOLEAN, crashes' = crashes,
         SchedShape', sched'.id = sched.id,
         sched'.pc \in {"idle", "next"} \/ sched' = sched,
         sched.pc \in {"idle", "next"} \/ sched' = sched,
         sched'.now \in 0..MaxTime
  PROVE  JobsInv'
  <1>1. TypeOK'
    BY DEF JobsInv, TypeOK
  <1>2. Tied'
    BY DEF JobsInv, Tied, Exists
  <1>3. \A id \in Ids : Holders(id)' \subseteq Holders(id)
    BY FewerHolders
  <1>4. \A id \in Ids : NotBegun(id)' => NotBegun(id)
    BY DEF NotBegun
  <1> QED
    BY <1>1, <1>2, <1>3, <1>4, LetGo DEF JobsInv

\* Create, Update and Delete of a cron.
LEMMA CrudKeeps ==
  ASSUME JobsInv, CronCrud PROVE JobsInv'
  <1>1. UNCHANGED <<runs, queue, overflow, worker, req, sched, live, crashes, started, calm>>
    BY DEF CronCrud, CronCreate, CronUpdate, CronDelete
  <1>2. ASSUME NEW k \in Crons, NEW every \in RunEvery, NEW ex \in BOOLEAN, NEW blank \in BOOLEAN,
               crons' = [crons EXCEPT ![k] = [exists |-> ex, every |-> every, blank |-> blank]]
        PROVE  crons' \in [Crons -> Cron]
    BY <1>2 DEF JobsInv, TypeOK, Cron
  <1>3. crons' \in [Crons -> Cron]
    BY <1>2, ScaleAssumption DEF CronCrud, CronCreate, CronUpdate, CronDelete, NoCron, RunEvery
  <1> QED
    BY <1>1, <1>3, AsideKeeps DEF JobsInv, TypeOK, SchedShape

\* A tick of the scheduler, and its end.
LEMMA TickKeeps ==
  ASSUME JobsInv, NEW t \in 1..MaxTime, SchedTick(t) PROVE JobsInv'
  <1> DEFINE due == {<<k, crons[k].blank>> : k \in
                         {k \in Crons : crons[k].exists /\ ShouldRun(sched.prev, t, crons[k].every)}}
  <1>1. /\ UNCHANGED <<crons, runs, queue, overflow, worker, req, stream, live, crashes, started>>
        /\ sched.pc = "idle"
        /\ \E ok \in Outcomes(TRUE) :
             /\ IF ok THEN sched' = [sched EXCEPT !.pc = "next", !.now = t, !.todo = due] ELSE sched' = IdleSched(t)
             /\ calm' = (calm /\ ok)
    BY Zenon DEF SchedTick, Statement
  <1>0. \A c \in due : c[2] \in BOOLEAN
    BY DEF JobsInv, TypeOK, Cron
  <1> HIDE DEF due
  <1>2. calm' \in BOOLEAN
    BY <1>1, OutcomesAreBoolean, CalmStays DEF JobsInv, TypeOK
  <1>3. sched.id = NoRun /\ t \in 0..MaxTime
    BY <1>1, BoundsAssumption DEF JobsInv, Tied
  <1>4. \/ sched' = [pc |-> "next", prev |-> sched.prev, now |-> t, todo |-> due, id |-> sched.id]
        \/ sched' = [pc |-> "idle", prev |-> t, now |-> t, todo |-> {}, id |-> NoRun]
    BY <1>1 DEF JobsInv, SchedShape, IdleSched
  <1>5. SchedShape' /\ sched'.pc \in {"idle", "next"} /\ sched'.id = sched.id /\ sched'.now = t
    BY <1>0, <1>3, <1>4 DEF SchedShape
  <1> QED
    BY <1>1, <1>2, <1>3, <1>5, AsideKeeps DEF JobsInv, TypeOK

LEMMA SchedDoneKeeps ==
  ASSUME JobsInv, SchedDone PROVE JobsInv'
  <1>1. /\ UNCHANGED <<crons, runs, queue, overflow, worker, req, stream, live, crashes, started, calm>>
        /\ sched.pc = "next"
        /\ sched' = [pc |-> "idle", prev |-> sched.now, now |-> sched.now, todo |-> {}, id |-> NoRun]
    BY DEF SchedDone, IdleSched
  <1>2. sched.id = NoRun /\ sched.now \in 0..MaxTime
    BY <1>1 DEF JobsInv, Tied, TypeOK
  <1>3. SchedShape' /\ sched'.pc = "idle" /\ sched'.id = sched.id /\ sched'.now = sched.now
    BY <1>1, <1>2 DEF SchedShape
  <1> QED
    BY <1>1, <1>2, <1>3, AsideKeeps DEF JobsInv, TypeOK

\* The clients that follow runs, and SIGTERM.
LEMMA FollowersKeep ==
  ASSUME JobsInv,
         \/ \E s \in Streams : Following(s) \/ StreamEnds(s) \/ \E id \in Ids : StreamOpen(s, id)
         \/ Signal
  PROVE  JobsInv'
  <1>1. /\ UNCHANGED <<crons, runs, queue, overflow, worker, req, sched, crashes, started>>
        /\ live' = live \/ live' = FALSE
        /\ calm' = calm \/ calm' = FALSE
    BY Zenon DEF Following, Poll, Final, StreamEnds, StreamOpen, Signal
  <1> QED
    BY <1>1, AsideKeeps DEF JobsInv, TypeOK, SchedShape

\* A restart: nobody holds anything.
LEMMA CrashKeeps ==
  ASSUME JobsInv, Crash PROVE JobsInv'
  <1>1. /\ UNCHANGED <<crons, runs, started>>
        /\ calm' = FALSE /\ live' = TRUE /\ crashes < MaxCrashes /\ crashes' = crashes + 1
        /\ queue' = [p \in Pools |-> <<>>]
        /\ overflow' = [p \in Pools |-> {}]
        /\ worker' = [w \in Workers |-> IdleWorker]
        /\ req' = [r \in Requests |-> IdleRequest]
        /\ sched' = [pc |-> "idle", prev |-> sched.now, now |-> sched.now, todo |-> {}, id |-> NoRun]
    BY DEF Crash, IdleSched
  <1>2. TypeOK'
    <2>1. <<>> \in Seq(Ids) /\ Len(<<>>) <= QueueCap
      BY BoundsAssumption
    <2>2. queue' \in [Pools -> Seq(Ids)] /\ \A p \in Pools : Len(queue'[p]) <= QueueCap
      BY <1>1, <2>1
    <2>3. crashes' \in 0..MaxCrashes
      BY <1>1, BoundsAssumption DEF JobsInv, TypeOK
    <2>4. worker' \in [Workers -> [pc : {"idle", "find", "empty", "mark", "hook", "vetoed", "run", "done", "gone"},
                                   id : Ids \cup {NoRun}, ok : BOOLEAN, chunks : 0..MaxChunks]]
      BY <1>1, BoundsAssumption DEF IdleWorker
    <2> QED
      BY <1>1, <2>2, <2>3, <2>4 DEF JobsInv, TypeOK, IdleRequest
  <1>3. SchedShape' /\ Tied'
    BY <1>1 DEF SchedShape, Tied, IdleRequest, IdleWorker
  <1>4. \A id \in Ids : id # NoRun
    BY DEF Ids, NoRun
  <1>5. \A id \in Ids : Holders(id)' \subseteq Holders(id)
    BY <1>1, <1>4, FewerHolders DEF IdleRequest, IdleWorker
  <1>6. ASSUME NEW id \in Ids, NEW h, IsHolder(h, id)' PROVE FALSE
    BY <1>1, <1>4, <1>6 DEF IsHolder, IdleRequest, IdleWorker
  <1>7. \A id \in Ids : Holders(id)' = {}
    BY <1>6, HoldersAre
  <1> QED
    BY <1>1, <1>2, <1>3, <1>5, <1>7, LetGo

-----------------------------------------------------------------------------
(* A worker.                                                               *)

WorkerType ==
    [pc : {"idle", "find", "empty", "mark", "hook", "vetoed", "run", "done", "gone"},
     id : Ids \cup {NoRun}, ok : BOOLEAN, chunks : 0..MaxChunks]

\* A worker at work is the only holder of its run.
LEMMA WorkerHolds ==
  ASSUME JobsInv, NEW w \in Workers, worker[w].pc \notin {"idle", "gone"}
  PROVE  /\ worker[w].id \in Ids /\ worker[w].id \in DOMAIN runs
         /\ Holders(worker[w].id) = {<<"worker", w>>}
         /\ \A v \in Workers : worker[v].id = worker[w].id => v = w
         /\ ~Finished(worker[w].id)
  <1>1. worker[w].id \in DOMAIN runs /\ worker[w].id \in Ids
    BY RunTypes DEF JobsInv, Tied, Exists
  <1>2. \A v \in Workers : worker[v].id = worker[w].id => <<"worker", v>> \in Holders(worker[w].id)
    BY HoldersAre DEF IsHolder
  <1> DEFINE H == Holders(worker[w].id)
  <1>3. \A g, h \in H : g = h
    BY <1>1 DEF JobsInv, HeldAlone
  <1>4. <<"worker", w>> \in H
    BY <1>2
  <1>5. Unfinished(worker[w].id)
    BY <1>1, <1>4 DEF JobsInv, HeldUnfinished
  <1> HIDE DEF H
  <1>6. H = {<<"worker", w>>}
    BY <1>3, <1>4
  <1>7. ASSUME NEW v \in Workers, worker[v].id = worker[w].id PROVE v = w
    <2>1. <<"worker", v>> \in H
      BY <1>2, <1>7 DEF H
    <2>2. <<"worker", v>> = <<"worker", w>>
      BY <1>3, <1>4, <2>1
    <2> QED
      BY <2>2
  <1> QED
    BY <1>1, <1>5, <1>6, <1>7 DEF H, Unfinished

\* A worker goes on with its run, or lets go of it.
LEMMA WorkerKeeps ==
  ASSUME JobsInv, NEW w \in Workers, NEW rec \in WorkerType,
         worker' = [worker EXCEPT ![w] = rec],
         IF rec.pc \in {"idle", "gone"} THEN rec.id = NoRun
         ELSE rec.id = worker[w].id /\ worker[w].pc \notin {"idle", "gone"},
         UNCHANGED <<crons, queue, overflow, req, sched, live, crashes>>, calm' \in BOOLEAN,
         runs' \in Seq(Run), DOMAIN runs' = DOMAIN runs, Len(runs') = Len(runs),
         \A id \in DOMAIN runs \ {worker[w].id} : runs'[id] = runs[id],
         rec.id = NoRun \/ runs'[rec.id].status \in {"pending", "running"},
         \/ started' = started /\ (worker[w].pc \in {"run", "done"} => rec.id = NoRun \/ rec.pc \in {"run", "done"})
         \/ worker[w].pc = "hook" /\ rec.pc = "run" /\ started' = [started EXCEPT ![worker[w].id] = @ + 1]
  PROVE  JobsInv'
  <1>1. /\ worker \in [Workers -> WorkerType] /\ worker' \in [Workers -> WorkerType]
        /\ worker'[w] = rec /\ \A v \in Workers \ {w} : worker'[v] = worker[v]
    BY DEF JobsInv, TypeOK, WorkerType
  <1>2. TypeOK'
    BY <1>1 DEF JobsInv, TypeOK, WorkerType
  <1>3. SchedShape' /\ Tied'
    <2>1. ASSUME NEW v \in Workers
          PROVE  IF worker'[v].pc \in {"idle", "gone"} THEN worker'[v].id = NoRun ELSE worker'[v].id \in DOMAIN runs'
      <3>1. IF worker[v].pc \in {"idle", "gone"} THEN worker[v].id = NoRun ELSE worker[v].id \in DOMAIN runs
        BY DEF JobsInv, Tied, Exists
      <3>2. IF worker[w].pc \in {"idle", "gone"} THEN worker[w].id = NoRun ELSE worker[w].id \in DOMAIN runs
        BY DEF JobsInv, Tied, Exists
      <3>3. CASE v = w
        BY <1>1, <3>2, <3>3
      <3>4. CASE v # w
        BY <1>1, <3>1, <3>4
      <3> QED
        BY <3>3, <3>4
    <2> QED
      BY <2>1 DEF JobsInv, SchedShape, Tied, Exists
  <1>4. \A id \in Ids : id # NoRun
    BY DEF Ids, NoRun
  <1>5. \A id \in Ids : Holders(id)' \subseteq Holders(id)
    <2>1. ASSUME NEW id \in Ids, NEW v \in Workers, worker'[v].id = id PROVE worker[v].id = id
      BY <1>1, <1>4, <2>1
    <2> QED
      BY <2>1, FewerHolders
  <1>6. ASSUME NEW id \in Ids, worker[w].id = id, rec.id = NoRun PROVE Holders(id)' = {}
    <2>1. worker[w].pc \notin {"idle", "gone"}
      BY <1>4, <1>6 DEF JobsInv, Tied
    <2>2. Holders(id) = {<<"worker", w>>}
      BY <1>6, <2>1, WorkerHolds
    <2>3. ~IsHolder(<<"worker", w>>, id)'
      <3>1. \A p \in Pools : p \notin {"worker"}
        BY DEF Pools
      <3>2. ASSUME NEW v \in Workers, <<"worker", w>> = <<"worker", v>>, worker'[v].id = id PROVE FALSE
        BY <1>1, <1>4, <1>6, <3>2
      <3> QED
        BY <3>1, <3>2 DEF IsHolder
    <2> QED
      BY <1>5, <2>2, <2>3, HoldersAre
  <1>7. HeldUnfinished'
    <2> SUFFICES ASSUME NEW id \in Ids, Holders(id)' # {} PROVE Unfinished(id)'
      BY DEF HeldUnfinished
    <2>1. Unfinished(id)
      BY <1>5 DEF JobsInv, HeldUnfinished
    <2>2. CASE id # worker[w].id
      BY <2>1, <2>2 DEF Unfinished, Exists, Finished
    <2>3. CASE id = worker[w].id
      <3>1. rec.id = id
        BY <1>1, <1>6, <2>3
      <3> QED
        BY <1>4, <2>1, <3>1 DEF Unfinished, Exists, Finished
    <2> QED
      BY <2>2, <2>3
  <1>8. HeldAlone'
    BY <1>5 DEF JobsInv, HeldAlone
  <1>9. StartedOnce'
    <2>1. ASSUME NEW id \in Ids, id # worker[w].id, NotBegun(id)' PROVE NotBegun(id)
      BY <1>1, <2>1 DEF NotBegun
    <2>2. CASE started' = started /\ (worker[w].pc \in {"run", "done"} => rec.id = NoRun \/ rec.pc \in {"run", "done"})
      <3>1. ASSUME NEW id \in Ids, Holders(id)' # {}, NotBegun(id)' PROVE NotBegun(id)
        <4>1. CASE id = worker[w].id
          <5>1. rec.id = id
            BY <1>1, <1>6, <3>1, <4>1
          <5>2. worker[w].pc \notin {"run", "done"}
            BY <1>1, <1>4, <2>2, <3>1, <5>1 DEF NotBegun
          <5> QED
            BY <1>1, <3>1, <5>2 DEF NotBegun
        <4> QED
          BY <2>1, <3>1, <4>1
      <3> QED
        BY <1>5, <2>2, <3>1 DEF JobsInv, StartedOnce, Exists
    <2>3. CASE worker[w].pc = "hook" /\ rec.pc = "run" /\ started' = [started EXCEPT ![worker[w].id] = @ + 1]
      <3>1. /\ worker[w].id \in Ids /\ worker[w].id \in DOMAIN runs /\ Holders(worker[w].id) # {}
            /\ \A v \in Workers : worker[v].id = worker[w].id => v = w
        BY <2>3, WorkerHolds
      <3>2. NotBegun(worker[w].id)
        BY <2>3, <3>1 DEF NotBegun
      <3>3. started \in [Ids -> {0, 1}] /\ started[worker[w].id] = 0
        BY <3>1, <3>2 DEF JobsInv, StartedOnce
      <3>4. started' \in [Ids -> {0, 1}] /\ \A id \in Ids \ {worker[w].id} : started'[id] = started[id]
        BY <2>3, <3>1, <3>3
      <3>5. ASSUME NEW id \in Ids, id = worker[w].id PROVE ~NotBegun(id)'
        BY <1>1, <2>3, <3>5 DEF NotBegun
      <3>6. ASSUME NEW id \in Ids, id \notin DOMAIN runs' \/ (Holders(id)' # {} /\ NotBegun(id)') PROVE started'[id] = 0
        <4>1. id # worker[w].id
          BY <3>1, <3>5, <3>6
        <4>2. ~Exists(id) \/ (Holders(id) # {} /\ NotBegun(id))
          BY <1>5, <2>1, <3>6, <4>1 DEF Exists
        <4> QED
          BY <3>4, <4>1, <4>2 DEF JobsInv, StartedOnce
      <3> QED
        BY <3>4, <3>6 DEF StartedOnce, Exists
    <2> QED
      BY <2>2, <2>3
  <1> QED
    BY <1>2, <1>3, <1>7, <1>8, <1>9 DEF JobsInv

\* A worker's record with another program counter.
WorkerPC == {"find", "empty", "mark", "hook", "vetoed", "run", "done", "gone"}

LEMMA WorkerGoes ==
  ASSUME JobsInv, NEW w \in Workers, NEW pc \in WorkerPC
  PROVE  /\ [worker[w] EXCEPT !.pc = pc] \in WorkerType
         /\ [worker[w] EXCEPT !.pc = pc].pc = pc /\ [worker[w] EXCEPT !.pc = pc].id = worker[w].id
         /\ [worker EXCEPT ![w].pc = pc] = [worker EXCEPT ![w] = [worker[w] EXCEPT !.pc = pc]]
  <1>1. worker[w] \in WorkerType
    BY DEF JobsInv, TypeOK, WorkerType
  <1> QED
    BY <1>1 DEF WorkerType, WorkerPC

LEMMA WorkerGoesTo ==
  ASSUME JobsInv, NEW w \in Workers, NEW pc \in WorkerPC,
         worker' = [worker EXCEPT ![w].pc = pc]
  PROVE  \E rec \in WorkerType : rec.pc = pc /\ rec.id = worker[w].id /\ worker' = [worker EXCEPT ![w] = rec]
  <1> DEFINE rec == [worker[w] EXCEPT !.pc = pc]
  <1>1. rec \in WorkerType /\ rec.pc = pc /\ rec.id = worker[w].id
    BY WorkerGoes
  <1>2. [worker EXCEPT ![w].pc = pc] = [worker EXCEPT ![w] = rec]
    BY WorkerGoes
  <1> HIDE DEF rec
  <1>3. worker' = [worker EXCEPT ![w] = rec]
    BY <1>2
  <1> QED
    BY <1>1, <1>3

LEMMA IdleIsTyped == IdleWorker \in WorkerType /\ IdleWorker.pc = "idle" /\ IdleWorker.id = NoRun
  BY BoundsAssumption DEF IdleWorker, WorkerType

\* An UPDATE of one row.
LEMMA SetRunIs ==
  ASSUME TypeOK, NEW id \in DOMAIN runs, NEW status \in {"pending", "running", "ok", "failed"},
         NEW output \in Seq({Command, Header, Chunk}), SetRun(id, status, output)
  PROVE  /\ runs' \in Seq(Run) /\ DOMAIN runs' = DOMAIN runs /\ Len(runs') = Len(runs)
         /\ \A x \in DOMAIN runs \ {id} : runs'[x] = runs[x]
         /\ runs'[id].status = status
  <1> DEFINE row == [status |-> status, output |-> output]
  <1>1. runs \in Seq(Run) /\ id \in 1..Len(runs) /\ row \in Run
    BY RunTypes DEF Run
  <1>2. runs' = [runs EXCEPT ![id] = row]
    BY DEF SetRun
  <1> HIDE DEF row
  <1>3. runs' \in Seq(Run) /\ Len(runs') = Len(runs) /\ runs'[id] = row /\ \A x \in 1..Len(runs) : x # id => runs'[x] = runs[x]
    BY <1>1, <1>2, ExceptSeq
  <1>4. DOMAIN runs = 1..Len(runs) /\ DOMAIN runs' = 1..Len(runs')
    BY <1>1, <1>3, LenProperties
  <1> QED
    BY <1>3, <1>4 DEF row

\* A worker only moves on, without a statement that writes.
LEMMA WorkerMoves ==
  ASSUME JobsInv, NEW w \in Workers, Quit(w) \/ Find(w) \/ Veto(w) \/ CommandEnds(w)
  PROVE  JobsInv'
  <1>1. UNCHANGED <<crons, runs, queue, overflow, req, sched, live, crashes, started>>
    BY DEF Quit, Find, Veto, CommandEnds
  <1>2. runs' \in Seq(Run) /\ DOMAIN runs' = DOMAIN runs /\ Len(runs') = Len(runs) /\ worker[w] \in WorkerType
    BY <1>1 DEF JobsInv, TypeOK, WorkerType
  <1>3. calm' \in BOOLEAN
    <2>1. CASE Find(w)
      <3>1. \E ok \in Outcomes(ContextOf(w)) : calm' = (calm /\ ok)
        BY <2>1 DEF Find, Statement
      <3> QED
        BY <3>1, OutcomesAreBoolean, CalmStays DEF JobsInv, TypeOK
    <2> QED
      BY <2>1 DEF Quit, Veto, CommandEnds, JobsInv, TypeOK
  <1>4. worker[w].pc \notin {"idle", "gone"} =>
          worker[w].id \in DOMAIN runs /\ worker[w].id # NoRun /\ runs[worker[w].id].status \in {"pending", "running"}
    <2> SUFFICES ASSUME worker[w].pc \notin {"idle", "gone"}
                 PROVE  worker[w].id \in DOMAIN runs /\ worker[w].id # NoRun /\ runs[worker[w].id].status \in {"pending", "running"}
      OBVIOUS
    <2> QED
      BY WorkerHolds, RunTypes DEF JobsInv, Finished, Run
  <1>5. CASE Quit(w)
    <2>1. worker[w].pc = "idle" /\ worker' = [worker EXCEPT ![w].pc = "gone"]
      BY <1>5 DEF Quit, At, Go
    <2>2. worker[w].id = NoRun
      BY <2>1 DEF JobsInv, Tied
    <2>3. PICK rec \in WorkerType : rec.pc = "gone" /\ rec.id = worker[w].id /\ worker' = [worker EXCEPT ![w] = rec]
      <3>1. "gone" \in WorkerPC
        BY DEF WorkerPC
      <3> QED
        BY <2>1, <3>1, WorkerGoesTo
    <2> QED
      BY <1>1, <1>2, <1>3, <2>1, <2>2, <2>3, WorkerKeeps
  <1>6. CASE Find(w) \/ Veto(w)
    <2>1. /\ worker[w].pc \in {"find", "hook"}
          /\ worker' = [worker EXCEPT ![w] = IdleWorker]
             \/ \E pc \in {"empty", "mark", "vetoed"} : worker' = [worker EXCEPT ![w].pc = pc]
      BY <1>6 DEF Find, Veto, At, Go, Rest, Statement
    <2>2. CASE worker' = [worker EXCEPT ![w] = IdleWorker]
      BY <1>1, <1>2, <1>3, <2>1, <2>2, IdleIsTyped, WorkerKeeps
    <2>3. ASSUME NEW pc \in {"empty", "mark", "vetoed"}, worker' = [worker EXCEPT ![w].pc = pc] PROVE JobsInv'
      <3>0. pc \in WorkerPC
        BY DEF WorkerPC
      <3>1. PICK rec \in WorkerType : rec.pc = pc /\ rec.id = worker[w].id /\ worker' = [worker EXCEPT ![w] = rec]
        BY <2>3, <3>0, WorkerGoesTo
      <3> QED
        BY <1>1, <1>2, <1>3, <1>4, <2>1, <3>1, WorkerKeeps
    <2> QED
      BY <2>1, <2>2, <2>3
  <1>7. CASE CommandEnds(w)
    <2>1. /\ worker[w].pc = "run"
          /\ \E ok \in BOOLEAN : worker' = [worker EXCEPT ![w].pc = "done", ![w].ok = ok]
      BY <1>7 DEF CommandEnds, At
    <2>2. PICK ok \in BOOLEAN : worker' = [worker EXCEPT ![w].pc = "done", ![w].ok = ok]
      BY <2>1
    <2> DEFINE rec == [worker[w] EXCEPT !.pc = "done", !.ok = ok]
    <2>3. rec \in WorkerType /\ rec.pc = "done" /\ rec.id = worker[w].id /\ worker' = [worker EXCEPT ![w] = rec]
      BY <1>2, <2>2 DEF WorkerType, JobsInv, TypeOK
    <2> HIDE DEF rec
    <2> QED
      BY <1>1, <1>2, <1>3, <1>4, <2>1, <2>3, WorkerKeeps
  <1> QED
    BY <1>5, <1>6, <1>7

\* The command is started: for the first time.
LEMMA BeforeRunKeeps ==
  ASSUME JobsInv, NEW w \in Workers, BeforeRun(w) PROVE JobsInv'
  <1>0. PICK pc \in {"run", "done"} : pc = IF ContextOf(w) THEN "run" ELSE "done"
    OBVIOUS
  <1>1. /\ UNCHANGED <<crons, runs, queue, overflow, req, sched, live, crashes, calm>>
        /\ worker[w].pc = "hook" /\ worker' = [worker EXCEPT ![w].pc = pc]
        /\ started' = IF ContextOf(w) THEN [started EXCEPT ![worker[w].id] = @ + 1] ELSE started
    BY <1>0 DEF BeforeRun, At, Go
  <1>2. PICK rec \in WorkerType : rec.pc = pc /\ rec.id = worker[w].id /\ worker' = [worker EXCEPT ![w] = rec]
    <2>1. pc \in WorkerPC
      BY DEF WorkerPC
    <2> QED
      BY <1>1, <2>1, WorkerGoesTo
  <1>3. runs' \in Seq(Run) /\ DOMAIN runs' = DOMAIN runs /\ Len(runs') = Len(runs) /\ calm' \in BOOLEAN
    BY <1>1 DEF JobsInv, TypeOK
  <1>4. worker[w].id \in DOMAIN runs /\ runs[worker[w].id].status \in {"pending", "running"}
    BY <1>1, WorkerHolds, RunTypes DEF JobsInv, Finished, Run
  <1>5. \/ started' = started /\ pc = "done"
        \/ pc = "run" /\ started' = [started EXCEPT ![worker[w].id] = @ + 1]
    BY <1>0, <1>1
  <1>8. /\ rec.pc \notin {"idle", "gone"} /\ worker[w].pc \notin {"idle", "gone", "run", "done"}
        /\ \A id \in DOMAIN runs \ {worker[w].id} : runs'[id] = runs[id]
        /\ runs'[rec.id].status \in {"pending", "running"}
    BY <1>1, <1>2, <1>4
  <1>6. CASE started' = started /\ pc = "done"
    BY <1>1, <1>2, <1>3, <1>6, <1>8, WorkerKeeps
  <1>7. CASE pc = "run" /\ started' = [started EXCEPT ![worker[w].id] = @ + 1]
    <2>1. worker[w].pc = "hook" /\ rec.pc = "run"
      BY <1>1, <1>2, <1>7
    <2>2. UNCHANGED <<crons, queue, overflow, req, sched, live, crashes>>
      BY <1>1
    <2> QED
      BY <1>2, <1>3, <1>7, <1>8, <2>1, <2>2, WorkerKeeps
  <1> QED
    BY <1>5, <1>6, <1>7

\* A worker lets go of its run after a statement, which may have failed.
LEMMA WorkerRests ==
  ASSUME JobsInv, NEW w \in Workers, CompleteEmpty(w) \/ CompleteVetoed(w) \/ CompleteStatus(w)
  PROVE  JobsInv'
  <1>1. /\ UNCHANGED <<crons, queue, overflow, req, sched, live, crashes, started>>
        /\ worker[w].pc \in {"empty", "vetoed", "done"}
        /\ worker' = [worker EXCEPT ![w] = IdleWorker]
    BY DEF CompleteEmpty, CompleteVetoed, CompleteStatus, At, Rest
  <1>2. /\ worker[w].id \in DOMAIN runs
        /\ runs[worker[w].id].output \in Seq({Command, Header, Chunk})
        /\ worker[w].ok \in BOOLEAN
    BY <1>1, WorkerHolds, RunTypes DEF JobsInv, Run, TypeOK
  <1>3. <<>> \in Seq({Command, Header, Chunk}) /\ <<Header>> \in Seq({Command, Header, Chunk})
    OBVIOUS
  <1>4. \E ok \in Outcomes(ContextOf(w)) :
          /\ calm' = (calm /\ ok)
          /\ \/ runs' = runs
             \/ \E status \in {"ok", "failed"}, output \in Seq({Command, Header, Chunk}) :
                   SetRun(worker[w].id, status, output)
    <2>1. CASE CompleteEmpty(w)
      BY <1>3, <2>1 DEF CompleteEmpty, Statement
    <2>2. CASE CompleteVetoed(w)
      BY <1>3, <2>2 DEF CompleteVetoed, Statement
    <2>3. CASE CompleteStatus(w)
      BY <1>2, <2>3 DEF CompleteStatus, Statement
    <2> QED
      BY <2>1, <2>2, <2>3
  <1>5. calm' \in BOOLEAN
    BY <1>4, OutcomesAreBoolean, CalmStays DEF JobsInv, TypeOK
  <1>6. /\ runs' \in Seq(Run) /\ DOMAIN runs' = DOMAIN runs /\ Len(runs') = Len(runs)
        /\ \A x \in DOMAIN runs \ {worker[w].id} : runs'[x] = runs[x]
    <2>1. CASE runs' = runs
      BY <2>1 DEF JobsInv, TypeOK
    <2>2. ASSUME NEW status \in {"ok", "failed"}, NEW output \in Seq({Command, Header, Chunk}),
                 SetRun(worker[w].id, status, output)
          PROVE  /\ runs' \in Seq(Run) /\ DOMAIN runs' = DOMAIN runs /\ Len(runs') = Len(runs)
                 /\ \A x \in DOMAIN runs \ {worker[w].id} : runs'[x] = runs[x]
      BY <1>2, <2>2, SetRunIs DEF JobsInv
    <2> QED
      BY <1>4, <2>1, <2>2
  <1> QED
    BY <1>1, <1>5, <1>6, IdleIsTyped, WorkerKeeps

\* The run is marked running, or the worker gives up.
LEMMA MarkKeeps ==
  ASSUME JobsInv, NEW w \in Workers, MarkRunningWithOutput(w) PROVE JobsInv'
  <1>1. /\ UNCHANGED <<crons, queue, overflow, req, sched, live, crashes, started>>
        /\ worker[w].pc = "mark"
        /\ \E ok \in Outcomes(ContextOf(w)) :
              /\ IF ok THEN SetRun(worker[w].id, "running", <<Header>>) /\ worker' = [worker EXCEPT ![w].pc = "hook"]
                 ELSE runs' = runs /\ worker' = [worker EXCEPT ![w] = IdleWorker]
              /\ calm' = (calm /\ ok)
    BY DEF MarkRunningWithOutput, At, Go, Rest, Statement
  <1>2. worker[w].id \in DOMAIN runs
    BY <1>1, WorkerHolds
  <1>3. calm' \in BOOLEAN
    BY <1>1, OutcomesAreBoolean, CalmStays DEF JobsInv, TypeOK
  <1>4. CASE runs' = runs /\ worker' = [worker EXCEPT ![w] = IdleWorker]
    <2>1. runs' \in Seq(Run) /\ DOMAIN runs' = DOMAIN runs /\ Len(runs') = Len(runs)
      BY <1>4 DEF JobsInv, TypeOK
    <2> QED
      BY <1>1, <1>3, <1>4, <2>1, IdleIsTyped, WorkerKeeps
  <1>5. CASE SetRun(worker[w].id, "running", <<Header>>) /\ worker' = [worker EXCEPT ![w].pc = "hook"]
    <2>1. PICK rec \in WorkerType : rec.pc = "hook" /\ rec.id = worker[w].id /\ worker' = [worker EXCEPT ![w] = rec]
      <3>1. "hook" \in WorkerPC
        BY DEF WorkerPC
      <3> QED
        BY <1>5, <3>1, WorkerGoesTo
    <2>2. <<Header>> \in Seq({Command, Header, Chunk})
      OBVIOUS
    <2>3. /\ runs' \in Seq(Run) /\ DOMAIN runs' = DOMAIN runs /\ Len(runs') = Len(runs)
          /\ \A x \in DOMAIN runs \ {worker[w].id} : runs'[x] = runs[x]
          /\ runs'[worker[w].id].status = "running"
      BY <1>2, <1>5, <2>2, SetRunIs DEF JobsInv
    <2> QED
      BY <1>1, <1>3, <2>1, <2>3, WorkerKeeps
  <1> QED
    BY <1>1, <1>4, <1>5

\* The command prints; the row may not have been updated.
LEMMA PrintKeeps ==
  ASSUME JobsInv, NEW w \in Workers, CommandPrints(w) PROVE JobsInv'
  <1> DEFINE id == worker[w].id
             rec == [worker[w] EXCEPT !.chunks = @ + 1]
  <1>1. /\ UNCHANGED <<crons, queue, overflow, req, sched, live, crashes, started>>
        /\ worker[w].pc = "run" /\ worker[w].chunks < MaxChunks
        /\ worker' = [worker EXCEPT ![w].chunks = @ + 1]
        /\ \E ok \in Outcomes(ContextOf(w)) :
              /\ IF ok THEN SetRun(id, runs[id].status, Append(runs[id].output, Chunk)) ELSE runs' = runs
              /\ calm' = (calm /\ ok)
    BY DEF CommandPrints, At, Statement
  <1>2. id \in DOMAIN runs /\ runs[id] \in Run /\ runs[id].status \in {"pending", "running"}
    BY <1>1, WorkerHolds, RunTypes DEF JobsInv, Finished, Run
  <1>3. calm' \in BOOLEAN
    BY <1>1, OutcomesAreBoolean, CalmStays DEF JobsInv, TypeOK
  <1>4. rec \in WorkerType /\ rec.pc = "run" /\ rec.id = id /\ worker' = [worker EXCEPT ![w] = rec]
    <2>1. worker[w] \in WorkerType
      BY DEF JobsInv, TypeOK, WorkerType
    <2> QED
      BY <1>1, <2>1, BoundsAssumption DEF WorkerType
  <1>5. /\ runs' \in Seq(Run) /\ DOMAIN runs' = DOMAIN runs /\ Len(runs') = Len(runs)
        /\ \A x \in DOMAIN runs \ {id} : runs'[x] = runs[x]
        /\ runs'[id].status = runs[id].status
    <2>1. CASE runs' = runs
      BY <2>1 DEF JobsInv, TypeOK
    <2>2. CASE SetRun(id, runs[id].status, Append(runs[id].output, Chunk))
      <3>1. Append(runs[id].output, Chunk) \in Seq({Command, Header, Chunk})
        BY <1>2, AppendProperties DEF Run
      <3> HIDE DEF id
      <3> QED
        BY <1>2, <2>2, <3>1, SetRunIs DEF JobsInv
    <2> QED
      BY <1>1, <2>1, <2>2
  <1>6. rec.id = worker[w].id /\ runs'[rec.id].status \in {"pending", "running"}
    BY <1>2, <1>4, <1>5
  <1>7. \A x \in DOMAIN runs \ {worker[w].id} : runs'[x] = runs[x]
    BY <1>5
  <1> HIDE DEF rec, id
  <1> QED
    BY <1>1, <1>3, <1>4, <1>5, <1>6, <1>7, WorkerKeeps

\* A worker takes the head of its queue: those behind it move up.
LEMMA TakeKeeps ==
  ASSUME JobsInv, NEW w \in Workers, Take(w) PROVE JobsInv'
  <1> DEFINE p == PoolOf(w)
             rec == [IdleWorker EXCEPT !.pc = "find", !.id = Head(queue[p])]
  <1>1. /\ UNCHANGED <<crons, runs, overflow, req, sched, live, crashes, started, calm>>
        /\ worker[w].pc = "idle" /\ queue[p] # <<>>
        /\ worker' = [worker EXCEPT ![w] = rec]
        /\ queue' = [queue EXCEPT ![p] = Tail(@)]
    BY DEF Take, At
  <1>2. p \in Pools
    BY DEF PoolOf, Pools
  <1>3. /\ queue[p] \in Seq(Ids) /\ Len(queue[p]) \in Nat /\ DOMAIN queue[p] = 1..Len(queue[p])
        /\ Len(queue[p]) <= QueueCap
    BY <1>2, QueueTypes DEF JobsInv, TypeOK
  <1>4. /\ Head(queue[p]) \in Ids /\ Head(queue[p]) = queue[p][1] /\ 1 \in DOMAIN queue[p]
        /\ Tail(queue[p]) \in Seq(Ids) /\ Len(Tail(queue[p])) = Len(queue[p]) - 1
        /\ DOMAIN Tail(queue[p]) = 1..Len(Tail(queue[p]))
        /\ \A i \in DOMAIN Tail(queue[p]) : i + 1 \in DOMAIN queue[p] /\ Tail(queue[p])[i] = queue[p][i + 1]
    <2>1. Head(queue[p]) = queue[p][1] /\ Len(queue[p]) > 0
      BY <1>1, <1>3, EmptySeq
    <2>2. /\ Head(queue[p]) \in Ids /\ Tail(queue[p]) \in Seq(Ids) /\ Len(Tail(queue[p])) = Len(queue[p]) - 1
          /\ \A i \in 1..Len(Tail(queue[p])) : Tail(queue[p])[i] = queue[p][i + 1]
      BY <1>1, <1>3, HeadTailProperties
    <2>3. DOMAIN Tail(queue[p]) = 1..Len(Tail(queue[p]))
      BY <2>2, LenProperties
    <2> QED
      BY <1>3, <2>1, <2>2, <2>3
  <1>5. rec \in WorkerType /\ rec.pc = "find" /\ rec.id = queue[p][1]
    <2>1. ASSUME NEW idle \in WorkerType, NEW id \in Ids
          PROVE  /\ [idle EXCEPT !.pc = "find", !.id = id] \in WorkerType
                 /\ [idle EXCEPT !.pc = "find", !.id = id].pc = "find"
                 /\ [idle EXCEPT !.pc = "find", !.id = id].id = id
      BY DEF WorkerType
    <2> QED
      BY <1>4, <2>1, IdleIsTyped, Zenon
  <1> HIDE DEF p, rec
  <1>6. /\ worker' \in [Workers -> WorkerType] /\ worker'[w] = rec
        /\ \A v \in Workers \ {w} : worker'[v] = worker[v]
        /\ worker[w].id = NoRun
    BY <1>1, <1>5 DEF JobsInv, TypeOK, WorkerType, Tied
  <1>7. /\ queue' \in [Pools -> Seq(Ids)] /\ queue'[p] = Tail(queue[p])
        /\ \A q \in Pools \ {p} : queue'[q] = queue[q]
    BY <1>1, <1>2, <1>4 DEF JobsInv, TypeOK
  <1>8. \A q \in Pools : Len(queue'[q]) <= QueueCap
    <2>1. Len(queue'[p]) <= QueueCap
      BY <1>3, <1>4, <1>7, BoundsAssumption
    <2>2. \A q \in Pools \ {p} : Len(queue'[q]) <= QueueCap
      BY <1>7 DEF JobsInv, TypeOK
    <2> QED
      BY <2>1, <2>2
  <1>9. TypeOK'
    BY <1>1, <1>6, <1>7, <1>8 DEF JobsInv, TypeOK, WorkerType
  <1>10. <<p, 1>> \in Holders(queue[p][1])
    BY <1>2, <1>4, HoldersAre DEF IsHolder
  <1>11. Exists(rec.id)
    BY <1>4, <1>5, <1>10 DEF JobsInv, HeldUnfinished, Unfinished
  <1>12. SchedShape' /\ Tied'
    BY <1>1, <1>5, <1>6, <1>11 DEF JobsInv, SchedShape, Tied, Exists
  <1>13. \A id \in Ids : id # NoRun
    BY DEF Ids, NoRun
  <1>14. ASSUME NEW id \in Ids, NEW h \in Holders(id)'
         PROVE  \/ h = <<"worker", w>> /\ <<p, 1>> \in Holders(id)
                \/ \E i \in Nat \ {0} : h = <<p, i>> /\ <<p, i + 1>> \in Holders(id)
                \/ h \in Holders(id) /\ \A i : h # <<p, i>>
    <2>1. CASE \E v \in Workers : h = <<"worker", v>> /\ worker'[v].id = id
      <3>1. PICK v \in Workers : h = <<"worker", v>> /\ worker'[v].id = id
        BY <2>1
      <3>2. CASE v = w
        BY <1>5, <1>6, <1>10, <3>1, <3>2
      <3>3. CASE v # w
        <4>1. h \in Holders(id)
          BY <1>6, <3>1, <3>3, HoldersAre DEF IsHolder
        <4>2. \A i : h # <<p, i>>
          BY <1>2, <3>1 DEF Pools
        <4> QED
          BY <4>1, <4>2
      <3> QED
        BY <3>2, <3>3
    <2>2. CASE \E q \in Pools : \E i \in DOMAIN queue'[q] : h = <<q, i>> /\ queue'[q][i] = id
      <3>1. PICK q \in Pools : \E i \in DOMAIN queue'[q] : h = <<q, i>> /\ queue'[q][i] = id
        BY <2>2
      <3>2. PICK i \in DOMAIN queue'[q] : h = <<q, i>> /\ queue'[q][i] = id
        BY <3>1
      <3>3. CASE q = p
        <4>1. i \in Nat \ {0} /\ i + 1 \in DOMAIN queue[p] /\ queue[p][i + 1] = id
          BY <1>3, <1>4, <1>7, <3>2, <3>3
        <4>2. <<p, i + 1>> \in Holders(id)
          BY <1>2, <4>1, HoldersAre DEF IsHolder
        <4> QED
          BY <3>2, <3>3, <4>1, <4>2
      <3>4. CASE q # p
        <4>1. h \in Holders(id)
          BY <1>7, <3>2, <3>4, HoldersAre DEF IsHolder
        <4>2. \A j : h # <<p, j>>
          BY <3>2, <3>4
        <4> QED
          BY <4>1, <4>2
      <3> QED
        BY <3>3, <3>4
    <2>3. CASE \E r \in Requests : h = <<"request", r>> /\ req[r].id = id
      BY <1>2, <2>3, HoldersAre DEF IsHolder, Pools
    <2>4. CASE h = <<"scheduler", 1>> /\ sched.id = id
      BY <1>2, <2>4, HoldersAre DEF IsHolder, Pools
    <2>5. CASE \E q \in Pools : h = <<"overflow", q>> /\ id \in overflow[q]
      <3>1. h \in Holders(id)
        BY <2>5, HoldersAre DEF IsHolder
      <3>2. \A i : h # <<p, i>>
        BY <1>2, <2>5 DEF Pools
      <3> QED
        BY <3>1, <3>2
    <2>6. IsHolder(h, id)'
      BY HoldersAre, <1>14
    <2> QED
      BY <1>1, <2>1, <2>2, <2>3, <2>4, <2>5, <2>6 DEF IsHolder
  <1>15. HeldAlone'
    <2> SUFFICES ASSUME NEW id \in Ids, NEW g \in Holders(id)', NEW h \in Holders(id)' PROVE g = h
      BY DEF HeldAlone
    <2>1. \A a, b \in Holders(id) : a = b
      BY DEF JobsInv, HeldAlone
    <2>2. \A i \in Nat \ {0} : <<p, i + 1>> # <<p, 1>>
      OBVIOUS
    <2>3. \A i, j \in Nat \ {0} : <<p, i + 1>> = <<p, j + 1>> => i = j
      OBVIOUS
    <2>4. \/ g = <<"worker", w>> /\ <<p, 1>> \in Holders(id)
          \/ \E i \in Nat \ {0} : g = <<p, i>> /\ <<p, i + 1>> \in Holders(id)
          \/ g \in Holders(id) /\ \A i : g # <<p, i>>
      BY <1>14
    <2>5. \/ h = <<"worker", w>> /\ <<p, 1>> \in Holders(id)
          \/ \E i \in Nat \ {0} : h = <<p, i>> /\ <<p, i + 1>> \in Holders(id)
          \/ h \in Holders(id) /\ \A i : h # <<p, i>>
      BY <1>14
    <2>6. CASE g \in Holders(id) /\ \A i : g # <<p, i>>
      BY <2>1, <2>5, <2>6
    <2>7. CASE h \in Holders(id) /\ \A i : h # <<p, i>>
      BY <2>1, <2>4, <2>7
    <2>8. CASE g = <<"worker", w>> /\ <<p, 1>> \in Holders(id)
      BY <2>1, <2>2, <2>5, <2>7, <2>8
    <2>9. ASSUME NEW i \in Nat \ {0}, g = <<p, i>>, <<p, i + 1>> \in Holders(id) PROVE g = h
      <3>1. CASE h = <<"worker", w>> /\ <<p, 1>> \in Holders(id)
        BY <2>1, <2>2, <2>9, <3>1
      <3>2. ASSUME NEW j \in Nat \ {0}, h = <<p, j>>, <<p, j + 1>> \in Holders(id) PROVE g = h
        <4>1. <<p, i + 1>> = <<p, j + 1>>
          BY <2>1, <2>9, <3>2
        <4>2. i = j
          BY <2>3, <4>1
        <4> QED
          BY <2>9, <3>2, <4>2
      <3> QED
        BY <2>5, <2>7, <3>1, <3>2
    <2> QED
      BY <2>4, <2>6, <2>8, <2>9
  <1>16. \A id \in Ids : Holders(id)' # {} => Holders(id) # {}
    BY <1>14
  <1>17. \A id \in Ids : NotBegun(id)' => NotBegun(id)
    BY <1>1, <1>6 DEF NotBegun
  <1> QED
    BY <1>1, <1>9, <1>12, <1>15, <1>16, <1>17, HandedOn

-----------------------------------------------------------------------------
(* Enqueue and the runs that are created.                                  *)

\* The one place that a send to a queue fills.
LEMMA SendFills ==
  ASSUME TypeOK, NEW p \in Pools, NEW id \in Ids, Len(queue[p]) < QueueCap,
         queue' = [queue EXCEPT ![p] = Append(@, id)]
  PROVE  /\ queue' \in [Pools -> Seq(Ids)] /\ \A q \in Pools : Len(queue'[q]) <= QueueCap
         /\ \A q \in Pools : \A i \in DOMAIN queue'[q] :
               \/ i \in DOMAIN queue[q] /\ queue'[q][i] = queue[q][i]
               \/ q = p /\ i = Len(queue[p]) + 1 /\ queue'[q][i] = id
  <1>1. /\ queue[p] \in Seq(Ids) /\ Len(queue[p]) \in Nat /\ DOMAIN queue[p] = 1..Len(queue[p])
    BY QueueTypes
  <1>2. /\ Append(queue[p], id) \in Seq(Ids) /\ Len(Append(queue[p], id)) = Len(queue[p]) + 1
        /\ \A i \in 1..Len(queue[p]) : Append(queue[p], id)[i] = queue[p][i]
        /\ Append(queue[p], id)[Len(queue[p]) + 1] = id
    BY <1>1, AppendProperties
  <1>3. DOMAIN Append(queue[p], id) = 1..(Len(queue[p]) + 1)
    BY <1>2, LenProperties
  <1>4. /\ queue' \in [Pools -> Seq(Ids)] /\ queue'[p] = Append(queue[p], id)
        /\ \A q \in Pools \ {p} : queue'[q] = queue[q]
    BY <1>2 DEF TypeOK
  <1>5. Len(queue'[p]) <= QueueCap
    BY <1>1, <1>2, <1>4, BoundsAssumption
  <1>6. \A q \in Pools : Len(queue'[q]) <= QueueCap
    BY <1>4, <1>5 DEF TypeOK
  <1>7. \A i \in DOMAIN queue'[p] :
           \/ i \in DOMAIN queue[p] /\ queue'[p][i] = queue[p][i]
           \/ i = Len(queue[p]) + 1 /\ queue'[p][i] = id
    BY <1>1, <1>2, <1>3, <1>4
  <1> QED
    BY <1>4, <1>6, <1>7

\* Enqueue gives the run one new place, in the queue or in front of it.
LEMMA EnqueueGives ==
  ASSUME TypeOK, NEW p \in Pools, NEW id \in Ids, Enqueue(p, id)
  PROVE  /\ queue' \in [Pools -> Seq(Ids)] /\ \A q \in Pools : Len(queue'[q]) <= QueueCap
         /\ overflow' \in [Pools -> SUBSET Ids]
         /\ \E place :
               /\ \A q \in Pools : \A i \in DOMAIN queue'[q] :
                     \/ i \in DOMAIN queue[q] /\ queue'[q][i] = queue[q][i]
                     \/ <<q, i>> = place /\ queue'[q][i] = id
               /\ \A q \in Pools : \A x \in overflow'[q] :
                     x \in overflow[q] \/ (<<"overflow", q>> = place /\ x = id)
  <1>1. CASE Len(queue[p]) < QueueCap
    <2>1. queue' = [queue EXCEPT ![p] = Append(@, id)] /\ overflow' = overflow
      BY <1>1 DEF Enqueue
    <2> DEFINE place == <<p, Len(queue[p]) + 1>>
    <2>2. \A q \in Pools : \A i \in DOMAIN queue'[q] :
             \/ i \in DOMAIN queue[q] /\ queue'[q][i] = queue[q][i]
             \/ <<q, i>> = place /\ queue'[q][i] = id
      BY <1>1, <2>1, SendFills
    <2>3. queue' \in [Pools -> Seq(Ids)] /\ \A q \in Pools : Len(queue'[q]) <= QueueCap
      BY <1>1, <2>1, SendFills
    <2> HIDE DEF place
    <2> QED
      BY <2>1, <2>2, <2>3 DEF TypeOK
  <1>2. CASE ~(Len(queue[p]) < QueueCap)
    <2>1. queue' = queue /\ overflow' = [overflow EXCEPT ![p] = @ \cup {id}]
      BY <1>2 DEF Enqueue
    <2>2. /\ overflow \in [Pools -> SUBSET Ids] /\ queue' \in [Pools -> Seq(Ids)]
          /\ \A q \in Pools : Len(queue'[q]) <= QueueCap
      BY <2>1 DEF TypeOK
    <2>3. \A q \in Pools : \A x \in overflow'[q] : x \in overflow[q] \/ (<<"overflow", q>> = <<"overflow", p>> /\ x = id)
      BY <2>1, <2>2
    <2>4. overflow' \in [Pools -> SUBSET Ids]
      BY <2>1, <2>2
    <2> QED
      BY <2>1, <2>2, <2>3, <2>4
  <1> QED
    BY <1>1, <1>2

LEMMA EnqueuePlaces ==
  ASSUME JobsInv, NEW p \in Pools, NEW id \in Ids, Enqueue(p, id)
  PROVE  \E place :
           /\ \A q \in Pools : \A i \in DOMAIN queue'[q] :
                 \/ i \in DOMAIN queue[q] /\ queue'[q][i] = queue[q][i]
                 \/ <<q, i>> = place /\ queue'[q][i] = id
           /\ \A q \in Pools : \A x \in overflow'[q] :
                 x \in overflow[q] \/ (<<"overflow", q>> = place /\ x = id)
  <1>1. TypeOK
    BY DEF JobsInv
  <1> QED
    BY <1>1, EnqueueGives, Zenon

\* The run leaves its one holder for another place; no other run gets one.
LEMMA MovesOn ==
  ASSUME JobsInv, NEW id \in Ids, NEW from \in Holders(id), NEW to,
         TypeOK', SchedShape', Tied', runs' = runs, started' = started, worker' = worker,
         Holders(id)' \subseteq {to},
         \A x \in Ids : x = id \/ Holders(x)' \subseteq Holders(x)
  PROVE  JobsInv'
  <1>1. \A x \in Ids : Holders(x)' # {} => Holders(x) # {}
    OBVIOUS
  <1>2. HeldAlone'
    <2> SUFFICES ASSUME NEW x \in Ids, NEW g \in Holders(x)', NEW h \in Holders(x)' PROVE g = h
      BY DEF HeldAlone
    <2>1. CASE x = id
      <3>1. \A k \in Holders(id)' : k = to
        OBVIOUS
      <3>2. Holders(x)' = Holders(id)'
        BY <2>1
      <3> QED
        BY <3>1, <3>2
    <2>2. CASE x # id
      BY <2>2 DEF JobsInv, HeldAlone
    <2> QED
      BY <2>1, <2>2
  <1>3. \A x \in Ids : NotBegun(x)' => NotBegun(x)
    BY DEF NotBegun
  <1> QED
    BY <1>1, <1>2, <1>3, HandedOn

\* A request, or the scheduler, enqueues its run.
LEMMA EnqueueKeeps ==
  ASSUME JobsInv, (\E r \in Requests : RequestEnqueue(r)) \/ SchedEnqueue PROVE JobsInv'
  <1>1. CASE \E r \in Requests : RequestEnqueue(r)
    <2>1. PICK r \in Requests : RequestEnqueue(r)
      BY <1>1
    <2>2. /\ req[r].pc = "enqueue" /\ Enqueue("api", req[r].id)
          /\ req' = [req EXCEPT ![r] = IdleRequest]
          /\ UNCHANGED <<crons, runs, worker, sched, stream, live, crashes, started, calm>>
      BY <2>1 DEF RequestEnqueue
    <2>3. PICK id : id = req[r].id
      OBVIOUS
    <2>4. id \in Ids /\ "api" \in Pools /\ id # NoRun
      BY <2>2, <2>3, RunTypes DEF JobsInv, Tied, Exists, Pools
    <2>5. PICK place :
            /\ \A q \in Pools : \A i \in DOMAIN queue'[q] :
                  \/ i \in DOMAIN queue[q] /\ queue'[q][i] = queue[q][i]
                  \/ <<q, i>> = place /\ queue'[q][i] = id
            /\ \A q \in Pools : \A x \in overflow'[q] :
                  x \in overflow[q] \/ (<<"overflow", q>> = place /\ x = id)
      <3>1. Enqueue("api", id)
        BY <2>2, <2>3
      <3> QED
        BY <2>4, <3>1, EnqueuePlaces
    <2>6. /\ queue' \in [Pools -> Seq(Ids)] /\ \A q \in Pools : Len(queue'[q]) <= QueueCap
          /\ overflow' \in [Pools -> SUBSET Ids]
      BY <2>2, <2>3, <2>4, EnqueueGives DEF JobsInv
    <2>7. /\ req' \in [Requests -> [pc : {"idle", "enqueue"}, id : Ids \cup {NoRun}]]
          /\ req'[r].id = NoRun /\ req'[r].pc = "idle"
          /\ \A q \in Requests \ {r} : req'[q] = req[q]
      BY <2>2 DEF JobsInv, TypeOK, IdleRequest
    <2>8. TypeOK' /\ SchedShape' /\ Tied'
      <3>1. TypeOK'
        BY <2>2, <2>6, <2>7 DEF JobsInv, TypeOK
      <3>2. SchedShape'
        BY <2>2 DEF JobsInv, SchedShape
      <3>3. Tied'
        BY <2>2, <2>7 DEF JobsInv, Tied, Exists
      <3> QED
        BY <3>1, <3>2, <3>3
    <2>9. <<"request", r>> \in Holders(id)
      BY <2>3, HoldersAre DEF IsHolder
    <2>10. \A x \in Ids : x # NoRun
      BY DEF Ids, NoRun
    <2>11. ASSUME NEW x \in Ids, NEW h \in Holders(x)'
           PROVE  (h = place /\ x = id) \/ (h \in Holders(x) /\ h # <<"request", r>>)
      <3>1. IsHolder(h, x)'
        BY <2>11, HoldersAre
      <3>2. CASE \E q \in Requests : h = <<"request", q>> /\ req'[q].id = x
        <4>1. PICK q \in Requests : h = <<"request", q>> /\ req'[q].id = x
          BY <3>2
        <4>2. q # r /\ req[q].id = x
          BY <2>7, <2>10, <4>1
        <4> QED
          BY <4>1, <4>2, HoldersAre DEF IsHolder
      <3>3. CASE h = <<"scheduler", 1>> /\ sched'.id = x
        BY <2>2, <3>3, HoldersAre DEF IsHolder
      <3>4. CASE \E q \in Pools : \E i \in DOMAIN queue'[q] : h = <<q, i>> /\ queue'[q][i] = x
        <4>1. PICK q \in Pools : \E i \in DOMAIN queue'[q] : h = <<q, i>> /\ queue'[q][i] = x
          BY <3>4
        <4>2. PICK i \in DOMAIN queue'[q] : h = <<q, i>> /\ queue'[q][i] = x
          BY <4>1
        <4>3. q # "request"
          BY DEF Pools
        <4> QED
          BY <2>5, <4>2, <4>3, HoldersAre DEF IsHolder
      <3>5. CASE \E q \in Pools : h = <<"overflow", q>> /\ x \in overflow'[q]
        BY <2>5, <3>5, HoldersAre DEF IsHolder
      <3>6. CASE \E w \in Workers : h = <<"worker", w>> /\ worker'[w].id = x
        BY <2>2, <3>6, HoldersAre DEF IsHolder
      <3> QED
        BY <3>1, <3>2, <3>3, <3>4, <3>5, <3>6 DEF IsHolder
    <2>12. \A h \in Holders(id) : h = <<"request", r>>
      BY <2>4, <2>9 DEF JobsInv, HeldAlone
    <2>13. Holders(id)' \subseteq {place}
      BY <2>4, <2>11, <2>12
    <2>14. \A x \in Ids : x = id \/ Holders(x)' \subseteq Holders(x)
      BY <2>11
    <2> QED
      BY <2>2, <2>4, <2>8, <2>9, <2>13, <2>14, MovesOn
  <1>2. CASE SchedEnqueue
    <2>1. /\ sched.pc = "enqueue" /\ Enqueue("cron", sched.id)
          /\ sched' = [sched EXCEPT !.pc = "next", !.id = NoRun]
          /\ UNCHANGED <<crons, runs, worker, req, stream, live, crashes, started, calm>>
      BY <1>2 DEF SchedEnqueue
    <2>2. PICK id : id = sched.id
      OBVIOUS
    <2>3. id \in Ids /\ "cron" \in Pools /\ id # NoRun
      BY <2>1, <2>2, RunTypes DEF JobsInv, Tied, Exists, Pools
    <2>4. PICK place :
            /\ \A q \in Pools : \A i \in DOMAIN queue'[q] :
                  \/ i \in DOMAIN queue[q] /\ queue'[q][i] = queue[q][i]
                  \/ <<q, i>> = place /\ queue'[q][i] = id
            /\ \A q \in Pools : \A x \in overflow'[q] :
                  x \in overflow[q] \/ (<<"overflow", q>> = place /\ x = id)
      <3>1. Enqueue("cron", id)
        BY <2>1, <2>2
      <3> QED
        BY <2>3, <3>1, EnqueuePlaces
    <2>5. /\ queue' \in [Pools -> Seq(Ids)] /\ \A q \in Pools : Len(queue'[q]) <= QueueCap
          /\ overflow' \in [Pools -> SUBSET Ids]
      BY <2>1, <2>2, <2>3, EnqueueGives DEF JobsInv
    <2>6. sched' = [pc |-> "next", prev |-> sched.prev, now |-> sched.now, todo |-> sched.todo, id |-> NoRun]
      BY <2>1 DEF JobsInv, SchedShape
    <2>7. TypeOK' /\ SchedShape' /\ Tied'
      <3>1. TypeOK'
        BY <2>1, <2>5, <2>6 DEF JobsInv, TypeOK
      <3>2. SchedShape'
        BY <2>6 DEF JobsInv, SchedShape
      <3>3. Tied'
        BY <2>1, <2>6 DEF JobsInv, Tied, Exists
      <3> QED
        BY <3>1, <3>2, <3>3
    <2>8. <<"scheduler", 1>> \in Holders(id)
      BY <2>2, HoldersAre DEF IsHolder
    <2>9. \A x \in Ids : x # NoRun
      BY DEF Ids, NoRun
    <2>10. ASSUME NEW x \in Ids, NEW h \in Holders(x)'
           PROVE  (h = place /\ x = id) \/ (h \in Holders(x) /\ h # <<"scheduler", 1>>)
      <3>1. IsHolder(h, x)'
        BY <2>10, HoldersAre
      <3>2. CASE \E q \in Requests : h = <<"request", q>> /\ req'[q].id = x
        BY <2>1, <3>2, HoldersAre DEF IsHolder
      <3>3. CASE h = <<"scheduler", 1>> /\ sched'.id = x
        BY <2>6, <2>9, <3>3
      <3>4. CASE \E q \in Pools : \E i \in DOMAIN queue'[q] : h = <<q, i>> /\ queue'[q][i] = x
        <4>1. PICK q \in Pools : \E i \in DOMAIN queue'[q] : h = <<q, i>> /\ queue'[q][i] = x
          BY <3>4
        <4>2. PICK i \in DOMAIN queue'[q] : h = <<q, i>> /\ queue'[q][i] = x
          BY <4>1
        <4>3. q # "scheduler"
          BY DEF Pools
        <4> QED
          BY <2>4, <4>2, <4>3, HoldersAre DEF IsHolder
      <3>5. CASE \E q \in Pools : h = <<"overflow", q>> /\ x \in overflow'[q]
        BY <2>4, <3>5, HoldersAre DEF IsHolder
      <3>6. CASE \E w \in Workers : h = <<"worker", w>> /\ worker'[w].id = x
        BY <2>1, <3>6, HoldersAre DEF IsHolder
      <3> QED
        BY <3>1, <3>2, <3>3, <3>4, <3>5, <3>6 DEF IsHolder
    <2>11. \A h \in Holders(id) : h = <<"scheduler", 1>>
      BY <2>3, <2>8 DEF JobsInv, HeldAlone
    <2>12. Holders(id)' \subseteq {place}
      BY <2>3, <2>10, <2>11
    <2>13. \A x \in Ids : x = id \/ Holders(x)' \subseteq Holders(x)
      BY <2>10
    <2> QED
      BY <2>1, <2>3, <2>7, <2>8, <2>12, <2>13, MovesOn
  <1> QED
    BY <1>1, <1>2

\* A goroutine that waited for the queue gets its turn.
LEMMA LaterKeeps ==
  ASSUME JobsInv, NEW p \in Pools, NEW id \in Ids, EnqueueLater(p, id) PROVE JobsInv'
  <1>1. /\ id \in overflow[p] /\ Len(queue[p]) < QueueCap
        /\ queue' = [queue EXCEPT ![p] = Append(@, id)]
        /\ overflow' = [overflow EXCEPT ![p] = @ \ {id}]
        /\ UNCHANGED <<crons, runs, worker, req, sched, live, crashes, started, calm>>
    BY DEF EnqueueLater
  <1> DEFINE place == <<p, Len(queue[p]) + 1>>
  <1>2. \A q \in Pools : \A i \in DOMAIN queue'[q] :
           \/ i \in DOMAIN queue[q] /\ queue'[q][i] = queue[q][i]
           \/ <<q, i>> = place /\ queue'[q][i] = id
    BY <1>1, SendFills DEF JobsInv
  <1>3. queue' \in [Pools -> Seq(Ids)] /\ \A q \in Pools : Len(queue'[q]) <= QueueCap
    BY <1>1, SendFills DEF JobsInv
  <1>4. /\ overflow' \in [Pools -> SUBSET Ids] /\ id \notin overflow'[p]
        /\ \A q \in Pools : overflow'[q] \subseteq overflow[q]
    BY <1>1 DEF JobsInv, TypeOK
  <1> HIDE DEF place
  <1>5. TypeOK' /\ SchedShape' /\ Tied'
    <2>1. TypeOK'
      BY <1>1, <1>3, <1>4 DEF JobsInv, TypeOK
    <2> QED
      BY <1>1, <2>1 DEF JobsInv, SchedShape, Tied, Exists
  <1>6. <<"overflow", p>> \in Holders(id)
    BY <1>1, HoldersAre DEF IsHolder
  <1>7. ASSUME NEW x \in Ids, NEW h \in Holders(x)'
        PROVE  (h = place /\ x = id) \/ (h \in Holders(x) /\ (x = id => h # <<"overflow", p>>))
    <2>1. IsHolder(h, x)'
      BY <1>7, HoldersAre
    <2>2. CASE \E q \in Requests : h = <<"request", q>> /\ req'[q].id = x
      BY <1>1, <2>2, HoldersAre DEF IsHolder
    <2>3. CASE h = <<"scheduler", 1>> /\ sched'.id = x
      BY <1>1, <2>3, HoldersAre DEF IsHolder
    <2>4. CASE \E q \in Pools : \E i \in DOMAIN queue'[q] : h = <<q, i>> /\ queue'[q][i] = x
      <3>1. PICK q \in Pools : \E i \in DOMAIN queue'[q] : h = <<q, i>> /\ queue'[q][i] = x
        BY <2>4
      <3>2. PICK i \in DOMAIN queue'[q] : h = <<q, i>> /\ queue'[q][i] = x
        BY <3>1
      <3>3. q # "overflow"
        BY DEF Pools
      <3> QED
        BY <1>2, <3>2, <3>3, HoldersAre DEF IsHolder
    <2>5. CASE \E q \in Pools : h = <<"overflow", q>> /\ x \in overflow'[q]
      BY <1>4, <2>5, HoldersAre DEF IsHolder
    <2>6. CASE \E w \in Workers : h = <<"worker", w>> /\ worker'[w].id = x
      BY <1>1, <2>6, HoldersAre DEF IsHolder
    <2> QED
      BY <2>1, <2>2, <2>3, <2>4, <2>5, <2>6 DEF IsHolder
  <1>8. \A h \in Holders(id) : h = <<"overflow", p>>
    BY <1>6 DEF JobsInv, HeldAlone
  <1>9. Holders(id)' \subseteq {place}
    BY <1>7, <1>8
  <1>10. \A x \in Ids : x = id \/ Holders(x)' \subseteq Holders(x)
    BY <1>7
  <1> QED
    BY <1>1, <1>5, <1>6, <1>9, <1>10, MovesOn

\* The row that Create inserts.
LEMMA CreateAdds ==
  ASSUME TypeOK, NEW blank \in BOOLEAN, Create(blank)
  PROVE  /\ runs' \in Seq(Run) /\ Len(runs') <= MaxRuns
         /\ Len(runs) + 1 \in Ids /\ Len(runs) + 1 \notin DOMAIN runs
         /\ DOMAIN runs' = DOMAIN runs \cup {Len(runs) + 1}
         /\ \A id \in DOMAIN runs : runs'[id] = runs[id]
         /\ runs'[Len(runs) + 1].status = "pending"
  <1> DEFINE row == [status |-> "pending", output |-> IF blank THEN <<>> ELSE <<Command>>]
  <1>1. /\ runs \in Seq(Run) /\ Len(runs) \in Nat /\ DOMAIN runs = 1..Len(runs)
        /\ Len(runs) < MaxRuns /\ runs' = Append(runs, row)
    BY RunTypes DEF Create
  <1>2. <<>> \in Seq({Command, Header, Chunk}) /\ <<Command>> \in Seq({Command, Header, Chunk})
    OBVIOUS
  <1>3. row \in Run /\ row.status = "pending"
    BY <1>2 DEF Run
  <1> HIDE DEF row
  <1>4. /\ runs' \in Seq(Run) /\ Len(runs') = Len(runs) + 1
        /\ \A i \in 1..Len(runs) : runs'[i] = runs[i]
        /\ runs'[Len(runs) + 1] = row
    BY <1>1, <1>3, AppendProperties
  <1>5. DOMAIN runs' = 1..(Len(runs) + 1)
    BY <1>4, LenProperties
  <1>6. Len(runs) + 1 \in Ids /\ Len(runs') <= MaxRuns
    BY <1>1, <1>4, BoundsAssumption DEF Ids
  <1> QED
    BY <1>1, <1>3, <1>4, <1>5, <1>6

\* A new row has one holder at most, and its command was not started.
LEMMA CreateKeeps ==
  ASSUME JobsInv, NEW blank \in BOOLEAN, Create(blank), NEW to,
         TypeOK', SchedShape', Tied', started' = started, worker' = worker,
         \A x \in Ids : \A h \in Holders(x)' : h \in Holders(x) \/ (x = Len(runs) + 1 /\ h = to)
  PROVE  JobsInv'
  <1>1. PICK id : id = Len(runs) + 1
    OBVIOUS
  <1>2. /\ id \in Ids /\ id \notin DOMAIN runs /\ DOMAIN runs' = DOMAIN runs \cup {id}
        /\ \A x \in DOMAIN runs : runs'[x] = runs[x]
        /\ runs'[id].status = "pending"
    BY <1>1, CreateAdds DEF JobsInv
  <1>3. Holders(id) = {}
    BY <1>2 DEF JobsInv, HeldUnfinished, Unfinished, Exists
  <1>4. \A x \in Ids : \A h \in Holders(x)' : h \in Holders(x) \/ (x = id /\ h = to)
    BY <1>1
  <1>5. \A h \in Holders(id)' : h = to
    BY <1>2, <1>3, <1>4
  <1>6. HeldUnfinished'
    <2> SUFFICES ASSUME NEW x \in Ids, NEW h \in Holders(x)' PROVE Unfinished(x)'
      BY DEF HeldUnfinished
    <2>1. CASE x = id
      BY <1>2, <2>1 DEF Unfinished, Exists, Finished
    <2>2. CASE x # id
      BY <1>2, <1>4, <2>2 DEF JobsInv, HeldUnfinished, Unfinished, Exists, Finished
    <2> QED
      BY <2>1, <2>2
  <1>7. HeldAlone'
    <2> SUFFICES ASSUME NEW x \in Ids, NEW g \in Holders(x)', NEW h \in Holders(x)' PROVE g = h
      BY DEF HeldAlone
    <2>1. CASE x = id
      <3>1. Holders(x)' = Holders(id)'
        BY <2>1
      <3> QED
        BY <1>5, <3>1
    <2>2. CASE x # id
      BY <1>4, <2>2 DEF JobsInv, HeldAlone
    <2> QED
      BY <2>1, <2>2
  <1>8. StartedOnce'
    <2>1. ASSUME NEW x \in Ids, x \notin DOMAIN runs' \/ (Holders(x)' # {} /\ NotBegun(x)') PROVE started'[x] = 0
      <3>1. CASE x = id
        BY <1>2, <3>1 DEF JobsInv, StartedOnce, Exists
      <3>2. CASE x # id
        <4>1. x \notin DOMAIN runs \/ (Holders(x) # {} /\ NotBegun(x))
          BY <1>2, <1>4, <2>1, <3>2 DEF NotBegun
        <4> QED
          BY <4>1 DEF JobsInv, StartedOnce, Exists
      <3> QED
        BY <3>1, <3>2
    <2> QED
      BY <2>1 DEF JobsInv, StartedOnce, Exists
  <1> QED
    BY <1>6, <1>7, <1>8 DEF JobsInv

\* A request for a certificate, or to run a cron now.
LEMMA RequestCreates ==
  ASSUME JobsInv, NEW r \in Requests, EnqueueCertbot(r) \/ \E k \in Crons : RunManual(r, k)
  PROVE  JobsInv'
  <1>1. /\ UNCHANGED <<crons, queue, overflow, worker, sched, stream, live, crashes, started>>
        /\ req[r].pc = "idle"
        /\ \E blank \in BOOLEAN : Create(blank)
        /\ \E ok \in Outcomes(TRUE) :
              /\ calm' = (calm /\ ok)
              /\ req' = req \/ req' = [req EXCEPT ![r] = [pc |-> "enqueue", id |-> Len(runs) + 1]]
    <2>1. \A k \in Crons : crons[k].blank \in BOOLEAN
      BY DEF JobsInv, TypeOK, Cron
    <2>2. CASE EnqueueCertbot(r)
      BY <2>2 DEF EnqueueCertbot, Statement
    <2>3. CASE \E k \in Crons : RunManual(r, k)
      BY <2>1, <2>3 DEF RunManual, Statement
    <2> QED
      BY <2>2, <2>3
  <1>2. PICK blank \in BOOLEAN : Create(blank)
    BY <1>1
  <1>3. /\ runs' \in Seq(Run) /\ Len(runs') <= MaxRuns
        /\ Len(runs) + 1 \in Ids /\ DOMAIN runs' = DOMAIN runs \cup {Len(runs) + 1}
    BY <1>2, CreateAdds DEF JobsInv
  <1>4. PICK id : id = Len(runs) + 1
    OBVIOUS
  <1>5. calm' \in BOOLEAN
    BY <1>1, OutcomesAreBoolean, CalmStays DEF JobsInv, TypeOK
  <1>6. /\ req' \in [Requests -> [pc : {"idle", "enqueue"}, id : Ids \cup {NoRun}]]
        /\ \A q \in Requests \ {r} : req'[q] = req[q]
        /\ req'[r] = req[r] \/ (req'[r].pc = "enqueue" /\ req'[r].id = id)
    <2>1. req \in [Requests -> [pc : {"idle", "enqueue"}, id : Ids \cup {NoRun}]] /\ id \in Ids
      BY <1>3, <1>4 DEF JobsInv, TypeOK
    <2>2. CASE req' = req
      BY <2>1, <2>2
    <2>3. CASE req' = [req EXCEPT ![r] = [pc |-> "enqueue", id |-> Len(runs) + 1]]
      <3>1. req' = [req EXCEPT ![r] = [pc |-> "enqueue", id |-> id]]
        BY <1>4, <2>3
      <3> QED
        BY <2>1, <3>1
    <2> QED
      BY <1>1, <2>2, <2>3
  <1>7. TypeOK'
    BY <1>1, <1>3, <1>5, <1>6 DEF JobsInv, TypeOK
  <1>8. SchedShape' /\ Tied'
    <2>1. \A q \in Requests : IF req'[q].pc = "idle" THEN req'[q].id = NoRun ELSE req'[q].id \in DOMAIN runs'
      BY <1>3, <1>4, <1>6 DEF JobsInv, Tied, Exists
    <2> QED
      BY <1>1, <1>3, <2>1 DEF JobsInv, SchedShape, Tied, Exists
  <1>9. ASSUME NEW x \in Ids, NEW h \in Holders(x)'
        PROVE  h \in Holders(x) \/ (x = id /\ h = <<"request", r>>)
    <2>1. IsHolder(h, x)'
      BY <1>9, HoldersAre
    <2>2. CASE \E q \in Requests : h = <<"request", q>> /\ req'[q].id = x
      BY <1>6, <2>2, HoldersAre DEF IsHolder
    <2>3. CASE h = <<"scheduler", 1>> /\ sched'.id = x
      BY <1>1, <2>3, HoldersAre DEF IsHolder
    <2>4. CASE \E q \in Pools : \E i \in DOMAIN queue'[q] : h = <<q, i>> /\ queue'[q][i] = x
      BY <1>1, <2>4, HoldersAre DEF IsHolder
    <2>5. CASE \E q \in Pools : h = <<"overflow", q>> /\ x \in overflow'[q]
      BY <1>1, <2>5, HoldersAre DEF IsHolder
    <2>6. CASE \E w \in Workers : h = <<"worker", w>> /\ worker'[w].id = x
      BY <1>1, <2>6, HoldersAre DEF IsHolder
    <2> QED
      BY <2>1, <2>2, <2>3, <2>4, <2>5, <2>6 DEF IsHolder
  <1> QED
    BY <1>1, <1>2, <1>4, <1>7, <1>8, <1>9, CreateKeeps

\* The scheduler starts a due cron, or fails to.
LEMMA SchedCreates ==
  ASSUME JobsInv, NEW c \in sched.todo, SchedCreate(c) PROVE JobsInv'
  <1>0. c[2] \in BOOLEAN /\ \A d \in sched.todo \ {c} : d[2] \in BOOLEAN
    BY DEF JobsInv, SchedShape
  <1>1. /\ UNCHANGED <<crons, queue, overflow, worker, req, stream, live, crashes, started>>
        /\ sched.pc = "next"
    BY DEF SchedCreate
  <1>2. sched.id = NoRun /\ sched.now \in 0..MaxTime
    BY <1>1 DEF JobsInv, Tied, TypeOK
  <1>3. PICK id : id = Len(runs) + 1
    OBVIOUS
  <1> DEFINE rest == [sched EXCEPT !.todo = @ \ {c}]
             begun == [sched EXCEPT !.pc = "enqueue", !.todo = @ \ {c}, !.id = id]
  <1>4. /\ rest = [pc |-> "next", prev |-> sched.prev, now |-> sched.now, todo |-> sched.todo \ {c}, id |-> NoRun]
        /\ begun = [pc |-> "enqueue", prev |-> sched.prev, now |-> sched.now, todo |-> sched.todo \ {c}, id |-> id]
    <2>1. sched = [pc |-> "next", prev |-> sched.prev, now |-> sched.now, todo |-> sched.todo, id |-> NoRun]
      BY <1>1, <1>2 DEF JobsInv, SchedShape
    <2>2. rest = [pc |-> "next", prev |-> sched.prev, now |-> sched.now, todo |-> sched.todo \ {c}, id |-> NoRun]
      BY <2>1
    <2>3. begun = [pc |-> "enqueue", prev |-> sched.prev, now |-> sched.now, todo |-> sched.todo \ {c}, id |-> id]
      <3>1. PICK todo : todo = sched.todo \ {c}
        OBVIOUS
      <3>2. begun = [sched EXCEPT !.pc = "enqueue", !.todo = todo, !.id = id]
        BY <3>1
      <3> HIDE DEF begun
      <3> QED
        BY <2>1, <3>1, <3>2
    <2> QED
      BY <2>2, <2>3
  <1>5. \/ Create(c[2]) /\ (sched' = begun \/ sched' = rest) /\ \E ok \in Outcomes(live) : calm' = (calm /\ ok)
        \/ runs' = runs /\ sched' = rest /\ calm' = FALSE
    BY <1>3 DEF SchedCreate, Statement
  <1> HIDE DEF rest, begun
  <1>6. calm' \in BOOLEAN
    BY <1>5, OutcomesAreBoolean, CalmStays DEF JobsInv, TypeOK
  <1>7. CASE runs' = runs /\ sched' = rest /\ calm' = FALSE
    <2>1. SchedShape' /\ sched'.id = sched.id /\ sched'.pc = "next" /\ sched'.now = sched.now
      BY <1>0, <1>2, <1>4, <1>7 DEF SchedShape
    <2> QED
      BY <1>1, <1>2, <1>6, <1>7, <2>1, AsideKeeps DEF JobsInv, TypeOK
  <1>8. CASE Create(c[2]) /\ (sched' = begun \/ sched' = rest)
    <2>1. /\ runs' \in Seq(Run) /\ Len(runs') <= MaxRuns
          /\ id \in Ids /\ DOMAIN runs' = DOMAIN runs \cup {id}
      BY <1>0, <1>3, <1>8, CreateAdds DEF JobsInv
    <2>2. /\ sched'.pc \in {"next", "enqueue"} /\ sched'.now = sched.now
          /\ IF sched'.pc = "enqueue" THEN sched'.id = id ELSE sched'.id = NoRun
          /\ sched' = [pc |-> sched'.pc, prev |-> sched'.prev, now |-> sched'.now, todo |-> sched'.todo, id |-> sched'.id]
          /\ sched'.todo = sched.todo \ {c}
      BY <1>4, <1>8
    <2>3. TypeOK'
      BY <1>1, <1>2, <1>6, <2>1, <2>2 DEF JobsInv, TypeOK
    <2>4. SchedShape' /\ Tied'
      <3>1. SchedShape'
        BY <1>0, <2>1, <2>2 DEF SchedShape
      <3>2. Tied'
        BY <1>1, <2>1, <2>2 DEF JobsInv, Tied, Exists
      <3> QED
        BY <3>1, <3>2
    <2>5. \A x \in Ids : x # NoRun
      BY DEF Ids, NoRun
    <2>6. ASSUME NEW x \in Ids, NEW h \in Holders(x)'
          PROVE  h \in Holders(x) \/ (x = id /\ h = <<"scheduler", 1>>)
      <3>1. IsHolder(h, x)'
        BY <2>6, HoldersAre
      <3>2. CASE h = <<"scheduler", 1>> /\ sched'.id = x
        BY <2>2, <2>5, <3>2
      <3>3. CASE \E q \in Requests : h = <<"request", q>> /\ req'[q].id = x
        BY <1>1, <3>3, HoldersAre DEF IsHolder
      <3>4. CASE \E q \in Pools : \E i \in DOMAIN queue'[q] : h = <<q, i>> /\ queue'[q][i] = x
        BY <1>1, <3>4, HoldersAre DEF IsHolder
      <3>5. CASE \E q \in Pools : h = <<"overflow", q>> /\ x \in overflow'[q]
        BY <1>1, <3>5, HoldersAre DEF IsHolder
      <3>6. CASE \E w \in Workers : h = <<"worker", w>> /\ worker'[w].id = x
        BY <1>1, <3>6, HoldersAre DEF IsHolder
      <3> QED
        BY <3>1, <3>2, <3>3, <3>4, <3>5, <3>6 DEF IsHolder
    <2>7. \A x \in Ids : \A h \in Holders(x)' : h \in Holders(x) \/ (x = Len(runs) + 1 /\ h = <<"scheduler", 1>>)
      BY <1>3, <2>6
    <2> QED
      BY <1>0, <1>1, <1>8, <2>3, <2>4, <2>7, CreateKeeps
  <1> QED
    BY <1>5, <1>7, <1>8

-----------------------------------------------------------------------------
(* The theorems.                                                           *)

LEMMA JobsInit == Init => JobsInv
  <1> SUFFICES ASSUME Init PROVE JobsInv
    OBVIOUS
  <1> USE DEF Init
  <1>1. TypeOK
    <2>1. <<>> \in Seq(Run) /\ <<>> \in Seq(Ids) /\ Len(<<>>) = 0 /\ 0 <= MaxRuns /\ 0 <= QueueCap
      BY BoundsAssumption
    <2>2. worker \in [Workers -> WorkerType]
      BY IdleIsTyped
    <2>3. sched.pc = "idle" /\ sched.now \in 0..MaxTime /\ crashes \in 0..MaxCrashes
      BY BoundsAssumption DEF IdleSched
    <2>4. crons \in [Crons -> Cron]
      BY DEF NoCron, Cron, RunEvery
    <2>5. queue \in [Pools -> Seq(Ids)] /\ \A p \in Pools : Len(queue[p]) <= QueueCap
      BY <2>1
    <2> QED
      BY <2>1, <2>2, <2>3, <2>4, <2>5 DEF TypeOK, WorkerType, IdleRequest
  <1>2. SchedShape /\ Tied
    BY DEF SchedShape, Tied, IdleSched, IdleRequest, IdleWorker
  <1>3. ASSUME NEW id \in Ids, NEW h, IsHolder(h, id) PROVE FALSE
    <2>1. id # NoRun
      BY DEF Ids, NoRun
    <2> QED
      BY <1>3, <2>1 DEF IsHolder, IdleSched, IdleRequest, IdleWorker
  <1>4. \A id \in Ids : Holders(id) = {}
    BY <1>3, HoldersAre
  <1>5. HeldUnfinished /\ HeldAlone
    BY <1>4 DEF HeldUnfinished, HeldAlone
  <1>6. StartedOnce
    BY DEF StartedOnce
  <1> QED
    BY <1>1, <1>2, <1>5, <1>6 DEF JobsInv

LEMMA JobsNext == JobsInv /\ [Next]_vars => JobsInv'
  <1> SUFFICES ASSUME JobsInv, [Next]_vars PROVE JobsInv'
    OBVIOUS
  <1>1. CASE CronCrud
    BY <1>1, CrudKeeps
  <1>2. CASE \E r \in Requests : EnqueueCertbot(r) \/ \E k \in Crons : RunManual(r, k)
    BY <1>2, RequestCreates
  <1>3. CASE \E t \in 1..MaxTime : SchedTick(t)
    BY <1>3, TickKeeps
  <1>4. CASE Producing
    BY <1>4, EnqueueKeeps, SchedCreates, SchedDoneKeeps DEF Producing
  <1>5. CASE \E p \in Pools : Sending(p)
    BY <1>5, LaterKeeps DEF Sending
  <1>6. CASE \E w \in Workers : Processing(w) \/ CommandPrints(w)
    BY <1>6, TakeKeeps, WorkerMoves, WorkerRests, MarkKeeps, BeforeRunKeeps, PrintKeeps DEF Processing
  <1>7. CASE \/ \E s \in Streams : Following(s) \/ StreamEnds(s) \/ \E id \in Ids : StreamOpen(s, id)
             \/ Signal
    BY <1>7, FollowersKeep
  <1>8. CASE Crash
    BY <1>8, CrashKeeps
  <1>9. CASE UNCHANGED vars
    <2>1. UNCHANGED <<crons, runs, queue, overflow, worker, req, sched, live, crashes, started, calm>>
      BY <1>9 DEF vars
    <2> QED
      BY <2>1, AsideKeeps DEF JobsInv, TypeOK, SchedShape
  <1> QED
    BY <1>1, <1>2, <1>3, <1>4, <1>5, <1>6, <1>7, <1>8, <1>9 DEF Next

LEMMA JobsInductive == Spec => []JobsInv
  BY JobsInit, JobsNext, PTL DEF Spec

\* Every variable has the type the code gives it; a queue never holds more
\* than its capacity.
THEOREM JobsTyped == Spec => []TypeOK
  <1>1. JobsInv => TypeOK
    BY DEF JobsInv
  <1> QED
    BY <1>1, JobsInductive, PTL

\* A run is held by one goroutine, queue or worker at most, its command is
\* started once at most, and a finished run is at no worker: for any number of
\* workers and runs, any capacity, whatever fails, is refused or restarted.
THEOREM RunsAreHeldOnce == Spec => []HeldOnce
  <1>1. JobsInv => HeldOnce
    <2> SUFFICES ASSUME JobsInv PROVE HeldOnce
      OBVIOUS
    <2>1. DOMAIN runs \subseteq Ids
      BY RunTypes DEF JobsInv
    <2>2. ASSUME NEW id \in DOMAIN runs PROVE Cardinality(Holders(id)) <= 1
      <3>1. PICK H : H = Holders(id)
        OBVIOUS
      <3>2. \A g, h \in H : g = h
        BY <2>1, <3>1 DEF JobsInv, HeldAlone
      <3>3. CASE H = {}
        BY <3>1, <3>3, FS_EmptySet
      <3>4. CASE H # {}
        <4>1. PICK h : h \in H
          BY <3>4
        <4>2. H = {h}
          BY <3>2, <4>1
        <4> QED
          BY <3>1, <4>2, FS_Singleton
      <3> QED
        BY <3>3, <3>4
    <2>3. \A id \in DOMAIN runs : started[id] <= 1
      BY <2>1 DEF JobsInv, StartedOnce
    <2>4. ASSUME NEW id \in DOMAIN runs, Finished(id), NEW w \in Workers, worker[w].id = id PROVE FALSE
      <3>1. <<"worker", w>> \in Holders(id)
        BY <2>4, HoldersAre DEF IsHolder
      <3> QED
        BY <2>1, <2>4, <3>1 DEF JobsInv, HeldUnfinished, Unfinished
    <2> QED
      BY <2>2, <2>3, <2>4 DEF HeldOnce
  <1> QED
    BY <1>1, JobsInductive, PTL

\* A step writes no row, inserts one, or is that of a worker at work on the
\* row it writes.
LEMMA WhoWrites ==
  ASSUME JobsInv, [Next]_vars
  PROVE  \/ runs' = runs
         \/ \E blank \in BOOLEAN : Create(blank)
         \/ \E w \in Workers : \E status, output :
               worker[w].pc \notin {"idle", "gone"} /\ SetRun(worker[w].id, status, output)
  <1>1. CASE CronCrud
    BY <1>1 DEF CronCrud, CronCreate, CronUpdate, CronDelete
  <1>2. CASE \E r \in Requests : EnqueueCertbot(r) \/ \E k \in Crons : RunManual(r, k)
    BY <1>2 DEF EnqueueCertbot, RunManual, JobsInv, TypeOK, Cron
  <1>3. CASE \E t \in 1..MaxTime : SchedTick(t)
    BY <1>3 DEF SchedTick
  <1>4. CASE Producing
    <2>1. CASE \E c \in sched.todo : SchedCreate(c)
      BY <2>1 DEF SchedCreate, JobsInv, SchedShape
    <2> QED
      BY <1>4, <2>1 DEF Producing, RequestEnqueue, SchedEnqueue, SchedDone
  <1>5. CASE \E p \in Pools : Sending(p)
    BY <1>5 DEF Sending, EnqueueLater
  <1>6. ASSUME NEW w \in Workers, Processing(w) \/ CommandPrints(w)
        PROVE  runs' = runs \/ (worker[w].pc \notin {"idle", "gone"} /\ \E status, output : SetRun(worker[w].id, status, output))
    <2>1. CASE Take(w) \/ Quit(w) \/ Find(w) \/ BeforeRun(w) \/ Veto(w) \/ CommandEnds(w)
      BY <2>1 DEF Take, Quit, Find, BeforeRun, Veto, CommandEnds
    <2>2. CASE CompleteEmpty(w)
      BY <2>2 DEF CompleteEmpty, At, Statement
    <2>3. CASE MarkRunningWithOutput(w)
      BY <2>3 DEF MarkRunningWithOutput, At, Statement
    <2>4. CASE CompleteVetoed(w)
      BY <2>4 DEF CompleteVetoed, At, Statement
    <2>5. CASE CompleteStatus(w)
      BY <2>5 DEF CompleteStatus, At, Statement
    <2>6. CASE CommandPrints(w)
      BY <2>6 DEF CommandPrints, At, Statement
    <2> QED
      BY <1>6, <2>1, <2>2, <2>3, <2>4, <2>5, <2>6 DEF Processing
  <1>7. CASE \E s \in Streams : Following(s) \/ StreamEnds(s) \/ \E id \in Ids : StreamOpen(s, id)
    BY <1>7, Zenon DEF Following, Poll, Final, StreamEnds, StreamOpen
  <1>8. CASE Signal \/ Crash \/ UNCHANGED vars
    BY <1>8 DEF Signal, Crash, vars
  <1> QED
    BY <1>1, <1>2, <1>3, <1>4, <1>5, <1>6, <1>7, <1>8 DEF Next

\* A finished run is never changed again: only the worker that holds a run
\* writes its row, and nobody holds a finished one.
THEOREM ResultsAreFinal == Spec => FinishedIsFinal
  <1>1. JobsInv /\ [Next]_vars => [\A id \in DOMAIN runs : Finished(id) => runs'[id] = runs[id]]_vars
    <2> SUFFICES ASSUME JobsInv, [Next]_vars, NEW id \in DOMAIN runs, Finished(id) PROVE runs'[id] = runs[id]
      OBVIOUS
    <2>1. CASE \E blank \in BOOLEAN : Create(blank)
      BY <2>1, CreateAdds DEF JobsInv
    <2>2. ASSUME NEW w \in Workers, NEW status, NEW output,
                 worker[w].pc \notin {"idle", "gone"}, SetRun(worker[w].id, status, output)
          PROVE  runs'[id] = runs[id]
      <3>1. id # worker[w].id
        BY <2>2, WorkerHolds
      <3>2. runs \in Seq(Run) /\ id \in DOMAIN runs
        BY DEF JobsInv, TypeOK
      <3> QED
        BY <2>2, <3>1, <3>2 DEF SetRun
    <2> QED
      BY <2>1, <2>2, WhoWrites
  <1> QED
    BY <1>1, JobsInductive, PTL DEF Spec, FinishedIsFinal
-----------------------------------------------------------------------------
(* No run is forgotten.                                                    *)

\* Somebody holds the run: Holders(id) is not empty.
Held(id) ==
    \/ \E r \in Requests : req[r].id = id
    \/ sched.id = id
    \/ \E p \in Pools : \E i \in DOMAIN queue[p] : queue[p][i] = id
    \/ \E p \in Pools : id \in overflow[p]
    \/ \E w \in Workers : worker[w].id = id

LEMMA HeldIs ==
  ASSUME NEW id
  PROVE  Holders(id) # {} <=> Held(id)
  <1>1. (\E h : IsHolder(h, id)) <=> Held(id)
    BY DEF IsHolder, Held
  <1> QED
    BY <1>1, HoldersAre

\* Every unfinished run is held.
AllHeld == \A id \in DOMAIN runs : ~Finished(id) => Held(id)

\* The step finishes no run and takes none from those who hold it.
LEMMA KeepsAll ==
  ASSUME AllHeld, DOMAIN runs' = DOMAIN runs,
         \A id \in DOMAIN runs : Finished(id) => runs'[id].status \in {"ok", "failed"},
         \A id \in DOMAIN runs : Held(id) => Held(id)'
  PROVE  AllHeld'
  BY DEF AllHeld, Finished

\* Runs and those who hold them are left alone.
LEMMA AsideForgetsNone ==
  ASSUME AllHeld, UNCHANGED <<runs, queue, overflow, worker, req>>, sched'.id = sched.id
  PROVE  AllHeld'
  BY DEF AllHeld, Held, Finished

\* Run id has a place in or in front of the queue of p, and whatever run x had one
\* keeps it.
StillQueued(p, id, x) ==
    /\ (\E q \in Pools : \E i \in DOMAIN queue[q] : queue[q][i] = x)
         => \E q \in Pools : \E i \in DOMAIN queue'[q] : queue'[q][i] = x
    /\ (\E q \in Pools : x \in overflow[q]) => x = id \/ \E q \in Pools : x \in overflow'[q]
    /\ \/ \E i \in DOMAIN queue'[p] : queue'[p][i] = id
       \/ id \in overflow'[p]

\* Enqueue gives the run to the queue, or to a goroutine in front of it.
LEMMA EnqueueHolds ==
  ASSUME TypeOK, NEW p \in Pools, NEW id \in Ids, NEW x,
         \/ Enqueue(p, id)
         \/ queue' = [queue EXCEPT ![p] = Append(@, id)] /\ overflow' = [overflow EXCEPT ![p] = @ \ {id}]
  PROVE  StillQueued(p, id, x)
  <1>1. /\ queue \in [Pools -> Seq(Ids)] /\ overflow \in [Pools -> SUBSET Ids]
        /\ queue[p] \in Seq(Ids) /\ Len(queue[p]) \in Nat /\ DOMAIN queue[p] = 1..Len(queue[p])
    BY QueueTypes DEF TypeOK
  <1>2. CASE queue' = [queue EXCEPT ![p] = Append(@, id)] /\ (overflow' = overflow \/ overflow' = [overflow EXCEPT ![p] = @ \ {id}])
    <2>1. queue'[p] = Append(queue[p], id) /\ \A q \in Pools \ {p} : queue'[q] = queue[q]
      BY <1>1, <1>2
    <2>2. /\ Append(queue[p], id) \in Seq(Ids) /\ Len(Append(queue[p], id)) = Len(queue[p]) + 1
          /\ \A i \in 1..Len(queue[p]) : Append(queue[p], id)[i] = queue[p][i]
          /\ Append(queue[p], id)[Len(queue[p]) + 1] = id
      BY <1>1, AppendProperties
    <2>3. DOMAIN Append(queue[p], id) = 1..(Len(queue[p]) + 1)
      BY <2>2, LenProperties
    <2>4. ASSUME NEW q \in Pools, NEW i \in DOMAIN queue[q] PROVE i \in DOMAIN queue'[q] /\ queue'[q][i] = queue[q][i]
      <3>1. CASE q = p
        <4>1. i \in 1..Len(queue[p]) /\ i \in 1..(Len(queue[p]) + 1)
          BY <1>1, <3>1
        <4> QED
          BY <2>1, <2>2, <2>3, <3>1, <4>1
      <3> QED
        BY <2>1, <3>1
    <2>5. \A q \in Pools : \A y \in overflow[q] : y = id \/ y \in overflow'[q]
      BY <1>1, <1>2
    <2>6. Len(queue[p]) + 1 \in DOMAIN queue'[p] /\ queue'[p][Len(queue[p]) + 1] = id
      BY <1>1, <2>1, <2>2, <2>3
    <2> QED
      BY <2>4, <2>5, <2>6 DEF StillQueued
  <1>3. CASE queue' = queue /\ overflow' = [overflow EXCEPT ![p] = @ \cup {id}]
    <2>1. id \in overflow'[p] /\ \A q \in Pools : overflow[q] \subseteq overflow'[q]
      BY <1>1, <1>3, Zenon
    <2> QED
      BY <1>3, <2>1 DEF StillQueued
  <1> QED
    BY <1>2, <1>3 DEF Enqueue

LEMMA EnqueueForgetsNone ==
  ASSUME JobsInv, AllHeld,
         (\E r \in Requests : RequestEnqueue(r)) \/ SchedEnqueue \/ (\E p \in Pools : Sending(p))
  PROVE  AllHeld'
  <1>1. /\ UNCHANGED <<runs, worker>>
        /\ \E p \in Pools : \E id \in Ids :
              /\ \/ Enqueue(p, id)
                 \/ queue' = [queue EXCEPT ![p] = Append(@, id)] /\ overflow' = [overflow EXCEPT ![p] = @ \ {id}]
              /\ \A r \in Requests : req[r].id \notin {id, req'[r].id} => req[r].id \notin DOMAIN runs
              /\ sched.id \notin {id, sched'.id} => sched.id \notin DOMAIN runs
    <2>1. ASSUME NEW r \in Requests, RequestEnqueue(r)
          PROVE  /\ UNCHANGED <<runs, worker, sched>> /\ "api" \in Pools /\ req[r].id \in Ids
                 /\ Enqueue("api", req[r].id) /\ \A q \in Requests \ {r} : req'[q] = req[q]
      <3>1. req \in [Requests -> [pc : {"idle", "enqueue"}, id : Ids \cup {NoRun}]]
        BY DEF JobsInv, TypeOK
      <3> QED
        BY <2>1, <3>1, RunTypes DEF RequestEnqueue, JobsInv, Tied, Exists, Pools
    <2>2. ASSUME SchedEnqueue
          PROVE  UNCHANGED <<runs, worker, req>> /\ "cron" \in Pools /\ sched.id \in Ids /\ Enqueue("cron", sched.id)
      BY <2>2, RunTypes DEF SchedEnqueue, JobsInv, Tied, Exists, Pools
    <2>3. ASSUME NEW p \in Pools, NEW id \in Ids, EnqueueLater(p, id)
          PROVE  /\ UNCHANGED <<runs, worker, req, sched>>
                 /\ queue' = [queue EXCEPT ![p] = Append(@, id)] /\ overflow' = [overflow EXCEPT ![p] = @ \ {id}]
      BY <2>3 DEF EnqueueLater
    <2>4. CASE \E r \in Requests : RequestEnqueue(r)
      BY <2>1, <2>4
    <2>5. CASE SchedEnqueue
      BY <2>2, <2>5
    <2>6. CASE \E p \in Pools : Sending(p)
      BY <2>3, <2>6 DEF Sending
    <2> QED
      BY <2>4, <2>5, <2>6
  <1>2. PICK p \in Pools, id \in Ids :
              /\ \/ Enqueue(p, id)
                 \/ queue' = [queue EXCEPT ![p] = Append(@, id)] /\ overflow' = [overflow EXCEPT ![p] = @ \ {id}]
              /\ \A r \in Requests : req[r].id \notin {id, req'[r].id} => req[r].id \notin DOMAIN runs
              /\ sched.id \notin {id, sched'.id} => sched.id \notin DOMAIN runs
    BY <1>1
  <1>3. ASSUME NEW x \in DOMAIN runs, Held(x) PROVE Held(x)'
    <2>1. /\ (\E q \in Pools : \E i \in DOMAIN queue[q] : queue[q][i] = x)
               => \E q \in Pools : \E i \in DOMAIN queue'[q] : queue'[q][i] = x
          /\ (\E q \in Pools : x \in overflow[q]) => x = id \/ \E q \in Pools : x \in overflow'[q]
          /\ \/ \E i \in DOMAIN queue'[p] : queue'[p][i] = id
             \/ id \in overflow'[p]
      <3>1. TypeOK
        BY DEF JobsInv
      <3>2. \/ Enqueue(p, id)
            \/ queue' = [queue EXCEPT ![p] = Append(@, id)] /\ overflow' = [overflow EXCEPT ![p] = @ \ {id}]
        BY <1>2
      <3> QED
        <4>1. StillQueued(p, id, x)
          BY <3>1, <3>2, EnqueueHolds
        <4> QED
          BY <4>1, Zenon DEF StillQueued
    <2>2. x = id => Held(x)'
      BY <2>1 DEF Held
    <2>3. CASE \E r \in Requests : req[r].id = x
      BY <1>2, <1>3, <2>2, <2>3 DEF Held
    <2>4. CASE sched.id = x
      BY <1>2, <1>3, <2>2, <2>4 DEF Held
    <2> QED
      BY <1>1, <1>3, <2>1, <2>2, <2>3, <2>4 DEF Held
  <1> QED
    BY <1>1, <1>3, KeepsAll DEF Finished

\* A new run is held by whoever created it; without a failed statement the
\* caller has it.
LEMMA CreateForgetsNone ==
  ASSUME JobsInv, AllHeld, calm',
         \/ \E r \in Requests : EnqueueCertbot(r) \/ \E k \in Crons : RunManual(r, k)
         \/ \E c \in sched.todo : SchedCreate(c)
  PROVE  AllHeld'
  <1>1. UNCHANGED <<queue, overflow, worker>> /\ \E blank \in BOOLEAN : Create(blank)
    BY Zenon DEF EnqueueCertbot, RunManual, SchedCreate, JobsInv, TypeOK, Cron, SchedShape
  <1>2. PICK id : id = Len(runs) + 1
    OBVIOUS
  <1>3. /\ DOMAIN runs' = DOMAIN runs \cup {id} /\ \A x \in DOMAIN runs : runs'[x] = runs[x]
        /\ NoRun \notin DOMAIN runs
    BY <1>1, <1>2, CreateAdds, RunTypes DEF JobsInv
  <1>4. \/ sched' = sched /\ \E r \in Requests : /\ req[r].id = NoRun /\ req'[r].id = id
                                                /\ \A q \in Requests \ {r} : req'[q] = req[q]
        \/ req' = req /\ sched.id = NoRun /\ sched'.id = id
    <2>1. ASSUME NEW r \in Requests, req[r].pc = "idle",
                 req' = [req EXCEPT ![r] = [pc |-> "enqueue", id |-> Len(runs) + 1]]
          PROVE  req[r].id = NoRun /\ req'[r].id = id /\ \A q \in Requests \ {r} : req'[q] = req[q]
      BY <1>2, <2>1 DEF JobsInv, Tied, TypeOK
    <2>2. CASE \E r \in Requests : EnqueueCertbot(r) \/ \E k \in Crons : RunManual(r, k)
      BY <2>1, <2>2 DEF EnqueueCertbot, RunManual, Statement
    <2>3. CASE \E c \in sched.todo : SchedCreate(c)
      <3>1. PICK c : /\ sched.pc = "next" /\ req' = req
                     /\ sched' = [sched EXCEPT !.pc = "enqueue", !.todo = @ \ {c}, !.id = Len(runs) + 1]
        BY <2>3, Zenon DEF SchedCreate, Statement
      <3>2. sched.id = NoRun
        BY <3>1 DEF JobsInv, Tied
      <3>3. sched = [pc |-> sched.pc, prev |-> sched.prev, now |-> sched.now, todo |-> sched.todo, id |-> sched.id]
        BY DEF JobsInv, SchedShape
      <3>4. PICK todo : todo = sched.todo \ {c}
        OBVIOUS
      <3>5. sched' = [sched EXCEPT !.pc = "enqueue", !.todo = todo, !.id = id]
        BY <1>2, <3>1, <3>4
      <3>6. sched'.id = id
        BY <3>3, <3>5
      <3> QED
        BY <3>1, <3>2, <3>6
    <2> QED
      BY <2>2, <2>3
  <1>5. Held(id)'
    BY <1>4 DEF Held
  <1>6. \A x \in DOMAIN runs : Held(x) => Held(x)'
    BY <1>1, <1>3, <1>4 DEF Held
  <1> QED
    BY <1>3, <1>5, <1>6 DEF AllHeld, Finished
\* A worker goes on with its run, or lets go of one that has its result.
LEMMA WorkForgetsNone ==
  ASSUME JobsInv, AllHeld, NEW w \in Workers, UNCHANGED <<queue, overflow, req, sched>>,
         DOMAIN runs' = DOMAIN runs, \A id \in DOMAIN runs \ {worker[w].id} : runs'[id] = runs[id],
         NEW rec \in WorkerType, worker' = [worker EXCEPT ![w] = rec],
         \/ rec.id = worker[w].id
         \/ runs'[worker[w].id].status \in {"ok", "failed"},
         worker[w].id \in DOMAIN runs => ~Finished(worker[w].id)
  PROVE  AllHeld'
  <1>1. worker'[w] = rec /\ \A v \in Workers \ {w} : worker'[v] = worker[v]
    BY DEF JobsInv, TypeOK
  <1>2. ASSUME NEW id \in DOMAIN runs, runs'[id].status \notin {"ok", "failed"} PROVE Held(id)'
    <2>1. Held(id)
      BY <1>2 DEF AllHeld, Finished
    <2>2. CASE \E v \in Workers : worker[v].id = id
      <3>1. PICK v \in Workers : worker[v].id = id
        BY <2>2
      <3>2. worker'[v].id = id
        BY <1>1, <1>2, <3>1
      <3> QED
        BY <3>2 DEF Held
    <2> QED
      BY <2>1, <2>2 DEF Held
  <1> QED
    BY <1>2 DEF AllHeld, Finished

\* The head of a queue moves to the worker that takes it.
LEMMA TakeForgetsNone ==
  ASSUME JobsInv, AllHeld, NEW w \in Workers, Take(w) PROVE AllHeld'
  <1>1. PICK p \in Pools :
          /\ UNCHANGED <<runs, overflow, req, sched>>
          /\ worker[w].pc = "idle" /\ queue[p] # <<>>
          /\ worker' = [worker EXCEPT ![w] = [IdleWorker EXCEPT !.pc = "find", !.id = Head(queue[p])]]
          /\ queue' = [queue EXCEPT ![p] = Tail(@)]
    BY DEF Take, At, PoolOf, Pools
  <1>2. queue \in [Pools -> Seq(Ids)] /\ queue[p] \in Seq(Ids) /\ DOMAIN queue[p] = 1..Len(queue[p])
    BY QueueTypes DEF JobsInv, TypeOK
  <1>3. /\ Head(queue[p]) = queue[p][1] /\ Tail(queue[p]) \in Seq(Ids)
        /\ Len(Tail(queue[p])) = Len(queue[p]) - 1
        /\ \A i \in 1..Len(Tail(queue[p])) : Tail(queue[p])[i] = queue[p][i + 1]
    BY <1>1, <1>2, HeadTailProperties
  <1>4. DOMAIN Tail(queue[p]) = 1..Len(Tail(queue[p])) /\ Len(queue[p]) \in Nat
    BY <1>2, <1>3, LenProperties
  <1>5. queue'[p] = Tail(queue[p]) /\ \A q \in Pools \ {p} : queue'[q] = queue[q]
    BY <1>1, <1>2
  <1>6. worker'[w].id = queue[p][1] /\ worker[w].id = NoRun /\ \A v \in Workers \ {w} : worker'[v] = worker[v]
    BY <1>1, <1>3 DEF JobsInv, TypeOK, Tied, IdleWorker
  <1>7. NoRun \notin DOMAIN runs
    BY RunTypes DEF JobsInv
  <1>8. ASSUME NEW id \in DOMAIN runs, Held(id) PROVE Held(id)'
    <2>1. CASE \E q \in Pools : \E i \in DOMAIN queue[q] : queue[q][i] = id
      <3>1. PICK q \in Pools : \E i \in DOMAIN queue[q] : queue[q][i] = id
        BY <2>1
      <3>2. PICK i \in DOMAIN queue[q] : queue[q][i] = id
        BY <3>1
      <3>3. CASE q = p /\ i = 1
        BY <1>6, <3>2, <3>3 DEF Held
      <3>4. CASE q = p /\ i # 1
        <4>1. i - 1 \in DOMAIN queue'[p] /\ queue'[p][i - 1] = id
          BY <1>2, <1>3, <1>4, <1>5, <3>2, <3>4
        <4> QED
          BY <4>1 DEF Held
      <3>5. CASE q # p
        BY <1>5, <3>2, <3>5 DEF Held
      <3> QED
        BY <3>3, <3>4, <3>5
    <2>2. CASE \E v \in Workers : worker[v].id = id
      BY <1>6, <1>7, <2>2 DEF Held
    <2> QED
      BY <1>1, <1>8, <2>1, <2>2 DEF Held
  <1> QED
    BY <1>1, <1>8, KeepsAll DEF Finished

LEMMA ProcessingForgetsNone ==
  ASSUME JobsInv, AllHeld, calm', NEW w \in Workers, Processing(w) \/ CommandPrints(w)
  PROVE  AllHeld'
  <1>1. worker[w] \in WorkerType /\ NoRun \notin DOMAIN runs /\ runs \in Seq(Run)
    BY RunTypes DEF JobsInv, TypeOK, WorkerType
  <1>2. worker[w].id \in DOMAIN runs => ~Finished(worker[w].id)
    BY <1>1, WorkerHolds DEF JobsInv, Tied
  <1>3. ASSUME NEW status, NEW output, SetRun(worker[w].id, status, output), worker[w].id \in DOMAIN runs
        PROVE  /\ DOMAIN runs' = DOMAIN runs /\ \A id \in DOMAIN runs \ {worker[w].id} : runs'[id] = runs[id]
               /\ runs'[worker[w].id].status = status
    <2>1. runs' = [runs EXCEPT ![worker[w].id] = [status |-> status, output |-> output]]
      BY <1>3 DEF SetRun
    <2> QED
      BY <1>1, <1>3, <2>1
  <1>4. CASE Take(w)
    BY <1>4, TakeForgetsNone
  <1>5. CASE Quit(w) \/ Find(w) \/ BeforeRun(w) \/ Veto(w)
    <2>1. UNCHANGED <<runs, queue, overflow, req, sched>> /\ \E pc \in WorkerPC : worker' = [worker EXCEPT ![w].pc = pc]
      <3>1. UNCHANGED <<runs, queue, overflow, req, sched>>
        BY <1>5 DEF Quit, Find, BeforeRun, Veto
      <3>2. CASE Find(w)
        BY <3>2 DEF Find, Statement, Go, WorkerPC
      <3>3. CASE Quit(w) \/ BeforeRun(w) \/ Veto(w)
        BY <3>3 DEF Quit, BeforeRun, Veto, Go, WorkerPC
      <3> QED
        BY <1>5, <3>1, <3>2, <3>3
    <2>2. PICK pc \in WorkerPC : worker' = [worker EXCEPT ![w].pc = pc]
      BY <2>1
    <2>3. PICK rec \in WorkerType : rec.pc = pc /\ rec.id = worker[w].id /\ worker' = [worker EXCEPT ![w] = rec]
      BY <2>2, WorkerGoesTo
    <2> QED
      BY <1>2, <2>1, <2>3, WorkForgetsNone
  <1>6. CASE CommandEnds(w)
    <2>1. PICK ok \in BOOLEAN : worker' = [worker EXCEPT ![w].pc = "done", ![w].ok = ok]
      BY <1>6 DEF CommandEnds
    <2> DEFINE rec == [worker[w] EXCEPT !.pc = "done", !.ok = ok]
    <2>2. rec \in WorkerType /\ rec.id = worker[w].id /\ worker' = [worker EXCEPT ![w] = rec]
      BY <1>1, <2>1 DEF WorkerType, JobsInv, TypeOK
    <2>3. UNCHANGED <<runs, queue, overflow, req, sched>>
      BY <1>6 DEF CommandEnds
    <2> HIDE DEF rec
    <2> QED
      BY <1>2, <2>2, <2>3, WorkForgetsNone
  <1>7. CASE MarkRunningWithOutput(w)
    <2>1. /\ UNCHANGED <<queue, overflow, req, sched>> /\ worker[w].pc = "mark"
          /\ SetRun(worker[w].id, "running", <<Header>>) /\ worker' = [worker EXCEPT ![w].pc = "hook"]
      BY <1>7 DEF MarkRunningWithOutput, Statement, Go, At
    <2>2. "hook" \in WorkerPC
      BY DEF WorkerPC
    <2>3. PICK rec \in WorkerType : rec.pc = "hook" /\ rec.id = worker[w].id /\ worker' = [worker EXCEPT ![w] = rec]
      BY <2>1, <2>2, WorkerGoesTo
    <2>4. worker[w].id \in DOMAIN runs
      BY <2>1, WorkerHolds
    <2> QED
      BY <1>2, <1>3, <2>1, <2>3, <2>4, WorkForgetsNone
  <1>8. CASE CompleteEmpty(w) \/ CompleteVetoed(w) \/ CompleteStatus(w)
    <2>1. /\ UNCHANGED <<queue, overflow, req, sched>> /\ worker[w].pc \in {"empty", "vetoed", "done"}
          /\ worker' = [worker EXCEPT ![w] = IdleWorker]
          /\ \E status \in {"ok", "failed"} : \E output : SetRun(worker[w].id, status, output)
      <3>1. CASE CompleteEmpty(w)
        BY <3>1 DEF CompleteEmpty, Statement, Rest, At
      <3>2. CASE CompleteVetoed(w)
        BY <3>2 DEF CompleteVetoed, Statement, Rest, At
      <3>3. CASE CompleteStatus(w)
        BY <3>3 DEF CompleteStatus, Statement, Rest, At
      <3> QED
        BY <1>8, <3>1, <3>2, <3>3
    <2>2. worker[w].id \in DOMAIN runs
      BY <2>1, WorkerHolds
    <2>3. /\ DOMAIN runs' = DOMAIN runs /\ \A id \in DOMAIN runs \ {worker[w].id} : runs'[id] = runs[id]
          /\ runs'[worker[w].id].status \in {"ok", "failed"}
      BY <1>3, <2>1, <2>2
    <2> QED
      BY <1>2, <2>1, <2>3, IdleIsTyped, WorkForgetsNone
  <1>9. CASE CommandPrints(w)
    <2> DEFINE id == worker[w].id
               rec == [worker[w] EXCEPT !.chunks = @ + 1]
    <2>1. /\ UNCHANGED <<queue, overflow, req, sched>>
          /\ worker[w].pc = "run" /\ worker[w].chunks < MaxChunks
          /\ worker' = [worker EXCEPT ![w].chunks = @ + 1]
          /\ SetRun(id, runs[id].status, Append(runs[id].output, Chunk))
      BY <1>9 DEF CommandPrints, At, Statement
    <2>2. rec \in WorkerType /\ rec.id = id /\ worker' = [worker EXCEPT ![w] = rec]
      <3>1. worker[w].chunks + 1 \in 0..MaxChunks
        BY <1>1, <2>1, BoundsAssumption DEF WorkerType
      <3>2. rec \in WorkerType /\ rec.id = id
        BY <1>1, <3>1 DEF WorkerType
      <3>3. worker' = [worker EXCEPT ![w] = rec]
        BY <2>1
      <3> QED
        BY <3>2, <3>3
    <2>3. id \in DOMAIN runs
      BY <2>1, WorkerHolds
    <2>4. /\ DOMAIN runs' = DOMAIN runs /\ \A x \in DOMAIN runs \ {id} : runs'[x] = runs[x]
      BY <1>3, <2>1, <2>3
    <2> HIDE DEF rec, id
    <2>5. rec.id = worker[w].id /\ \A x \in DOMAIN runs \ {worker[w].id} : runs'[x] = runs[x]
      BY <2>2, <2>4 DEF id
    <2> QED
      BY <1>2, <2>1, <2>2, <2>4, <2>5, WorkForgetsNone
  <1> QED
    BY <1>4, <1>5, <1>6, <1>7, <1>8, <1>9 DEF Processing

\* Once a statement failed, SIGTERM arrived or the process restarted, calm
\* stays false.
LEMMA CalmOnlyFalls ==
  ASSUME JobsInv, [Next]_vars, calm' PROVE calm
  <1>1. calm \in BOOLEAN
    BY DEF JobsInv, TypeOK
  <1>2. CASE CronCrud
    BY <1>2 DEF CronCrud, CronCreate, CronUpdate, CronDelete
  <1>3. CASE \E r \in Requests : EnqueueCertbot(r) \/ \E k \in Crons : RunManual(r, k)
    BY <1>3 DEF EnqueueCertbot, RunManual, Statement
  <1>4. CASE \E t \in 1..MaxTime : SchedTick(t)
    BY <1>4 DEF SchedTick, Statement
  <1>5. CASE Producing
    BY <1>5, Zenon DEF Producing, RequestEnqueue, SchedCreate, SchedEnqueue, SchedDone, Statement
  <1>6. CASE \E p \in Pools : Sending(p)
    BY <1>6 DEF Sending, EnqueueLater
  <1>7. ASSUME NEW w \in Workers, Processing(w) \/ CommandPrints(w) PROVE calm
    <2>1. CASE Take(w) \/ Quit(w) \/ BeforeRun(w) \/ Veto(w) \/ CommandEnds(w)
      BY <2>1 DEF Take, Quit, BeforeRun, Veto, CommandEnds
    <2>2. CASE Find(w)
      BY <2>2 DEF Find, Statement
    <2>3. CASE CompleteEmpty(w) \/ CompleteVetoed(w)
      BY <2>3 DEF CompleteEmpty, CompleteVetoed, Statement
    <2>4. CASE MarkRunningWithOutput(w)
      BY <2>4 DEF MarkRunningWithOutput, Statement
    <2>5. CASE CompleteStatus(w)
      BY <2>5 DEF CompleteStatus, Statement
    <2>6. CASE CommandPrints(w)
      BY <2>6 DEF CommandPrints, Statement
    <2> QED
      BY <1>7, <2>1, <2>2, <2>3, <2>4, <2>5, <2>6 DEF Processing
  <1>8. CASE \E s \in Streams : Following(s) \/ StreamEnds(s) \/ \E id \in Ids : StreamOpen(s, id)
    BY <1>8, Zenon DEF Following, Poll, Final, StreamEnds, StreamOpen
  <1>9. CASE Signal \/ Crash \/ UNCHANGED vars
    BY <1>9, Zenon DEF Signal, Crash, vars
  <1> QED
    BY <1>2, <1>3, <1>4, <1>5, <1>6, <1>7, <1>8, <1>9 DEF Next

\* The scheduler holds no run at the beginning of a round and at its end.
LEMMA TickHoldsNone ==
  ASSUME JobsInv, sched.id = NoRun, SchedDone \/ \E t \in 1..MaxTime : SchedTick(t)
  PROVE  sched'.id = NoRun
  <1>1. sched = [pc |-> sched.pc, prev |-> sched.prev, now |-> sched.now, todo |-> sched.todo, id |-> sched.id]
    BY DEF JobsInv, SchedShape
  <1>2. CASE SchedDone
    BY <1>2 DEF SchedDone, IdleSched
  <1>3. ASSUME NEW t \in 1..MaxTime, SchedTick(t) PROVE sched'.id = NoRun
    <2>1. \/ \E todo : sched' = [sched EXCEPT !.pc = "next", !.now = t, !.todo = todo]
          \/ sched' = IdleSched(t)
      BY <1>3, Zenon DEF SchedTick, Statement
    <2>2. ASSUME NEW todo, sched' = [sched EXCEPT !.pc = "next", !.now = t, !.todo = todo] PROVE sched'.id = NoRun
      BY <1>1, <2>2
    <2>3. sched' = IdleSched(t) => sched'.id = NoRun
      BY DEF IdleSched
    <2> QED
      BY <2>1, <2>2, <2>3, Zenon
  <1> QED
    BY <1>2, <1>3

LEMMA NoneForgottenNext ==
  ASSUME JobsInv, [Next]_vars, calm => AllHeld, calm' PROVE AllHeld'
  <1>1. AllHeld
    BY CalmOnlyFalls
  <1>2. CASE \/ \E r \in Requests : EnqueueCertbot(r) \/ \E k \in Crons : RunManual(r, k)
             \/ \E c \in sched.todo : SchedCreate(c)
    BY <1>1, <1>2, CreateForgetsNone
  <1>3. CASE \/ \E r \in Requests : RequestEnqueue(r)
             \/ SchedEnqueue \/ \E p \in Pools : Sending(p)
    BY <1>1, <1>3, EnqueueForgetsNone
  <1>4. CASE \E w \in Workers : Processing(w) \/ CommandPrints(w)
    BY <1>1, <1>4, ProcessingForgetsNone
  <1>5. CASE CronCrud
    <2>1. UNCHANGED <<runs, queue, overflow, worker, req, sched>>
      BY <1>5 DEF CronCrud, CronCreate, CronUpdate, CronDelete
    <2> QED
      BY <1>1, <2>1, AsideForgetsNone
  <1>6. CASE SchedDone \/ \E t \in 1..MaxTime : SchedTick(t)
    <2>1. UNCHANGED <<runs, queue, overflow, worker, req>> /\ sched.id = NoRun
      BY <1>6, Zenon DEF SchedDone, SchedTick, JobsInv, Tied
    <2>2. sched'.id = NoRun
      BY <1>6, <2>1, TickHoldsNone
    <2> QED
      BY <1>1, <2>1, <2>2, AsideForgetsNone
  <1>7. CASE \/ \E s \in Streams : Following(s) \/ StreamEnds(s) \/ \E id \in Ids : StreamOpen(s, id)
             \/ UNCHANGED vars
    <2>1. UNCHANGED <<runs, queue, overflow, worker, req, sched>>
      BY <1>7, Zenon DEF Following, Poll, Final, StreamEnds, StreamOpen, vars
    <2> QED
      BY <1>1, <2>1, AsideForgetsNone
  <1>8. CASE Signal \/ Crash
    BY <1>8 DEF Signal, Crash
  <1> QED
    BY <1>2, <1>3, <1>4, <1>5, <1>6, <1>7, <1>8 DEF Next, Producing

\* Without a failed statement, a signal or a restart no unfinished run is
\* forgotten: from its row to its result a request, the scheduler, a queue, a
\* goroutine in front of a full queue or a worker holds it.
THEOREM NoRunIsForgotten == Spec => []NothingForgotten
  <1>1. Init => (calm => AllHeld)
    BY DEF Init, AllHeld
  <1>2. JobsInv /\ (calm => AllHeld) /\ [Next]_vars => (calm => AllHeld)'
    BY NoneForgottenNext
  <1>3. (calm => AllHeld) => NothingForgotten
    BY HeldIs DEF AllHeld, NothingForgotten
  <1> QED
    BY <1>1, <1>2, <1>3, JobsInductive, PTL DEF Spec
-----------------------------------------------------------------------------
(* What a client receives.                                                 *)

\* The run waits for a worker.
Waits(id) ==
    \/ \E r \in Requests : req[r].id = id
    \/ sched.id = id
    \/ \E p \in Pools : \E i \in DOMAIN queue[p] : queue[p][i] = id
    \/ \E p \in Pools : id \in overflow[p]

\* How far the row of the run is that a worker with this record has.
RowAt(rec, row) ==
    /\ rec.pc \in {"find", "empty", "mark"} => row.status = "pending"
    /\ rec.pc = "empty" => row.output = <<>>
    /\ rec.pc \in {"hook", "vetoed", "run", "done"} => row.status = "running"
    /\ rec.pc \in {"hook", "vetoed"} => row.output = <<Header>>

StageInv ==
    /\ \A id \in Ids : Waits(id) => runs[id].status = "pending"
    /\ \A w \in Workers : RowAt(worker[w], runs[worker[w].id])

\* What the stream of a client may have sent of a run's output column. The
\* command a pending run's column holds is not sent.
SentOf(rec, row) ==
    /\ rec.last \in 0..Len(row.output)
    /\ rec.sent = SubSeq(row.output, 1, rec.last)
    /\ row.status = "pending" => rec.last = 0
    /\ rec.pc \in {"final", "done"} => row.status \in {"ok", "failed"}
    /\ rec.pc = "done" => rec.last = Len(row.output)

StreamInv ==
    /\ stream \in [Streams -> [pc : {"idle", "poll", "final", "done"}, id : Ids \cup {NoRun},
                               last : Nat, sent : Seq({Command, Header, Chunk})]]
    /\ \A s \in Streams : stream[s].pc # "idle" =>
          stream[s].id \in DOMAIN runs /\ SentOf(stream[s], runs[stream[s].id])
LEMMA WaitingIsHeld ==
  ASSUME JobsInv, NEW id \in Ids, Waits(id)
  PROVE  /\ id \in DOMAIN runs
         /\ \A w \in Workers : worker[w].id # id
  <1>0. \E h : IsHolder(h, id) /\ h[1] # "worker"
    <2>1. CASE \E r \in Requests : req[r].id = id
      <3>1. PICK r \in Requests : req[r].id = id
        BY <2>1
      <3>2. IsHolder(<<"request", r>>, id) /\ <<"request", r>>[1] # "worker"
        BY <3>1 DEF IsHolder
      <3> QED
        BY <3>2
    <2>2. CASE sched.id = id
      <3>1. IsHolder(<<"scheduler", 1>>, id) /\ <<"scheduler", 1>>[1] # "worker"
        BY <2>2 DEF IsHolder
      <3> QED
        BY <3>1
    <2>3. CASE \E p \in Pools : \E i \in DOMAIN queue[p] : queue[p][i] = id
      <3>1. PICK p \in Pools : \E i \in DOMAIN queue[p] : queue[p][i] = id
        BY <2>3
      <3>2. PICK i \in DOMAIN queue[p] : queue[p][i] = id
        BY <3>1
      <3>3. IsHolder(<<p, i>>, id) /\ <<p, i>>[1] # "worker"
        BY <3>2 DEF IsHolder, Pools
      <3> QED
        BY <3>3
    <2>4. CASE \E p \in Pools : id \in overflow[p]
      <3>1. PICK p \in Pools : id \in overflow[p]
        BY <2>4
      <3>2. IsHolder(<<"overflow", p>>, id) /\ <<"overflow", p>>[1] # "worker"
        BY <3>1 DEF IsHolder
      <3> QED
        BY <3>2
    <2> QED
      BY <2>1, <2>2, <2>3, <2>4 DEF Waits
  <1>1. PICK h : IsHolder(h, id) /\ h[1] # "worker"
    BY <1>0
  <1>2. h \in Holders(id)
    BY <1>1, HoldersAre
  <1>3. id \in DOMAIN runs
    BY <1>2 DEF JobsInv, HeldUnfinished, Unfinished, Exists
  <1>4. ASSUME NEW w \in Workers, worker[w].id = id PROVE FALSE
    <2>1. <<"worker", w>> \in Holders(id)
      BY <1>4, HoldersAre DEF IsHolder
    <2> QED
      BY <1>1, <1>2, <2>1 DEF JobsInv, HeldAlone
  <1> QED
    BY <1>3, <1>4

\* A step of no worker, after which no other run waits than before.
LEMMA AsideKeepsStage ==
  ASSUME JobsInv, StageInv, worker' = worker,
         \A id \in DOMAIN runs : runs'[id] = runs[id],
         \A id \in Ids : Waits(id)' => Waits(id) \/ runs'[id].status = "pending"
  PROVE  StageInv'
  <1>1. \A id \in Ids : Waits(id)' => runs'[id].status = "pending"
    BY WaitingIsHeld DEF StageInv
  <1>2. ASSUME NEW w \in Workers PROVE RowAt(worker'[w], runs'[worker'[w].id])
    <2>1. CASE worker[w].pc \in {"idle", "gone"}
      BY <2>1 DEF RowAt
    <2>2. CASE worker[w].pc \notin {"idle", "gone"}
      BY <2>2 DEF StageInv, JobsInv, Tied, Exists
    <2> QED
      BY <2>1, <2>2
  <1> QED
    BY <1>1, <1>2 DEF StageInv

\* A worker goes on with its run, whose row it may write, or lets go of it.
LEMMA WorkKeepsStage ==
  ASSUME JobsInv, StageInv, NEW w \in Workers, UNCHANGED <<queue, overflow, req, sched>>,
         \A id \in DOMAIN runs \ {worker[w].id} : runs'[id] = runs[id],
         NEW rec \in WorkerType, worker' = [worker EXCEPT ![w] = rec],
         rec.pc \in {"idle", "gone"} \/ (rec.id = worker[w].id /\ RowAt(rec, runs'[worker[w].id]))
  PROVE  StageInv'
  <1>1. worker'[w] = rec /\ \A v \in Workers \ {w} : worker'[v] = worker[v]
    BY DEF JobsInv, TypeOK
  <1>2. ASSUME NEW id \in Ids, Waits(id)' PROVE runs'[id].status = "pending"
    <2>1. Waits(id)
      BY <1>2 DEF Waits
    <2>2. id \in DOMAIN runs /\ id # worker[w].id /\ runs[id].status = "pending"
      BY <2>1, WaitingIsHeld DEF StageInv
    <2> QED
      BY <2>2
  <1>3. ASSUME NEW v \in Workers PROVE RowAt(worker'[v], runs'[worker'[v].id])
    <2>1. CASE worker'[v].pc \in {"idle", "gone"}
      BY <2>1 DEF RowAt
    <2>2. CASE v = w /\ worker'[v].pc \notin {"idle", "gone"}
      BY <1>1, <2>2
    <2>3. CASE v # w /\ worker'[v].pc \notin {"idle", "gone"}
      <3>1. worker[v].pc \notin {"idle", "gone"} /\ worker'[v] = worker[v]
        BY <1>1, <2>3
      <3>2. worker[v].id \in DOMAIN runs \ {worker[w].id}
        BY <2>3, <3>1, WorkerHolds
      <3> QED
        BY <3>1, <3>2 DEF StageInv
    <2> QED
      BY <2>1, <2>2, <2>3
  <1> QED
    BY <1>2, <1>3 DEF StageInv

\* The head of a queue, a pending run, goes to the worker that takes it.
LEMMA TakeKeepsStage ==
  ASSUME JobsInv, StageInv, NEW w \in Workers, Take(w) PROVE StageInv'
  <1>1. PICK p \in Pools :
          /\ UNCHANGED <<runs, overflow, req, sched>>
          /\ worker[w].pc = "idle" /\ queue[p] # <<>>
          /\ worker' = [worker EXCEPT ![w] = [IdleWorker EXCEPT !.pc = "find", !.id = Head(queue[p])]]
          /\ queue' = [queue EXCEPT ![p] = Tail(@)]
    BY DEF Take, At, PoolOf, Pools
  <1>2. queue \in [Pools -> Seq(Ids)] /\ queue[p] \in Seq(Ids) /\ DOMAIN queue[p] = 1..Len(queue[p])
    BY QueueTypes DEF JobsInv, TypeOK
  <1>3. /\ Head(queue[p]) = queue[p][1] /\ Head(queue[p]) \in Ids /\ Tail(queue[p]) \in Seq(Ids)
        /\ Len(Tail(queue[p])) = Len(queue[p]) - 1
        /\ \A i \in 1..Len(Tail(queue[p])) : Tail(queue[p])[i] = queue[p][i + 1]
    BY <1>1, <1>2, HeadTailProperties
  <1>4. DOMAIN Tail(queue[p]) = 1..Len(Tail(queue[p])) /\ Len(queue[p]) \in Nat \ {0}
    BY <1>1, <1>2, <1>3, LenProperties, EmptySeq
  <1>5. queue'[p] = Tail(queue[p]) /\ \A q \in Pools \ {p} : queue'[q] = queue[q]
    BY <1>1, <1>2
  <1>6. /\ worker'[w].id = queue[p][1] /\ worker'[w].pc = "find"
        /\ \A v \in Workers \ {w} : worker'[v] = worker[v]
    BY <1>1, <1>3 DEF JobsInv, TypeOK, IdleWorker
  <1>7. ASSUME NEW id \in Ids, Waits(id)' PROVE Waits(id)
    <2>1. CASE \E q \in Pools : \E i \in DOMAIN queue'[q] : queue'[q][i] = id
      <3>1. PICK q \in Pools : \E i \in DOMAIN queue'[q] : queue'[q][i] = id
        BY <2>1
      <3>2. PICK i \in DOMAIN queue'[q] : queue'[q][i] = id
        BY <3>1
      <3>3. CASE q = p
        <4>0. i \in 1..Len(Tail(queue[p])) /\ Tail(queue[p])[i] = id
          BY <1>4, <1>5, <3>2, <3>3
        <4>1. i + 1 \in DOMAIN queue[p] /\ queue[p][i + 1] = id
          BY <1>2, <1>3, <1>4, <4>0
        <4> QED
          BY <4>1 DEF Waits
      <3>4. CASE q # p
        BY <1>5, <3>2, <3>4 DEF Waits
      <3> QED
        BY <3>3, <3>4
    <2> QED
      BY <1>1, <1>7, <2>1 DEF Waits
  <1>8. Waits(queue[p][1])
    <2>1. 1 \in DOMAIN queue[p]
      BY <1>2, <1>4
    <2> QED
      BY <2>1 DEF Waits
  <1>9. RowAt(worker'[w], runs[queue[p][1]])
    BY <1>3, <1>6, <1>8 DEF RowAt, StageInv
  <1> QED
    BY <1>1, <1>6, <1>7, <1>9 DEF StageInv
\* How a row changes: a pending run's in any way, a running one's output only
\* at the end.
Grows(old, new) ==
    \/ new = old
    \/ old.status = "pending"
    \/ /\ old.status = "running" /\ new.status # "pending"
       /\ new.output \in {old.output, Append(old.output, Chunk)}

RowsGrow ==
    /\ DOMAIN runs \subseteq DOMAIN runs'
    /\ \A id \in DOMAIN runs : Grows(runs[id], runs'[id])

\* A worker's step, told by what becomes of its record and of its run's row.
LEMMA WorkIs ==
  ASSUME JobsInv, StageInv, NEW w \in Workers, UNCHANGED <<queue, overflow, req, sched>>,
         NEW rec \in WorkerType, worker' = [worker EXCEPT ![w] = rec],
         \/ /\ runs' = runs
            /\ rec.pc \in {"idle", "gone"}
                 \/ (rec.id = worker[w].id /\ RowAt(rec, runs[worker[w].id]))
         \/ \E status, output :
               /\ worker[w].id \in DOMAIN runs /\ SetRun(worker[w].id, status, output)
               /\ Grows(runs[worker[w].id], [status |-> status, output |-> output])
               /\ \/ rec.pc \in {"idle", "gone"}
                  \/ rec.id = worker[w].id /\ RowAt(rec, [status |-> status, output |-> output])
  PROVE  StageInv' /\ RowsGrow
  <1>1. CASE /\ runs' = runs
             /\ rec.pc \in {"idle", "gone"} \/ (rec.id = worker[w].id /\ RowAt(rec, runs[worker[w].id]))
    <2>1. \A id \in DOMAIN runs \ {worker[w].id} : runs'[id] = runs[id]
      BY <1>1
    <2>2. RowsGrow
      BY <1>1 DEF RowsGrow, Grows
    <2> QED
      BY <1>1, <2>1, <2>2, WorkKeepsStage
  <1>2. ASSUME NEW status, NEW output,
               worker[w].id \in DOMAIN runs, SetRun(worker[w].id, status, output),
               Grows(runs[worker[w].id], [status |-> status, output |-> output]),
               \/ rec.pc \in {"idle", "gone"}
               \/ rec.id = worker[w].id /\ RowAt(rec, [status |-> status, output |-> output])
        PROVE  StageInv' /\ RowsGrow
    <2>1. PICK row : row = [status |-> status, output |-> output]
      OBVIOUS
    <2>2. runs' = [runs EXCEPT ![worker[w].id] = row] /\ runs \in Seq(Run)
      BY <1>2, <2>1 DEF SetRun, JobsInv, TypeOK
    <2>3. /\ DOMAIN runs' = DOMAIN runs /\ runs'[worker[w].id] = row
          /\ \A id \in DOMAIN runs \ {worker[w].id} : runs'[id] = runs[id]
      BY <1>2, <2>2
    <2>4. rec.pc \in {"idle", "gone"} \/ (rec.id = worker[w].id /\ RowAt(rec, runs'[worker[w].id]))
      BY <1>2, <2>1, <2>3
    <2>5. Grows(runs[worker[w].id], runs'[worker[w].id])
      BY <1>2, <2>1, <2>3
    <2>6. RowsGrow
      BY <2>3, <2>5 DEF RowsGrow, Grows
    <2> QED
      BY <2>3, <2>4, <2>6, WorkKeepsStage
  <1> QED
    BY <1>1, <1>2

LEMMA ProcessingStage ==
  ASSUME JobsInv, StageInv, NEW w \in Workers, Processing(w) \/ CommandPrints(w)
  PROVE  StageInv' /\ RowsGrow
  <1>1. worker[w] \in WorkerType /\ RowAt(worker[w], runs[worker[w].id])
    BY DEF StageInv, JobsInv, TypeOK, WorkerType
  <1>2. worker[w].pc \notin {"idle", "gone"} => worker[w].id \in DOMAIN runs
    BY DEF JobsInv, Tied, Exists
  <1>3. CASE Take(w)
    <2>1. RowsGrow
      BY <1>3 DEF Take, RowsGrow, Grows
    <2> QED
      BY <1>3, <2>1, TakeKeepsStage
  <1>4. CASE Quit(w) \/ Find(w) \/ BeforeRun(w) \/ Veto(w)
    <2>1. /\ UNCHANGED <<runs, queue, overflow, req, sched>>
          /\ \/ worker' = [worker EXCEPT ![w] = IdleWorker]
             \/ \E pc \in WorkerPC :
                   /\ worker' = [worker EXCEPT ![w].pc = pc]
                   /\ \/ pc = "gone"
                      \/ worker[w].pc = "find" /\ pc = "empty" /\ runs[worker[w].id].output = <<>>
                      \/ worker[w].pc = "find" /\ pc = "mark"
                      \/ worker[w].pc = "hook" /\ pc \in {"run", "done", "vetoed"}
      <3>1. UNCHANGED <<runs, queue, overflow, req, sched>>
        BY <1>4 DEF Quit, Find, BeforeRun, Veto
      <3>2. CASE Find(w)
        <4>1. /\ worker[w].pc = "find"
              /\ \/ Go(w, IF runs[worker[w].id].output = <<>> THEN "empty" ELSE "mark")
                 \/ Rest(w)
          BY <3>2 DEF Find, Statement, At
        <4>2. CASE runs[worker[w].id].output = <<>> /\ Go(w, "empty")
          BY <3>1, <4>1, <4>2 DEF Go, WorkerPC
        <4>3. CASE Go(w, "mark")
          BY <3>1, <4>1, <4>3 DEF Go, WorkerPC
        <4>4. CASE Rest(w)
          BY <3>1, <4>4 DEF Rest
        <4> QED
          BY <4>1, <4>2, <4>3, <4>4
      <3>3. CASE Quit(w) \/ Veto(w)
        BY <3>1, <3>3 DEF Quit, Veto, Go, At, WorkerPC
      <3>4. CASE BeforeRun(w)
        <4>1. worker[w].pc = "hook" /\ (Go(w, "run") \/ Go(w, "done"))
          BY <3>4 DEF BeforeRun, At
        <4> QED
          BY <3>1, <4>1 DEF Go, WorkerPC
      <3> QED
        BY <1>4, <3>2, <3>3, <3>4
    <2>2. CASE worker' = [worker EXCEPT ![w] = IdleWorker]
      BY <2>1, <2>2, IdleIsTyped, WorkIs
    <2>3. ASSUME NEW pc \in WorkerPC, worker' = [worker EXCEPT ![w].pc = pc],
                 \/ pc = "gone"
                 \/ worker[w].pc = "find" /\ pc = "empty" /\ runs[worker[w].id].output = <<>>
                 \/ worker[w].pc = "find" /\ pc = "mark"
                 \/ worker[w].pc = "hook" /\ pc \in {"run", "done", "vetoed"}
          PROVE  StageInv' /\ RowsGrow
      <3>1. PICK rec \in WorkerType : rec.pc = pc /\ rec.id = worker[w].id /\ worker' = [worker EXCEPT ![w] = rec]
        BY <2>3, WorkerGoesTo
      <3>2. rec.pc \in {"idle", "gone"} \/ (rec.id = worker[w].id /\ RowAt(rec, runs[worker[w].id]))
        BY <1>1, <2>3, <3>1 DEF RowAt
      <3> QED
        BY <2>1, <3>1, <3>2, WorkIs
    <2> QED
      BY <2>1, <2>2, <2>3
  <1>5. CASE CommandEnds(w)
    <2>1. PICK ok \in BOOLEAN : worker[w].pc = "run" /\ worker' = [worker EXCEPT ![w].pc = "done", ![w].ok = ok]
      BY <1>5 DEF CommandEnds, At
    <2> DEFINE rec == [worker[w] EXCEPT !.pc = "done", !.ok = ok]
    <2>2. rec \in WorkerType /\ rec.id = worker[w].id /\ rec.pc = "done" /\ worker' = [worker EXCEPT ![w] = rec]
      BY <1>1, <2>1 DEF WorkerType, JobsInv, TypeOK
    <2>3. UNCHANGED <<runs, queue, overflow, req, sched>>
      BY <1>5 DEF CommandEnds
    <2> HIDE DEF rec
    <2>4. RowAt(rec, runs[worker[w].id])
      BY <1>1, <2>1, <2>2 DEF RowAt
    <2> QED
      BY <2>2, <2>3, <2>4, WorkIs
  <1>6. CASE MarkRunningWithOutput(w)
    <2>1. /\ UNCHANGED <<queue, overflow, req, sched>> /\ worker[w].pc = "mark"
          /\ \/ SetRun(worker[w].id, "running", <<Header>>) /\ worker' = [worker EXCEPT ![w].pc = "hook"]
             \/ runs' = runs /\ worker' = [worker EXCEPT ![w] = IdleWorker]
      BY <1>6 DEF MarkRunningWithOutput, Statement, Go, Rest, At
    <2>2. CASE SetRun(worker[w].id, "running", <<Header>>) /\ worker' = [worker EXCEPT ![w].pc = "hook"]
      <3>1. "hook" \in WorkerPC
        BY DEF WorkerPC
      <3>2. PICK rec \in WorkerType : rec.pc = "hook" /\ rec.id = worker[w].id /\ worker' = [worker EXCEPT ![w] = rec]
        BY <2>2, <3>1, WorkerGoesTo
      <3>3. RowAt(rec, [status |-> "running", output |-> <<Header>>])
        BY <3>2 DEF RowAt
      <3>4. Grows(runs[worker[w].id], [status |-> "running", output |-> <<Header>>])
        BY <1>1, <2>1 DEF Grows, RowAt
      <3>5. worker[w].id \in DOMAIN runs
        BY <1>2, <2>1
      <3> QED
        BY <2>1, <2>2, <3>2, <3>3, <3>4, <3>5, WorkIs
    <2>3. CASE runs' = runs /\ worker' = [worker EXCEPT ![w] = IdleWorker]
      BY <2>1, <2>3, IdleIsTyped, WorkIs
    <2> QED
      BY <2>1, <2>2, <2>3
  <1>7. CASE CompleteEmpty(w) \/ CompleteVetoed(w) \/ CompleteStatus(w)
    <2>1. /\ UNCHANGED <<queue, overflow, req, sched>> /\ worker[w].pc \in {"empty", "vetoed", "done"}
          /\ worker' = [worker EXCEPT ![w] = IdleWorker]
      BY <1>7 DEF CompleteEmpty, CompleteVetoed, CompleteStatus, Rest, At
    <2>2. \/ runs' = runs
          \/ \E status \in {"ok", "failed"} : \E output :
                /\ SetRun(worker[w].id, status, output)
                /\ worker[w].pc = "empty" \/ output = runs[worker[w].id].output
      <3>1. CASE CompleteEmpty(w)
        BY <3>1 DEF CompleteEmpty, Statement, At
      <3>2. CASE CompleteVetoed(w)
        <4>1. worker[w].pc = "vetoed" /\ (SetRun(worker[w].id, "failed", <<Header>>) \/ runs' = runs)
          BY <3>2 DEF CompleteVetoed, Statement, At
        <4>2. runs[worker[w].id].output = <<Header>>
          BY <1>1, <4>1 DEF RowAt
        <4> QED
          BY <4>1, <4>2
      <3>3. CASE CompleteStatus(w)
        BY <3>3 DEF CompleteStatus, Statement, At
      <3> QED
        BY <1>7, <3>1, <3>2, <3>3
    <2>3. ASSUME NEW status \in {"ok", "failed"}, NEW output, SetRun(worker[w].id, status, output),
                 worker[w].pc = "empty" \/ output = runs[worker[w].id].output
          PROVE  StageInv' /\ RowsGrow
      <3>1. Grows(runs[worker[w].id], [status |-> status, output |-> output])
        BY <1>1, <2>1, <2>3 DEF Grows, RowAt
      <3>2. worker[w].id \in DOMAIN runs
        BY <1>2, <2>1
      <3> QED
        BY <2>1, <2>3, <3>1, <3>2, IdleIsTyped, WorkIs
    <2> QED
      BY <2>1, <2>2, <2>3, IdleIsTyped, WorkIs
  <1>8. CASE CommandPrints(w)
    <2> DEFINE id == worker[w].id
               rec == [worker[w] EXCEPT !.chunks = @ + 1]
    <2>1. /\ UNCHANGED <<queue, overflow, req, sched>>
          /\ worker[w].pc = "run" /\ worker[w].chunks < MaxChunks
          /\ worker' = [worker EXCEPT ![w].chunks = @ + 1]
          /\ \/ SetRun(id, runs[id].status, Append(runs[id].output, Chunk))
             \/ runs' = runs
      BY <1>8 DEF CommandPrints, At, Statement
    <2>2. rec \in WorkerType /\ rec.pc = "run" /\ rec.id = id /\ worker' = [worker EXCEPT ![w] = rec]
      <3>1. worker[w].chunks + 1 \in 0..MaxChunks
        BY <1>1, <2>1, BoundsAssumption DEF WorkerType
      <3>2. rec \in WorkerType /\ rec.id = id /\ rec.pc = "run"
        BY <1>1, <2>1, <3>1 DEF WorkerType
      <3>3. worker' = [worker EXCEPT ![w] = rec]
        BY <2>1
      <3> QED
        BY <3>2, <3>3
    <2>3. id \in DOMAIN runs /\ runs[id].status = "running"
      BY <1>1, <1>2, <2>1 DEF RowAt
    <2> HIDE DEF rec
    <2>4. /\ RowAt(rec, runs[id])
          /\ RowAt(rec, [status |-> runs[id].status, output |-> Append(runs[id].output, Chunk)])
          /\ Grows(runs[id], [status |-> runs[id].status, output |-> Append(runs[id].output, Chunk)])
      BY <2>2, <2>3 DEF RowAt, Grows
    <2>5. CASE SetRun(id, runs[id].status, Append(runs[id].output, Chunk))
      BY <2>1, <2>2, <2>3, <2>4, <2>5, WorkIs
    <2>6. CASE runs' = runs
      BY <2>1, <2>2, <2>4, <2>6, WorkIs
    <2> QED
      BY <2>1, <2>5, <2>6
  <1> QED
    BY <1>3, <1>4, <1>5, <1>6, <1>7, <1>8 DEF Processing
\* The new row waits with whoever created it, and is pending.
LEMMA CreateStage ==
  ASSUME JobsInv, StageInv,
         \/ \E r \in Requests : EnqueueCertbot(r) \/ \E k \in Crons : RunManual(r, k)
         \/ \E c \in sched.todo : SchedCreate(c)
  PROVE  StageInv' /\ RowsGrow
  <1>1. UNCHANGED <<queue, overflow, worker>>
    BY Zenon DEF EnqueueCertbot, RunManual, SchedCreate
  <1>2. PICK id : id = Len(runs) + 1
    OBVIOUS
  <1>3. /\ \/ runs' = runs
           \/ \E blank \in BOOLEAN : Create(blank)
        /\ \A r \in Requests : req'[r].id = req[r].id \/ (req'[r].id = id /\ runs' # runs)
        /\ sched'.id = sched.id \/ (sched'.id = id /\ runs' # runs)
    <2>1. CASE \E r \in Requests : EnqueueCertbot(r) \/ \E k \in Crons : RunManual(r, k)
      <3>1. PICK r \in Requests : EnqueueCertbot(r) \/ \E k \in Crons : RunManual(r, k)
        BY <2>1
      <3>2. /\ sched' = sched /\ \E blank \in BOOLEAN : Create(blank)
            /\ req' = req \/ req' = [req EXCEPT ![r] = [pc |-> "enqueue", id |-> Len(runs) + 1]]
        BY <3>1 DEF EnqueueCertbot, RunManual, Statement, JobsInv, TypeOK, Cron
      <3>3. runs' # runs
        BY <3>2, CreateAdds DEF JobsInv
      <3>4. CASE req' = [req EXCEPT ![r] = [pc |-> "enqueue", id |-> Len(runs) + 1]]
        BY <1>2, <3>2, <3>3, <3>4 DEF JobsInv, TypeOK
      <3> QED
        BY <3>2, <3>4
    <2>2. CASE \E c \in sched.todo : SchedCreate(c)
      <3>1. PICK c \in sched.todo : SchedCreate(c)
        BY <2>2
      <3>2. PICK todo : todo = sched.todo \ {c}
        OBVIOUS
      <3>3. /\ req' = req
            /\ \/ /\ Create(c[2])
                  /\ \/ sched' = [sched EXCEPT !.pc = "enqueue", !.todo = todo, !.id = id]
                     \/ sched' = [sched EXCEPT !.todo = todo]
               \/ runs' = runs /\ sched' = [sched EXCEPT !.todo = todo]
        BY <1>2, <3>1, <3>2, Zenon DEF SchedCreate, Statement
      <3>4. c[2] \in BOOLEAN
        BY DEF JobsInv, SchedShape
      <3>5. sched = [pc |-> sched.pc, prev |-> sched.prev, now |-> sched.now, todo |-> sched.todo, id |-> sched.id]
        BY DEF JobsInv, SchedShape
      <3>6. Create(c[2]) => runs' # runs
        BY <3>4, CreateAdds DEF JobsInv
      <3>7. sched' = [sched EXCEPT !.todo = todo] => sched'.id = sched.id
        BY <3>5
      <3>8. sched' = [sched EXCEPT !.pc = "enqueue", !.todo = todo, !.id = id] => sched'.id = id
        BY <3>5
      <3> QED
        BY <3>3, <3>4, <3>6, <3>7, <3>8
    <2> QED
      BY <2>1, <2>2
  <1>4. /\ \A x \in DOMAIN runs : x \in DOMAIN runs' /\ runs'[x] = runs[x]
        /\ runs' # runs => runs'[id].status = "pending"
    BY <1>2, <1>3, CreateAdds DEF JobsInv
  <1>5. RowsGrow
    BY <1>4 DEF RowsGrow, Grows
  <1>6. \A x \in Ids : Waits(x)' => Waits(x) \/ runs'[x].status = "pending"
    BY <1>1, <1>3, <1>4 DEF Waits
  <1> QED
    BY <1>1, <1>4, <1>5, <1>6, AsideKeepsStage

\* Enqueue hands on a run that waits.
LEMMA EnqueueStage ==
  ASSUME JobsInv, StageInv,
         (\E r \in Requests : RequestEnqueue(r)) \/ SchedEnqueue \/ (\E p \in Pools : Sending(p))
  PROVE  StageInv' /\ RowsGrow
  <1>1. UNCHANGED <<runs, worker>>
    BY DEF RequestEnqueue, SchedEnqueue, Sending, EnqueueLater
  <1>2. RowsGrow
    BY <1>1 DEF RowsGrow, Grows
  <1>3. \A x \in Ids : x # NoRun
    BY DEF Ids, NoRun
  <1>4. ASSUME NEW p \in Pools, NEW id \in Ids, Enqueue(p, id), Waits(id),
               \A x \in Ids : (\E r \in Requests : req'[r].id = x) \/ sched'.id = x => Waits(x)
        PROVE  \A x \in Ids : Waits(x)' => Waits(x)
    <2>1. PICK place :
           /\ \A q \in Pools : \A i \in DOMAIN queue'[q] :
                 \/ i \in DOMAIN queue[q] /\ queue'[q][i] = queue[q][i]
                 \/ <<q, i>> = place /\ queue'[q][i] = id
           /\ \A q \in Pools : \A x \in overflow'[q] :
                 x \in overflow[q] \/ (<<"overflow", q>> = place /\ x = id)
      BY <1>4, EnqueuePlaces
    <2> QED
      BY <1>4, <2>1 DEF Waits
  <1>5. CASE \E r \in Requests : RequestEnqueue(r)
    <2>1. PICK r \in Requests : RequestEnqueue(r)
      BY <1>5
    <2>2. /\ req[r].pc = "enqueue" /\ Enqueue("api", req[r].id) /\ sched' = sched
          /\ req' = [req EXCEPT ![r] = IdleRequest]
      BY <2>1 DEF RequestEnqueue
    <2>3. req[r].id \in Ids /\ "api" \in Pools
      BY <2>2, RunTypes DEF JobsInv, Tied, Exists, Pools
    <2>4. \A q \in Requests : req'[q].id \in {req[q].id, NoRun}
      BY <2>2 DEF IdleRequest, JobsInv, TypeOK
    <2>5. Waits(req[r].id)
      BY DEF Waits
    <2>6. \A x \in Ids : (\E q \in Requests : req'[q].id = x) \/ sched'.id = x => Waits(x)
      BY <1>3, <2>2, <2>4 DEF Waits
    <2>7. \A x \in Ids : Waits(x)' => Waits(x)
      BY <1>4, <2>2, <2>3, <2>5, <2>6
    <2> QED
      BY <1>1, <1>2, <2>7, AsideKeepsStage
  <1>6. CASE SchedEnqueue
    <2>1. /\ sched.pc = "enqueue" /\ Enqueue("cron", sched.id) /\ req' = req
          /\ sched' = [sched EXCEPT !.pc = "next", !.id = NoRun]
      BY <1>6 DEF SchedEnqueue
    <2>2. sched.id \in Ids /\ "cron" \in Pools
      BY <2>1, RunTypes DEF JobsInv, Tied, Exists, Pools
    <2>3. sched'.id = NoRun
      BY <2>1 DEF JobsInv, SchedShape
    <2>4. Waits(sched.id)
      BY DEF Waits
    <2>5. \A x \in Ids : (\E q \in Requests : req'[q].id = x) \/ sched'.id = x => Waits(x)
      BY <1>3, <2>1, <2>3 DEF Waits
    <2>6. \A x \in Ids : Waits(x)' => Waits(x)
      BY <1>4, <2>1, <2>2, <2>4, <2>5
    <2> QED
      BY <1>1, <1>2, <2>6, AsideKeepsStage
  <1>7. CASE \E p \in Pools : Sending(p)
    <2>1. PICK p \in Pools, id \in Ids : EnqueueLater(p, id)
      BY <1>7 DEF Sending
    <2>2. /\ id \in overflow[p] /\ Len(queue[p]) < QueueCap /\ UNCHANGED <<req, sched>>
          /\ queue' = [queue EXCEPT ![p] = Append(@, id)]
          /\ overflow' = [overflow EXCEPT ![p] = @ \ {id}]
      BY <2>1 DEF EnqueueLater
    <2>3. Waits(id)
      BY <2>2 DEF Waits
    <2>4. \A q \in Pools : \A i \in DOMAIN queue'[q] :
             \/ i \in DOMAIN queue[q] /\ queue'[q][i] = queue[q][i]
             \/ q = p /\ i = Len(queue[p]) + 1 /\ queue'[q][i] = id
      BY <2>2, SendFills DEF JobsInv
    <2>5. \A q \in Pools : overflow'[q] \subseteq overflow[q]
      BY <2>2 DEF JobsInv, TypeOK
    <2>6. \A x \in Ids : Waits(x)' => Waits(x)
      BY <2>2, <2>3, <2>4, <2>5 DEF Waits
    <2> QED
      BY <1>1, <1>2, <2>6, AsideKeepsStage
  <1> QED
    BY <1>5, <1>6, <1>7

LEMMA StageNext ==
  ASSUME JobsInv, StageInv, [Next]_vars PROVE StageInv' /\ RowsGrow
  <1>1. ASSUME UNCHANGED <<runs, worker>>, \A id \in Ids : Waits(id)' => Waits(id)
        PROVE  StageInv' /\ RowsGrow
    <2>1. RowsGrow
      BY <1>1 DEF RowsGrow, Grows
    <2> QED
      BY <1>1, <2>1, AsideKeepsStage
  <1>2. CASE \/ \E r \in Requests : EnqueueCertbot(r) \/ \E k \in Crons : RunManual(r, k)
             \/ \E c \in sched.todo : SchedCreate(c)
    BY <1>2, CreateStage
  <1>3. CASE \/ \E r \in Requests : RequestEnqueue(r)
             \/ SchedEnqueue \/ \E p \in Pools : Sending(p)
    BY <1>3, EnqueueStage
  <1>4. CASE \E w \in Workers : Processing(w) \/ CommandPrints(w)
    BY <1>4, ProcessingStage
  <1>5. CASE \/ CronCrud \/ Signal \/ UNCHANGED vars
             \/ \E s \in Streams : Following(s) \/ StreamEnds(s) \/ \E id \in Ids : StreamOpen(s, id)
    <2>1. UNCHANGED <<runs, queue, overflow, worker, req, sched>>
      BY <1>5, Zenon DEF CronCrud, CronCreate, CronUpdate, CronDelete, Signal, vars,
                  Following, Poll, Final, StreamEnds, StreamOpen
    <2> QED
      BY <1>1, <2>1 DEF Waits
  <1>6. CASE SchedDone \/ \E t \in 1..MaxTime : SchedTick(t)
    <2>1. UNCHANGED <<runs, queue, overflow, worker, req>> /\ sched.id = NoRun
      BY <1>6, Zenon DEF SchedDone, SchedTick, JobsInv, Tied
    <2>2. sched'.id = NoRun
      BY <1>6, <2>1, TickHoldsNone
    <2> QED
      BY <1>1, <2>1, <2>2 DEF Waits
  <1>7. CASE Crash
    <2>1. /\ runs' = runs /\ worker' = [w \in Workers |-> IdleWorker]
          /\ queue' = [p \in Pools |-> <<>>] /\ overflow' = [p \in Pools |-> {}]
          /\ req' = [r \in Requests |-> IdleRequest] /\ sched'.id = NoRun
      BY <1>7 DEF Crash, IdleSched
    <2>2. \A id \in Ids : id # NoRun
      BY DEF Ids, NoRun
    <2>3. \A id \in Ids : ~Waits(id)'
      BY <2>1, <2>2 DEF Waits, IdleRequest
    <2>4. \A w \in Workers : RowAt(worker'[w], runs'[worker'[w].id])
      BY <2>1 DEF RowAt, IdleWorker
    <2>5. RowsGrow
      BY <2>1 DEF RowsGrow, Grows
    <2> QED
      BY <2>3, <2>4, <2>5 DEF StageInv
  <1> QED
    BY <1>2, <1>3, <1>4, <1>5, <1>6, <1>7 DEF Next, Producing
Output == Seq({Command, Header, Chunk})

\* The first n pieces do not change when one is appended.
LEMMA PrefixOfAppend ==
  ASSUME NEW out \in Output, NEW n \in 0..Len(out)
  PROVE  SubSeq(Append(out, Chunk), 1, n) = SubSeq(out, 1, n)
  <1>1. /\ Len(out) \in Nat /\ Append(out, Chunk) \in Output /\ Len(Append(out, Chunk)) = Len(out) + 1
        /\ \A i \in 1..Len(out) : Append(out, Chunk)[i] = out[i]
    BY AppendProperties, LenProperties DEF Output
  <1>2. n \in Int /\ \A i \in 1..n : i \in 1..Len(out)
    BY <1>1
  <1>3. \A i \in 1..n : out[i] \in {Command, Header, Chunk} /\ Append(out, Chunk)[i] = out[i]
    BY <1>1, <1>2, ElementOfSeq DEF Output
  <1> DEFINE a == SubSeq(Append(out, Chunk), 1, n)
             b == SubSeq(out, 1, n)
  <1>4. /\ b \in Output /\ Len(b) = IF 1 <= n THEN n - 1 + 1 ELSE 0
        /\ \A i \in 1..n - 1 + 1 : b[i] = out[1 + i - 1]
    BY <1>2, <1>3, SubSeqProperties DEF Output
  <1>5. /\ a \in Output /\ Len(a) = IF 1 <= n THEN n - 1 + 1 ELSE 0
        /\ \A i \in 1..n - 1 + 1 : a[i] = Append(out, Chunk)[1 + i - 1]
    BY <1>2, <1>3, SubSeqProperties DEF Output
  <1> HIDE DEF a, b
  <1>6. Len(a) = n /\ Len(b) = n /\ \A i \in 1..n : a[i] = b[i]
    <2>1. n - 1 + 1 = n /\ (IF 1 <= n THEN n - 1 + 1 ELSE 0) = n /\ \A i \in 1..n : 1 + i - 1 = i
      BY <1>1
    <2> QED
      BY <1>3, <1>4, <1>5, <2>1
  <1>7. a = b
    BY <1>4, <1>5, <1>6, SeqEqual DEF Output
  <1> QED
    BY <1>7 DEF a, b

\* The row goes on below the client.
LEMMA RowGoesOn ==
  ASSUME NEW rec, NEW old \in Run, NEW new \in Run, SentOf(rec, old), Grows(old, new)
  PROVE  SentOf(rec, new)
  <1>1. old.output \in Output /\ new.output \in Output /\ Len(old.output) \in Nat /\ Len(new.output) \in Nat
    BY LenProperties DEF Run, Output
  <1>2. CASE old.status = "pending"
    <2>1. rec.last = 0 /\ rec.sent = SubSeq(old.output, 1, 0) /\ rec.pc \notin {"final", "done"}
      BY <1>2 DEF SentOf
    <2>2. SubSeq(old.output, 1, 0) = <<>> /\ SubSeq(new.output, 1, 0) = <<>>
      BY SubSeqEmpty
    <2> QED
      BY <1>1, <2>1, <2>2 DEF SentOf
  <1>3. CASE /\ old.status = "running" /\ new.status # "pending"
             /\ new.output \in {old.output, Append(old.output, Chunk)}
    <2>1. rec.last \in 0..Len(old.output) /\ rec.sent = SubSeq(old.output, 1, rec.last) /\ rec.pc \notin {"final", "done"}
      BY <1>3 DEF SentOf
    <2>2. Len(old.output) <= Len(new.output)
      BY <1>1, <1>3, AppendProperties DEF Output
    <2>3. SubSeq(new.output, 1, rec.last) = SubSeq(old.output, 1, rec.last)
      BY <1>1, <1>3, <2>1, PrefixOfAppend
    <2>4. rec.last \in 0..Len(new.output)
      BY <1>1, <2>1, <2>2
    <2> QED
      BY <1>3, <2>1, <2>3, <2>4 DEF SentOf
  <1> QED
    BY <1>2, <1>3 DEF Grows

\* What the client has and what it is sent make up the whole column.
LEMMA SendsTheRest ==
  ASSUME NEW out \in Output, NEW n \in 0..Len(out)
  PROVE  SubSeq(out, 1, n) \o SubSeq(out, n + 1, Len(out)) = out
  <1>1. Len(out) \in Nat /\ 1 \in 1..Len(out) + 1 /\ n \in 1 - 1..Len(out) /\ Len(out) \in n..Len(out)
    BY LenProperties DEF Output
  <1>2. SubSeq(out, 1, n) \o SubSeq(out, n + 1, Len(out)) = SubSeq(out, 1, Len(out))
    BY <1>1, ConcatAdjacentSubSeq DEF Output
  <1> QED
    BY <1>2, SubSeqFull DEF Output

StreamType ==
    [pc : {"idle", "poll", "final", "done"}, id : Ids \cup {NoRun}, last : Nat, sent : Output]

\* Poll and Final send what is new.
LEMMA SendKeeps ==
  ASSUME JobsInv, StreamInv, runs' = runs, NEW s \in Streams, NEW pc \in {"poll", "final", "done"},
         SendNew(s, pc), stream[s].pc # "idle",
         runs[stream[s].id].status # "pending",
         pc \in {"final", "done"} => Finished(stream[s].id)
  PROVE  StreamInv'
  <1> DEFINE id == stream[s].id
             out == runs[stream[s].id].output
             rec == [stream[s] EXCEPT !.pc = pc, !.last = Len(out),
                                      !.sent = @ \o SubSeq(out, stream[s].last + 1, Len(out))]
  <1>1. stream \in [Streams -> StreamType]
    BY DEF StreamInv, StreamType, Output
  <1>2. /\ id \in DOMAIN runs /\ runs[id] \in Run /\ out \in Output /\ Len(out) \in Nat
        /\ stream[s].last \in 0..Len(out) /\ stream[s].sent = SubSeq(out, 1, stream[s].last)
    BY RunTypes, LenProperties DEF StreamInv, SentOf, JobsInv, Run, Output
  <1>3. stream' = [stream EXCEPT ![s] = rec]
    BY <1>1 DEF SendNew
  <1>4. stream[s].sent \o SubSeq(out, stream[s].last + 1, Len(out)) = out
    BY <1>2, SendsTheRest
  <1>5. rec \in StreamType /\ rec.pc = pc /\ rec.id = id /\ rec.last = Len(out) /\ rec.sent = out
    <2>1. PICK o : o = stream[s].sent \o SubSeq(out, stream[s].last + 1, Len(out))
      OBVIOUS
    <2>2. PICK n : n = Len(out)
      OBVIOUS
    <2>3. rec = [stream[s] EXCEPT !.pc = pc, !.last = n, !.sent = o]
      BY <2>1, <2>2
    <2>4. o \in Output /\ n \in Nat /\ stream[s] \in StreamType
      BY <1>1, <1>2, <1>4, <2>1, <2>2
    <2> HIDE DEF rec, out
    <2> QED
      BY <1>4, <2>1, <2>2, <2>3, <2>4 DEF StreamType
  <1> HIDE DEF rec
  <1>6. SentOf(rec, runs[id])
    <2>1. SubSeq(out, 1, Len(out)) = out
      BY <1>2, SubSeqFull DEF Output
    <2> QED
      BY <1>2, <1>5, <2>1 DEF SentOf, Finished
  <1>7. /\ stream' \in [Streams -> StreamType] /\ stream'[s] = rec
        /\ \A c \in Streams \ {s} : stream'[c] = stream[c]
    BY <1>1, <1>3, <1>5
  <1>8. ASSUME NEW c \in Streams, stream'[c].pc # "idle"
        PROVE  stream'[c].id \in DOMAIN runs' /\ SentOf(stream'[c], runs'[stream'[c].id])
    <2>1. CASE c = s
      BY <1>2, <1>5, <1>6, <1>7, <2>1
    <2>2. CASE c # s
      BY <1>7, <1>8, <2>2 DEF StreamInv
    <2> QED
      BY <2>1, <2>2
  <1> QED
    BY <1>7, <1>8 DEF StreamInv, StreamType, Output

LEMMA StreamNext ==
  ASSUME JobsInv, StageInv, StreamInv, [Next]_vars, JobsInv' PROVE StreamInv'
  <1>1. stream \in [Streams -> StreamType]
    BY DEF StreamInv, StreamType, Output
  <1>2. \A id \in DOMAIN runs : id \in DOMAIN runs' /\ Grows(runs[id], runs'[id])
    BY StageNext DEF RowsGrow
  <1>3. \A id \in DOMAIN runs : runs[id] \in Run /\ runs'[id] \in Run
    <2>1. runs \in Seq(Run) /\ runs' \in Seq(Run)
      BY DEF JobsInv, TypeOK
    <2>2. \A id \in DOMAIN runs : id \in 1..Len(runs) /\ id \in 1..Len(runs')
      BY <1>2, <2>1, LenProperties
    <2> QED
      BY <2>1, <2>2, ElementOfSeq
  <1>4. CASE stream' = stream
    <2>1. \A s \in Streams : stream[s].pc # "idle" => SentOf(stream[s], runs'[stream[s].id])
      BY <1>2, <1>3, RowGoesOn DEF StreamInv
    <2> QED
      BY <1>2, <1>4, <2>1 DEF StreamInv
  <1>5. ASSUME NEW s \in Streams, Following(s) PROVE StreamInv'
    <2>1. runs' = runs
      BY <1>5 DEF Following, Poll, Final
    <2>2. CASE Poll(s)
      <3>1. PICK pc \in {"poll", "final"} : SendNew(s, pc) /\ (pc = "final" => Finished(stream[s].id))
        BY <2>2 DEF Poll
      <3>2. stream[s].pc = "poll" /\ runs[stream[s].id].status # "pending"
        BY <2>2 DEF Poll
      <3> QED
        BY <2>1, <3>1, <3>2, SendKeeps
    <2>3. CASE Final(s)
      <3>1. stream[s].pc = "final" /\ SendNew(s, "done")
        BY <2>3 DEF Final
      <3>2. Finished(stream[s].id) /\ runs[stream[s].id].status # "pending"
        BY <3>1 DEF StreamInv, SentOf, Finished
      <3> QED
        BY <2>1, <3>1, <3>2, SendKeeps
    <2> QED
      BY <1>5, <2>2, <2>3 DEF Following
  <1>6. ASSUME NEW s \in Streams, NEW id \in Ids, StreamOpen(s, id) PROVE StreamInv'
    <2>1. /\ runs' = runs /\ id \in DOMAIN runs
          /\ stream' = [stream EXCEPT ![s] = [IdleStream EXCEPT !.pc = "poll", !.id = id]]
      BY <1>6 DEF StreamOpen, Exists
    <2>2. PICK rec \in StreamType :
             /\ stream' = [stream EXCEPT ![s] = rec]
             /\ rec.pc = "poll" /\ rec.id = id /\ rec.last = 0 /\ rec.sent = <<>>
      <3>1. ASSUME NEW idle \in StreamType
            PROVE  LET rec == [idle EXCEPT !.pc = "poll", !.id = id] IN
                   /\ rec \in StreamType /\ rec.pc = "poll" /\ rec.id = id
                   /\ rec.last = idle.last /\ rec.sent = idle.sent
        BY DEF StreamType
      <3>2. IdleStream \in StreamType /\ IdleStream.last = 0 /\ IdleStream.sent = <<>>
        BY DEF IdleStream, StreamType, Output
      <3> QED
        BY <2>1, <3>1, <3>2, Zenon
    <2>4. SentOf(rec, runs[id])
      <3>1. SubSeq(runs[id].output, 1, 0) = <<>> /\ Len(runs[id].output) \in Nat
        BY <1>3, <2>1, SubSeqEmpty, LenProperties DEF Run
      <3> QED
        BY <2>2, <3>1 DEF SentOf
    <2>5. /\ stream' \in [Streams -> StreamType] /\ stream'[s] = rec /\ rec.id = id
          /\ \A c \in Streams \ {s} : stream'[c] = stream[c]
      BY <1>1, <2>2
    <2> QED
      BY <2>1, <2>4, <2>5 DEF StreamInv, StreamType, Output
  <1>7. IdleStream \in StreamType /\ IdleStream.pc = "idle"
    BY DEF IdleStream, StreamType, Output
  <1>8. ASSUME NEW s \in Streams, StreamEnds(s) PROVE StreamInv'
    <2>1. runs' = runs /\ stream' = [stream EXCEPT ![s] = IdleStream]
      BY <1>8 DEF StreamEnds
    <2>2. /\ stream' \in [Streams -> StreamType] /\ stream'[s] = IdleStream
          /\ \A c \in Streams \ {s} : stream'[c] = stream[c]
      BY <1>1, <1>7, <2>1
    <2> QED
      BY <1>7, <2>1, <2>2 DEF StreamInv, StreamType, Output
  <1>9. CASE Crash
    <2>1. stream' = [s \in Streams |-> IdleStream]
      BY <1>9 DEF Crash
    <2> QED
      BY <1>7, <2>1 DEF StreamInv, StreamType, Output
  <1>10. CASE \/ CronCrud \/ Producing \/ Signal \/ UNCHANGED vars
              \/ \E r \in Requests : EnqueueCertbot(r) \/ \E k \in Crons : RunManual(r, k)
              \/ \E t \in 1..MaxTime : SchedTick(t)
              \/ \E p \in Pools : Sending(p)
    <2>1. stream' = stream
      BY <1>10, Zenon DEF CronCrud, CronCreate, CronUpdate, CronDelete, Producing, RequestEnqueue, SchedCreate,
                   SchedEnqueue, SchedDone, Signal, vars, EnqueueCertbot, RunManual, SchedTick,
                   Sending, EnqueueLater
    <2> QED
      BY <1>4, <2>1
  <1>11. CASE \E w \in Workers : Processing(w) \/ CommandPrints(w)
    <2>1. stream' = stream
      BY <1>11 DEF Processing, Take, Quit, Find, CompleteEmpty, MarkRunningWithOutput, BeforeRun, Veto,
                   CompleteVetoed, CommandEnds, CompleteStatus, CommandPrints
    <2> QED
      BY <1>4, <2>1
  <1> QED
    BY <1>5, <1>6, <1>8, <1>9, <1>10, <1>11 DEF Next

\* A client that follows a run has received a prefix of the run's output
\* column, although the column of a pending run holds the command, and the
\* whole of it when the done event is sent.
THEOREM StreamsAreFaithful == Spec => []StreamFaithful
  <1>1. Init => StageInv /\ StreamInv
    <2> SUFFICES ASSUME Init PROVE StageInv /\ StreamInv
      OBVIOUS
    <2>1. \A id \in Ids : ~Waits(id)
      <3>1. \A id \in Ids : id # NoRun
        BY DEF Ids, NoRun
      <3> QED
        BY <3>1 DEF Init, Waits, IdleRequest, IdleSched
    <2>2. \A w \in Workers : RowAt(worker[w], runs[worker[w].id])
      BY DEF Init, RowAt, IdleWorker
    <2>3. StreamInv
      BY DEF Init, StreamInv, IdleStream
    <2> QED
      BY <2>1, <2>2, <2>3 DEF StageInv
  <1>2. JobsInv /\ JobsInv' /\ StageInv /\ StreamInv /\ [Next]_vars => (StageInv /\ StreamInv)'
    BY StageNext, StreamNext
  <1>3. JobsInv /\ StreamInv => StreamFaithful
    <2> SUFFICES ASSUME JobsInv, StreamInv, NEW s \in Streams, stream[s].pc # "idle"
                 PROVE  /\ stream[s].last <= Len(runs[stream[s].id].output)
                        /\ stream[s].sent = SubSeq(runs[stream[s].id].output, 1, stream[s].last)
                        /\ stream[s].pc = "done" => stream[s].sent = runs[stream[s].id].output
      BY DEF StreamFaithful
    <2>1. /\ SentOf(stream[s], runs[stream[s].id])
          /\ runs[stream[s].id].output \in Output /\ Len(runs[stream[s].id].output) \in Nat
      BY RunTypes, LenProperties DEF StreamInv, JobsInv, Run, Output
    <2>2. SubSeq(runs[stream[s].id].output, 1, Len(runs[stream[s].id].output)) = runs[stream[s].id].output
      BY <2>1, SubSeqFull DEF Output
    <2> QED
      BY <2>1, <2>2 DEF SentOf
  <1> QED
    BY <1>1, <1>2, <1>3, JobsInductive, PTL DEF Spec

-----------------------------------------------------------------------------
(* Boundaries of intervals.                                                *)

\* Quotient and remainder.
LEMMA DivIs ==
  ASSUME NEW m \in Nat \ {0}, NEW a \in Nat
  PROVE  /\ a \div m \in Nat /\ a % m \in 0..m-1
         /\ a = m * (a \div m) + (a % m)
  OBVIOUS

\* Multiples of m are m apart.
LEMMA Further ==
  ASSUME NEW m \in Nat \ {0}, NEW x \in Nat, NEW y \in Nat, x < y
  PROVE  m * x + m <= m * y
  <1>1. PICK d \in Nat : y = x + 1 + d
    <2>1. y - x - 1 \in Nat
      OBVIOUS
    <2> QED
      BY <2>1
  <1>2. m * y = m * x + m + m * d
    BY <1>1
  <1>3. m * d \in Nat
    BY <1>1
  <1> QED
    BY <1>2, <1>3

\* There is one quotient and one remainder.
LEMMA DivUnique ==
  ASSUME NEW m \in Nat \ {0}, NEW a \in Nat, NEW q \in Nat, NEW r \in 0..m-1, a = m * q + r
  PROVE  a \div m = q /\ a % m = r
  <1>1. /\ a \div m \in Nat /\ a % m \in 0..m-1
        /\ a = m * (a \div m) + (a % m)
    BY DivIs
  <1>2. CASE q < a \div m
    BY <1>1, <1>2, m * q + m <= m * (a \div m), Further
  <1>3. CASE a \div m < q
    BY <1>1, <1>3, m * (a \div m) + m <= m * q, Further
  <1>4. CASE a \div m = q
    BY <1>1, <1>4
  <1> QED
    BY <1>1, <1>2, <1>3, <1>4

\* A later tick is in no earlier interval.
LEMMA DivGrows ==
  ASSUME NEW m \in Nat \ {0}, NEW a \in Nat, NEW b \in Nat, a <= b
  PROVE  a \div m <= b \div m
  <1>1. /\ a \div m \in Nat /\ a % m \in 0..m-1 /\ a = m * (a \div m) + (a % m)
        /\ b \div m \in Nat /\ b % m \in 0..m-1 /\ b = m * (b \div m) + (b % m)
    BY DivIs
  <1>2. SUFFICES ASSUME b \div m < a \div m PROVE FALSE
    BY <1>1
  <1>3. m * (b \div m) + m <= m * (a \div m)
    BY <1>1, <1>2, Further
  <1> DEFINE p == m * (a \div m)  q == m * (b \div m)
  <1>4. p \in Nat /\ q \in Nat
    BY <1>1
  <1> QED
    BY <1>1, <1>3, <1>4

\* Two ticks are in different intervals of m exactly when a multiple of m lies between.
LEMMA BoundaryBetween ==
  ASSUME NEW m \in Nat \ {0}, NEW a \in Nat, NEW b \in Nat, a <= b
  PROVE  a \div m # b \div m <=> \E t \in (a + 1)..b : t % m = 0
  <1>1. /\ a \div m \in Nat /\ a % m \in 0..m-1 /\ a = m * (a \div m) + (a % m)
        /\ b \div m \in Nat /\ b % m \in 0..m-1 /\ b = m * (b \div m) + (b % m)
    BY DivIs
  <1>2. ASSUME a \div m # b \div m PROVE \E t \in (a + 1)..b : t % m = 0
    <2> DEFINE t == m * (b \div m)
    <2>1. a \div m <= b \div m
      BY DivGrows
    <2>2. m * (a \div m) + m <= t
      BY <1>1, <1>2, <2>1, a \div m < b \div m, Further
    <2>3. m * (a \div m) \in Nat /\ t \in Nat
      BY <1>1
    <2>4. t \in (a + 1)..b
      BY <1>1, <2>2, <2>3
    <2>5. t % m = 0
      <3>1. t = m * (b \div m) + 0
        BY <2>3
      <3> HIDE DEF t
      <3> QED
        BY <1>1, <2>3, <3>1, DivUnique
    <2> QED
      BY <2>4, <2>5
  <1>3. ASSUME NEW t \in (a + 1)..b, t % m = 0 PROVE a \div m # b \div m
    <2>1. t \in Nat /\ a <= t /\ t <= b /\ t # a
      OBVIOUS
    <2>2. t \div m \in Nat /\ t = m * (t \div m) + 0
      BY <1>3, <2>1, DivIs
    <2>3. a \div m <= t \div m /\ t \div m <= b \div m
      BY <2>1, DivGrows
    <2>4. m * (a \div m) \in Nat /\ m * (a \div m) <= a
      BY <1>1
    <2>5. t \div m # a \div m
      <3>1. SUFFICES ASSUME t \div m = a \div m PROVE FALSE
        OBVIOUS
      <3>2. t = m * (a \div m) + 0
        BY <2>2, <3>1
      <3> QED
        BY <2>1, <2>4, <3>2
    <2> QED
      BY <1>1, <2>2, <2>3, <2>5
  <1> QED
    BY <1>2, <1>3

\* Intervals of intervals: the hour of a minute is the hour of its ticks.
LEMMA DivOfDiv ==
  ASSUME NEW m \in Nat \ {0}, NEW n \in Nat \ {0}, NEW a \in Nat
  PROVE  a \div (m * n) = (a \div m) \div n
  <1> DEFINE i == a \div m  r == a % m  q == i \div n  s == i % n
  <1>1. i \in Nat /\ r \in 0..m-1 /\ a = m * i + r
    BY DivIs
  <1>2. q \in Nat /\ s \in 0..n-1 /\ i = n * q + s
    BY <1>1, DivIs
  <1> HIDE DEF i, r, q, s
  <1>3. m * n \in Nat \ {0}
    OBVIOUS
  <1>4. m * i = (m * n) * q + m * s
    BY <1>2
  <1>5. m * s \in Nat /\ m * s + m <= m * n
    BY <1>2, Further
  <1>6. (m * s) + r \in 0..(m * n) - 1
    BY <1>1, <1>3, <1>5
  <1>7. (m * n) * q \in Nat
    BY <1>2, <1>3
  <1>8. a = (m * n) * q + ((m * s) + r)
    BY <1>1, <1>4, <1>5, <1>6, <1>7
  <1> QED
    BY <1>2, <1>3, <1>6, <1>8, DivUnique DEF i, q

-----------------------------------------------------------------------------
(* The comparison of the clock's fields.                                   *)

\* An hour is a number of minutes, a day of hours, a month of days.
LEMMA CalendarIs ==
  /\ \A every \in RunEvery : Scale[every] \in Nat \ {0}
  /\ \A x \in {PerMinute, PerHour, PerDay, PerMonth} : x \in Nat \ {0}
  <1>1. \A every \in RunEvery : Scale[every] \in Nat \ {0}
    BY ScaleAssumption
  <1>2. \A x, y \in Nat \ {0} : x * y \in Nat \ {0}
    OBVIOUS
  <1>3. PerMinute \in Nat \ {0}
    BY <1>1 DEF PerMinute, RunEvery
  <1>4. PerHour \in Nat \ {0}
    BY <1>1, <1>2, <1>3 DEF PerHour, RunEvery
  <1>5. PerDay \in Nat \ {0}
    BY <1>1, <1>2, <1>4 DEF PerDay, RunEvery
  <1>6. PerMonth \in Nat \ {0}
    BY <1>1, <1>2, <1>5 DEF PerMonth, RunEvery
  <1> QED
    BY <1>1, <1>3, <1>4, <1>5, <1>6

\* Ticks with the same hour on the same day are in the same hour, whatever lies
\* between them.
LEMMA SameHour ==
  ASSUME NEW a \in Nat, NEW b \in Nat
  PROVE  (Hour(a) # Hour(b) \/ Day(a) # Day(b)) <=> a \div PerHour # b \div PerHour
  <1> DEFINE i == a \div PerHour  j == b \div PerHour  n == Scale["day"]
  <1>1. n \in Nat \ {0} /\ PerHour \in Nat \ {0}
    BY CalendarIs DEF RunEvery
  <1>2. i \in Nat /\ j \in Nat
    BY <1>1, DivIs
  <1>3. Day(a) = i \div n /\ Day(b) = j \div n
    BY <1>1, DivOfDiv DEF Day, PerDay
  <1>4. Hour(a) = i % n /\ Hour(b) = j % n
    BY DEF Hour
  <1> HIDE DEF i, j, n
  <1>5. i = n * (i \div n) + (i % n) /\ j = n * (j \div n) + (j % n)
    BY <1>1, <1>2, DivIs
  <1>6. i % n = j % n /\ i \div n = j \div n => i = j
    BY <1>5
  <1> QED
    BY <1>3, <1>4, <1>6 DEF i, j

\* Ticks an hour minus a minute apart at most are in the same minute when they
\* have the same minute of the hour and the same day.
LEMMA SameMinute ==
  ASSUME NEW a \in Nat, NEW b \in Nat, a <= b, b <= a + (PerHour - PerMinute)
  PROVE  (Minute(a) # Minute(b) \/ Day(a) # Day(b)) <=> a \div PerMinute # b \div PerMinute
  <1> DEFINE m == PerMinute  n == Scale["hour"]  i == a \div m  j == b \div m
  <1>1. m \in Nat \ {0} /\ n \in Nat \ {0} /\ PerHour = m * n
    BY CalendarIs DEF RunEvery, PerHour
  <1>2. /\ i \in Nat /\ a % m \in 0..m-1 /\ a = m * i + (a % m)
        /\ j \in Nat /\ b % m \in 0..m-1 /\ b = m * j + (b % m)
    BY <1>1, DivIs
  <1>3. i <= j
    BY <1>1, DivGrows
  <1>4. i = j => Day(a) = Day(b)
    <2> DEFINE k == Scale["day"]
    <2>1. k \in Nat \ {0} /\ n * k \in Nat \ {0}
      BY <1>1, CalendarIs DEF RunEvery
    <2>2. PerDay = m * (n * k)
      BY <1>1, <2>1 DEF PerDay
    <2> HIDE DEF k, m, n
    <2>3. Day(a) = (a \div m) \div (n * k) /\ Day(b) = (b \div m) \div (n * k)
      BY <1>1, <2>1, <2>2, DivOfDiv DEF Day
    <2> QED
      BY <2>3 DEF i, j
  <1>5. Minute(a) = i % n /\ Minute(b) = j % n
    BY DEF Minute
  <1>6. ASSUME i % n = j % n PROVE i = j
    <2> HIDE DEF i, j, m, n
    <2>1. /\ i \div n \in Nat /\ i % n \in Nat /\ i = n * (i \div n) + (i % n)
          /\ j \div n \in Nat /\ j % n \in Nat /\ j = n * (j \div n) + (j % n)
          /\ i \div n <= j \div n
      <3>1. /\ i \div n \in Nat /\ i % n \in 0..n-1 /\ i = n * (i \div n) + (i % n)
            /\ j \div n \in Nat /\ j % n \in 0..n-1 /\ j = n * (j \div n) + (j % n)
        BY <1>1, <1>2, DivIs
      <3>2. i \div n <= j \div n
        BY <1>1, <1>2, <1>3, DivGrows
      <3>3. \A r \in 0..n-1 : r \in Nat
        BY <1>1
      <3> QED
        BY <3>1, <3>2, <3>3, Zenon
    <2>2. SUFFICES ASSUME i \div n < j \div n PROVE FALSE
      <3>1. ASSUME i \div n = j \div n PROVE i = j
        <4>1. i = n * (j \div n) + (j % n)
          BY <1>6, <2>1, <3>1, Zenon
        <4> QED
          BY <2>1, <4>1, Zenon
      <3>2. i \div n \in Nat /\ j \div n \in Nat /\ i \div n <= j \div n
        BY <2>1
      <3> QED
        BY <3>1, <3>2
    <2>3. n * (i \div n) + n <= n * (j \div n)
      BY <1>1, <2>1, <2>2, Further
    <2>4. i + n <= j
      <3> DEFINE x == n * (i \div n)  y == n * (j \div n)
      <3>1. x \in Nat /\ y \in Nat
        BY <1>1, <2>1
      <3> QED
        BY <1>1, <1>6, <2>1, <2>3, <3>1
    <2>5. m * (i + n) <= m * j
      BY <1>1, <1>2, <2>4, i + n < j => m * (i + n) + m <= m * j, Further
    <2>6. m * (i + n) = m * i + m * n /\ m * i \in Nat /\ m * n \in Nat /\ m * j \in Nat
      BY <1>1, <1>2
    <2>7. b <= a + (m * n - m)
      BY <1>1 DEF m
    <2> QED
      BY <1>1, <1>2, <2>5, <2>6, <2>7
  <1> QED
    BY <1>4, <1>5, <1>6

\* The comparison is the crossing of a boundary, from any tick on.
LEMMA DueIsCrossing ==
  ASSUME NEW prev \in Nat, NEW late \in 1 .. PerHour - PerMinute,
         NEW every \in {"min", "hour", "day", "month"}
  PROVE  ShouldRun(prev, prev + late, every) <=> Crossed(prev, prev + late, every)
  <1>1. \A x \in {PerMinute, PerHour, PerDay, PerMonth} : x \in Nat \ {0}
    BY CalendarIs
  <1>2. prev + late \in Nat /\ prev <= prev + late /\ prev + late <= prev + (PerHour - PerMinute)
    BY <1>1
  <1>3. \A x \in {PerMinute, PerHour, PerDay, PerMonth} :
           prev \div x # (prev + late) \div x <=> \E t \in (prev + 1)..(prev + late) : t % x = 0
    BY <1>1, <1>2, BoundaryBetween
  <1>4. CASE every = "min"
    BY <1>2, <1>3, <1>4, SameMinute DEF ShouldRun, Crossed, Interval
  <1>5. CASE every = "hour"
    BY <1>2, <1>3, <1>5, SameHour DEF ShouldRun, Crossed, Interval
  <1>6. CASE every = "day"
    BY <1>3, <1>6 DEF ShouldRun, Crossed, Interval, Day
  <1>7. CASE every = "month"
    BY <1>3, <1>7 DEF ShouldRun, Crossed, Interval, Month
  <1> QED
    BY <1>4, <1>5, <1>6, <1>7

\* The tick the scheduler is at is a time of its clock.
Clocked == sched.prev \in 0..MaxTime

LEMMA ClockNext ==
  ASSUME JobsInv, Clocked, [Next]_vars PROVE Clocked'
  <1>1. /\ sched = [pc |-> sched.pc, prev |-> sched.prev, now |-> sched.now, todo |-> sched.todo, id |-> sched.id]
        /\ sched.now \in 0..MaxTime /\ MaxTime \in Nat
    BY BoundsAssumption DEF JobsInv, SchedShape, TypeOK
  <1>2. \A t \in 0..MaxTime : sched' = IdleSched(t) => Clocked'
    BY DEF Clocked, IdleSched
  <1>3. sched' = sched => Clocked'
    BY DEF Clocked
  <1>4. CASE CronCrud
    BY <1>3, <1>4, Zenon DEF CronCrud, CronCreate, CronUpdate, CronDelete
  <1>5. CASE \E r \in Requests : EnqueueCertbot(r) \/ \E k \in Crons : RunManual(r, k)
    BY <1>3, <1>5, Zenon DEF EnqueueCertbot, RunManual
  <1>6. ASSUME NEW t \in 1..MaxTime, SchedTick(t) PROVE Clocked'
    <2>1. \/ \E todo : sched' = [sched EXCEPT !.pc = "next", !.now = t, !.todo = todo]
          \/ sched' = IdleSched(t)
      BY <1>6, Zenon DEF SchedTick, Statement
    <2>2. ASSUME NEW todo, sched' = [sched EXCEPT !.pc = "next", !.now = t, !.todo = todo] PROVE Clocked'
      BY <1>1, <2>2 DEF Clocked
    <2>3. t \in 0..MaxTime
      BY <1>1
    <2> QED
      BY <1>2, <2>1, <2>2, <2>3, Zenon
  <1>7. CASE Producing
    <2>1. CASE \E r \in Requests : RequestEnqueue(r)
      BY <1>3, <2>1, Zenon DEF RequestEnqueue
    <2>2. ASSUME NEW c \in sched.todo, SchedCreate(c) PROVE Clocked'
      <3>1. \/ sched' = [sched EXCEPT !.pc = "enqueue", !.todo = @ \ {c}, !.id = Len(runs) + 1]
            \/ sched' = [sched EXCEPT !.todo = @ \ {c}]
        BY <2>2, Zenon DEF SchedCreate, Statement
      <3> QED
        BY <1>1, <3>1 DEF Clocked
    <2>3. CASE SchedEnqueue
      BY <1>1, <2>3 DEF SchedEnqueue, Clocked
    <2>4. CASE SchedDone
      BY <1>1, <1>2, <2>4, Zenon DEF SchedDone
    <2> QED
      BY <1>7, <2>1, <2>2, <2>3, <2>4 DEF Producing, SchedCreate
  <1>8. CASE \E p \in Pools : Sending(p)
    BY <1>3, <1>8, Zenon DEF Sending, EnqueueLater
  <1>9. ASSUME NEW w \in Workers, Processing(w) \/ CommandPrints(w) PROVE Clocked'
    BY <1>3, <1>9, Zenon DEF Processing, Take, Quit, Find, CompleteEmpty, MarkRunningWithOutput, BeforeRun,
       Veto, CompleteVetoed, CommandEnds, CompleteStatus, CommandPrints
  <1>10. CASE \E s \in Streams : Following(s) \/ StreamEnds(s) \/ \E id \in Ids : StreamOpen(s, id)
    BY <1>3, <1>10, Zenon DEF Following, Poll, Final, StreamEnds, StreamOpen
  <1>11. CASE Signal
    BY <1>3, <1>11, Zenon DEF Signal
  <1>12. CASE Crash
    BY <1>1, <1>2, <1>12, Zenon DEF Crash
  <1>13. CASE UNCHANGED vars
    BY <1>3, <1>13, Zenon DEF vars
  <1> QED
    BY <1>4, <1>5, <1>6, <1>7, <1>8, <1>9, <1>10, <1>11, <1>12, <1>13 DEF Next

\* Of two ticks that lie an hour minus a minute apart at most, the later one
\* starts a cron exactly when a boundary of its interval lies between them: in
\* any calendar, from wherever the scheduler's clock is, for crons of every
\* interval, although only clock fields are compared and ticks are lost.
THEOREM TicksAreExact == Spec => []DueIffCrossed
  <1>1. Init => Clocked
    BY BoundsAssumption DEF Init, Clocked, IdleSched
  <1>2. JobsInv /\ Clocked /\ [Next]_vars => Clocked'
    BY ClockNext
  <1>3. Clocked => DueIffCrossed
    <2> SUFFICES ASSUME Clocked, NEW ahead \in 0..PerMonth PROVE ExactFrom[sched.prev + ahead]
      BY DEF DueIffCrossed
    <2>1. PerMonth \in Nat /\ MaxTime \in Nat
      BY CalendarIs, BoundsAssumption
    <2>2. sched.prev + ahead \in 0 .. MaxTime + PerMonth /\ sched.prev + ahead \in Nat
      BY <2>1 DEF Clocked
    <2>3. \A every \in {"min", "hour", "day", "month"}, late \in 1 .. PerHour - PerMinute :
             ShouldRun(sched.prev + ahead, sched.prev + ahead + late, every)
                <=> Crossed(sched.prev + ahead, sched.prev + ahead + late, every)
      BY <2>2, DueIsCrossing
    <2> QED
      BY <2>2, <2>3, Zenon DEF ExactFrom
  <1> QED
    BY <1>1, <1>2, <1>3, JobsInductive, PTL DEF Spec
=============================================================================
