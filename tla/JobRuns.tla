------------------------------ MODULE JobRuns ------------------------------
(***************************************************************************)
(* Background jobs: cron rows and their service (service/cron), the cron   *)
(* scheduler (app/scheduler.go), the two job workers with their queues     *)
(* (infra/job/worker.go: one of the API, one of RunServe), the job_runs    *)
(* rows and the clients that follow a run as server-sent events.           *)
(*                                                                         *)
(* One action is one database statement, one channel operation, one hook   *)
(* call or one step of the command.                                        *)
(***************************************************************************)
EXTENDS Integers, Sequences, FiniteSets

CONSTANTS
    Crons,        \* ids of cron rows
    MaxRuns,      \* bound on job_runs rows
    ApiWorkers,   \* goroutines of the worker that serves the API
    CronWorkers,  \* goroutines of the worker that serves the scheduler
    QueueCap,     \* capacity of a worker's queue
    Requests,     \* requests that start a run
    Streams,      \* clients that follow a run
    MaxChunks,    \* bound on the chunks a command prints
    Everys,       \* the intervals users choose
    Scale,        \* the clock: ticks a minute, minutes an hour, hours a day, days a month
    MaxTime,      \* bound on the scheduler's clock
    MaxGap,       \* ticks of the ticker that may be lost in a row, plus one
    MaxCrashes,   \* bound on restarts
    Faults        \* see FaultKinds

FaultKinds == {"db",       \* a statement fails
               "veto",     \* a plugin refuses a before_ hook
               "signal"}   \* SIGTERM arrives and the process serves on

NoRun == 0
Workers == ApiWorkers \cup CronWorkers
Pools == {"api", "cron"}
PoolOf(w) == IF w \in ApiWorkers THEN "api" ELSE "cron"
RunEvery == {"min", "hour", "day", "month"}

ASSUME BoundsAssumption ==
    /\ MaxRuns \in Nat /\ QueueCap \in Nat \ {0} /\ MaxChunks \in Nat
    /\ MaxTime \in Nat /\ MaxGap \in Nat \ {0} /\ MaxCrashes \in Nat
ASSUME WorkersAssumption == ApiWorkers \cap CronWorkers = {}
ASSUME ScaleAssumption == Everys \subseteq RunEvery /\ Scale \in [RunEvery -> Nat \ {0}]
ASSUME FaultsAssumption == Faults \subseteq FaultKinds

VARIABLES
    crons,     \* cronjobs rows
    runs,      \* job_runs rows, in the order of their ids
    queue,     \* Worker.queue of both workers
    overflow,  \* goroutines of Enqueue that wait for a full queue
    worker,    \* the worker goroutines
    req,       \* RunManual and EnqueueCertbot in flight
    sched,     \* runCronScheduler
    stream,    \* StreamSSE of every client
    live,      \* whether the context of RunServe is live
    crashes,
    started,   \* how often the command of a run was started
    calm       \* no statement failed, no signal, no restart so far

vars == <<crons, runs, queue, overflow, worker, req, sched, stream, live,
          crashes, started, calm>>

\* A cron row: its interval, and whether its payload is blank (Update does
\* not refuse a blank payload).
Cron == [exists : BOOLEAN, every : RunEvery, blank : BOOLEAN]
NoCron == [exists |-> FALSE, every |-> "min", blank |-> FALSE]

\* Output is a sequence of pieces. While a run is pending its output column
\* holds the command.
Command == "command"
Header == "header"
Chunk == "chunk"
Run == [status : {"pending", "running", "ok", "failed"},
        output : Seq({Command, Header, Chunk})]

Ids == 1..MaxRuns
Exists(id) == id \in DOMAIN runs
Finished(id) == runs[id].status \in {"ok", "failed"}
Unfinished(id) == Exists(id) /\ ~Finished(id)

IdleWorker == [pc |-> "idle", id |-> NoRun, ok |-> TRUE, chunks |-> 0]
IdleRequest == [pc |-> "idle", id |-> NoRun]
IdleStream == [pc |-> "idle", id |-> NoRun, last |-> 0, sent |-> <<>>]
IdleSched(t) == [pc |-> "idle", prev |-> t, now |-> t, todo |-> {}, id |-> NoRun]

-----------------------------------------------------------------------------
(* Statements.                                                             *)

\* How a statement may end; a cancelled context fails every statement.
Outcomes(ctx) ==
    {ok \in BOOLEAN : IF ok THEN ctx ELSE ~ctx \/ "db" \in Faults}

\* A statement on the context ctx, and what follows in either case.
Statement(ctx, Good, Bad) ==
    \E ok \in Outcomes(ctx) : /\ IF ok THEN Good ELSE Bad
                              /\ calm' = (calm /\ ok)

ContextOf(w) == PoolOf(w) = "api" \/ live

\* The insert. Create then reads the row back, a statement of its own: when
\* that fails the caller sees an error and the row is never enqueued.
Create(blank) ==
    /\ Len(runs) < MaxRuns
    /\ runs' = Append(runs, [status |-> "pending",
                             output |-> IF blank THEN <<>> ELSE <<Command>>])

SetRun(id, status, output) ==
    runs' = [runs EXCEPT ![id] = [status |-> status, output |-> output]]

EnqueueTwice(p, id) ==
    /\ queue' = IF Len(queue[p]) < QueueCap THEN [queue EXCEPT ![p] = Append(@, id)]
                ELSE queue
    /\ overflow' = [overflow EXCEPT ![p] = @ \cup {id}]

EnqueueDrops(p, id) ==
    /\ queue' = IF Len(queue[p]) < QueueCap THEN [queue EXCEPT ![p] = Append(@, id)]
                ELSE queue
    /\ UNCHANGED overflow

\* Enqueue never blocks: at a full queue a goroutine waits to send.
Enqueue(p, id) ==
    IF Len(queue[p]) < QueueCap
    THEN /\ queue' = [queue EXCEPT ![p] = Append(@, id)]
         /\ UNCHANGED overflow
    ELSE /\ overflow' = [overflow EXCEPT ![p] = @ \cup {id}]
         /\ UNCHANGED queue

EnqueueLaterUnbounded(p, id) ==
    /\ id \in overflow[p]
    /\ queue' = [queue EXCEPT ![p] = Append(@, id)]
    /\ overflow' = [overflow EXCEPT ![p] = @ \ {id}]
    /\ UNCHANGED <<crons, runs, worker, req, sched, stream, live, crashes, started, calm>>

EnqueueLater(p, id) ==
    /\ id \in overflow[p]
    /\ Len(queue[p]) < QueueCap
    /\ queue' = [queue EXCEPT ![p] = Append(@, id)]
    /\ overflow' = [overflow EXCEPT ![p] = @ \ {id}]
    /\ UNCHANGED <<crons, runs, worker, req, sched, stream, live, crashes, started, calm>>

-----------------------------------------------------------------------------
(* Cron rows and runs started by requests.                                 *)

CronCreate(k, every) ==
    /\ ~crons[k].exists
    /\ crons' = [crons EXCEPT ![k] = [exists |-> TRUE, every |-> every, blank |-> FALSE]]
    /\ UNCHANGED <<runs, queue, overflow, worker, req, sched, stream, live, crashes, started, calm>>

CronUpdate(k, every, blank) ==
    /\ crons[k].exists
    /\ crons' = [crons EXCEPT ![k] = [exists |-> TRUE, every |-> every, blank |-> blank]]
    /\ UNCHANGED <<runs, queue, overflow, worker, req, sched, stream, live, crashes, started, calm>>

CronDelete(k) ==
    /\ crons[k].exists
    /\ crons' = [crons EXCEPT ![k] = NoCron]
    /\ UNCHANGED <<runs, queue, overflow, worker, req, sched, stream, live, crashes, started, calm>>

\* RunManual up to the new row: the row is found and the before_trigger hook
\* passes. A request that ends with an error changes nothing.
RunManual(r, k) ==
    /\ req[r].pc = "idle"
    /\ crons[k].exists
    /\ Create(crons[k].blank)
    /\ Statement(TRUE, req' = [req EXCEPT ![r] = [pc |-> "enqueue", id |-> Len(runs) + 1]],
                       UNCHANGED req)
    /\ UNCHANGED <<crons, queue, overflow, worker, sched, stream, live, crashes, started>>

\* EnqueueCertbot up to the new row.
EnqueueCertbot(r) ==
    /\ req[r].pc = "idle"
    /\ Create(FALSE)
    /\ Statement(TRUE, req' = [req EXCEPT ![r] = [pc |-> "enqueue", id |-> Len(runs) + 1]],
                       UNCHANGED req)
    /\ UNCHANGED <<crons, queue, overflow, worker, sched, stream, live, crashes, started>>

RequestEnqueue(r) ==
    /\ req[r].pc = "enqueue"
    /\ Enqueue("api", req[r].id)
    /\ req' = [req EXCEPT ![r] = IdleRequest]
    /\ UNCHANGED <<crons, runs, worker, sched, stream, live, crashes, started, calm>>

-----------------------------------------------------------------------------
(* The scheduler.                                                          *)

PerMinute == Scale["min"]
PerHour == PerMinute * Scale["hour"]
PerDay == PerHour * Scale["day"]
PerMonth == PerDay * Scale["month"]

\* The fields of a clock time that ShouldRun compares.
Minute(t) == (t \div PerMinute) % Scale["hour"]
Hour(t) == (t \div PerHour) % Scale["day"]
Day(t) == t \div PerDay
Month(t) == t \div PerMonth

ShouldRunElapsed(prev, now, every) ==
    now - prev >= CASE every = "min" -> PerMinute [] every = "hour" -> PerHour
                    [] every = "day" -> PerDay [] every = "month" -> PerMonth

ShouldRun(prev, now, every) ==
    CASE every = "min" -> Minute(prev) # Minute(now) \/ Day(prev) # Day(now)
      [] every = "hour" -> Hour(prev) # Hour(now) \/ Day(prev) # Day(now)
      [] every = "day" -> Day(prev) # Day(now)
      [] every = "month" -> Month(prev) # Month(now)

\* A tick arrives and the rows are listed. When that fails the tick is over.
SchedTick(now) ==
    /\ sched.pc = "idle" /\ live
    /\ now \in (sched.prev + 1)..(sched.prev + MaxGap) /\ now <= MaxTime
    /\ Statement(TRUE,
         sched' = [sched EXCEPT !.pc = "next", !.now = now,
                     !.todo = {<<k, crons[k].blank>> : k \in
                         {k \in Crons : /\ crons[k].exists
                                        /\ ShouldRun(sched.prev, now, crons[k].every)}}],
         sched' = IdleSched(now))
    /\ UNCHANGED <<crons, runs, queue, overflow, worker, req, stream, live, crashes, started>>

\* The row of the next due cron; its interval and payload are those listed.
SchedCreate(c) ==
    /\ sched.pc = "next" /\ c \in sched.todo
    /\ \/ /\ live /\ Create(c[2])
          /\ Statement(live, sched' = [sched EXCEPT !.pc = "enqueue", !.todo = @ \ {c},
                                          !.id = Len(runs) + 1],
                             sched' = [sched EXCEPT !.todo = @ \ {c}])
       \/ /\ FALSE \in Outcomes(live)
          /\ sched' = [sched EXCEPT !.todo = @ \ {c}]
          /\ calm' = FALSE
          /\ UNCHANGED runs
    /\ UNCHANGED <<crons, queue, overflow, worker, req, stream, live, crashes, started>>

SchedEnqueue ==
    /\ sched.pc = "enqueue"
    /\ Enqueue("cron", sched.id)
    /\ sched' = [sched EXCEPT !.pc = "next", !.id = NoRun]
    /\ UNCHANGED <<crons, runs, worker, req, stream, live, crashes, started, calm>>

SchedDone ==
    /\ sched.pc = "next" /\ sched.todo = {}
    /\ sched' = IdleSched(sched.now)
    /\ UNCHANGED <<crons, runs, queue, overflow, worker, req, stream, live, crashes, started, calm>>

-----------------------------------------------------------------------------
(* A worker goroutine.                                                     *)

At(w, pc) == worker[w].pc = pc
Go(w, pc) == worker' = [worker EXCEPT ![w].pc = pc]
Rest(w) == worker' = [worker EXCEPT ![w] = IdleWorker]

\* select may choose the queue although the context has ended.
Take(w) ==
    LET p == PoolOf(w) IN
    /\ At(w, "idle")
    /\ queue[p] # <<>>
    /\ worker' = [worker EXCEPT ![w] = [IdleWorker EXCEPT !.pc = "find", !.id = Head(queue[p])]]
    /\ queue' = [queue EXCEPT ![p] = Tail(@)]
    /\ UNCHANGED <<crons, runs, overflow, req, sched, stream, live, crashes, started, calm>>

Quit(w) ==
    /\ At(w, "idle") /\ ~ContextOf(w)
    /\ Go(w, "gone")
    /\ UNCHANGED <<crons, runs, queue, overflow, req, sched, stream, live, crashes, started, calm>>

Find(w) ==
    /\ At(w, "find")
    /\ Statement(ContextOf(w),
         Go(w, IF runs[worker[w].id].output = <<>> THEN "empty" ELSE "mark"),
         Rest(w))
    /\ UNCHANGED <<crons, runs, queue, overflow, req, sched, stream, live, crashes, started>>

CompleteEmpty(w) ==
    /\ At(w, "empty")
    /\ Statement(ContextOf(w), SetRun(worker[w].id, "failed", <<>>), UNCHANGED runs)
    /\ Rest(w)
    /\ UNCHANGED <<crons, queue, overflow, req, sched, stream, live, crashes, started>>

\* The header replaces the command in the output column.
MarkRunningWithOutput(w) ==
    /\ At(w, "mark")
    /\ Statement(ContextOf(w),
         /\ SetRun(worker[w].id, "running", <<Header>>)
         /\ Go(w, "hook"),
         /\ UNCHANGED runs
         /\ Rest(w))
    /\ UNCHANGED <<crons, queue, overflow, req, sched, stream, live, crashes, started>>

\* job.before_run; the worker of RunServe has no hook bus. The command is
\* started unless the context has ended by then.
BeforeRun(w) ==
    /\ At(w, "hook")
    /\ Go(w, IF ContextOf(w) THEN "run" ELSE "done")
    /\ started' = IF ContextOf(w) THEN [started EXCEPT ![worker[w].id] = @ + 1] ELSE started
    /\ UNCHANGED <<crons, runs, queue, overflow, req, sched, stream, live, crashes, calm>>

VetoForgets(w) ==
    /\ At(w, "hook") /\ PoolOf(w) = "api" /\ "veto" \in Faults
    /\ Rest(w)
    /\ UNCHANGED <<crons, runs, queue, overflow, req, sched, stream, live, crashes, started, calm>>

Veto(w) ==
    /\ At(w, "hook") /\ PoolOf(w) = "api" /\ "veto" \in Faults
    /\ Go(w, "vetoed")
    /\ UNCHANGED <<crons, runs, queue, overflow, req, sched, stream, live, crashes, started, calm>>

CompleteVetoed(w) ==
    /\ At(w, "vetoed")
    /\ Statement(ContextOf(w), SetRun(worker[w].id, "failed", <<Header>>), UNCHANGED runs)
    /\ Rest(w)
    /\ UNCHANGED <<crons, queue, overflow, req, sched, stream, live, crashes, started>>

\* The command prints a line; AppendOutput's error is ignored.
CommandPrints(w) ==
    /\ At(w, "run")
    /\ worker[w].chunks < MaxChunks
    /\ worker' = [worker EXCEPT ![w].chunks = @ + 1]
    /\ LET id == worker[w].id IN
       Statement(ContextOf(w),
         SetRun(id, runs[id].status, Append(runs[id].output, Chunk)),
         UNCHANGED runs)
    /\ UNCHANGED <<crons, queue, overflow, req, sched, stream, live, crashes, started>>

CommandEndsEarly(w) ==
    /\ At(w, "run")
    /\ \E ok \in BOOLEAN :
          SetRun(worker[w].id, IF ok THEN "ok" ELSE "failed", runs[worker[w].id].output)
    /\ UNCHANGED <<crons, queue, overflow, worker, req, sched, stream, live, crashes, started, calm>>

\* The command ends, by itself or killed by the context, after its output
\* was consumed.
CommandEnds(w) ==
    /\ At(w, "run")
    /\ \E ok \in BOOLEAN :
          /\ ok => ContextOf(w)
          /\ worker' = [worker EXCEPT ![w].pc = "done", ![w].ok = ok]
    /\ UNCHANGED <<crons, runs, queue, overflow, req, sched, stream, live, crashes, started, calm>>

\* CompleteStatus; its error is ignored. The after hooks change nothing.
CompleteStatus(w) ==
    /\ At(w, "done")
    /\ LET id == worker[w].id
           status == IF worker[w].ok THEN "ok" ELSE "failed" IN
       Statement(ContextOf(w), SetRun(id, status, runs[id].output), UNCHANGED runs)
    /\ Rest(w)
    /\ UNCHANGED <<crons, queue, overflow, req, sched, stream, live, crashes, started>>

-----------------------------------------------------------------------------
(* StreamSSE.                                                              *)

StreamOpen(s, id) ==
    /\ stream[s].pc = "idle"
    /\ Exists(id)
    /\ stream' = [stream EXCEPT ![s] = [IdleStream EXCEPT !.pc = "poll", !.id = id]]
    /\ UNCHANGED <<crons, runs, queue, overflow, worker, req, sched, live, crashes, started, calm>>

\* The output beyond lastLen is sent.
SendNew(s, pc) ==
    LET out == runs[stream[s].id].output IN
    stream' = [stream EXCEPT ![s].pc = pc, ![s].last = Len(out),
                 ![s].sent = @ \o SubSeq(out, stream[s].last + 1, Len(out))]

PollPending(s) ==
    LET id == stream[s].id IN
    /\ stream[s].pc = "poll"
    /\ SendNew(s, IF Finished(id) THEN "final" ELSE "poll")
    /\ UNCHANGED <<crons, runs, queue, overflow, worker, req, sched, live, crashes, started, calm>>

\* One round of the loop: a pending run's output is not looked at.
Poll(s) ==
    LET id == stream[s].id IN
    /\ stream[s].pc = "poll"
    /\ runs[id].status # "pending"
    /\ SendNew(s, IF Finished(id) THEN "final" ELSE "poll")
    /\ UNCHANGED <<crons, runs, queue, overflow, worker, req, sched, live, crashes, started, calm>>

\* The run is read once more and the done event sent.
Final(s) ==
    /\ stream[s].pc = "final"
    /\ SendNew(s, "done")
    /\ UNCHANGED <<crons, runs, queue, overflow, worker, req, sched, live, crashes, started, calm>>

\* The client goes away, or reading the run fails.
StreamEnds(s) ==
    /\ stream[s].pc # "idle"
    /\ stream' = [stream EXCEPT ![s] = IdleStream]
    /\ UNCHANGED <<crons, runs, queue, overflow, worker, req, sched, live, crashes, started, calm>>

-----------------------------------------------------------------------------

\* SIGTERM cancels the context of RunServe; the HTTP server does not stop.
Signal ==
    /\ "signal" \in Faults /\ live
    /\ live' = FALSE /\ calm' = FALSE
    /\ UNCHANGED <<crons, runs, queue, overflow, worker, req, sched, stream, crashes, started>>

\* The process restarts: only the rows are left, and nothing reads them.
Crash ==
    /\ crashes < MaxCrashes
    /\ crashes' = crashes + 1 /\ calm' = FALSE /\ live' = TRUE
    /\ queue' = [p \in Pools |-> <<>>]
    /\ overflow' = [p \in Pools |-> {}]
    /\ worker' = [w \in Workers |-> IdleWorker]
    /\ req' = [r \in Requests |-> IdleRequest]
    /\ sched' = IdleSched(sched.now)
    /\ stream' = [s \in Streams |-> IdleStream]
    /\ UNCHANGED <<crons, runs, started>>

Init ==
    /\ crons = [k \in Crons |-> NoCron]
    /\ runs = <<>>
    /\ queue = [p \in Pools |-> <<>>]
    /\ overflow = [p \in Pools |-> {}]
    /\ worker = [w \in Workers |-> IdleWorker]
    /\ req = [r \in Requests |-> IdleRequest]
    /\ sched = IdleSched(0)
    /\ stream = [s \in Streams |-> IdleStream]
    /\ live = TRUE /\ crashes = 0 /\ calm = TRUE
    /\ started = [id \in Ids |-> 0]

CronCrud == \E k \in Crons : \/ \E e \in Everys : CronCreate(k, e)
                             \/ \E e \in Everys, b \in BOOLEAN : CronUpdate(k, e, b)
                             \/ CronDelete(k)

Producing ==
    \/ \E r \in Requests : RequestEnqueue(r)
    \/ \E c \in sched.todo : SchedCreate(c)
    \/ SchedEnqueue \/ SchedDone

Sending(p) == \E id \in Ids : EnqueueLater(p, id)

Processing(w) ==
    \/ Take(w) \/ Quit(w) \/ Find(w) \/ CompleteEmpty(w) \/ MarkRunningWithOutput(w)
    \/ BeforeRun(w) \/ Veto(w) \/ CompleteVetoed(w) \/ CommandEnds(w) \/ CompleteStatus(w)

Following(s) == Poll(s) \/ Final(s)

Next ==
    \/ CronCrud
    \/ \E r \in Requests : EnqueueCertbot(r) \/ \E k \in Crons : RunManual(r, k)
    \/ \E t \in 1..MaxTime : SchedTick(t)
    \/ Producing
    \/ \E p \in Pools : Sending(p)
    \/ \E w \in Workers : Processing(w) \/ CommandPrints(w)
    \/ \E s \in Streams : \/ Following(s) \/ StreamEnds(s)
                          \/ \E id \in Ids : StreamOpen(s, id)
    \/ Signal \/ Crash

\* Producers and workers that can take a step are scheduled, and commands end.
\* Requests, ticks, followers and disturbances need not come.
Fairness ==
    /\ WF_vars(Producing)
    /\ \A p \in Pools : WF_vars(Sending(p))
    /\ \A w \in Workers : WF_vars(Processing(w))

Spec == Init /\ [][Next]_vars

FairSpec == Spec /\ Fairness

-----------------------------------------------------------------------------
(* Properties.                                                             *)

\* Every variable has the type the code gives it.
TypeOK ==
    /\ crons \in [Crons -> Cron]
    /\ runs \in Seq(Run) /\ Len(runs) <= MaxRuns
    /\ queue \in [Pools -> Seq(Ids)] /\ \A p \in Pools : Len(queue[p]) <= QueueCap
    /\ overflow \in [Pools -> SUBSET Ids]
    /\ worker \in [Workers -> [pc : {"idle", "find", "empty", "mark", "hook", "vetoed",
                                     "run", "done", "gone"},
                               id : Ids \cup {NoRun}, ok : BOOLEAN, chunks : 0..MaxChunks]]
    /\ req \in [Requests -> [pc : {"idle", "enqueue"}, id : Ids \cup {NoRun}]]
    /\ sched.pc \in {"idle", "next", "enqueue"} /\ sched.now \in 0..MaxTime
    /\ live \in BOOLEAN /\ calm \in BOOLEAN /\ crashes \in 0..MaxCrashes

\* The places that hold a run: a producer that has not enqueued it, a queue,
\* a goroutine that waits for a queue, a worker.
Holders(id) ==
    {<<"request", r>> : r \in {r \in Requests : req[r].id = id}}
    \cup (IF sched.id = id THEN {<<"scheduler", 1>>} ELSE {})
    \cup (UNION {{<<p, i>> : i \in {i \in DOMAIN queue[p] : queue[p][i] = id}} : p \in Pools})
    \cup {<<"overflow", p>> : p \in {p \in Pools : id \in overflow[p]}}
    \cup {<<"worker", w>> : w \in {w \in Workers : worker[w].id = id}}

\* A run is held by one of them at most: its command is never started twice,
\* however full the queues are, whatever is restarted or fails.
HeldOnce ==
    /\ \A id \in DOMAIN runs : Cardinality(Holders(id)) <= 1
    /\ \A id \in DOMAIN runs : started[id] <= 1
    /\ \A id \in DOMAIN runs : Finished(id) => \A w \in Workers : worker[w].id # id

\* Without a failed statement, a signal or a restart no unfinished run is
\* forgotten: somebody holds it.
NothingForgotten ==
    calm => \A id \in DOMAIN runs : ~Finished(id) => Holders(id) # {}

\* A client that follows a run has received a prefix of the output column,
\* although the column holds the command before it holds the output, and the
\* whole of it when the done event is sent.
StreamFaithful ==
    \A s \in Streams : stream[s].pc # "idle" =>
        LET out == runs[stream[s].id].output IN
        /\ stream[s].last <= Len(out)
        /\ stream[s].sent = SubSeq(out, 1, stream[s].last)
        /\ stream[s].pc = "done" => stream[s].sent = out

\* A finished run is never changed again: no late output, no second result.
FinishedIsFinal ==
    [][\A id \in DOMAIN runs : Finished(id) => runs'[id] = runs[id]]_vars

Interval(every) == CASE every = "min" -> PerMinute [] every = "hour" -> PerHour
                     [] every = "day" -> PerDay [] every = "month" -> PerMonth

Crossed(prev, now, every) == \E t \in (prev + 1)..now : t % Interval(every) = 0

\* Of two ticks that lie an hour minus a minute apart at most, the later one
\* starts a cron exactly when a boundary of its interval lies between them.
ExactFrom ==
    [prev \in 0 .. MaxTime + PerMonth |->
        \A every \in {"min", "hour", "day", "month"}, late \in 1 .. PerHour - PerMinute :
            ShouldRun(prev, prev + late, every) <=> Crossed(prev, prev + late, every)]

\* "reports whether a cron interval boundary was crossed": from the tick the
\* scheduler is at and for a month to come, of crons of every interval, however
\* late the next tick is and whichever are lost.
DueIffCrossed == \A ahead \in 0 .. PerMonth : ExactFrom[sched.prev + ahead]

\* Every run that was created ends, unless a statement fails, SIGTERM arrives
\* or the process restarts: a run that is not finished does not stay so for ever.
EveryRunEnds ==
    \A id \in Ids : []<>(~calm \/ ~Unfinished(id))

=============================================================================
