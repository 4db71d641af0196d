------------------------------- MODULE EvalRuns -------------------------------
(***************************************************************************)
(* Evaluation runs in Truenote: the row of `eval_runs` is the outbox, a    *)
(* pg-boss job hands it to the worker, and a lease token written by the    *)
(* claim fences every later write of the handler.                          *)
(*                                                                         *)
(* Time passes in ticks.  `quiet` is how long ago the row of a running run *)
(* was written (updated_at), `held` how long ago a worker fetched the job. *)
(* Both are read by comparisons with the three limits only.                *)
(***************************************************************************)
EXTENDS Naturals, FiniteSets

CONSTANTS
    Programs, Runs,     \* ids
    Handlers,           \* invocations of the worker callback that can overlap
    Consumers,          \* worker processes: each works on one job at a time
    Jobs, Leases,       \* ids of jobs and lease tokens (UUIDs, reused when nothing names them)
    Questions,          \* questions of a run
    RetryLimit,         \* EVAL_QUEUE_POLICY.retryLimit
    ExpireAfter,        \* EVAL_QUEUE_POLICY.expireInSeconds, in ticks
    StealAfter,         \* claimEvalRun: a running row older than this is free
    AbandonAfter,       \* failStaleEvalRuns: a running row older than this has failed
    MaxFaults,          \* bound: process deaths and statements that fail
    None

ASSUME NoneAssumption == None \notin Programs \cup Runs \cup Handlers \cup Jobs \cup Leases
ASSUME NumbersAssumption ==
    /\ Questions \in Nat \ {0}
    /\ {Consumers, RetryLimit, ExpireAfter, StealAfter, AbandonAfter, MaxFaults} \subseteq Nat
\* Four hours to expire, four to steal, six to abandon.
ASSUME LimitsAssumption == ExpireAfter <= StealAfter /\ StealAfter < AbandonAfter

VARIABLES
    run,        \* eval_runs
    job,        \* the run-evaluation queue
    handler,    \* the running invocations of executeEvalRun
    sending,    \* runs somebody is about to enqueue
    faults

vars == <<run, job, handler, sending, faults>>

----------------------------------------------------------------------------
(* Rows *)

Working == {"queued", "running"}
Finished == {"completed", "failed"}

RunRow ==
    [program  : Programs \cup {None},
     status   : {"absent"} \cup Working \cup Finished,
     lease    : Leases \cup {None},    \* configuration.leaseToken
     broker   : Jobs \cup {None},      \* configuration.brokerJobId
     done     : 0..Questions,          \* completed_questions
     report   : Leases \cup {None},    \* whose work the report holds
     baseline : BOOLEAN,
     quiet    : 0..(AbandonAfter + 1)] \* now() - updated_at, while running

NoRun == [program |-> None, status |-> "absent", lease |-> None, broker |-> None, done |-> 0,
          report |-> None, baseline |-> FALSE, quiet |-> 0]

JobRow == [run : Runs, tries : 0..RetryLimit, owner : Handlers \cup {None},
           held : 0..ExpireAfter]

HandlerRow ==
    [pc    : {"idle", "claim", "configure", "work", "fail", "returned", "threw"},
     job   : Jobs \cup {None},
     run   : Runs \cup {None},
     retry : BOOLEAN,                  \* job.retryCount > 0
     lease : Leases \cup {None},
     count : 0..Questions]             \* questions reported so far

Idle == [pc |-> "idle", job |-> None, run |-> None, retry |-> FALSE, lease |-> None, count |-> 0]

TypeOK ==
    /\ run \in [Runs -> RunRow]
    /\ job \in [Jobs -> JobRow \cup {None}]
    /\ handler \in [Handlers -> HandlerRow]
    /\ sending \in SUBSET Runs
    /\ faults \in 0..MaxFaults

Init ==
    /\ run = [r \in Runs |-> NoRun]
    /\ job = [j \in Jobs |-> None]
    /\ handler = [h \in Handlers |-> Idle]
    /\ sending = {}
    /\ faults = 0

Fault == faults < MaxFaults /\ faults' = faults + 1

\* A handler that reports to pg-boss: its attempt has not expired.
Attached(h) ==
    /\ handler[h].pc # "idle"
    /\ job[handler[h].job] # None
    /\ job[handler[h].job].owner = h

FreshJob(j) ==
    /\ job[j] = None
    /\ \A h \in Handlers : handler[h].job # j
    /\ \A r \in Runs : run[r].status = "running" => run[r].broker # j

FreshLease(l) ==
    /\ \A h \in Handlers : handler[h].lease # l
    /\ \A r \in Runs : run[r].lease # l

----------------------------------------------------------------------------
(* The API *)

\* UPDATE eval_runs SET status = 'failed', whatever the guard was.
Failed(row) == [row EXCEPT !.status = "failed", !.quiet = 0]

Abandoned(row) == row.status = "running" /\ row.quiet > AbandonAfter

\* failStaleEvalRuns(p)
Swept(p) == [r \in Runs |-> IF run[r].program = p /\ Abandoned(run[r])
                              THEN Failed(run[r]) ELSE run[r]]

QueuedRuns == {r \in Runs : run[r].status = "queued"}

\* GET /runs: the sweep, then the reconciliation of the program's queued run.
Poll(p) ==
    /\ run' = Swept(p)
    /\ sending' = sending \cup {r \in QueuedRuns : run[r].program = p}
    /\ UNCHANGED <<job, handler, faults>>

\* POST /runs: the sweep, then the insert, which the unique index refuses while
\* the program has a run at work; then the send.
Create(p, r) ==
    /\ run[r].status = "absent"
    /\ \A s \in Runs : ~(Swept(p)[s].program = p /\ Swept(p)[s].status \in Working)
    /\ run' = [Swept(p) EXCEPT ![r] = [NoRun EXCEPT !.program = p, !.status = "queued"]]
    /\ sending' = sending \cup {r}
    /\ UNCHANGED <<job, handler, faults>>

\* POST /runs/:id/cancel
Cancel(r) ==
    /\ run[r].status \in Working
    /\ run' = [run EXCEPT ![r] = Failed(run[r])]
    /\ UNCHANGED <<job, handler, sending, faults>>

\* POST /runs/:id/baseline, in a transaction under an advisory lock.
SetBaseline(r) ==
    /\ run[r].status = "completed"
    /\ run' = [s \in Runs |-> IF run[s].program = run[r].program
                                THEN [run[s] EXCEPT !.baseline = (s = r)] ELSE run[s]]
    /\ UNCHANGED <<job, handler, sending, faults>>

----------------------------------------------------------------------------
(* The queue *)

\* Mutant: the reconciler has nothing to send.
ReconcileNothing ==
    /\ sending' = sending
    /\ UNCHANGED <<run, job, handler, faults>>

\* The worker's timer: list the queued runs, then send them one by one.
Reconcile ==
    /\ sending' = sending \cup QueuedRuns
    /\ UNCHANGED <<run, job, handler, faults>>

\* enqueueEvalRun(r); the row may have moved on since it was listed.
Send(r, j) ==
    /\ r \in sending
    /\ FreshJob(j)
    /\ job' = [job EXCEPT ![j] = [run |-> r, tries |-> 0, owner |-> None, held |-> 0]]
    /\ sending' = sending \ {r}
    /\ UNCHANGED <<run, handler, faults>>

\* No new job: a job of this run was sent in the same fifteen minutes, the send
\* failed, or the process died before it.
SendNothing(r) ==
    /\ r \in sending
    /\ sending' = sending \ {r}
    /\ UNCHANGED <<run, job, handler, faults>>

\* A failed attempt goes back to the queue until its retries are used up.
Retried(j) == [job EXCEPT ![j] =
    IF job[j].tries < RetryLimit
    THEN [job[j] EXCEPT !.tries = job[j].tries + 1, !.owner = None, !.held = 0] ELSE None]

ConsumerFree == Cardinality({h \in Handlers : Attached(h)}) < Consumers

\* A worker that is free fetches job j.
Deliver(h, j) ==
    /\ handler[h].pc = "idle"
    /\ job[j] # None /\ job[j].owner = None
    /\ ConsumerFree
    /\ job' = [job EXCEPT ![j] = [@ EXCEPT !.owner = h, !.held = 0]]
    /\ handler' = [handler EXCEPT ![h] =
                     [Idle EXCEPT !.pc = "claim", !.job = j, !.run = job[j].run,
                                  !.retry = job[j].tries > 0]]
    /\ UNCHANGED <<run, sending, faults>>

\* The attempt outlives expireInSeconds; its handler, if alive, runs on.
Expire(j) ==
    /\ job[j] # None /\ job[j].owner # None
    /\ job[j].held = ExpireAfter
    /\ job' = Retried(j)
    /\ UNCHANGED <<run, handler, sending, faults>>

\* The handler's result goes to pg-boss, which ignores that of an expired attempt.
Finish(h) ==
    /\ handler[h].pc \in {"returned", "threw"}
    /\ job' = CASE ~Attached(h) -> job
                [] Attached(h) /\ handler[h].pc = "threw" -> Retried(handler[h].job)
                [] Attached(h) /\ handler[h].pc = "returned" ->
                       [job EXCEPT ![handler[h].job] = None]
    /\ handler' = [handler EXCEPT ![h] = Idle]
    /\ UNCHANGED <<run, sending, faults>>

WorkerCrash(h) ==
    /\ handler[h].pc # "idle"
    /\ handler' = [handler EXCEPT ![h] = Idle]
    /\ Fault
    /\ UNCHANGED <<run, job, sending>>

\* Time passes; no attempt is held beyond its limit. An hour in which somebody's
\* work goes on is counted among the faults.
Tick ==
    /\ \A j \in Jobs : job[j] # None /\ job[j].owner # None => job[j].held < ExpireAfter
    /\ job' = [j \in Jobs |-> IF job[j] # None /\ job[j].owner # None
                                THEN [job[j] EXCEPT !.held = @ + 1] ELSE job[j]]
    /\ run' = [r \in Runs |-> IF run[r].status = "running" /\ run[r].quiet <= AbandonAfter
                                THEN [run[r] EXCEPT !.quiet = @ + 1] ELSE run[r]]
    /\ IF \E h \in Handlers : Attached(h) THEN Fault ELSE UNCHANGED faults
    /\ UNCHANGED <<handler, sending>>

----------------------------------------------------------------------------
(* executeEvalRun, one step per statement. *)

workerFrame == <<job, sending, faults>>

\* Mutant: any job may take a running row.
ClaimableByAll(row, h) == row.status \in Working
Claimable(row, h) ==
    \/ row.status = "queued"
    \/ /\ row.status = "running"
       /\ \/ row.quiet > StealAfter
          \/ handler[h].retry /\ row.broker = handler[h].job

\* Mutants: the claim keeps updated_at; it keeps completed_questions.
ClaimedStale(row, l, j) == [row EXCEPT !.status = "running", !.lease = l, !.broker = j, !.done = 0]
ClaimedCounting(row, l, j) == [row EXCEPT !.status = "running", !.lease = l, !.broker = j,
                                          !.quiet = 0]

Claimed(row, l, j) == [row EXCEPT !.status = "running", !.lease = l, !.broker = j, !.done = 0,
                                  !.quiet = 0]

Claim(h, l) ==
    LET r == handler[h].run IN
    /\ handler[h].pc = "claim"
    /\ FreshLease(l)
    /\ IF Claimable(run[r], h)
         THEN /\ run' = [run EXCEPT ![r] = Claimed(@, l, handler[h].job)]
              /\ handler' = [handler EXCEPT ![h] = [@ EXCEPT !.pc = "configure", !.lease = l]]
         ELSE /\ handler' = [handler EXCEPT ![h].pc = "returned"]
              /\ UNCHANGED run
    /\ UNCHANGED workerFrame

\* Mutants: the statements forget the lease; they forget the status.
HoldsAny(h) == run[handler[h].run].status = "running"
HoldsForever(h) == run[handler[h].run].lease = handler[h].lease

\* The WHERE of every later write: status = 'running' and the handler's token.
Holds(h) ==
    /\ run[handler[h].run].status = "running"
    /\ run[handler[h].run].lease = handler[h].lease

\* The guarded UPDATE, after which the handler is at pc, which is "fail" when the
\* answer to its COMMIT was lost; no row throws into the catch.
Write(h, row, pc, count) ==
    /\ IF Holds(h)
         THEN /\ run' = [run EXCEPT ![handler[h].run] = row]
              /\ handler' = [handler EXCEPT ![h] = [@ EXCEPT !.pc = pc, !.count = count]]
         ELSE /\ handler' = [handler EXCEPT ![h].pc = "fail"]
              /\ UNCHANGED run
    /\ UNCHANGED workerFrame

\* captureConfiguration and setEvalRunConfiguration
Configure(h, pc) ==
    /\ handler[h].pc = "configure"
    /\ pc \in {"work", "fail"}
    /\ Write(h, [run[handler[h].run] EXCEPT !.quiet = 0], pc, 0)

\* updateEvalRunProgress, called once per question and in order.
Progress(h, pc) ==
    /\ handler[h].pc = "work"
    /\ handler[h].count < Questions
    /\ pc \in {"work", "fail"}
    /\ Write(h, [run[handler[h].run] EXCEPT !.done = handler[h].count + 1, !.quiet = 0],
             pc, handler[h].count + 1)

\* completeEvalRun
Complete(h, pc) ==
    /\ handler[h].pc = "work"
    /\ handler[h].count = Questions
    /\ pc \in {"returned", "fail"}
    /\ Write(h, [run[handler[h].run] EXCEPT !.status = "completed", !.report = handler[h].lease,
                                            !.done = Questions, !.quiet = 0],
             pc, Questions)

\* A question, a provider or a statement failed before anything was written.
WorkFails(h) ==
    /\ handler[h].pc \in {"configure", "work"}
    /\ handler' = [handler EXCEPT ![h].pc = "fail"]
    /\ UNCHANGED <<run, workerFrame>>

\* Mutant: failEvalRun fails whatever the row says.
FailableAlways(h) == run[handler[h].run].lease = handler[h].lease
Failable(h) ==
    /\ run[handler[h].run].status \in Working
    /\ run[handler[h].run].lease = handler[h].lease

\* The catch: failEvalRun.
Fail(h) ==
    LET r == handler[h].run IN
    /\ handler[h].pc = "fail"
    /\ run' = IF Failable(h) THEN [run EXCEPT ![r] = Failed(@)] ELSE run
    /\ handler' = [handler EXCEPT ![h].pc = "returned"]
    /\ UNCHANGED workerFrame

\* Mutant: the failure of the claim or of failEvalRun is swallowed.
StatementSwallowed(h) ==
    /\ handler[h].pc \in {"claim", "fail"}
    /\ handler' = [handler EXCEPT ![h].pc = "returned"]
    /\ Fault
    /\ UNCHANGED <<run, job, sending>>

\* The claim or failEvalRun throws, and so does the handler.
StatementFails(h) ==
    /\ handler[h].pc \in {"claim", "fail"}
    /\ handler' = [handler EXCEPT ![h].pc = "threw"]
    /\ Fault
    /\ UNCHANGED <<run, job, sending>>

----------------------------------------------------------------------------
HandlerStep(h) ==
    \/ \E l \in Leases : Claim(h, l)
    \/ \E pc \in {"work", "fail"} : Configure(h, pc)
    \/ \E pc \in {"work", "fail"} : Progress(h, pc)
    \/ \E pc \in {"returned", "fail"} : Complete(h, pc)
    \/ WorkFails(h)
    \/ Fail(h)
    \/ Finish(h)

\* Every step but the passing of time.
Step ==
    \/ \E p \in Programs : Poll(p)
    \/ \E p \in Programs, r \in Runs : Create(p, r)
    \/ \E r \in Runs : Cancel(r) \/ SetBaseline(r) \/ SendNothing(r)
    \/ Reconcile
    \/ \E r \in Runs, j \in Jobs : Send(r, j)
    \/ \E h \in Handlers, j \in Jobs : Deliver(h, j)
    \/ \E j \in Jobs : Expire(j)
    \/ \E h \in Handlers : HandlerStep(h) \/ WorkerCrash(h) \/ StatementFails(h)

Next == Step \/ Tick

Spec == Init /\ [][Next]_vars

\* Ticks in which no free worker leaves a job waiting, no statement takes hours
\* and a live run reports a question (the worker polls every two seconds, a
\* retry waits for minutes).
PromptTick ==
    /\ ConsumerFree => \A j \in Jobs : job[j] # None => job[j].owner # None
    /\ \A h \in Handlers : /\ handler[h].pc \in {"idle", "work"}
                           /\ Attached(h) => Holds(h) /\ run[handler[h].run].quiet = 0
    /\ Tick
PromptSpec == Init /\ [][Step \/ PromptTick]_vars

\* Ticks in which nobody's work outlives its job: at most 250 questions, three
\* at a time, against four hours.
BriskTick ==
    /\ \A h \in Handlers : ~Attached(h)
    /\ Tick

\* What the processes guarantee: the worker's timer and its handlers run, jobs
\* are sent and delivered in the end, and time goes by.
FairSpec ==
    /\ Init /\ [][Step \/ PromptTick \/ BriskTick]_vars
    /\ WF_vars(Reconcile)
    /\ WF_vars(BriskTick)
    /\ \A r \in Runs : SF_vars(\E j \in Jobs : Send(r, j))
    /\ \A j \in Jobs : WF_vars(Expire(j)) /\ SF_vars(\E h \in Handlers : Deliver(h, j))
    /\ \A h \in Handlers : WF_vars(HandlerStep(h))

----------------------------------------------------------------------------
(* Properties *)

\* The handlers that hold the lease of r.
Holder(h, r) == handler[h].run = r /\ handler[h].pc # "idle" /\ handler[h].lease # None
                /\ run[r].status = "running" /\ run[r].lease = handler[h].lease

\* A report is the work of the last claim: a handler that was overtaken, and
\* resumes, never stores its own; and a run that did not complete has none.
ReportIsTheHolders ==
    \A r \in Runs :
        /\ run[r].status = "completed" => run[r].report = run[r].lease /\ run[r].lease # None
        /\ run[r].status # "completed" => run[r].report = None

\* The progress the page shows is the holder's own: a restart shows it from zero,
\* and no overtaken handler adds to it.
ProgressIsTheHolders ==
    \A r \in Runs, h \in Handlers : Holder(h, r) => run[r].done = handler[h].count

\* While pg-boss still counts on the holder, its row is neither stale enough to
\* be stolen by another job nor to be swept as abandoned.
LiveWorkIsFresh ==
    \A r \in Runs, h \in Handlers :
        Holder(h, r) /\ Attached(h) => run[r].quiet <= StealAfter

----------------------------------------------------------------------------
(* What makes them inductive *)

HandlerIsSound(h) ==
    /\ handler[h].pc = "idle" => handler[h] = Idle
    /\ handler[h].pc # "idle" => handler[h].job # None /\ handler[h].run # None
    /\ handler[h].pc = "claim" => handler[h].lease = None
    /\ handler[h].pc \in {"configure", "work", "fail"} => handler[h].lease # None
    /\ handler[h].pc \in {"claim", "configure"} => handler[h].count = 0

HandlersAreSound == \A h \in Handlers : HandlerIsSound(h)

RowsAreSound ==
    \A r \in Runs :
        /\ run[r].status = "absent" <=> run[r].program = None
        /\ run[r].status \in {"absent", "queued"} => run[r].lease = None /\ run[r].done = 0
        /\ run[r].status \in {"running", "completed"} => run[r].lease # None

\* A token names one claim: one handler and one row.
LeasesAreUnique ==
    /\ \A g, h \in Handlers : handler[g].lease = handler[h].lease /\ g # h => handler[g].lease = None
    /\ \A r \in Runs, h \in Handlers : handler[h].lease = run[r].lease /\ handler[h].lease # None
                                         => handler[h].run = r

\* The row of a holder names the holder's job, and is no older than its attempt.
HoldersAgree ==
    \A r \in Runs, h \in Handlers : Holder(h, r) =>
        /\ run[r].broker = handler[h].job
        /\ Attached(h) => run[r].quiet <= job[handler[h].job].held

IndInv ==
    /\ TypeOK
    /\ HandlersAreSound
    /\ RowsAreSound
    /\ LeasesAreUnique
    /\ HoldersAgree
    /\ ReportIsTheHolders
    /\ ProgressIsTheHolders

\* What is finished stays: status, report and progress of a completed or failed
\* run are never written again, by late handlers, retries, sweeps or reviewers.
FinishedStays ==
    [][\A r \in Runs : run[r].status \in Finished =>
         /\ run'[r].status = run[r].status
         /\ run'[r].report = run[r].report
         /\ run'[r].done = run[r].done]_vars

\* A duplicate job cannot fence healthy work: the lease of a handler that
\* pg-boss still counts on passes only to another attempt of the same job.
DuplicatesDoNotFence ==
    [][\A r \in Runs, h \in Handlers : Holder(h, r) /\ Attached(h) =>
         \/ run'[r].lease = run[r].lease
         \/ run'[r].broker = handler[h].job]_vars

\* A queued run is taken up (or cancelled), whatever was lost between the row
\* and the queue, and with nobody polling the API.
QueuedMoves == \A r \in Runs : run[r].status = "queued" ~> run[r].status # "queued"

\* A run ends, however its worker dies, as long as deaths are fewer than retries.
RunsEnd == \A r \in Runs : run[r].status \in Working ~> run[r].status \notin Working
=============================================================================
