--------------------------- MODULE EvalRunsProofs ---------------------------
(* Theorems about EvalRuns, for every set of programs, runs, handlers, jobs *)
(* and tokens, every number of consumers, questions, retries and faults,    *)
(* and every three limits in the order the code gives them.                 *)
EXTENDS EvalRuns, TLAPS

USE DEF workerFrame

LEMMA Numbers ==
    /\ Questions \in Nat /\ Questions > 0
    /\ RetryLimit \in Nat /\ ExpireAfter \in Nat /\ StealAfter \in Nat
    /\ AbandonAfter \in Nat /\ MaxFaults \in Nat
  BY NumbersAssumption

LEMMA RunFields ==
    ASSUME TypeOK, NEW r \in Runs
    PROVE  /\ run[r] \in RunRow
           /\ run[r].quiet \in Nat /\ run[r].quiet <= AbandonAfter + 1
           /\ run[r].status \in {"absent", "queued", "running", "completed", "failed"}
  <1>1. run[r] \in RunRow
    BY DEF TypeOK
  <1> QED BY <1>1, Numbers DEF RunRow, Working, Finished

LEMMA HandlerFields ==
    ASSUME TypeOK, NEW h \in Handlers
    PROVE  /\ handler[h] \in HandlerRow
           /\ handler[h].job \in Jobs \cup {None}
           /\ handler[h].run \in Runs \cup {None}
           /\ handler[h].lease \in Leases \cup {None}
           /\ handler[h].count \in 0..Questions
  <1>1. handler[h] \in HandlerRow
    BY DEF TypeOK
  <1> QED BY <1>1 DEF HandlerRow

LEMMA JobFields ==
    ASSUME TypeOK, NEW j \in Jobs, job[j] # None
    PROVE  /\ job[j] \in JobRow
           /\ job[j].run \in Runs
           /\ job[j].tries \in 0..RetryLimit
           /\ job[j].held \in 0..ExpireAfter
  <1>1. job[j] \in JobRow
    BY DEF TypeOK
  <1> QED BY <1>1 DEF JobRow

\* A handler that is not idle works on a job for a run.
LEMMA BusyHandler ==
    ASSUME IndInv, NEW h \in Handlers, handler[h].pc # "idle"
    PROVE  handler[h].job \in Jobs /\ handler[h].run \in Runs
  BY HandlerFields DEF IndInv, HandlersAreSound, HandlerIsSound

LEMMA IdleRow ==
    /\ Idle \in HandlerRow /\ Idle.pc = "idle" /\ Idle.lease = None /\ Idle.count = 0
    /\ Idle.job = None /\ Idle.run = None
  BY Numbers DEF Idle, HandlerRow

\* Zero and the other values the actions write are values of their columns.
LEMMA Zeroes ==
    /\ 0 \in 0..Questions /\ 0 \in 0..ExpireAfter /\ 0 \in 0..(AbandonAfter + 1)
    /\ 0 \in 0..RetryLimit /\ 0 \in 0..MaxFaults /\ Questions \in 0..Questions
    /\ {"absent", "queued", "running", "completed", "failed"}
         = {"absent"} \cup Working \cup Finished
  BY Numbers DEF Working, Finished

LEMMA FailedRow ==
    ASSUME NEW row \in RunRow
    PROVE  /\ Failed(row) \in RunRow
           /\ Failed(row).status = "failed" /\ Failed(row).quiet = 0
           /\ Failed(row).lease = row.lease /\ Failed(row).broker = row.broker
           /\ Failed(row).report = row.report /\ Failed(row).done = row.done
           /\ Failed(row).program = row.program
  <1>1. /\ "failed" \in {"absent"} \cup Working \cup Finished /\ 0 \in 0..(AbandonAfter + 1)
    BY Zeroes
  <1> QED BY <1>1 DEF Failed, RunRow

LEMMA RetriedType ==
    ASSUME TypeOK, NEW j \in Jobs, job[j] # None
    PROVE  Retried(j) \in [Jobs -> JobRow \cup {None}]
  <1>1. CASE job[j].tries < RetryLimit
    <2>1. job[j].tries + 1 \in 0..RetryLimit
      BY <1>1, JobFields, Numbers
    <2>2. [job[j] EXCEPT !.tries = job[j].tries + 1, !.owner = None, !.held = 0] \in JobRow
      BY <2>1, JobFields, Zeroes DEF JobRow
    <2> QED BY <1>1, <2>2 DEF Retried, TypeOK
  <1>2. CASE ~(job[j].tries < RetryLimit)
    BY <1>2 DEF Retried, TypeOK
  <1> QED BY <1>1, <1>2

\* A retry frees the job and touches no other.
LEMMA RetriedFrees ==
    ASSUME TypeOK, NEW j \in Jobs, job[j] # None
    PROVE  /\ \A k \in Jobs : k # j => Retried(j)[k] = job[k]
           /\ Retried(j)[j] # None => Retried(j)[j].owner = None
  BY JobFields DEF Retried, TypeOK, JobRow

----------------------------------------------------------------------------
(* Steps that move rows, jobs and handlers without a lease. *)

\* What Poll, Create, Cancel, SetBaseline and the catch do to a row.
RowMoves(r) ==
    \/ run'[r] = run[r]
    \/ run[r].status \in Working /\ run'[r] = Failed(run[r])
    \/ \E b \in BOOLEAN : run[r].status # "absent" /\ run'[r] = [run[r] EXCEPT !.baseline = b]
    \/ /\ run[r].status = "absent"
       /\ \E p \in Programs : run'[r] = [NoRun EXCEPT !.program = p, !.status = "queued"]

LEMMA RowMovesType ==
    ASSUME TypeOK, NEW r \in Runs, RowMoves(r)
    PROVE  run'[r] \in RunRow
  <1>1. run[r] \in RunRow
    BY RunFields
  <1>2. CASE \E p \in Programs : run'[r] = [NoRun EXCEPT !.program = p, !.status = "queued"]
    <2>1. "queued" \in {"absent"} \cup Working \cup Finished
      BY Zeroes
    <2> QED BY <1>2, <2>1, Zeroes DEF NoRun, RunRow
  <1>3. CASE \E b \in BOOLEAN : run'[r] = [run[r] EXCEPT !.baseline = b]
    BY <1>1, <1>3 DEF RunRow
  <1> QED BY <1>1, <1>2, <1>3, FailedRow DEF RowMoves

\* The parts of a moved row that the invariant reads.
LEMMA RowMovesFields ==
    ASSUME TypeOK, NEW r \in Runs, RowMoves(r)
    PROVE  \/ /\ run'[r].status = run[r].status /\ run'[r].lease = run[r].lease
              /\ run'[r].broker = run[r].broker /\ run'[r].done = run[r].done
              /\ run'[r].report = run[r].report /\ run'[r].quiet = run[r].quiet
              /\ run'[r].program = run[r].program
           \/ /\ run[r].status \in Working /\ run'[r].status = "failed"
              /\ run'[r].lease = run[r].lease /\ run'[r].report = run[r].report
              /\ run'[r].program = run[r].program
           \/ /\ run[r].status = "absent" /\ run'[r].status = "queued"
              /\ run'[r].lease = None /\ run'[r].done = 0 /\ run'[r].report = None
              /\ run'[r].program # None
  <1>1. run[r] \in RunRow
    BY RunFields
  <1>2. CASE \E p \in Programs : run'[r] = [NoRun EXCEPT !.program = p, !.status = "queued"]
    BY <1>2, NoneAssumption DEF RowMoves, NoRun, Failed, Working
  <1>3. CASE \E b \in BOOLEAN : run'[r] = [run[r] EXCEPT !.baseline = b]
    BY <1>1, <1>3 DEF RunRow
  <1>4. CASE run[r].status \in Working /\ run'[r] = Failed(run[r])
    BY <1>1, <1>4, FailedRow
  <1> QED BY <1>2, <1>3, <1>4 DEF RowMoves

\* What a delivery, an exception and the end of an invocation do to a handler.
HandlerMoves(h) ==
    \/ handler'[h] = handler[h]
    \/ handler'[h] = Idle
    \/ /\ handler[h].pc \in {"claim", "configure", "work", "fail"}
       /\ \E pc \in {"fail", "returned", "threw"} :
            /\ pc = "fail" => handler[h].pc \in {"configure", "work"}
            /\ handler'[h] = [handler[h] EXCEPT !.pc = pc]
    \/ /\ handler[h].pc = "idle"
       /\ \E j \in Jobs, r \in Runs, b \in BOOLEAN :
            handler'[h] = [Idle EXCEPT !.pc = "claim", !.job = j, !.run = r, !.retry = b]

LEMMA HandlerMovesFields ==
    ASSUME IndInv, NEW h \in Handlers, HandlerMoves(h)
    PROVE  /\ handler'[h] \in HandlerRow
           /\ \/ handler'[h] = Idle
              \/ /\ handler'[h].pc # "idle" => handler[h].pc # "idle"
                 /\ handler'[h].lease = handler[h].lease /\ handler'[h].count = handler[h].count
                 /\ handler'[h].job = handler[h].job /\ handler'[h].run = handler[h].run
              \/ handler'[h].pc = "claim" /\ handler'[h].lease = None
  <1>1. handler[h] \in HandlerRow
    BY HandlerFields DEF IndInv
  <1>2. CASE \E j \in Jobs, r \in Runs, b \in BOOLEAN :
               handler'[h] = [Idle EXCEPT !.pc = "claim", !.job = j, !.run = r, !.retry = b]
    BY <1>2, Zeroes DEF Idle, HandlerRow
  <1>3. CASE /\ handler[h].pc # "idle"
             /\ \E pc \in {"fail", "returned", "threw"} :
                  handler'[h] = [handler[h] EXCEPT !.pc = pc]
    BY <1>1, <1>3 DEF HandlerRow
  <1> QED BY <1>1, <1>2, <1>3, IdleRow DEF HandlerMoves

LEMMA HandlerMovesSound ==
    ASSUME IndInv, NEW h \in Handlers, HandlerMoves(h)
    PROVE  HandlerIsSound(h)'
  <1>1. handler[h] \in HandlerRow
    BY HandlerFields DEF IndInv
  <1>2. CASE \E j \in Jobs, r \in Runs, b \in BOOLEAN :
               handler'[h] = [Idle EXCEPT !.pc = "claim", !.job = j, !.run = r, !.retry = b]
    BY <1>2, NoneAssumption DEF Idle, HandlerIsSound
  <1>3. CASE handler'[h] = handler[h]
    BY <1>3 DEF IndInv, HandlersAreSound, HandlerIsSound
  <1>4. CASE /\ handler[h].pc \in {"claim", "configure", "work", "fail"}
             /\ \E pc \in {"fail", "returned", "threw"} :
                  /\ pc = "fail" => handler[h].pc \in {"configure", "work"}
                  /\ handler'[h] = [handler[h] EXCEPT !.pc = pc]
    BY <1>1, <1>4 DEF HandlerRow, IndInv, HandlersAreSound, HandlerIsSound
  <1> QED BY <1>2, <1>3, <1>4, IdleRow DEF HandlerMoves, HandlerIsSound

\* The queue as a handler with a lease sees it: it may lose its attempt, and the
\* attempt it keeps is as old as it was.
JobsMove ==
    \A h \in Handlers : handler'[h].lease # None /\ Attached(h)' =>
        Attached(h) /\ job'[handler'[h].job].held = job[handler'[h].job].held

\* The invariant survives such moves together, for a moved row has no holder,
\* or the holder it had.
LEMMA Moves ==
    ASSUME IndInv,
           run' \in [Runs -> RunRow], \A r \in Runs : RowMoves(r),
           handler' \in [Handlers -> HandlerRow], \A h \in Handlers : HandlerMoves(h),
           job' \in [Jobs -> JobRow \cup {None}], JobsMove,
           sending' \in SUBSET Runs, faults' \in 0..MaxFaults
    PROVE  IndInv'
  <1> USE DEF IndInv
  <1>1. TypeOK'
    BY DEF TypeOK
  <1>2. HandlersAreSound'
    BY HandlerMovesSound DEF HandlersAreSound, HandlerIsSound
  <1>3. RowsAreSound'
    BY RowMovesFields DEF RowsAreSound, Working
  <1>4. LeasesAreUnique'
    <2>1. \A r \in Runs : run'[r].lease = run[r].lease \/ run'[r].lease = None
      BY RowMovesFields
    <2>2. \A h \in Handlers : \/ handler'[h].lease = None
                              \/ /\ handler'[h].lease = handler[h].lease
                                 /\ handler'[h].run = handler[h].run
      BY HandlerMovesFields, IdleRow
    <2> QED BY <2>1, <2>2 DEF LeasesAreUnique
  <1>5. ASSUME NEW r \in Runs, NEW h \in Handlers, Holder(h, r)'
        PROVE  /\ Holder(h, r) /\ run'[r].broker = run[r].broker /\ run'[r].done = run[r].done
               /\ run'[r].quiet = run[r].quiet /\ handler'[h].lease # None
               /\ handler'[h].job = handler[h].job /\ handler'[h].count = handler[h].count
    <2>1. /\ handler'[h].pc # "idle" /\ handler'[h].lease # None /\ handler'[h].run = r
          /\ run'[r].status = "running" /\ run'[r].lease = handler'[h].lease
      BY <1>5 DEF Holder
    <2>2. /\ handler[h].pc # "idle"
          /\ handler'[h].lease = handler[h].lease /\ handler'[h].count = handler[h].count
          /\ handler'[h].job = handler[h].job /\ handler'[h].run = handler[h].run
      BY <2>1, HandlerMovesFields, IdleRow
    <2>3. /\ run'[r].status = run[r].status /\ run'[r].lease = run[r].lease
          /\ run'[r].broker = run[r].broker /\ run'[r].done = run[r].done
          /\ run'[r].quiet = run[r].quiet
      BY <2>1, RowMovesFields
    <2> QED BY <2>1, <2>2, <2>3 DEF Holder
  <1>6. HoldersAgree'
    BY <1>5 DEF HoldersAgree, JobsMove
  <1>7. ProgressIsTheHolders'
    BY <1>5 DEF ProgressIsTheHolders
  <1>8. ReportIsTheHolders'
    BY RowMovesFields DEF ReportIsTheHolders, Working
  <1> QED BY <1>1, <1>2, <1>3, <1>4, <1>6, <1>7, <1>8

\* Rows may move under the handlers.
LEMMA RowsMove ==
    ASSUME IndInv, UNCHANGED <<job, handler>>,
           run' \in [Runs -> RunRow], \A r \in Runs : RowMoves(r),
           sending' \in SUBSET Runs, faults' \in 0..MaxFaults
    PROVE  IndInv'
  <1>1. \A h \in Handlers : HandlerMoves(h)
    BY DEF HandlerMoves
  <1>2. JobsMove
    BY DEF JobsMove, Attached
  <1>3. job' \in [Jobs -> JobRow \cup {None}] /\ handler' \in [Handlers -> HandlerRow]
    BY DEF IndInv, TypeOK
  <1> QED BY <1>1, <1>2, <1>3, Moves

LEMMA SweptMoves ==
    ASSUME TypeOK, NEW p \in Programs, NEW r \in Runs
    PROVE  /\ Swept(p)[r] = run[r] \/ (run[r].status \in Working /\ Swept(p)[r] = Failed(run[r]))
           /\ Swept(p)[r] \in RunRow
           /\ run[r].status = "absent" => Swept(p)[r] = run[r]
  BY RunFields, FailedRow DEF Swept, Abandoned, Working

LEMMA ApiInv ==
    ASSUME IndInv, \/ \E p \in Programs : Poll(p)
                   \/ \E p \in Programs, r \in Runs : Create(p, r)
                   \/ \E r \in Runs : Cancel(r) \/ SetBaseline(r) \/ SendNothing(r)
                   \/ Reconcile
    PROVE  IndInv'
  <1>0. TypeOK
    BY DEF IndInv
  <1>1. ASSUME NEW p \in Programs, Poll(p) PROVE IndInv'
    <2>1. run' \in [Runs -> RunRow] /\ \A r \in Runs : RowMoves(r)
      BY <1>0, <1>1, SweptMoves DEF Poll, RowMoves, Swept
    <2>2. sending' \in SUBSET Runs /\ faults' \in 0..MaxFaults /\ UNCHANGED <<job, handler>>
      BY <1>0, <1>1 DEF Poll, QueuedRuns, TypeOK
    <2> QED BY <2>1, <2>2, RowsMove
  <1>2. ASSUME NEW p \in Programs, NEW r \in Runs, Create(p, r) PROVE IndInv'
    <2>1. \A s \in Runs : run'[s] = IF s = r THEN [NoRun EXCEPT !.program = p, !.status = "queued"]
                                             ELSE Swept(p)[s]
      BY <1>2 DEF Create, Swept
    <2>2. \A s \in Runs : RowMoves(s)
      BY <1>0, <1>2, <2>1, SweptMoves DEF RowMoves, Create
    <2>3. run' \in [Runs -> RunRow]
      BY <1>0, <1>2, <2>2, RowMovesType DEF Create, Swept
    <2>4. sending' \in SUBSET Runs /\ faults' \in 0..MaxFaults /\ UNCHANGED <<job, handler>>
      BY <1>0, <1>2 DEF Create, TypeOK
    <2> QED BY <2>2, <2>3, <2>4, RowsMove
  <1>3. ASSUME NEW r \in Runs, Cancel(r) PROVE IndInv'
    <2>1. \A s \in Runs : RowMoves(s)
      BY <1>0, <1>3 DEF Cancel, RowMoves, TypeOK
    <2>2. run' \in [Runs -> RunRow]
      BY <1>0, <1>3, RunFields, FailedRow DEF Cancel, TypeOK
    <2> QED BY <1>0, <1>3, <2>1, <2>2, RowsMove DEF Cancel, TypeOK
  <1>4. ASSUME NEW r \in Runs, SetBaseline(r) PROVE IndInv'
    <2>1. \A s \in Runs : RowMoves(s)
      <3> SUFFICES ASSUME NEW s \in Runs PROVE RowMoves(s)
        OBVIOUS
      <3>1. CASE run[s].program # run[r].program
        BY <1>4, <3>1 DEF SetBaseline, RowMoves
      <3>2. CASE run[s].program = run[r].program /\ run[s].status # "absent"
        BY <1>4, <3>2 DEF SetBaseline, RowMoves
      <3>3. CASE run[s].program = run[r].program /\ run[s].status = "absent"
        BY <1>4, <3>3 DEF SetBaseline, IndInv, RowsAreSound
      <3> QED BY <3>1, <3>2, <3>3
    <2> QED BY <1>0, <1>4, <2>1, RowMovesType, RowsMove DEF SetBaseline, TypeOK
  <1>5. ASSUME NEW r \in Runs, SendNothing(r) PROVE IndInv'
    BY <1>0, <1>5, RowsMove DEF SendNothing, RowMoves, TypeOK
  <1>6. CASE Reconcile
    BY <1>0, <1>6, RowsMove DEF Reconcile, RowMoves, TypeOK, QueuedRuns
  <1> QED BY <1>1, <1>2, <1>3, <1>4, <1>5, <1>6

LEMMA QueueInv ==
    ASSUME IndInv, \/ \E r \in Runs, j \in Jobs : Send(r, j)
                   \/ \E h \in Handlers, j \in Jobs : Deliver(h, j)
                   \/ \E j \in Jobs : Expire(j)
    PROVE  IndInv'
  <1>0. TypeOK
    BY DEF IndInv
  <1>1. ASSUME UNCHANGED run PROVE run' \in [Runs -> RunRow] /\ \A r \in Runs : RowMoves(r)
    BY <1>0, <1>1 DEF TypeOK, RowMoves
  <1>2. ASSUME UNCHANGED handler
        PROVE  handler' \in [Handlers -> HandlerRow] /\ \A h \in Handlers : HandlerMoves(h)
    BY <1>0, <1>2 DEF TypeOK, HandlerMoves
  <1>3. ASSUME NEW r \in Runs, NEW j \in Jobs, Send(r, j) PROVE IndInv'
    <2>1. job' \in [Jobs -> JobRow \cup {None}]
      <3>1. [run |-> r, tries |-> 0, owner |-> None, held |-> 0] \in JobRow
        BY Zeroes DEF JobRow
      <3> QED BY <1>0, <1>3, <3>1 DEF Send, TypeOK
    <2>2. JobsMove
      BY <1>0, <1>3 DEF Send, FreshJob, JobsMove, Attached, TypeOK
    <2>3. UNCHANGED <<run, handler>> /\ sending' \in SUBSET Runs /\ faults' \in 0..MaxFaults
      BY <1>0, <1>3 DEF Send, TypeOK
    <2> QED BY <1>1, <1>2, <2>1, <2>2, <2>3, Moves
  <1>4. ASSUME NEW h \in Handlers, NEW j \in Jobs, Deliver(h, j) PROVE IndInv'
    <2>1. job[j] \in JobRow /\ job[j].run \in Runs
      BY <1>0, <1>4, JobFields DEF Deliver
    <2>2. job' \in [Jobs -> JobRow \cup {None}]
      <3>1. [job[j] EXCEPT !.owner = h, !.held = 0] \in JobRow
        BY <2>1, Zeroes DEF JobRow
      <3> QED BY <1>0, <1>4, <3>1 DEF Deliver, TypeOK
    <2>3. \A g \in Handlers : HandlerMoves(g)
      <3>1. /\ handler[h].pc = "idle"
            /\ handler'[h] = [Idle EXCEPT !.pc = "claim", !.job = j, !.run = job[j].run,
                                          !.retry = job[j].tries > 0]
            /\ \A g \in Handlers : g # h => handler'[g] = handler[g]
        BY <1>0, <1>4 DEF Deliver, TypeOK
      <3>2. HandlerMoves(h)
        <4>1. (job[j].tries > 0) \in BOOLEAN
          OBVIOUS
        <4>2. \E b \in BOOLEAN :
                handler'[h] = [Idle EXCEPT !.pc = "claim", !.job = j, !.run = job[j].run,
                                           !.retry = b]
          BY <3>1, <4>1
        <4> QED BY <2>1, <3>1, <4>2 DEF HandlerMoves
      <3>3. \A g \in Handlers : g # h => HandlerMoves(g)
        BY <3>1 DEF HandlerMoves
      <3> QED BY <3>2, <3>3
    <2>4. handler' \in [Handlers -> HandlerRow]
      BY <1>0, <1>4, <2>3, HandlerMovesFields DEF Deliver, TypeOK
    <2>5. JobsMove
      <3> SUFFICES ASSUME NEW g \in Handlers, handler'[g].lease # None, Attached(g)'
                   PROVE  Attached(g) /\ job'[handler'[g].job].held = job[handler'[g].job].held
        BY DEF JobsMove
      <3>1. g # h
        BY <1>0, <1>4, IdleRow DEF Deliver, TypeOK, Idle
      <3>2. handler'[g] = handler[g] /\ handler[g].pc # "idle"
        BY <1>0, <1>4, <3>1 DEF Deliver, Attached, TypeOK
      <3>3. handler[g].job \in Jobs
        BY <3>2, BusyHandler
      <3>4. handler[g].job # j
        BY <1>0, <1>4, <2>1, <3>1, <3>2 DEF Deliver, Attached, TypeOK, JobRow
      <3> QED BY <1>0, <1>4, <3>2, <3>3, <3>4 DEF Deliver, Attached, TypeOK
    <2>6. UNCHANGED <<run, sending, faults>>
      BY <1>4 DEF Deliver
    <2> QED BY <1>0, <1>1, <2>2, <2>3, <2>4, <2>5, <2>6, Moves DEF TypeOK
  <1>5. ASSUME NEW j \in Jobs, Expire(j) PROVE IndInv'
    <2>1. job' \in [Jobs -> JobRow \cup {None}] /\ JobsMove
      <3>1. job' = Retried(j) /\ job[j] # None /\ UNCHANGED handler
        BY <1>5 DEF Expire
      <3>2. \A k \in Jobs : k # j => job'[k] = job[k]
        BY <1>0, <3>1, RetriedFrees
      <3>3. job'[j] # None => job'[j].owner = None
        BY <1>0, <3>1, RetriedFrees
      <3>4. \A h \in Handlers : handler[h].pc # "idle" => handler[h].job \in Jobs
        BY BusyHandler
      <3>5. JobsMove
        BY <3>1, <3>2, <3>3, <3>4, NoneAssumption DEF JobsMove, Attached
      <3> QED BY <1>0, <3>1, <3>5, RetriedType
    <2>2. UNCHANGED <<run, handler, sending, faults>>
      BY <1>5 DEF Expire
    <2> QED BY <1>0, <1>1, <1>2, <2>1, <2>2, Moves DEF TypeOK
  <1> QED BY <1>3, <1>4, <1>5

\* The steps of a handler that write no column under its lease.
LEMMA EndInv ==
    ASSUME IndInv, NEW h \in Handlers,
           Finish(h) \/ WorkerCrash(h) \/ StatementFails(h) \/ WorkFails(h) \/ Fail(h)
    PROVE  IndInv'
  <1>0. TypeOK
    BY DEF IndInv
  <1>1. handler[h].pc # "idle" /\ handler[h].job \in Jobs /\ handler[h].run \in Runs
    BY BusyHandler DEF Finish, WorkerCrash, StatementFails, WorkFails, Fail
  <1>2. \A g \in Handlers : HandlerMoves(g)
    <2>1. \A g \in Handlers : g # h => handler'[g] = handler[g]
      BY <1>0 DEF Finish, WorkerCrash, StatementFails, WorkFails, Fail, TypeOK
    <2>2. CASE Finish(h) \/ WorkerCrash(h)
      BY <1>0, <2>2 DEF Finish, WorkerCrash, TypeOK, HandlerMoves
    <2>3. CASE StatementFails(h) \/ WorkFails(h) \/ Fail(h)
      BY <1>0, <2>3 DEF StatementFails, WorkFails, Fail, TypeOK, HandlerMoves
    <2>4. HandlerMoves(h)
      BY <2>2, <2>3
    <2>5. \A g \in Handlers : g # h => HandlerMoves(g)
      BY <2>1 DEF HandlerMoves
    <2> QED BY <2>4, <2>5
  <1>3. handler' \in [Handlers -> HandlerRow]
    <2>1. DOMAIN handler' = Handlers /\ handler' = [g \in Handlers |-> handler'[g]]
      BY <1>0 DEF Finish, WorkerCrash, StatementFails, WorkFails, Fail, TypeOK
    <2> QED BY <1>2, <2>1, HandlerMovesFields
  <1>4. run' \in [Runs -> RunRow] /\ \A r \in Runs : RowMoves(r)
    <2>1. CASE UNCHANGED run
      BY <1>0, <2>1 DEF TypeOK, RowMoves
    <2>2. CASE Fail(h) /\ ~UNCHANGED run
      <3>1. /\ run[handler[h].run].status \in Working
            /\ run' = [run EXCEPT ![handler[h].run] = Failed(run[handler[h].run])]
        BY <2>2 DEF Fail, Failable
      <3> QED BY <1>0, <1>1, <3>1, RunFields, FailedRow DEF TypeOK, RowMoves
    <2> QED BY <2>1, <2>2 DEF Finish, WorkerCrash, StatementFails, WorkFails
  <1>5. job' \in [Jobs -> JobRow \cup {None}] /\ JobsMove
    <2>1. ASSUME UNCHANGED job PROVE job' \in [Jobs -> JobRow \cup {None}] /\ JobsMove
      <3>1. \A g \in Handlers : handler'[g].lease # None /\ handler'[g].pc # "idle" =>
                handler'[g].job = handler[g].job /\ handler[g].pc # "idle"
        BY <1>2, HandlerMovesFields, IdleRow
      <3> QED BY <1>0, <2>1, <3>1 DEF TypeOK, JobsMove, Attached
    <2>2. CASE Finish(h)
      <3>1. \/ UNCHANGED job
            \/ job[handler[h].job] # None /\ Attached(h) /\ job' = Retried(handler[h].job)
            \/ Attached(h) /\ job' = [job EXCEPT ![handler[h].job] = None]
        BY <2>2 DEF Finish, Attached
      <3>2. CASE Attached(h) /\ ~UNCHANGED job
        <4>1. /\ \A k \in Jobs : k # handler[h].job => job'[k] = job[k]
              /\ job'[handler[h].job] # None => job'[handler[h].job].owner = None
          BY <1>0, <1>1, <3>1, <3>2, RetriedFrees DEF TypeOK
        <4>2. job' \in [Jobs -> JobRow \cup {None}]
          BY <1>0, <1>1, <3>1, <3>2, RetriedType DEF TypeOK
        <4>3. \A g \in Handlers : /\ g # h => handler'[g] = handler[g]
                                  /\ handler[g].pc # "idle" => handler[g].job \in Jobs
          BY <1>0, <2>2, BusyHandler DEF Finish, TypeOK
        <4>4. handler'[h].lease = None
          BY <1>0, <2>2, IdleRow DEF Finish, TypeOK
        <4> QED BY <4>1, <4>2, <4>3, <4>4, NoneAssumption DEF JobsMove, Attached
      <3> QED BY <2>1, <3>1, <3>2
    <2> QED BY <2>1, <2>2 DEF WorkerCrash, StatementFails, WorkFails, Fail
  <1>6. sending' \in SUBSET Runs /\ faults' \in 0..MaxFaults
    BY <1>0, Numbers DEF TypeOK, Finish, WorkerCrash, StatementFails, WorkFails, Fail, Fault
  <1> QED BY <1>2, <1>3, <1>4, <1>5, <1>6, Moves

----------------------------------------------------------------------------
(* Steps that write under the lease, and the passing of time. *)

LEMMA ClaimedRow ==
    ASSUME TypeOK, NEW r \in Runs, NEW l \in Leases, NEW j \in Jobs
    PROVE  /\ Claimed(run[r], l, j) \in RunRow
           /\ Claimed(run[r], l, j).status = "running" /\ Claimed(run[r], l, j).lease = l
           /\ Claimed(run[r], l, j).broker = j /\ Claimed(run[r], l, j).done = 0
           /\ Claimed(run[r], l, j).quiet = 0 /\ Claimed(run[r], l, j).report = run[r].report
           /\ Claimed(run[r], l, j).program = run[r].program
  <1>1. "running" \in {"absent"} \cup Working \cup Finished
    BY Zeroes
  <1>2. run[r] \in RunRow
    BY RunFields
  <1> QED BY <1>1, <1>2, Zeroes DEF Claimed, RunRow

LEMMA ClaimInv ==
    ASSUME IndInv, NEW h \in Handlers, NEW l \in Leases, Claim(h, l)
    PROVE  IndInv'
  <1> DEFINE r == handler[h].run
             j == handler[h].job
  <1>0. TypeOK /\ handler[h] \in HandlerRow /\ j \in Jobs /\ r \in Runs /\ run[r] \in RunRow
    <2>1. handler[h].pc # "idle"
      BY DEF Claim
    <2> QED BY <2>1, BusyHandler, HandlerFields, RunFields DEF IndInv
  <1>1. CASE ~Claimable(run[r], h)
    <2>1. \A g \in Handlers : HandlerMoves(g)
      BY <1>0, <1>1 DEF Claim, HandlerMoves, TypeOK
    <2>2. handler' \in [Handlers -> HandlerRow]
      <3>1. [handler[h] EXCEPT !.pc = "returned"] \in HandlerRow
        BY <1>0 DEF HandlerRow
      <3> QED BY <1>0, <1>1, <3>1 DEF Claim, TypeOK
    <2>3. JobsMove
      <3>1. \A g \in Handlers : /\ handler'[g].job = handler[g].job
                                /\ handler'[g].pc # "idle" => handler[g].pc # "idle"
        BY <1>0, <1>1 DEF Claim, TypeOK, HandlerRow
      <3> QED BY <3>1 DEF Claim, JobsMove, Attached
    <2>4. \A s \in Runs : RowMoves(s)
      BY <1>1 DEF Claim, RowMoves
    <2> QED BY <1>0, <1>1, <2>1, <2>2, <2>3, <2>4, Moves DEF Claim, TypeOK
  <1>2. CASE Claimable(run[r], h)
    <2>1. /\ handler[h].pc = "claim" /\ handler[h].lease = None /\ handler[h].count = 0
          /\ run[r].status \in {"queued", "running"} /\ run[r].report = None
          /\ run[r].program # None
      <3>1. handler[h].pc = "claim" /\ run[r].status \in {"queued", "running"}
        BY <1>2 DEF Claim, Claimable
      <3>2. handler[h].lease = None /\ handler[h].count = 0
        BY <3>1 DEF IndInv, HandlersAreSound, HandlerIsSound
      <3>3. run[r].report = None /\ run[r].program # None
        BY <1>0, <3>1 DEF IndInv, RowsAreSound, ReportIsTheHolders
      <3> QED BY <3>1, <3>2, <3>3
    <2>2. /\ \A s \in Runs : s # r => run'[s] = run[s]
          /\ run'[r] = Claimed(run[r], l, j)
          /\ run' \in [Runs -> RunRow]
      BY <1>0, <1>2, ClaimedRow DEF Claim, TypeOK
    <2>3. /\ \A g \in Handlers : g # h => handler'[g] = handler[g]
          /\ handler'[h] = [handler[h] EXCEPT !.pc = "configure", !.lease = l]
          /\ handler' \in [Handlers -> HandlerRow]
      <3>1. [handler[h] EXCEPT !.pc = "configure", !.lease = l] \in HandlerRow
        BY <1>0 DEF HandlerRow
      <3> QED BY <1>0, <1>2, <3>1 DEF Claim, TypeOK
    <2>4. /\ handler'[h].pc = "configure" /\ handler'[h].lease = l /\ handler'[h].job = j
          /\ handler'[h].run = r /\ handler'[h].count = 0
      BY <1>0, <2>1, <2>3 DEF HandlerRow
    <2>5. /\ run'[r].status = "running" /\ run'[r].lease = l /\ run'[r].broker = j
          /\ run'[r].done = 0 /\ run'[r].quiet = 0 /\ run'[r].report = None
          /\ run'[r].program # None
      BY <1>0, <2>1, <2>2, ClaimedRow
    <2>6. /\ l # None /\ j # None /\ r # None
          /\ \A g \in Handlers : handler[g].lease # l
          /\ \A s \in Runs : run[s].lease # l
      BY <1>0, NoneAssumption DEF Claim, FreshLease
    <2>7. UNCHANGED <<job, sending, faults>>
      BY DEF Claim
    <2>8. TypeOK'
      BY <1>0, <2>2, <2>3, <2>7 DEF TypeOK
    <2>9. HandlersAreSound'
      <3>1. HandlerIsSound(h)'
        BY <2>3, <2>4, <2>6 DEF HandlerIsSound
      <3>2. \A g \in Handlers : g # h => HandlerIsSound(g)'
        BY <2>3 DEF IndInv, HandlersAreSound, HandlerIsSound
      <3> QED BY <3>1, <3>2 DEF HandlersAreSound
    <2>10. RowsAreSound'
      BY <2>2, <2>5, <2>6 DEF IndInv, RowsAreSound
    <2>11. LeasesAreUnique'
      <3>1. \A f, g \in Handlers :
                handler'[f].lease = handler'[g].lease /\ f # g => handler'[f].lease = None
        <4>1. \A g \in Handlers : g # h => handler'[g].lease = handler[g].lease
                                         /\ handler'[g].lease # l
          BY <2>3, <2>6
        <4>2. \A f, g \in Handlers :
                handler[f].lease = handler[g].lease /\ f # g => handler[f].lease = None
          BY DEF IndInv, LeasesAreUnique
        <4> QED BY <2>4, <4>1, <4>2
      <3>2. \A s \in Runs, g \in Handlers :
                handler'[g].lease = run'[s].lease /\ handler'[g].lease # None
                  => handler'[g].run = s
        <4> SUFFICES ASSUME NEW s \in Runs, NEW g \in Handlers,
                            handler'[g].lease = run'[s].lease, handler'[g].lease # None
                     PROVE  handler'[g].run = s
          OBVIOUS
        <4>1. CASE g = h
          BY <2>2, <2>4, <2>6, <4>1
        <4>2. CASE g # h
          BY <2>2, <2>3, <2>5, <2>6, <4>2 DEF IndInv, LeasesAreUnique
        <4> QED BY <4>1, <4>2
      <3> QED BY <3>1, <3>2 DEF LeasesAreUnique
    <2>12. ASSUME NEW s \in Runs, NEW g \in Handlers, Holder(g, s)'
           PROVE  (g = h /\ s = r) \/ (g # h /\ s # r /\ Holder(g, s))
      <3>1. CASE g = h
        BY <2>4, <2>12, <3>1 DEF Holder
      <3>2. CASE g # h /\ s = r
        BY <2>3, <2>5, <2>6, <2>12, <3>2 DEF Holder
      <3>3. CASE g # h /\ s # r
        BY <2>2, <2>3, <2>12, <3>3 DEF Holder
      <3> QED BY <3>1, <3>2, <3>3
    <2>13. HoldersAgree'
      <3> SUFFICES ASSUME NEW s \in Runs, NEW g \in Handlers, Holder(g, s)'
                   PROVE  /\ run'[s].broker = handler'[g].job
                          /\ Attached(g)' => run'[s].quiet <= job'[handler'[g].job].held
        BY DEF HoldersAgree
      <3>1. CASE g = h /\ s = r
        <4>1. Attached(g)' => job'[j] # None
          BY <2>4, <3>1 DEF Attached
        <4>2. job[j] # None => 0 <= job[j].held
          BY <1>0, JobFields, Numbers
        <4> QED BY <2>4, <2>5, <2>7, <3>1, <4>1, <4>2
      <3>2. CASE g # h /\ s # r /\ Holder(g, s)
        BY <2>2, <2>3, <2>7, <3>2 DEF IndInv, HoldersAgree, Attached
      <3> QED BY <2>12, <3>1, <3>2
    <2>14. ProgressIsTheHolders'
      <3> SUFFICES ASSUME NEW s \in Runs, NEW g \in Handlers, Holder(g, s)'
                   PROVE  run'[s].done = handler'[g].count
        BY DEF ProgressIsTheHolders
      <3>1. CASE g = h /\ s = r
        BY <2>4, <2>5, <3>1
      <3>2. CASE g # h /\ s # r /\ Holder(g, s)
        BY <2>2, <2>3, <3>2 DEF IndInv, ProgressIsTheHolders
      <3> QED BY <2>12, <3>1, <3>2
    <2>15. ReportIsTheHolders'
      BY <2>2, <2>5 DEF IndInv, ReportIsTheHolders
    <2> QED BY <2>8, <2>9, <2>10, <2>11, <2>13, <2>14, <2>15 DEF IndInv
  <1> QED BY <1>1, <1>2

\* A guarded write that keeps the lease and the job of the row and counts the
\* handler's questions; the report, if it stores one, is the handler's.
GuardedRow(h, row, pc, count) ==
    LET old == run[handler[h].run] IN
    /\ row \in RunRow
    /\ row.lease = old.lease /\ row.broker = old.broker /\ row.program = old.program
    /\ row.done = count /\ row.quiet = 0
    /\ \/ row.status = "running" /\ row.report = old.report /\ pc \in {"work", "fail"}
       \/ row.status = "completed" /\ row.report = handler[h].lease /\ pc \in {"returned", "fail"}

LEMMA WriteInv ==
    ASSUME IndInv, NEW h \in Handlers, handler[h].pc \in {"configure", "work"},
           NEW row, NEW pc, NEW count \in 0..Questions, Write(h, row, pc, count),
           Holds(h) => GuardedRow(h, row, pc, count)
    PROVE  IndInv'
  <1> DEFINE r == handler[h].run
  <1>0. /\ TypeOK /\ handler[h] \in HandlerRow /\ r \in Runs /\ run[r] \in RunRow
        /\ handler[h].lease # None /\ handler[h].job # None /\ r # None
    <2>1. handler[h].pc # "idle"
      OBVIOUS
    <2> QED BY <2>1, BusyHandler, HandlerFields, RunFields DEF IndInv, HandlersAreSound, HandlerIsSound
  <1>1. CASE ~Holds(h)
    <2>1. \A g \in Handlers : HandlerMoves(g)
      BY <1>0, <1>1 DEF Write, HandlerMoves, TypeOK
    <2>2. handler' \in [Handlers -> HandlerRow]
      <3>1. [handler[h] EXCEPT !.pc = "fail"] \in HandlerRow
        BY <1>0 DEF HandlerRow
      <3> QED BY <1>0, <1>1, <3>1 DEF Write, TypeOK
    <2>3. JobsMove
      <3>1. \A g \in Handlers : /\ handler'[g].job = handler[g].job
                                /\ handler'[g].pc # "idle" => handler[g].pc # "idle"
        BY <1>0, <1>1 DEF Write, TypeOK, HandlerRow
      <3> QED BY <3>1 DEF Write, JobsMove, Attached
    <2>4. \A s \in Runs : RowMoves(s)
      BY <1>1 DEF Write, RowMoves
    <2> QED BY <1>0, <1>1, <2>1, <2>2, <2>3, <2>4, Moves DEF Write, TypeOK
  <1>2. CASE Holds(h)
    <2>1. /\ row \in RunRow /\ row.lease = run[r].lease /\ row.broker = run[r].broker
          /\ row.program = run[r].program /\ row.done = count /\ row.quiet = 0
          /\ \/ /\ row.status = "running" /\ row.report = run[r].report
                /\ pc \in {"work", "fail"}
             \/ /\ row.status = "completed" /\ row.report = handler[h].lease
                /\ pc \in {"returned", "fail"}
      BY <1>2 DEF GuardedRow
    <2>2. Holder(h, r) /\ run[r].status = "running" /\ run[r].lease = handler[h].lease
      BY <1>0, <1>2 DEF Holds, Holder
    <2>3. run[r].broker = handler[h].job /\ run[r].report = None /\ run[r].program # None
      BY <1>0, <2>2 DEF IndInv, HoldersAgree, RowsAreSound, ReportIsTheHolders
    <2>4. /\ \A s \in Runs : s # r => run'[s] = run[s]
          /\ run'[r] = row
          /\ run' \in [Runs -> RunRow]
      BY <1>0, <1>2, <2>1 DEF Write, TypeOK
    <2>5. /\ \A g \in Handlers : g # h => handler'[g] = handler[g]
          /\ handler'[h] = [handler[h] EXCEPT !.pc = pc, !.count = count]
          /\ handler' \in [Handlers -> HandlerRow]
      <3>1. [handler[h] EXCEPT !.pc = pc, !.count = count] \in HandlerRow
        BY <1>0, <2>1 DEF HandlerRow
      <3> QED BY <1>0, <1>2, <3>1 DEF Write, TypeOK
    <2>6. /\ handler'[h].pc = pc /\ handler'[h].lease = handler[h].lease
          /\ handler'[h].job = handler[h].job /\ handler'[h].run = r /\ handler'[h].count = count
      BY <1>0, <2>5 DEF HandlerRow
    <2>7. UNCHANGED <<job, sending, faults>>
      BY DEF Write
    <2>8. TypeOK'
      BY <1>0, <2>4, <2>5, <2>7 DEF TypeOK
    <2>9. HandlersAreSound'
      <3>1. HandlerIsSound(h)'
        BY <1>0, <2>1, <2>5, <2>6 DEF HandlerIsSound
      <3>2. \A g \in Handlers : g # h => HandlerIsSound(g)'
        BY <2>5 DEF IndInv, HandlersAreSound, HandlerIsSound
      <3> QED BY <3>1, <3>2 DEF HandlersAreSound
    <2>10. RowsAreSound'
      BY <1>0, <2>1, <2>2, <2>3, <2>4 DEF IndInv, RowsAreSound
    <2>11. LeasesAreUnique'
      <3>1. \A g \in Handlers : handler'[g].lease = handler[g].lease
                                /\ handler'[g].run = handler[g].run
        BY <2>5, <2>6
      <3>2. \A s \in Runs : run'[s].lease = run[s].lease
        BY <2>1, <2>4
      <3> QED BY <3>1, <3>2 DEF IndInv, LeasesAreUnique
    <2>12. ASSUME NEW s \in Runs, NEW g \in Handlers, Holder(g, s)'
           PROVE  (g = h /\ s = r) \/ (g # h /\ s # r /\ Holder(g, s))
      <3>1. CASE g = h
        BY <2>6, <2>12, <3>1 DEF Holder
      <3>2. CASE g # h /\ s = r
        <4>1. handler[g].lease = handler[h].lease
          BY <2>1, <2>2, <2>4, <2>5, <2>12, <3>2 DEF Holder
        <4> QED BY <1>0, <3>2, <4>1 DEF IndInv, LeasesAreUnique
      <3>3. CASE g # h /\ s # r
        BY <2>4, <2>5, <2>12, <3>3 DEF Holder
      <3> QED BY <3>1, <3>2, <3>3
    <2>13. HoldersAgree'
      <3> SUFFICES ASSUME NEW s \in Runs, NEW g \in Handlers, Holder(g, s)'
                   PROVE  /\ run'[s].broker = handler'[g].job
                          /\ Attached(g)' => run'[s].quiet <= job'[handler'[g].job].held
        BY DEF HoldersAgree
      <3>1. CASE g = h /\ s = r
        <4>1. Attached(g)' => job'[handler[h].job] # None
          BY <2>6, <3>1 DEF Attached
        <4>2. job[handler[h].job] # None => 0 <= job[handler[h].job].held
          BY <1>0, BusyHandler, JobFields, Numbers
        <4> QED BY <2>1, <2>3, <2>4, <2>6, <2>7, <3>1, <4>1, <4>2
      <3>2. CASE g # h /\ s # r /\ Holder(g, s)
        BY <2>4, <2>5, <2>7, <3>2 DEF IndInv, HoldersAgree, Attached
      <3> QED BY <2>12, <3>1, <3>2
    <2>14. ProgressIsTheHolders'
      <3> SUFFICES ASSUME NEW s \in Runs, NEW g \in Handlers, Holder(g, s)'
                   PROVE  run'[s].done = handler'[g].count
        BY DEF ProgressIsTheHolders
      <3>1. CASE g = h /\ s = r
        BY <2>1, <2>4, <2>6, <3>1
      <3>2. CASE g # h /\ s # r /\ Holder(g, s)
        BY <2>4, <2>5, <3>2 DEF IndInv, ProgressIsTheHolders
      <3> QED BY <2>12, <3>1, <3>2
    <2>15. ReportIsTheHolders'
      BY <1>0, <2>1, <2>2, <2>3, <2>4 DEF IndInv, ReportIsTheHolders
    <2> QED BY <2>8, <2>9, <2>10, <2>11, <2>13, <2>14, <2>15 DEF IndInv
  <1> QED BY <1>1, <1>2

LEMMA LeasedInv ==
    ASSUME IndInv, NEW h \in Handlers,
           \/ \E pc \in {"work", "fail"} : Configure(h, pc) \/ Progress(h, pc)
           \/ \E pc \in {"returned", "fail"} : Complete(h, pc)
    PROVE  IndInv'
  <1> DEFINE old == run[handler[h].run]
  <1>0. /\ TypeOK /\ old \in RunRow /\ handler[h].count \in 0..Questions
        /\ handler[h].lease \in Leases
    <2>1. handler[h].pc \in {"configure", "work"}
      BY DEF Configure, Progress, Complete
    <2> QED BY <2>1, BusyHandler, HandlerFields, RunFields DEF IndInv, HandlersAreSound, HandlerIsSound
  <1>1. ASSUME NEW pc \in {"work", "fail"}, Configure(h, pc) PROVE IndInv'
    <2>1. Holds(h) => GuardedRow(h, [old EXCEPT !.quiet = 0], pc, 0)
      <3> SUFFICES ASSUME Holds(h)
                   PROVE  GuardedRow(h, [old EXCEPT !.quiet = 0], pc, 0)
        OBVIOUS
      <3>1. Holder(h, handler[h].run) /\ handler[h].run \in Runs
        BY <1>1, BusyHandler DEF Holds, Holder, Configure, IndInv, HandlersAreSound, HandlerIsSound
      <3>2. old.done = 0 /\ old.status = "running"
        BY <1>1, <3>1 DEF IndInv, ProgressIsTheHolders, HandlersAreSound, HandlerIsSound, Configure, Holds
      <3> QED BY <1>0, <3>2, Zeroes DEF GuardedRow, RunRow
    <2> QED BY <1>1, <2>1, Zeroes, WriteInv DEF Configure
  <1>2. ASSUME NEW pc \in {"work", "fail"}, Progress(h, pc) PROVE IndInv'
    <2>1. handler[h].count + 1 \in 0..Questions
      BY <1>0, <1>2, Numbers DEF Progress
    <2>2. Holds(h) => GuardedRow(h, [old EXCEPT !.done = handler[h].count + 1, !.quiet = 0],
                                 pc, handler[h].count + 1)
      BY <1>0, <2>1, Zeroes DEF GuardedRow, RunRow, Holds
    <2> QED BY <1>2, <2>1, <2>2, WriteInv DEF Progress
  <1>3. ASSUME NEW pc \in {"returned", "fail"}, Complete(h, pc) PROVE IndInv'
    <2>1. "completed" \in {"absent"} \cup Working \cup Finished
      BY Zeroes
    <2>2. Holds(h) => GuardedRow(h, [old EXCEPT !.status = "completed",
                                                !.report = handler[h].lease,
                                                !.done = Questions, !.quiet = 0],
                                 pc, Questions)
      BY <1>0, <2>1, Zeroes DEF GuardedRow, RunRow
    <2> QED BY <1>3, <2>2, Zeroes, WriteInv DEF Complete
  <1> QED BY <1>1, <1>2, <1>3

LEMMA TickInv ==
    ASSUME IndInv, Tick
    PROVE  IndInv'
  <1>0. TypeOK /\ UNCHANGED <<handler, sending>> /\ faults' \in 0..MaxFaults
    BY Numbers DEF IndInv, Tick, TypeOK, Fault
  <1>1. ASSUME NEW j \in Jobs
        PROVE  /\ job'[j] \in JobRow \cup {None}
               /\ job[j] = None => job'[j] = None
               /\ job[j] # None => job'[j].owner = job[j].owner
               /\ job[j] # None /\ job[j].owner # None => job'[j].held = job[j].held + 1
    <2>1. CASE job[j] # None /\ job[j].owner # None
      <3>1. job'[j] = [job[j] EXCEPT !.held = job[j].held + 1]
        BY <2>1 DEF Tick
      <3>2. job[j] \in JobRow /\ job[j].held + 1 \in 0..ExpireAfter
        BY <1>0, <2>1, JobFields, Numbers DEF Tick
      <3> QED BY <2>1, <3>1, <3>2 DEF JobRow
    <2>2. CASE ~(job[j] # None /\ job[j].owner # None)
      BY <1>0, <2>2 DEF Tick, TypeOK
    <2> QED BY <2>1, <2>2
  <1>2. ASSUME NEW r \in Runs
        PROVE  /\ run'[r] \in RunRow
               /\ run'[r].status = run[r].status /\ run'[r].lease = run[r].lease
               /\ run'[r].broker = run[r].broker /\ run'[r].done = run[r].done
               /\ run'[r].report = run[r].report /\ run'[r].program = run[r].program
               /\ run'[r].quiet <= run[r].quiet + 1
    <2>1. run[r] \in RunRow /\ run[r].quiet \in Nat /\ run[r].quiet <= AbandonAfter + 1
      BY <1>0, RunFields
    <2>2. CASE run[r].status = "running" /\ run[r].quiet <= AbandonAfter
      <3>1. run'[r] = [run[r] EXCEPT !.quiet = run[r].quiet + 1]
        BY <2>2 DEF Tick
      <3>2. run[r].quiet + 1 \in 0..(AbandonAfter + 1)
        BY <2>1, <2>2, Numbers
      <3> QED BY <2>1, <3>1, <3>2 DEF RunRow
    <2>3. CASE ~(run[r].status = "running" /\ run[r].quiet <= AbandonAfter)
      BY <2>1, <2>3 DEF Tick
    <2> QED BY <2>2, <2>3
  <1>3. TypeOK'
    <2>1. run' \in [Runs -> RunRow]
      BY <1>2 DEF Tick
    <2>2. job' \in [Jobs -> JobRow \cup {None}]
      BY <1>1 DEF Tick
    <2> QED BY <1>0, <2>1, <2>2 DEF TypeOK
  <1>4. \A r \in Runs, h \in Handlers : Holder(h, r)' => Holder(h, r)
    BY <1>0, <1>2 DEF Holder
  <1>5. HoldersAgree'
    <2> SUFFICES ASSUME NEW r \in Runs, NEW h \in Handlers, Holder(h, r)'
                 PROVE  /\ run'[r].broker = handler'[h].job
                        /\ Attached(h)' => run'[r].quiet <= job'[handler'[h].job].held
      BY DEF HoldersAgree
    <2>1. run[r].broker = handler[h].job
          /\ (Attached(h) => run[r].quiet <= job[handler[h].job].held)
      BY <1>4 DEF IndInv, HoldersAgree
    <2>2. handler[h].job \in Jobs
      BY <1>4, BusyHandler DEF Holder
    <2>3. Attached(h)' => /\ Attached(h)
                          /\ job'[handler[h].job].held = job[handler[h].job].held + 1
      BY <1>0, <1>1, <2>2, NoneAssumption DEF Attached
    <2>4. Attached(h) => job[handler[h].job].held \in Nat
      BY <1>0, <2>2, JobFields, Numbers DEF Attached
    <2>5. run[r].quiet \in Nat /\ run'[r].quiet \in Nat
      BY <1>0, <1>3, RunFields, Numbers DEF TypeOK, RunRow
    <2>6. run'[r].quiet <= run[r].quiet + 1 /\ run'[r].broker = run[r].broker
      BY <1>2
    <2>7. Attached(h)' => run'[r].quiet <= job'[handler[h].job].held
      BY <2>1, <2>3, <2>4, <2>5, <2>6
    <2> QED BY <1>0, <2>1, <2>6, <2>7
  <1>6. ProgressIsTheHolders'
    BY <1>0, <1>2, <1>4 DEF IndInv, ProgressIsTheHolders
  <1>7. RowsAreSound' /\ ReportIsTheHolders'
    BY <1>2 DEF IndInv, RowsAreSound, ReportIsTheHolders
  <1>8. HandlersAreSound' /\ LeasesAreUnique'
    BY <1>0, <1>2 DEF IndInv, HandlersAreSound, HandlerIsSound, LeasesAreUnique
  <1> QED BY <1>3, <1>5, <1>6, <1>7, <1>8 DEF IndInv

----------------------------------------------------------------------------
(* The invariant and what follows from it. *)

LEMMA InitInv == Init => IndInv
  <1> SUFFICES ASSUME Init PROVE IndInv
    OBVIOUS
  <1>1. /\ NoRun \in RunRow /\ NoRun.status = "absent" /\ NoRun.lease = None /\ NoRun.done = 0
        /\ NoRun.report = None /\ NoRun.program = None
    BY Zeroes DEF NoRun, RunRow
  <1>2. TypeOK
    BY <1>1, IdleRow, Zeroes DEF Init, TypeOK
  <1>3. HandlersAreSound
    BY IdleRow DEF Init, HandlersAreSound, HandlerIsSound
  <1>4. RowsAreSound /\ LeasesAreUnique /\ ReportIsTheHolders
    BY <1>1, IdleRow DEF Init, RowsAreSound, LeasesAreUnique, ReportIsTheHolders
  <1>5. HoldersAgree /\ ProgressIsTheHolders
    BY IdleRow DEF Init, HoldersAgree, ProgressIsTheHolders, Holder
  <1> QED BY <1>2, <1>3, <1>4, <1>5 DEF IndInv

LEMMA NextInv == IndInv /\ [Next]_vars => IndInv'
  <1> SUFFICES ASSUME IndInv, [Next]_vars PROVE IndInv'
    OBVIOUS
  <1>1. ASSUME NEW h \in Handlers, HandlerStep(h) \/ WorkerCrash(h) \/ StatementFails(h)
        PROVE  IndInv'
    BY <1>1, ClaimInv, LeasedInv, EndInv DEF HandlerStep
  <1>2. CASE Step
    BY <1>1, <1>2, ApiInv, QueueInv DEF Step
  <1>3. CASE Tick
    BY <1>3, TickInv
  <1>4. CASE UNCHANGED vars
    BY <1>4 DEF vars, IndInv, TypeOK, HandlersAreSound, HandlerIsSound, RowsAreSound,
                LeasesAreUnique, HoldersAgree, ReportIsTheHolders, ProgressIsTheHolders,
                Holder, Attached
  <1> QED BY <1>2, <1>3, <1>4 DEF Next

\* The invariant that carries the others: handlers, tokens, jobs and rows agree
\* between every two statements.
THEOREM Invariance == Spec => []IndInv
  BY InitInv, NextInv, PTL DEF Spec

\* The report of a completed run is the work of its last claim, and no other run
\* has one: the fence works for every number of overlapping handlers.
THEOREM ReportsAreTheHolders == Spec => []ReportIsTheHolders
  <1>1. IndInv => ReportIsTheHolders
    BY DEF IndInv
  <1> QED BY <1>1, Invariance, PTL

\* The progress of a run is that of the one handler that holds its lease.
THEOREM ProgressAlwaysTheHolders == Spec => []ProgressIsTheHolders
  <1>1. IndInv => ProgressIsTheHolders
    BY DEF IndInv
  <1> QED BY <1>1, Invariance, PTL

\* The row of a handler pg-boss still counts on is never stale: this is where the
\* order of the limits (expiry no later than the steal) is needed.
LEMMA FreshWork == IndInv => LiveWorkIsFresh
  <1> SUFFICES ASSUME IndInv, NEW r \in Runs, NEW h \in Handlers, Holder(h, r), Attached(h)
               PROVE  run[r].quiet <= StealAfter
    BY DEF LiveWorkIsFresh
  <1>1. handler[h].job \in Jobs
    BY BusyHandler DEF Attached
  <1>2. job[handler[h].job].held \in 0..ExpireAfter
    BY <1>1, JobFields DEF Attached, IndInv
  <1>3. run[r].quiet <= job[handler[h].job].held /\ run[r].quiet \in Nat
    BY RunFields DEF IndInv, HoldersAgree
  <1> QED BY <1>2, <1>3, Numbers, LimitsAssumption

THEOREM LiveWorkAlwaysFresh == Spec => []LiveWorkIsFresh
  BY Invariance, FreshWork, PTL

\* Only a run at work is ever written by anything but the choice of a baseline.
THEOREM FinishedAlwaysStays == Spec => FinishedStays
  <1>1. ASSUME IndInv, [Next]_vars
        PROVE  [\A r \in Runs : run[r].status \in Finished =>
                  /\ run'[r].status = run[r].status
                  /\ run'[r].report = run[r].report
                  /\ run'[r].done = run[r].done]_vars
    <2> SUFFICES ASSUME Next, NEW r \in Runs, run[r].status \in Finished
                 PROVE  /\ run'[r].status = run[r].status
                        /\ run'[r].report = run[r].report
                        /\ run'[r].done = run[r].done
      BY <1>1
    <2>0. TypeOK /\ run[r] \in RunRow /\ run[r].status \in {"completed", "failed"}
      BY <1>1, RunFields DEF IndInv, Finished
    <2>1. \/ run'[r] = run[r]
          \/ \E b : run'[r] = [run[r] EXCEPT !.baseline = b]
      <3>1. ASSUME NEW p \in Programs, Poll(p) PROVE run'[r] = run[r]
        BY <2>0, <3>1 DEF Poll, Swept, Abandoned
      <3>2. ASSUME NEW p \in Programs, NEW s \in Runs, Create(p, s) PROVE run'[r] = run[r]
        BY <2>0, <3>2 DEF Create, Swept, Abandoned
      <3>3. ASSUME NEW s \in Runs, Cancel(s) PROVE run'[r] = run[r]
        BY <2>0, <3>3 DEF Cancel, Working
      <3>4. ASSUME NEW s \in Runs, SetBaseline(s)
            PROVE  run'[r] = run[r] \/ \E b : run'[r] = [run[r] EXCEPT !.baseline = b]
        BY <3>4 DEF SetBaseline
      <3>5. ASSUME NEW h \in Handlers, NEW l \in Leases, Claim(h, l) PROVE run'[r] = run[r]
        BY <2>0, <3>5 DEF Claim, Claimable, TypeOK
      <3>6. ASSUME NEW h \in Handlers, NEW row, NEW pc, NEW count, Write(h, row, pc, count)
            PROVE  run'[r] = run[r]
        BY <2>0, <3>6 DEF Write, Holds, TypeOK
      <3>7. ASSUME NEW h \in Handlers, Fail(h) PROVE run'[r] = run[r]
        BY <2>0, <3>7 DEF Fail, Failable, Working
      <3>8. CASE Tick
        BY <2>0, <3>8 DEF Tick
      <3>9. ASSUME NEW h \in Handlers, HandlerStep(h) \/ WorkerCrash(h) \/ StatementFails(h)
            PROVE  run'[r] = run[r]
        <4>1. ASSUME NEW pc \in {"work", "fail"}, Configure(h, pc) PROVE run'[r] = run[r]
          BY <3>6, <4>1 DEF Configure
        <4>2. ASSUME NEW pc \in {"work", "fail"}, Progress(h, pc) PROVE run'[r] = run[r]
          BY <3>6, <4>2 DEF Progress
        <4>3. ASSUME NEW pc \in {"returned", "fail"}, Complete(h, pc) PROVE run'[r] = run[r]
          BY <3>6, <4>3 DEF Complete
        <4>4. CASE WorkFails(h) \/ Finish(h) \/ WorkerCrash(h) \/ StatementFails(h)
          BY <4>4 DEF WorkFails, Finish, WorkerCrash, StatementFails
        <4> QED BY <3>5, <3>7, <3>9, <4>1, <4>2, <4>3, <4>4 DEF HandlerStep
      <3>10. CASE Step
        <4>1. ASSUME \/ \E s \in Runs : SendNothing(s)
                     \/ Reconcile
                     \/ \E s \in Runs, j \in Jobs : Send(s, j)
                     \/ \E h \in Handlers, j \in Jobs : Deliver(h, j)
                     \/ \E j \in Jobs : Expire(j)
              PROVE  run'[r] = run[r]
          BY <4>1 DEF SendNothing, Reconcile, Send, Deliver, Expire
        <4> QED BY <3>1, <3>2, <3>3, <3>4, <3>9, <3>10, <4>1 DEF Step
      <3> QED BY <3>8, <3>10 DEF Next
    <2> QED BY <2>0, <2>1 DEF RunRow
  <1> QED BY <1>1, Invariance, PTL DEF Spec, FinishedStays

\* A handler that pg-boss counts on loses its lease to an attempt of its own job
\* only: the steal by age is out of reach, and no other job is the row's.
THEOREM DuplicatesNeverFence == Spec => DuplicatesDoNotFence
  <1>1. ASSUME IndInv, [Next]_vars
        PROVE  [\A r \in Runs, h \in Handlers : Holder(h, r) /\ Attached(h) =>
                  \/ run'[r].lease = run[r].lease
                  \/ run'[r].broker = handler[h].job]_vars
    <2> SUFFICES ASSUME Next, NEW r \in Runs, NEW h \in Handlers, Holder(h, r), Attached(h)
                 PROVE  run'[r].lease = run[r].lease \/ run'[r].broker = handler[h].job
      BY <1>1
    <2>0. /\ TypeOK /\ run[r] \in RunRow /\ run[r].status = "running"
          /\ run[r].broker = handler[h].job
      BY <1>1, RunFields DEF IndInv, Holder, HoldersAgree
    <2>1. ASSUME NEW p \in Programs, Poll(p) PROVE run'[r].lease = run[r].lease
      BY <2>0, <2>1, SweptMoves, FailedRow DEF Poll
    <2>2. ASSUME NEW p \in Programs, NEW s \in Runs, Create(p, s)
          PROVE  run'[r].lease = run[r].lease
      <3>1. run'[r] = Swept(p)[r]
        BY <2>0, <2>2 DEF Create, Swept
      <3> QED BY <2>0, <3>1, SweptMoves, FailedRow
    <2>3. ASSUME NEW s \in Runs, Cancel(s) PROVE run'[r].lease = run[r].lease
      BY <2>0, <2>3, FailedRow DEF Cancel, TypeOK
    <2>4. ASSUME NEW s \in Runs, SetBaseline(s) PROVE run'[r].lease = run[r].lease
      BY <2>0, <2>4 DEF SetBaseline, RunRow
    <2>5. ASSUME NEW k \in Handlers, NEW l \in Leases, Claim(k, l)
          PROVE  run'[r].lease = run[r].lease \/ run'[r].broker = handler[h].job
      <3>1. CASE run'[r] = run[r]
        BY <3>1
      <3>2. CASE run'[r] # run[r]
        <4>1. /\ handler[k].run = r /\ Claimable(run[r], k)
              /\ run'[r] = Claimed(run[r], l, handler[k].job)
          BY <2>0, <2>5, <3>2 DEF Claim, TypeOK
        <4>2. ~(run[r].quiet > StealAfter)
          BY <1>1, <2>0, FreshWork, RunFields, Numbers DEF LiveWorkIsFresh
        <4>3. run[r].broker = handler[k].job
          BY <2>0, <4>1, <4>2 DEF Claimable
        <4>4. run'[r].broker = handler[k].job
          BY <2>0, <4>1 DEF Claimed, RunRow
        <4> QED BY <2>0, <4>3, <4>4
      <3> QED BY <3>1, <3>2
    <2>6. ASSUME NEW k \in Handlers, NEW row, NEW pc, NEW count, Write(k, row, pc, count),
                 row.lease = run[handler[k].run].lease
          PROVE  run'[r].lease = run[r].lease
      BY <2>0, <2>6 DEF Write, TypeOK
    <2>7. ASSUME NEW k \in Handlers, Fail(k) PROVE run'[r].lease = run[r].lease
      BY <2>0, <2>7, FailedRow DEF Fail, TypeOK
    <2>8. CASE Tick
      BY <2>0, <2>8 DEF Tick, RunRow
    <2>9. ASSUME NEW k \in Handlers, HandlerStep(k) \/ WorkerCrash(k) \/ StatementFails(k)
          PROVE  run'[r].lease = run[r].lease \/ run'[r].broker = handler[h].job
      <3>0. ASSUME handler[k].pc # "idle" PROVE run[handler[k].run] \in RunRow
        BY <1>1, <2>0, <3>0, BusyHandler, RunFields
      <3>1. ASSUME NEW pc \in {"work", "fail"}, Configure(k, pc)
            PROVE  run'[r].lease = run[r].lease
        <4>1. [run[handler[k].run] EXCEPT !.quiet = 0].lease = run[handler[k].run].lease
          BY <3>0, <3>1 DEF Configure, RunRow
        <4> QED BY <2>6, <3>1, <4>1 DEF Configure
      <3>2. ASSUME NEW pc \in {"work", "fail"}, Progress(k, pc)
            PROVE  run'[r].lease = run[r].lease
        <4>1. [run[handler[k].run] EXCEPT !.done = handler[k].count + 1, !.quiet = 0].lease
                = run[handler[k].run].lease
          BY <3>0, <3>2 DEF Progress, RunRow
        <4> QED BY <2>6, <3>2, <4>1 DEF Progress
      <3>3. ASSUME NEW pc \in {"returned", "fail"}, Complete(k, pc)
            PROVE  run'[r].lease = run[r].lease
        <4>1. [run[handler[k].run] EXCEPT !.status = "completed", !.report = handler[k].lease,
                                          !.done = Questions, !.quiet = 0].lease
                = run[handler[k].run].lease
          BY <3>0, <3>3 DEF Complete, RunRow
        <4> QED BY <2>6, <3>3, <4>1 DEF Complete
      <3>4. CASE WorkFails(k) \/ Finish(k) \/ WorkerCrash(k) \/ StatementFails(k)
        BY <3>4 DEF WorkFails, Finish, WorkerCrash, StatementFails
      <3> QED BY <2>5, <2>7, <2>9, <3>1, <3>2, <3>3, <3>4 DEF HandlerStep
    <2>10. CASE Step
      <3>1. ASSUME \/ \E s \in Runs : SendNothing(s)
                   \/ Reconcile
                   \/ \E s \in Runs, j \in Jobs : Send(s, j)
                   \/ \E k \in Handlers, j \in Jobs : Deliver(k, j)
                   \/ \E j \in Jobs : Expire(j)
            PROVE  run'[r] = run[r]
        BY <3>1 DEF SendNothing, Reconcile, Send, Deliver, Expire
      <3> QED BY <2>1, <2>2, <2>3, <2>4, <2>9, <2>10, <3>1 DEF Step
    <2> QED BY <2>8, <2>10 DEF Next
  <1> QED BY <1>1, Invariance, PTL DEF Spec, DuplicatesDoNotFence
=============================================================================
