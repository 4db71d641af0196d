---------------------------- MODULE SecurityMonitor ----------------------------
(***************************************************************************)
(* The worker's security monitor: once a minute a pass prints the rows     *)
(* above its cursor, mails the alerts they raise and moves the cursor.     *)
(* Passes of two workers, and passes that a deadline has abandoned, meet   *)
(* at a session-level advisory lock.                                       *)
(***************************************************************************)
EXTENDS SecurityEvents, FiniteSets

CONSTANTS
    Workers,            \* worker processes, old and new during a deploy
    Passes,             \* passes in progress, at most
    BatchSize,          \* BATCH_SIZE
    Freshness,          \* ALERT_FRESHNESS_MS, in ticks of the clock
    PassesBeforeAlert,  \* FAILED_PASSES_BEFORE_ALERT
    Alerting,           \* sequence numbers of the events that match an alert rule
    MaxFaults           \* bound on crashes, lost sessions, hangs and failed statements

ASSUME MonitorAssumption ==
    /\ BatchSize \in Nat \ {0} /\ Freshness \in Nat /\ PassesBeforeAlert \in Nat \ {0}
    /\ MaxFaults \in Nat /\ None \notin Passes

VARIABLES
    state,        \* the row of security_monitor_state; advanced = None: no row yet
    monitorLock,  \* the pass whose session holds the lock
    pass,
    worker,       \* startSecurityMonitor's variables
    printed,      \* events in the worker's log
    announced,    \* events in an alert mail that was sent
    faults,
    sessionLost,  \* history: a session lost the lock under its pass
    installed     \* history: when the row was first written

monitorVars == <<state, monitorLock, pass, worker, printed, announced, faults,
                 sessionLost, installed>>
vars == <<eventVars, clock, monitorVars>>

Pass == [pc     : {"off", "starting", "locked", "reading", "mailing", "advancing",
                   "unlocking", "hung"},
         by     : Workers \cup {None},
         last   : 0..MaxSeq,      \* the cursor it read
         anchor : 0..MaxClock,    \* advancedAtMs
         newest : 0..MaxSeq,      \* the last row of its batch, or the cursor
         batch  : SUBSET Row]
NoPass == [pc |-> "off", by |-> None, last |-> 0, anchor |-> 0, newest |-> 0, batch |-> {}]

\* running, failedPasses (as far as it is compared) and failureAlerted.
Worker == [running : Passes \cup {None}, failed : 0..PassesBeforeAlert, told : BOOLEAN]
Fresh == [running |-> None, failed |-> 0, told |-> FALSE]

TypeOK ==
    /\ EventsTypeOK
    /\ state \in [last : 0..MaxSeq, advanced : (0..MaxClock) \cup {None}]
    /\ monitorLock \in Passes \cup {None}
    /\ pass \in [Passes -> Pass]
    /\ worker \in [Workers -> Worker]
    /\ printed \in SUBSET (1..MaxSeq)
    /\ announced \in SUBSET printed
    /\ faults \in 0..MaxFaults
    /\ sessionLost \in BOOLEAN
    /\ installed \in (0..MaxClock) \cup {None}

Init ==
    /\ EventsInit
    /\ state = [last |-> 0, advanced |-> None]
    /\ monitorLock = None
    /\ pass = [p \in Passes |-> NoPass]
    /\ worker = [w \in Workers |-> Fresh]
    /\ printed = {}
    /\ announced = {}
    /\ faults = 0
    /\ sessionLost = FALSE
    /\ installed = None

----------------------------------------------------------------------------
(* The timer *)

\* setInterval: nothing while the last pass runs.
Tick(w, p) ==
    /\ worker[w].running = None
    /\ pass[p].pc = "off"
    /\ worker' = [worker EXCEPT ![w].running = p]
    /\ pass' = [pass EXCEPT ![p] = [NoPass EXCEPT !.pc = "starting", !.by = w]]
    /\ UNCHANGED <<state, monitorLock, printed, announced, faults, sessionLost, installed>>

Runs(w, p) == worker[w].running = p

\* The catch block: the failure is counted, and once there are enough of them it
\* is mailed, until a mail is sent. A mail that fails is a fault.
CountFailure(w, cost) ==
    LET failed == IF worker[w].failed < PassesBeforeAlert THEN worker[w].failed + 1
                                                          ELSE PassesBeforeAlert
        After(told) == [worker EXCEPT ![w] = [running |-> None, failed |-> failed, told |-> told]]
    IN  \/ /\ worker' = After(worker[w].told \/ failed = PassesBeforeAlert)
           /\ faults' = faults + cost
        \/ /\ failed = PassesBeforeAlert /\ ~worker[w].told
           /\ faults + cost < MaxFaults
           /\ worker' = After(FALSE)
           /\ faults' = faults + cost + 1

\* The outcome of pass p reaches its worker, unless the deadline was first.
Succeeds(p) ==
    /\ worker' = [w \in Workers |-> IF Runs(w, p) THEN Fresh ELSE worker[w]]
    /\ faults' = faults
Fails(p, cost) ==
    \/ \E w \in Workers : Runs(w, p) /\ CountFailure(w, cost)
    \/ /\ \A w \in Workers : ~Runs(w, p)
       /\ UNCHANGED worker
       /\ faults' = faults + cost

\* withDeadline rejects: the worker counts a failure, the pass goes on.
Deadline(w) ==
    /\ worker[w].running # None
    /\ CountFailure(w, 0)
    /\ UNCHANGED <<state, monitorLock, pass, printed, announced, sessionLost, installed>>

----------------------------------------------------------------------------
(* A pass *)

At(p, pc) == pass[p].pc = pc
Goes(p, pc) == pass' = [pass EXCEPT ![p].pc = pc]
Ends(p) == pass' = [pass EXCEPT ![p] = NoPass]
Released(p) == IF monitorLock = p THEN None ELSE monitorLock
rowFrame == <<state, installed, sessionLost>>
mailFrame == <<printed, announced>>

Lock(p) ==
    /\ At(p, "starting") /\ monitorLock = None
    /\ monitorLock' = p
    /\ Goes(p, "locked")
    /\ UNCHANGED <<worker, faults, rowFrame, mailFrame>>

\* Mutant: a pass that found the lock taken is a pass that succeeded.
BusySucceeds(p) ==
    /\ At(p, "starting") /\ monitorLock # None
    /\ Ends(p)
    /\ Succeeds(p)
    /\ UNCHANGED <<monitorLock, rowFrame, mailFrame>>

\* pg_try_advisory_lock says no: "another security monitor pass holds the lock".
Busy(p) ==
    /\ At(p, "starting") /\ monitorLock # None
    /\ Ends(p)
    /\ Fails(p, 0)
    /\ UNCHANGED <<monitorLock, rowFrame, mailFrame>>

\* Mutant: what is fresh is measured from now.
ReadCursorByClock(p) ==
    /\ At(p, "locked")
    /\ pass' = [pass EXCEPT ![p].pc = "reading", ![p].last = state.last, ![p].anchor = clock]
    /\ UNCHANGED <<monitorLock, worker, faults, rowFrame, mailFrame>>

\* last_sequence and updated_at, or zero and now when there is no row.
Anchor == IF state.advanced = None THEN clock ELSE state.advanced
ReadCursor(p) ==
    /\ At(p, "locked")
    /\ pass' = [pass EXCEPT ![p].pc = "reading", ![p].last = state.last, ![p].anchor = Anchor]
    /\ UNCHANGED <<monitorLock, worker, faults, rowFrame, mailFrame>>

\* The committed rows above the cursor, at most BatchSize of them in sequence
\* order, are read and printed.
Above(last, newest) == {e \in events : last < e.seq /\ e.seq <= newest}
ReadBatch(p) ==
    /\ At(p, "reading")
    /\ \E n \in {pass[p].last} \cup {e.seq : e \in events} :
         LET batch == Above(pass[p].last, n) IN
         /\ pass[p].last <= n
         /\ Cardinality(batch) <= BatchSize
         /\ Cardinality(batch) = BatchSize \/ \A e \in events : e.seq <= n
         /\ pass' = [pass EXCEPT ![p].pc = "mailing", ![p].newest = n, ![p].batch = batch]
         /\ printed' = printed \cup {e.seq : e \in batch}
    /\ UNCHANGED <<monitorLock, worker, announced, faults, rowFrame>>

\* eventAlerts: rows that match a rule and are not older than Freshness at the anchor.
Alerts(p) == {e \in pass[p].batch : e.seq \in Alerting /\ pass[p].anchor <= e.at + Freshness}

\* The alerts of the batch, with those of the windows, were mailed (or none was due).
Mail(p) ==
    /\ At(p, "mailing")
    /\ announced' = announced \cup {e.seq : e \in Alerts(p)}
    /\ Goes(p, "advancing")
    /\ UNCHANGED <<monitorLock, worker, printed, faults, rowFrame>>

\* The upsert of the cursor with the time, when the batch has a row.
AdvanceTo(p, n) ==
    /\ At(p, "advancing")
    /\ IF pass[p].batch = {}
         THEN UNCHANGED <<state, installed>>
         ELSE /\ state' = [last |-> n, advanced |-> clock]
              /\ installed' = IF state.advanced = None THEN clock ELSE installed
    /\ Goes(p, "unlocking")
    /\ UNCHANGED <<monitorLock, worker, faults, sessionLost, mailFrame>>

Advance(p) == AdvanceTo(p, IF pass[p].newest > state.last THEN pass[p].newest ELSE state.last)

Unlock(p) ==
    /\ At(p, "unlocking")
    /\ monitorLock' = Released(p)
    /\ Ends(p)
    /\ Succeeds(p)
    /\ UNCHANGED <<rowFrame, mailFrame>>

\* Mutant: the lock is released on success only.
ThrowsLocked(p) ==
    /\ pass[p].pc \notin {"off", "hung", "unlocking"} /\ faults < MaxFaults
    /\ Ends(p)
    /\ Fails(p, 1)
    /\ UNCHANGED <<monitorLock, rowFrame, mailFrame>>

\* A statement or the mail fails; the lock is released all the same. (A failed
\* unlock is caught, and its session destroyed.)
Throws(p) ==
    /\ pass[p].pc \notin {"off", "hung", "unlocking"} /\ faults < MaxFaults
    /\ monitorLock' = Released(p)
    /\ Ends(p)
    /\ Fails(p, 1)
    /\ UNCHANGED <<rowFrame, mailFrame>>

PassStep(p) ==
    \/ Lock(p) \/ Busy(p) \/ ReadCursor(p) \/ ReadBatch(p) \/ Mail(p) \/ Advance(p)
    \/ Unlock(p)

----------------------------------------------------------------------------
(* Faults *)

\* A call that never returns: neither the pool nor a query has a timeout.
Hang(p) ==
    /\ pass[p].pc \notin {"off", "hung"} /\ faults < MaxFaults
    /\ Goes(p, "hung")
    /\ faults' = faults + 1
    /\ UNCHANGED <<monitorLock, worker, rowFrame, mailFrame>>

\* The worker exits: its sessions end, and another one starts in its place.
Crash(w) ==
    /\ faults < MaxFaults
    /\ faults' = faults + 1
    /\ worker' = [worker EXCEPT ![w] = Fresh]
    /\ pass' = [p \in Passes |-> IF pass[p].by = w THEN NoPass ELSE pass[p]]
    /\ monitorLock' = IF \E p \in Passes : monitorLock = p /\ pass[p].by = w
                        THEN None ELSE monitorLock
    /\ UNCHANGED <<rowFrame, mailFrame>>

\* The session that holds the lock ends; the pass works on through the pool.
SessionLost ==
    /\ monitorLock # None
    /\ faults < MaxFaults
    /\ faults' = faults + 1
    /\ monitorLock' = None
    /\ sessionLost' = TRUE
    /\ UNCHANGED <<state, installed, pass, worker, mailFrame>>

MonitorStep ==
    \/ \E w \in Workers, p \in Passes : Tick(w, p)
    \/ \E w \in Workers : Deadline(w) \/ Crash(w)
    \/ \E p \in Passes : PassStep(p) \/ Throws(p) \/ Hang(p)
    \/ SessionLost

----------------------------------------------------------------------------
ClockTick ==
    /\ clock < MaxClock
    /\ clock' = clock + 1
    /\ UNCHANGED <<eventVars, monitorVars>>

Step ==
    \/ (\E t \in Txs : TxStep(t)) /\ UNCHANGED monitorVars
    \/ MonitorStep /\ UNCHANGED <<eventVars, clock>>

Next == Step \/ ClockTick

Spec == Init /\ [][Next]_vars

\* Transactions and passes are shorter than a tick, which is half an hour or more.
PromptTick ==
    /\ \A t \in Txs : tx[t] = NoTx
    /\ \A p \in Passes : At(p, "off")
    /\ ClockTick
PromptSpec == Init /\ [][Step \/ PromptTick]_vars

\* The timer and the deadline fire, and a pass that does not hang goes on.
FairSpec ==
    /\ Spec
    /\ \A w \in Workers :
         /\ WF_vars((\E p \in Passes : Tick(w, p)) /\ UNCHANGED <<eventVars, clock>>)
         /\ WF_vars(Deadline(w) /\ UNCHANGED <<eventVars, clock>>)
    /\ \A p \in Passes : WF_vars(PassStep(p) /\ UNCHANGED <<eventVars, clock>>)

----------------------------------------------------------------------------
(* Properties *)

\* The cursor never passes a committed event that was not printed, whatever the
\* order in which transactions number and commit their rows and passes overlap.
NothingSkipped == \A e \in events : e.seq <= state.last => e.seq \in printed

\* "The cursor advances only after the alerts for the batch were delivered": an
\* event that matches a rule and is fresh against the row it passes is announced.
FreshIsAnnounced ==
    [][\A e \in events :
         state.last < e.seq /\ e.seq <= state'.last
           /\ e.seq \in Alerting /\ Anchor <= e.at + Freshness
         => e.seq \in announced]_vars

\* "both would otherwise email the same batch": while no session is lost, a pass
\* that has read the cursor is the only one, and the cursor is still what it read.
Reading == {p \in Passes : pass[p].pc \in {"reading", "mailing", "advancing"}}
OnePassReads ==
    ~sessionLost => \A p \in Reading : monitorLock = p /\ pass[p].last = state.last

\* The cursor never goes back, also when a late pass of a lost session writes it.
CursorStays == [][state.last <= state'.last]_vars

\* What makes them inductive: a batch is what the cursor's reader saw between two
\* numbers, printed, and no later row can appear below its end.
BatchIsWhole(p) ==
    /\ pass[p].pc \in {"mailing", "advancing"} =>
         /\ pass[p].last <= pass[p].newest
         /\ pass[p].batch = Above(pass[p].last, pass[p].newest)
         /\ \A e \in pass[p].batch : e.seq \in printed
         /\ pass[p].newest = pass[p].last \/ \E e \in events : e.seq = pass[p].newest
    /\ p \in Reading =>
         /\ pass[p].last <= state.last
         /\ pass[p].anchor <= Anchor
    /\ pass[p].pc = "advancing" => \A e \in Alerts(p) : e.seq \in announced

CursorIsCommitted ==
    /\ state.last = 0 \/ \E e \in events : e.seq = state.last
    /\ state.advanced # None => state.advanced <= clock
    /\ state.advanced = None => state.last = 0

Held == {"locked", "reading", "mailing", "advancing", "unlocking"}
OneHolds ==
    ~sessionLost => \A p \in Passes : pass[p].pc \in Held => monitorLock = p

IndInv ==
    /\ TypeOK
    /\ ChainInv
    /\ NothingSkipped
    /\ OnePassReads
    /\ \A p \in Passes : BatchIsWhole(p)
    /\ CursorIsCommitted
    /\ OneHolds

\* "events written while the worker was down are alerted when it comes back", and
\* "keeps a batch alertable while its email keeps failing": an event that matches
\* a rule and happened after the monitor was installed is announced by the time
\* the cursor has passed it.
OutagesAreAnnounced ==
    \A e \in events :
        /\ e.seq <= state.last /\ e.seq \in Alerting
        /\ installed # None /\ installed <= e.at
        => e.seq \in announced

\* Every event is printed and passed in the end, unless a hung pass has the lock.
HungWithLock(p) == At(p, "hung") /\ monitorLock = p
EventsAreExported ==
    \A n \in 1..MaxSeq :
        (\E e \in events : e.seq = n) ~> n <= state.last \/ \E p \in Passes : HungWithLock(p)

\* "while it still holds the lock, later passes fail too, so a stalled database or
\* email call ends in the security_monitor_failing alert".
StallsAreTold ==
    \A p \in Passes : HungWithLock(p) ~> (\E w \in Workers : worker[w].told) \/ ~HungWithLock(p)
=============================================================================
