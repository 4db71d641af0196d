------------------------------ MODULE EvidenceRuns ------------------------------
(***************************************************************************)
(* The evidence harness: what one run on the worker does, from the         *)
(* receipts of the automated checks over the alert lines and attestation   *)
(* reminders to the monthly summaries and their emails.                    *)
(*                                                                         *)
(* A run works under the try-lock truenote.evidence.run and keeps what it  *)
(* still has to tell in app_settings: the undelivered lines, the due       *)
(* periods already reminded, and per month the recipients that have the    *)
(* summary.  A run may end between any two of its steps, and its session,  *)
(* with the lock, may be lost while it works on.                           *)
(*                                                                         *)
(* Time is counted in days.  The text of receipts, lines and emails is     *)
(* left out, and receipts of other kinds (attestations, summaries) are     *)
(* kept apart from those of the automated checks, as the queries do.       *)
(***************************************************************************)
EXTENDS Integers, Sequences, FiniteSets, Functions

CONSTANTS
    Checks,        \* the automated checks
    Attestations,  \* the checks the owner attests
    Recipients,    \* the configured addresses, numbered in their order
    Workers,       \* executions of the job handler
    Period,        \* days after which an attestation is due again
    DaysPerMonth,
    MaxChecks,     \* the checks a request may list
    MaxPending,    \* MAX_PENDING_LINES
    CatchUp,       \* MAX_CATCH_UP_MONTHS
    EmailMonths,   \* EMAIL_MONTHS
    LastDay,       \* bound: the days of a behaviour
    MaxRuns,       \* bound: runs that take the lock
    MaxOutside,    \* bound: gap links made or retired, attestations made
    MaxFaults,     \* bound: failures, deaths and lost sessions
    None

ASSUME EvidenceAssumption ==
    /\ Recipients \subseteq Nat /\ Recipients # {} /\ IsFiniteSet(Recipients)
    /\ IsFiniteSet(Attestations)
    /\ Period \in Nat \ {0} /\ DaysPerMonth \in Nat \ {0}
    /\ MaxPending \in Nat \ {0} /\ CatchUp \in Nat \ {0} /\ EmailMonths \in Nat \ {0}
    /\ LastDay \in Nat /\ MaxRuns \in Nat /\ MaxOutside \in Nat /\ MaxFaults \in Nat
    /\ None \notin Workers \cup Nat

\* The run of the timer lists every check.
ASSUME ListAssumption ==
    MaxChecks \in Nat /\ IsFiniteSet(Checks) /\ Cardinality(Checks) <= MaxChecks

VARIABLES
    day,
    receipts,   \* the receipts of automated checks, in sequence order
    links,      \* evidence_known_gaps
    attested,   \* the day of the latest pass of an attestation
    pending,    \* the undelivered lines, evidence_pending_alert
    reminded,   \* the due periods reminded, evidence_attestation_reminders
    summaries,  \* the summary receipts, in sequence order
    sent,       \* the send records, evidence_summary_email_<month>
    lock,       \* who holds truenote.evidence.run
    run,        \* the executions
    runs, outside, faults,   \* counters
    queued,     \* history: the lines ever made pending, in order
    mailed,     \* history: which line was mailed to whom
    letters,    \* history: how often a month's summary was mailed to whom,
                \*          and how often the run then wrote no send record
    unheard,    \* history: the runs that ended before the lines of their receipts were pending
    lost        \* history: a session was lost while its run went on

alerting == <<pending, reminded, queued, mailed, unheard>>
monthly == <<summaries, sent, letters>>
world == <<day, links, attested, outside>>
vars == <<world, receipts, alerting, monthly, lock, run, runs, faults, lost>>

Month(d) == 1 + d \div DaysPerMonth
Months == 0..Month(LastDay)
NoExpiry == LastDay + 1

First(x, S) == x \in S /\ \A y \in S : x <= y
Greatest(S) == CHOOSE x \in S : \A y \in S : x >= y

Receipt ==
    [check : Checks, result : {"pass", "fail", "error"}, day : 0..LastDay, run : 1..MaxRuns]

\* A due period of an attestation is the day it began; None is "never".
Periods == 0..(LastDay + Period) \cup {None}

\* A line names its check and the run, or the attestation and its due period.
Line ==
    [what : {"new-failure", "gap-expired", "repeated-error", "recovered"},
     of : Checks, at : 1..MaxRuns]
    \cup [what : {"reminder"}, of : Attestations, at : Periods]

Due == UNION {[D -> Periods] : D \in SUBSET Attestations}

NoDue == [a \in {} |-> None]

RunRow ==
    [at     : {"idle", "checking", "classifying", "reading", "queueing", "sending", "passes",
               "recalling", "remembering", "catching up", "storing", "looking", "mailing",
               "marking"},
     phase  : {"alert", "remind", "summary"},
     no     : 0..MaxRuns,
     left   : Seq(Checks),              \* checks still to run
     mine   : SUBSET (DOMAIN receipts), \* the receipts of this run
     lines  : Seq(Line),                \* the lines it adds, then all it sends
     old    : Nat,                      \* how many of those were pending before
     to     : SUBSET Recipients,        \* recipients still to be mailed
     due    : Due,
     toMake : SUBSET Months,            \* summaries still to append
     month  : Int,                      \* the month whose emails are looked at
     last   : Int]                      \* the month before the summaries' now

Idle == [at |-> "idle", phase |-> "alert", no |-> 0, left |-> <<>>, mine |-> {}, lines |-> <<>>,
         old |-> 0, to |-> {}, due |-> NoDue, toMake |-> {}, month |-> 0, last |-> 0]

TypeOK ==
    /\ day \in 0..LastDay
    /\ receipts \in Seq(Receipt)
    /\ links \subseteq [check : Checks, expires : 0..NoExpiry, retired : BOOLEAN]
    /\ attested \in [Attestations -> 0..LastDay \cup {None}]
    /\ pending \in Seq(Line) /\ queued \in Seq(Line)
    /\ reminded \in Due
    /\ mailed \subseteq Line \X Recipients
    /\ summaries \in Seq([month : Months, at : Months])
    /\ sent \in [Months -> SUBSET Recipients]
    /\ letters \in [Months -> [Recipients -> [mailed : Nat, unrecorded : Nat]]]
    /\ lock \in Workers \cup {None}
    /\ run \in [Workers -> RunRow]
    /\ runs \in 0..MaxRuns /\ outside \in 0..MaxOutside /\ faults \in 0..MaxFaults
    /\ unheard \subseteq 1..MaxRuns /\ lost \in BOOLEAN

Init ==
    /\ day = 0 /\ receipts = <<>> /\ links = {} /\ attested = [a \in Attestations |-> None]
    /\ pending = <<>> /\ reminded = NoDue /\ queued = <<>> /\ mailed = {}
    /\ summaries = <<>> /\ sent = [m \in Months |-> {}]
    /\ letters = [m \in Months |-> [x \in Recipients |-> [mailed |-> 0, unrecorded |-> 0]]]
    /\ lock = None /\ run = [w \in Workers |-> Idle]
    /\ runs = 0 /\ outside = 0 /\ faults = 0 /\ unheard = {} /\ lost = FALSE

-------------------------------------------------------------------------------
(* What happens outside the runs.                                           *)

NextDay ==
    /\ day < LastDay
    /\ day' = day + 1
    /\ UNCHANGED <<links, attested, outside, receipts, alerting, monthly, lock, run, runs, faults,
                   lost>>

Outside ==
    /\ outside < MaxOutside
    /\ outside' = outside + 1
    /\ UNCHANGED <<day, receipts, alerting, monthly, lock, run, runs, faults, lost>>

\* Two active links of one check and one expiry are not told apart.
LinkGap(c, e) ==
    /\ [check |-> c, expires |-> e, retired |-> FALSE] \notin links
    /\ links' = links \cup {[check |-> c, expires |-> e, retired |-> FALSE]}
    /\ Outside
    /\ UNCHANGED attested

RetireGap(l) ==
    /\ ~l.retired
    /\ links' = (links \ {l}) \cup {[l EXCEPT !.retired = TRUE]}
    /\ Outside
    /\ UNCHANGED attested

Attest(a) ==
    /\ attested' = [attested EXCEPT ![a] = day]
    /\ Outside
    /\ UNCHANGED links

-------------------------------------------------------------------------------
(* The phases of a run; the end of one, also after an error, is the start   *)
(* of the next.  The run ends by unlocking, if the lock is still its own.   *)

Released(w) == IF lock = w THEN None ELSE lock

Following(w) ==
    IF run[w].phase = "alert"
    THEN [Idle EXCEPT !.no = run[w].no, !.phase = "remind", !.at = "passes"]
    ELSE [Idle EXCEPT !.no = run[w].no, !.phase = "summary", !.at = "catching up"]

Goes(w, row) == run' = [run EXCEPT ![w] = row]

\* The summaries are done: the handler returns.
Returns(w) == Goes(w, Idle) /\ lock' = Released(w)

\* What a run may be asked for: all checks, or the list of a request, in which
\* an id may come twice and from which retired ones are left out.
Lists == UNION {[1..n -> Checks] : n \in 0..MaxChecks}

Start(w, ids) ==
    /\ run[w].at = "idle" /\ lock = None /\ runs < MaxRuns
    /\ runs' = runs + 1
    /\ lock' = w
    /\ Goes(w, [Idle EXCEPT !.at = IF ids = <<>> THEN "classifying" ELSE "checking",
                            !.no = runs + 1, !.left = ids])
    /\ UNCHANGED <<world, receipts, alerting, monthly, faults, lost>>

\* runOneCheck: a check that throws or times out is an error.
Check(w, result) ==
    /\ run[w].at = "checking" /\ run[w].left # <<>>
    /\ receipts' = Append(receipts, [check |-> Head(run[w].left), result |-> result,
                                   day |-> day, run |-> run[w].no])
    /\ Goes(w, [run[w] EXCEPT !.left = Tail(@),
                              !.mine = @ \cup {Len(receipts) + 1},
                              !.at = IF Len(run[w].left) = 1 THEN "classifying" ELSE "checking"])
    /\ UNCHANGED <<world, alerting, monthly, lock, runs, faults, lost>>

-------------------------------------------------------------------------------
(* The alert email.                                                         *)

\* The places of the receipts of c before the run's own first one.
Prior(c, first) == {i \in 1..(first - 1) : receipts[i].check = c}

Earlier(prior) == prior \ {Greatest(prior)}

Expiries(c) == {l.expires : l \in {k \in links : k.check = c /\ ~k.retired}}

\* classify; the latest-expiring link counts.
Expired(c, prior) ==
    /\ Expiries(c) # {} /\ Greatest(Expiries(c)) < day
    /\ prior # {} /\ receipts[Greatest(prior)].day <= Greatest(Expiries(c))

KnownGap(c) == Expiries(c) # {} /\ Greatest(Expiries(c)) >= day

WasResult(prior, result) == prior # {} /\ receipts[Greatest(prior)].result = result

ErrsAgain(prior) == WasResult(prior, "error") /\ ~WasResult(Earlier(prior), "error")

\* Mutant: the expiry of a link is not looked at.
NoticeWithoutExpiry(r, prior) ==
    CASE r.result = "fail" /\ ~WasResult(prior, "fail") /\ ~KnownGap(r.check) -> "new-failure"
      [] r.result = "error" /\ ErrsAgain(prior) -> "repeated-error"
      [] r.result = "pass" /\ prior # {} /\ ~WasResult(prior, "pass") -> "recovered"
      [] OTHER -> "unchanged"

Notice(r, prior) ==
    CASE r.result = "fail" /\ Expired(r.check, prior) -> "gap-expired"
      [] r.result = "fail" /\ ~Expired(r.check, prior)
            /\ ~WasResult(prior, "fail") /\ ~KnownGap(r.check) -> "new-failure"
      [] r.result = "error" /\ ErrsAgain(prior) -> "repeated-error"
      [] r.result = "pass" /\ prior # {} /\ ~WasResult(prior, "pass") -> "recovered"
      [] OTHER -> "unchanged"

Attention == {"new-failure", "gap-expired", "repeated-error"}

\* The notice of a receipt of the run, by the receipts before the run's first.
NoticeOf(w, i) ==
    LET first == CHOOSE j \in run[w].mine : First(j, run[w].mine)
    IN  Notice(receipts[i], Prior(receipts[i].check, first))

Noted(w, notices) == {i \in run[w].mine : NoticeOf(w, i) \in notices}

InOrder(S) == {s \in [1..Cardinality(S) -> S] : \A i, j \in DOMAIN s : i < j => s[i] < s[j]}

LinesOf(w, told) ==
    [k \in DOMAIN told |->
        [what |-> NoticeOf(w, told[k]), of |-> receipts[told[k]].check, at |-> run[w].no]]

\* alertLines: recoveries only beside something that needs attention.
Classify(w) ==
    /\ run[w].at = "classifying"
    /\ \E told \in InOrder(Noted(w, Attention)) : \E back \in InOrder(Noted(w, {"recovered"})) :
          Goes(w, [run[w] EXCEPT !.at = "reading", !.mine = {},
                                 !.lines = IF Noted(w, Attention) = {} THEN <<>>
                                           ELSE LinesOf(w, told) \o LinesOf(w, back)])
    /\ UNCHANGED <<world, receipts, alerting, monthly, lock, runs, faults, lost>>

ReadPending(w) ==
    /\ run[w].at = "reading"
    /\ LET all == pending \o run[w].lines
       IN  Goes(w, IF all = <<>> THEN Following(w)
                   ELSE [run[w] EXCEPT !.lines = all, !.old = Len(pending), !.to = Recipients,
                                       !.at = IF run[w].lines = <<>> THEN "sending"
                                              ELSE "queueing"])
    /\ UNCHANGED <<world, receipts, alerting, monthly, lock, runs, faults, lost>>

Youngest(s, n) == IF Len(s) <= n THEN s ELSE SubSeq(s, Len(s) - n + 1, Len(s))

Fresh(w) == SubSeq(run[w].lines, run[w].old + 1, Len(run[w].lines))

\* Mutant: the remembered periods are left to a later statement.
QueueAlone(w) ==
    /\ run[w].at = "queueing"
    /\ pending' = Youngest(run[w].lines, MaxPending)
    /\ queued' = queued \o Fresh(w)
    /\ Goes(w, [run[w] EXCEPT !.at = "sending"])
    /\ UNCHANGED <<world, receipts, reminded, mailed, unheard, monthly, lock, runs, faults, lost>>

\* writePending; for reminders in one transaction with the remembered periods.
Queue(w) ==
    /\ run[w].at = "queueing"
    /\ pending' = Youngest(run[w].lines, MaxPending)
    /\ queued' = queued \o Fresh(w)
    /\ reminded' = IF run[w].phase = "remind" THEN run[w].due ELSE reminded
    /\ Goes(w, [run[w] EXCEPT !.at = "sending"])
    /\ UNCHANGED <<world, receipts, mailed, unheard, monthly, lock, runs, faults, lost>>

Send(w) ==
    /\ run[w].at = "sending"
    /\ \E x \in run[w].to :
          /\ First(x, run[w].to)
          /\ mailed' = mailed \cup (Range(run[w].lines) \X {x})
          /\ Goes(w, [run[w] EXCEPT !.to = @ \ {x}])
    /\ UNCHANGED <<world, receipts, pending, reminded, queued, unheard, monthly, lock, runs, faults,
                   lost>>

\* Mutant: the lines are cleared before every recipient has them.
ClearEarly(w) ==
    /\ run[w].at = "sending" /\ run[w].to # Recipients
    /\ pending' = <<>>
    /\ Goes(w, Following(w))
    /\ UNCHANGED <<world, receipts, reminded, queued, mailed, unheard, monthly, lock, runs, faults,
                   lost>>

Clear(w) ==
    /\ run[w].at = "sending" /\ run[w].to = {}
    /\ pending' = <<>>
    /\ Goes(w, Following(w))
    /\ UNCHANGED <<world, receipts, reminded, queued, mailed, unheard, monthly, lock, runs, faults,
                   lost>>

-------------------------------------------------------------------------------
(* The attestation reminders.                                               *)

DueNow ==
    [a \in {b \in Attestations : attested[b] = None \/ day >= attested[b] + Period} |->
        IF attested[a] = None THEN None ELSE attested[a] + Period]

ReadPasses(w) ==
    /\ run[w].at = "passes"
    /\ Goes(w, [run[w] EXCEPT !.at = "recalling", !.due = DueNow])
    /\ UNCHANGED <<world, receipts, alerting, monthly, lock, runs, faults, lost>>

Reminder(a, period) == [what |-> "reminder", of |-> a, at |-> period]

\* The catalog fixes one order of the attestations; here it is any.
Listings(S) ==
    {s \in [1..Cardinality(S) -> S] : Range(s) = S /\ \A i, j \in DOMAIN s : s[i] = s[j] => i = j}

Recall(w) ==
    /\ run[w].at = "recalling"
    /\ LET due == run[w].due
           news == {a \in DOMAIN due : a \notin DOMAIN reminded \/ reminded[a] # due[a]}
       IN  IF news # {}
           THEN \E order \in Listings(news) :
                   Goes(w, [run[w] EXCEPT !.at = "reading",
                                          !.lines = [k \in DOMAIN order |->
                                                        Reminder(order[k], due[order[k]])]])
           ELSE Goes(w, IF due # reminded THEN [run[w] EXCEPT !.at = "remembering"]
                        ELSE Following(w))
    /\ UNCHANGED <<world, receipts, alerting, monthly, lock, runs, faults, lost>>

\* A check attested since drops out of the remembered periods.
Remember(w) ==
    /\ run[w].at = "remembering"
    /\ reminded' = run[w].due
    /\ Goes(w, Following(w))
    /\ UNCHANGED <<world, receipts, pending, queued, mailed, unheard, monthly, lock, runs, faults,
                   lost>>

-------------------------------------------------------------------------------
(* The monthly summaries.                                                   *)

Summarised == {summaries[i].month : i \in DOMAIN summaries}

\* monthsToCreate: after the newest summary up to the month before, the most
\* recent few of them.
MonthsToCreate(last) ==
    IF Summarised = {} THEN {last}
    ELSE {m \in Months : /\ \A n \in Summarised : m > n
                         /\ m <= last /\ m > last - CatchUp}

LookForMonths(w) ==
    /\ run[w].at = "catching up"
    /\ LET last == Month(day) - 1
           toMake == MonthsToCreate(last)
       IN  Goes(w, [run[w] EXCEPT !.last = last, !.month = last - EmailMonths + 1,
                                  !.toMake = toMake,
                                  !.at = IF toMake = {} THEN "looking" ELSE "storing"])
    /\ UNCHANGED <<world, receipts, alerting, monthly, lock, runs, faults, lost>>

\* Mutant: whether the month has a summary was decided before the chain lock.
StoreBlindly(w) ==
    /\ run[w].at = "storing"
    /\ \E m \in run[w].toMake :
          /\ First(m, run[w].toMake)
          /\ summaries' = Append(summaries, [month |-> m, at |-> Month(day)])
          /\ Goes(w, [run[w] EXCEPT !.toMake = @ \ {m},
                                    !.at = IF run[w].toMake = {m} THEN "looking" ELSE "storing"])
    /\ UNCHANGED <<world, receipts, alerting, sent, letters, lock, runs, faults, lost>>

\* storeSummary: one transaction under the chain lock, oldest month first.
Store(w) ==
    /\ run[w].at = "storing"
    /\ \E m \in run[w].toMake :
          /\ First(m, run[w].toMake)
          /\ summaries' = IF m \in Summarised THEN summaries
                          ELSE Append(summaries, [month |-> m, at |-> Month(day)])
          /\ Goes(w, [run[w] EXCEPT !.toMake = @ \ {m},
                                    !.at = IF run[w].toMake = {m} THEN "looking" ELSE "storing"])
    /\ UNCHANGED <<world, receipts, alerting, sent, letters, lock, runs, faults, lost>>

\* The next month to look at, or the end of the run.
Onward(w) ==
    IF run[w].month = run[w].last THEN Returns(w)
    ELSE /\ Goes(w, [run[w] EXCEPT !.month = @ + 1, !.to = {}, !.at = "looking"])
         /\ UNCHANGED lock

\* The recipients of the month without a send record, if it has a summary.
Unserved(m) == IF m \in Summarised THEN Recipients \ sent[m] ELSE {}

Look(w) ==
    /\ run[w].at = "looking"
    /\ IF Unserved(run[w].month) = {} THEN Onward(w)
       ELSE /\ Goes(w, [run[w] EXCEPT !.to = Unserved(run[w].month), !.at = "mailing"])
            /\ UNCHANGED lock
    /\ UNCHANGED <<world, receipts, alerting, monthly, runs, faults, lost>>

\* One recipient is done with, served or not.
Past(w, x) ==
    IF run[w].to = {x} THEN Onward(w)
    ELSE /\ Goes(w, [run[w] EXCEPT !.to = @ \ {x}, !.at = "mailing"])
         /\ UNCHANGED lock

\* What the history notes of an email: that it went out, that it gets no record.
Counted(w, x, out, unrecorded) ==
    [letters EXCEPT ![run[w].month][x] =
        [mailed |-> @.mailed + out, unrecorded |-> @.unrecorded + unrecorded]]

Mail(w) ==
    /\ run[w].at = "mailing"
    /\ \E x \in run[w].to :
          /\ First(x, run[w].to)
          /\ letters' = Counted(w, x, 1, 0)
    /\ Goes(w, [run[w] EXCEPT !.at = "marking"])
    /\ UNCHANGED <<world, receipts, alerting, summaries, sent, lock, runs, faults, lost>>

\* Mutant: the send record is written over, not added to.
MarkAlone(w) ==
    /\ run[w].at = "marking"
    /\ \E x \in run[w].to :
          /\ First(x, run[w].to)
          /\ sent' = [sent EXCEPT ![run[w].month] = {x}]
          /\ Past(w, x)
    /\ UNCHANGED <<world, receipts, alerting, summaries, letters, runs, faults, lost>>

Mark(w) ==
    /\ run[w].at = "marking"
    /\ \E x \in run[w].to :
          /\ First(x, run[w].to)
          /\ sent' = [sent EXCEPT ![run[w].month] = @ \cup {x}]
          /\ Past(w, x)
    /\ UNCHANGED <<world, receipts, alerting, summaries, letters, runs, faults, lost>>

-------------------------------------------------------------------------------
(* Failures.                                                                *)

Fault == faults < MaxFaults /\ faults' = faults + 1

\* The lines of the run's receipts are not pending yet.
Telling(w) ==
    /\ run[w].phase = "alert"
    /\ run[w].at \in {"checking", "classifying", "reading", "queueing"}

Silenced(w) == IF Telling(w) THEN {run[w].no} ELSE {}

\* The email is not accepted in time, though it may still arrive; or it is
\* out and its record cannot be written.
MailFails(w) ==
    /\ run[w].at \in {"mailing", "marking"}
    /\ Fault
    /\ \E x \in run[w].to :
          /\ First(x, run[w].to)
          /\ \/ run[w].at = "mailing" /\ UNCHANGED letters
             \/ run[w].at = "mailing" /\ letters' = Counted(w, x, 1, 1)
             \/ run[w].at = "marking" /\ letters' = Counted(w, x, 0, 1)
          /\ Past(w, x)
    /\ UNCHANGED <<world, receipts, alerting, summaries, sent, runs, lost>>

\* A statement or an alert email fails: the phase is over, not the run.
PhaseFails(w) ==
    /\ run[w].at \notin {"idle", "checking", "mailing", "marking"}
    /\ Fault
    /\ unheard' = unheard \cup Silenced(w)
    /\ IF run[w].phase = "summary" THEN Returns(w)
       ELSE Goes(w, Following(w)) /\ UNCHANGED lock
    /\ UNCHANGED <<world, receipts, pending, reminded, queued, mailed, monthly, runs, lost>>

\* The worker dies, or a receipt cannot be appended and the job fails; either
\* way the broker sends the job again, which is a later Start.
RunDies(w) ==
    /\ run[w].at # "idle"
    /\ Fault
    /\ IF run[w].at = "marking"
       THEN \E x \in run[w].to : First(x, run[w].to) /\ letters' = Counted(w, x, 0, 1)
       ELSE UNCHANGED letters
    /\ unheard' = unheard \cup Silenced(w)
    /\ Returns(w)
    /\ UNCHANGED <<world, receipts, pending, reminded, queued, mailed, summaries, sent, runs, lost>>

\* The session that holds the lock ends while its run goes on.
SessionLost ==
    /\ lock # None
    /\ Fault
    /\ lock' = None /\ lost' = TRUE
    /\ UNCHANGED <<world, receipts, alerting, monthly, run, runs>>

-------------------------------------------------------------------------------
World ==
    \/ NextDay
    \/ \E c \in Checks : \E e \in 0..NoExpiry : LinkGap(c, e)
    \/ \E l \in links : RetireGap(l)
    \/ \E a \in Attestations : Attest(a)

Alert(w) == Classify(w) \/ ReadPending(w) \/ Queue(w) \/ Send(w) \/ Clear(w)
Remind(w) == ReadPasses(w) \/ Recall(w) \/ Remember(w)
Summarise(w) == LookForMonths(w) \/ Store(w) \/ Look(w) \/ Mail(w) \/ Mark(w)

Step(w) ==
    \/ \E ids \in Lists : Start(w, ids)
    \/ \E result \in {"pass", "fail", "error"} : Check(w, result)
    \/ Alert(w) \/ Remind(w) \/ Summarise(w)
    \/ MailFails(w) \/ PhaseFails(w) \/ RunDies(w)

Next == World \/ SessionLost \/ \E w \in Workers : Step(w)

Spec == Init /\ [][Next]_vars

-------------------------------------------------------------------------------
(* A line once queued stays pending until every recipient was mailed it:   *)
(* no failed email, dead run or later line loses it, short of MaxPending   *)
(* younger ones (and of a second run beside the first).                    *)
QueuedIsKept ==
    ~lost => \A i \in DOMAIN queued :
                \/ queued[i] \in Range(pending)
                \/ \A x \in Recipients : <<queued[i], x>> \in mailed
                \/ Len(queued) - i >= MaxPending

(* A due period counts as reminded only once its line was queued, and no   *)
(* period is reminded twice, whatever run died between reading what is due *)
(* and queueing, and whenever the owner attests in between.                *)
RemindedOnce ==
    /\ \A a \in DOMAIN reminded :
          Reminder(a, reminded[a]) \in Range(queued)
    /\ ~lost => \A i, j \in DOMAIN queued :
                    queued[i] = queued[j] /\ queued[i].what = "reminder" => i = j

\* A check may have several receipts in a run; the last one closes it.
Closing(c) ==
    {i \in DOMAIN receipts :
        /\ receipts[i].check = c
        /\ \A j \in DOMAIN receipts :
              receipts[j].check = c /\ receipts[j].run = receipts[i].run => j <= i}

\* The closing receipts of the latest runs, as far back as they have this result.
Streak(c, result) ==
    {i \in Closing(c) : \A j \in Closing(c) : j >= i => receipts[j].result = result}

Announced(c, kinds, streak) ==
    \E l \in Range(queued) :
        /\ l.of = c /\ l.what \in kinds
        /\ \E i \in streak : First(i, streak) /\ l.at >= receipts[i].run

\* Some run of the streak ended before its lines were pending.
Unheard(streak) == \E i \in streak : receipts[i].run \in unheard

(* Between runs, a check that fails was announced since it began to, unless *)
(* a link still covered its latest receipt or the owner retired one, and a  *)
(* check that could not run in two runs in a row was announced, unless it   *)
(* could not run twice in the first of them already.  Failed emails change  *)
(* nothing in this, and a run that ends between its receipts and its lines  *)
(* takes the announcement from the failures it saw itself only.             *)
ChangesAreAnnounced ==
    lock = None /\ ~lost =>
        \A c \in Checks :
            /\ LET failing == Streak(c, "fail")
               IN  \/ failing = {} \/ Unheard(failing)
                   \/ Announced(c, {"new-failure", "gap-expired"}, failing)
                   \/ \E l \in links :
                         /\ l.check = c
                         /\ l.retired \/ l.expires >= receipts[Greatest(failing)].day
            /\ LET erring == Streak(c, "error")
               IN  Cardinality(erring) > 1 =>
                      \/ Unheard(erring) \/ Announced(c, {"repeated-error"}, erring)
                      \/ \E i \in erring : First(i, erring) /\ WasResult(Prior(c, i), "error")

(* A month has at most one summary, even when two runs append at once; by  *)
(* runs one after the other the summaries come in the order of the months, *)
(* and a month is left out only when it is more than CatchUp months past.  *)
MonthsInOrder ==
    /\ \A i, j \in DOMAIN summaries : summaries[i].month = summaries[j].month => i = j
    /\ ~lost => \A i \in 1..(Len(summaries) - 1) :
          \/ summaries[i + 1].month = summaries[i].month + 1
          \/ /\ summaries[i + 1].month > summaries[i].month
             /\ summaries[i + 1].at >= summaries[i + 1].month + CatchUp

(* A send record stands for an email that went out, and a recipient gets a *)
(* summary again only for each time the record of one could not be kept.   *)
MailedOnce ==
    \A m \in Months : \A x \in Recipients :
        /\ x \in sent[m] => letters[m][x].mailed > 0
        /\ ~lost => letters[m][x].mailed <= 1 + letters[m][x].unrecorded
================================================================================
