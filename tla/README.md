# Truenote in TLA+

Truenote answers contact-centre questions from documents that an organisation
uploads, reviews and publishes. This directory specifies the parts of the
program where concurrent actors, retries and crashes meet, checks them with TLC
on small instances and proves what matters most with TLAPS. Paths below are
relative to `artifacts/api-server/src/` unless they start elsewhere.

## The system

| Component | State it keeps | Operations | What must hold |
|---|---|---|---|
| Document lifecycle (`routes/documents.ts`, `lib/ingestion/`) | `documents`, `document_versions`, `chunks`, the `ingest-document-version` queue, an advisory lock per version | upload, send, deliver, claim, scan, parse, commit, scan-only pass, approve, reject, revoke, retire, purge | one live version per document; nothing flagged or stale is served; decisions and published text stay |
| Object storage (`lib/storage/`) | blobs under content-hash keys | put, get, delete | no version refers to a deleted blob |
| Retrieval (`lib/retrieval/`) | none | hybrid search, rerank, filters | reads active versions of the caller's scope only |
| Ask pipeline (`routes/ask.ts`, `lib/ask-deadline.ts`, `lib/generation/`) | request state, `query_log`, session titles | retrieve, generate with fallback routes, insert, freeze, touch, name the session | a client told of the deadline leaves no row; the title is the opening exchange's |
| Citation receipts (`lib/citations.ts`, `lib/security/history-access.ts`, `scripts/src/reingest.ts`) | `citation_snapshots` of cited chunks | freeze, purge, read back, backfill before a re-chunking | history shows nothing withdrawn; no chunk is replaced before its receipts are frozen |
| Evaluation runs (`lib/eval/`) | `eval_runs`, results, queue, lease token | create, claim, progress, complete, fail, cancel, reconcile, baseline | one worker's results count; a finished run stays finished |
| Gap analysis (`lib/gap-analysis-run.ts`) | a cache and the runs in flight, in one process's memory | look up, run, store | a cached result is that of the refusals it names; concurrent requests share a run |
| Security events (`lib/security/audit.ts`, `append_security_event` in `lib/db/sql/0000_baseline.sql`) | hash-chained event table | append | no forks, no missing links; rows appear in order |
| Security monitor (`lib/monitoring/`) | cursor, failed-pass count, alert mail | poll, alert, advance | nothing is skipped; nothing fresh goes unannounced; a stall is told |
| Compliance evidence (`lib/evidence/`) | receipts of checks, gap links, undelivered alert lines, reminded periods, send records | run under a try-lock, append, classify, queue and send lines, remind, summarise, mail | a new failure is announced and not lost; a period is reminded once; a month has one summary, a recipient one copy |
| Sessions, lockout, reset (`lib/auth/`, `routes/auth.ts`) | sessions, failure counters, password hash, reset links | log in, change, reset, deactivate, expire | nothing verified before a password write opens anything after it; a lock lasts; a link works once |
| MFA and OIDC (`lib/auth/mfa.ts`, `oidc.ts`, `routes/mfa.ts`, `routes/oidc.ts`) | challenges, passkeys, recovery codes, SSO sessions | issue, verify, consume, enrol, remove | each is honoured once; a second factor and the last emergency passkey stand |
| Rate limits | window counters in the database and in memory | consume | never more than the limit per window |
| Job broker client (`lib/jobs/boss.ts`) | memoised client and queues | get, ensure, stop | one client per process |

The API process, the worker process and the database interact through rows and
queue jobs only: a route writes rows and sends a job, pg-boss delivers the job
to a worker callback, the callback writes rows. There is no transaction over
both, so every hard behaviour lies between two statements: a crash or a failed
call between the row and the job, a redelivered job that meets its first
handler, a reviewer who decides while a handler runs, a row that was deleted
under either of them. Long calls (the scanner, the parser, the embedder) make
those windows minutes wide.

PROJECT.json lists every component with its sources and state, the hazards at
the lines where they bite, and what each definition stands for.

## The modules

| Module | Models | Composed with |
|---|---|---|
| `DocumentLifecycle` | rows, jobs, handlers and requests of a document's versions | implements `Publication` |
| `Publication` | what the lifecycle promises to retrieval | |
| `EvalRuns` | rows, jobs, leases, sweeps and the reconciler of evaluation runs | |
| `QuestionPool` | the pool of lanes inside one evaluation run | implements `Reports` |
| `Reports` | what a run's handler may assume of the pool | |
| `SecurityEvents` | transactions that append to the event chain | extended by `SecurityMonitor` |
| `SecurityMonitor` | the worker's monitor over that chain | |
| `Accounts` | one account's logins, lockout, factors, sessions, links and SSO callbacks | |
| `AskReceipts` | the questions of one session, their receipts, the naming tasks, the re-chunking script and a reader of the history | repeats the document states `DocumentLifecycle` leads to |
| `EvidenceRuns` | the runs of the evidence harness: receipts, alert lines, reminders, summaries and their emails | |
| `MC...` | symmetry sets, bounds and views for the model checker | |
| `...Proofs` | theorems; `DocumentReviewProofs` extends `DocumentLifecycleProofs` | |

A definition whose comment begins with "Mutant" is a plausible bug. It is used
by nothing; putting it in the place of the definition after it must break the
property PROJECT.json names, and does.

### DocumentLifecycle

`doc` and `ver` are the rows (`lifecycle_state`, `parse_status`, the scanner's
verdict, the class of the findings, `is_active`, the approval, the text and the
chunks, the latter two as the attempt that wrote them). `job` is the pg-boss
queue, `handler` the running worker callbacks with what they read and have not
written yet, `sending` the API requests between their row and `boss.send`.

One action is one committed database statement or transaction with everything
the code computes from it: `Claim`, `ScanAccepted`, `ScanRefused`, `Parse`,
`ContentRefused`, `Commit` and `IngestFails` are the statements of
`runClaimedIngestion` in order, `RescanRead`, `RescanClean`, `RescanInfected`
and `RescanFails` those of the scan-only pass, and each reviewer's route is one
action because it holds its rows with `FOR UPDATE` to the end. Between two
actions of a handler anything else may happen. A handler holds its version's
advisory lock from `Deliver` to `Ends`.

Abstractions. `Upload` stands for the transaction that inserts a document and
its first version or a version of an existing one; version numbers, titles and
bytes are left out. The scanner's verdict and the class of the findings are
chosen freely, `disabled` included, because the policy may be switched between
two attempts. `Upload`'s look for the document, its insert and the version's are
three statements in the code; what can come between them is a race over titles and
version numbers. A rescan is requested only when the previous request for the version
has answered. A send that fails stored no job; one that stored it and lost its answer
would leave a job whose row is gone or failed. The verdict `legacy_accepted`, of rows
accepted before scanning existed, is left out. An attempt whose catch block cannot
write either is a `WorkerCrash`. A job is a place in the queue; a place is taken again once no
handler names it. Ids are used again only when nothing names them.

`Publication` has one version per document and a set of versions that are given
up. The mapping reads `current_version_id` as what is served and every version
that was approved and is not active, or whose row is gone, as given up.

### EvalRuns

`run` is the row (`status`, lease token, `broker_job_id`, progress, report, and
how long ago it was written, in ticks of about two hours up to a cap), `job` the
`run-evaluation` queue, `handler` the callbacks of the worker with the token of
their claim. `Claim` to `WorkFails` are the statements of `executeEvalRun` and
of the functions of `persistence.ts` it calls, each guarded by the lease as its
WHERE clause is. `Poll` is the list route, which also sweeps; `Reconcile` is the
worker's timer; `Cancel` and `SetBaseline` are the super user's routes.

Abstractions. Scoring is left out: a report is the token of the claim that wrote
it. `SendNothing` stands for a send that fails, an API process that dies before
it and the fifteen-minute singleton slot that swallows it. `Tick` ages all rows
and attempts together. pg-boss expires an attempt after `ExpireAfter` ticks; a
row may be stolen after `StealAfter` and swept after `AbandonAfter`. A write of the
holder may commit and lose its answer (the `pc` of `Configure`, `Progress` and
`Complete`); a claim that does is not modelled.

### QuestionPool

`mapWithConcurrency` of `runner.ts`: `lane` is where each lane is and the
question it holds, `next` the shared counter, `chain` the promise chain that
orders the progress reports, `calls`, `reported` and `results` what the pool did.
One action is what JavaScript does between two awaits. A worker or a report may
throw at any point. The actions of `Reports` are all that `EvalRuns` assumes of
the pool when it counts progress one by one and completes after the last.

### SecurityEvents and SecurityMonitor

`tx` is where each transaction is in `append_security_event` and its uncommitted
rows, `sequence` the identity column (no rollback takes a number back),
`chainLock` the transaction-scoped advisory lock, `events` the committed rows. A
row's hash covers the hash before it, so hashes are named by sequence numbers and
`prev` is `previous_hash`. `Link` sees the committed rows and the transaction's
own: each statement of the function has a snapshot of its own, as in READ
COMMITTED, the isolation level of every transaction that appends.

`pass` is a run of `runPass` with what it read, `monitorLock` the session-level
lock, `worker` the variables of `startSecurityMonitor`, `state` the row of
`security_monitor_state`. `Deadline` abandons a pass without ending it: it stays
in `pass`, goes on and keeps its lock. `Hang` stops a pass for good.
`SessionLost` takes the lock from a pass that works on through the pool.
`printed` and `announced` are what left the process. The window rules and their
cooldowns are not modelled; `Mail` sends the alerts of the batch only. The process and
the database have one clock, and a cursor whose write commits and loses its answer is
left out: the next pass reads the cursor from the row.

### Accounts

`ver` is `users.password_hash`, as the number of password writes before it;
`failed`, `locked`, `active` and `mustReset` are the other columns of the row,
`sessions`, `logins`, `regs`, `passkeys`, `codes` and `tokens` the rows of their
tables. `req` is what a request read and still holds: the hash it verified, the
session, challenge, key, code or link it names. Every route reads without locks,
works, and writes in one transaction that locks the `users` row, so a request is
one action per read and one per transaction: `LoginRead`, `LoginFactors`, then
`LoginChallenge` or `LoginSession`; `MfaPasskey` or `MfaCode`, then `MfaComplete`
or `MfaRefused`; `ChangeRead`, `ChangePassword`; `ResetLookup`, `ResetConsume`,
`ResetPassword`; `OidcLoad`, `OidcCreate`, `OidcStamp`, `OidcFinish`; and
`ManageRead` before `AddPasskey`, `RemovePasskey` and `RenewCodes`. `AdminReset`
and `SetActive` are the administrator's. `Served` is what `findSessionByToken`
accepts. `used` is history: how often each challenge, code and link was honoured.

Abstractions. Whether a password, a passkey or a code is right is chosen freely.
Tokens are random in the code, so a slot is issued again only when nothing names
it. The role and `LOCAL_LOGIN_MODE` are fixed in a behaviour and chosen at its
start. Creating and deleting users, role changes, the first SSO sign-in that
links an identity, demo accounts, rate limiters and the idle prompt are left out. A
new passkey's counter is 0 whatever the authenticator reports. A callback that
fails deletes its session row; that this deletion may fail too, or the process die
before the row is stamped, is not modelled: the row that stays is labelled local, and
its token was given to nobody.

### AskReceipts

`ask` is where each request is, what it retrieved and then cites, and whether its
client left or its deadline passed; `log` holds the `query_log` rows in order,
`receipt` their snapshots, `title` the row a session title was generated from,
`namer` the detached naming tasks. `Retrieve`, `Generate`, `Insert`, `Save` and
`Touch` are the awaits of an ask in order, with `Cancelled` and `CancelledLate`
between them and `StatementFails` and `ApiCrash` at any of them. `Publish`,
`Quarantine`, `Revoke`, `RetireDocument` and `DeleteDocument` are the document
routes as far as history sees them; `PurgeReceipts` is the purge they start
without waiting. `ScriptStarts` to `ScriptEnds` are `scripts/src/reingest.ts`
with its backfill; `ReadSession` to `ReadEnds` are the four reads of a history
page. `reader.barred` is history: what was withdrawn for good when the read
began.

Abstractions. Texts, ranks and scores are left out: a chunk is its version and
how often that version was cut anew. The reader's clearance is fixed, and sources
are approved. Rows are read in the order they were inserted.

### EvidenceRuns

`run` is where each execution of the job handler is and what it holds: the checks
it has still to run (`left`), the receipts it appended (`mine`), the lines it adds or sends (`lines`, of which the
first `old` were pending before), the recipients still to be mailed. `lock` is the
try-lock `truenote.evidence.run`. `receipts` and `summaries` are the receipts of
automated checks and of months, `links` the rows of `evidence_known_gaps`,
`attested` the latest pass of each attestation, and `pending`, `reminded` and
`sent` the three kinds of `app_settings` rows a run keeps. `Start` and `Check` are
`runner.ts`, over any list of checks (`Lists`): the request route validates each id
and their number only, so a list may name a check twice, and it may be empty, also
because retired ids are left out of it; `Classify`, `ReadPending`, `Queue`, `Send` and `Clear` are
`notify.ts`; `ReadPasses`, `Recall` and `Remember` are `attestations.ts`, which
goes on with `ReadPending` when something is due; `LookForMonths`, `Store`,
`Look`, `Mail` and `Mark` are `summary.ts`. `PhaseFails` is a catch block of
`executeEvidenceRun`, after which the next phase starts (`Following`), `MailFails`
one inside the summaries' loop; `RunDies` ends the run anywhere, and `SessionLost`
takes the lock from a run that works on. `NextDay`, `LinkGap`, `RetireGap` and
`Attest` happen at any time. `queued`, `mailed`, `letters`, `unheard` (the runs that ended before the lines of
their receipts were pending) and `lost` are history.

Abstractions. Time is counted in days, by one clock: in the code the day of a receipt
is the database's and today the worker's. What a check looks at is left out: its
result is chosen freely. A line is named
by its check and run, or by its attestation and due period; its wording and the
email's text are left out, and so are the hashes of the receipts (their chain is
that of `SecurityEvents`, one advisory lock around reading the last hash and
inserting), attachments, the operator's script and the read-only routes. At least
one recipient is configured; without one nothing is mailed at all. A send record
whose write succeeds and whose answer is lost is not modelled.

## What the runs check

| Run | Shows | Bounds |
|---|---|---|
| `lifecycle_workers` | overlapping handlers of one version: rows, pointer and chunks agree, nothing flagged is live unreviewed, and a submitted version leaves the in-flight states | 1 version, 2 handlers, 1 job, 1 retry, 1 crash, 1 failed send |
| `lifecycle_versions` | reviewers and workers over two versions: one live version, decisions and published text stay, `Publication` is implemented | 1 document, 2 versions, 1 handler, 1 job, sends succeed |
| `lifecycle_reclaim` | **violated**: see findings | 1 version, 1 handler, 1 retry, 1 crash |
| `lifecycle_rollback` | **violated**: see findings | 2 versions, 1 failed send |
| `eval_runs` | overtaken handlers change nothing, finished runs stay, duplicates do not fence, live work is never stale; queued runs are taken up and runs end | 1 run, 2 handlers, 2 jobs, 3 leases, 2 retries, 2 faults; expiry and steal after 1 tick, sweep after 2 |
| `question_pool` | every question once, in-order reports, stop means stop, the pool settles, `Reports` is implemented | 3 lanes, 5 questions |
| `monitor_cursor` | chain, order and cursor under concurrent transactions and overlapping passes | 2 transactions, 2 rows, 2 passes, batches of 1, 1 fault |
| `monitor_progress` | every event is exported, a stall is told | 1 transaction, 2 rows, 2 passes, alert after 2 failures, 1 fault |
| `monitor_backlog` | **violated**: see findings | 3 rows, batches of 1, 2 ticks |
| `account_sign_ins` | sessions and challenges rest on the present password, single use, locks last, second factors and the last passkey stand, SSO sessions are SSO's | 2 requests at a time, 2 sessions, 2 passkeys, 1 challenge, 1 code, 1 link, lock after 2 failures, 2 password writes |
| `ask_receipts` | history withholds what was withdrawn, titles are the opening exchange's, a refusal for the deadline leaves no row, cuts follow receipts | 2 questions, 2 documents, 2 versions, 1 cut, 1 fault, 2 activities at once |
| `evidence_runs` | no queued line is lost, a period is reminded once, failures and repeated errors are announced, one summary a month in order, one copy per recipient | 3 runs, 2 workers, 1 check, lists of up to 2, 1 attestation, 2 recipients, 3 months of 1 day, 1 fault, 2 pending lines, 2 changes from outside |

Why these bounds. Two handlers are what a lock or a lease can confuse; a third
would meet the same two cases, and the proofs cover any number. Two versions are
one that is live and one that takes over or is withdrawn meanwhile. One retry is
one redelivery; `eval_runs` needs two so that a stolen lease is overtaken
again. One crash or failed send is enough to leave every half-done state behind,
as each run starts from nothing. Five questions over three lanes give every lane
a second question and make lanes wait for each other's reports. Two rows with
batches of one give the cursor two moves and a backlog. Two requests
on an account are every pair of routes in every order; two password writes let a
request that began before the first finish after the second. Two questions give
an opening exchange and a later one. Three evidence runs are a check's change, its
change back and the run that must still deliver; a list of two ids is a run without
checks, with one and with the same one twice; two recipients let an email fail
between them. Fault counters, the clock and the counts
(`MaxFaults`, `MaxSendFailures`, `MaxClock`, `MaxSeq`, `MaxCount`, `MaxWrites`,
`MaxCuts`, `MaxRuns`, `MaxOutside`, `LastDay`) are bounds of the model, not of the program.

`ask_receipts` also bounds what happens at the same time (`Bounds` in
`MCAskReceipts`): at most `MaxBusy` of the questions, naming tasks, purges, script
and reader are under way at once, at most `MaxStopped` aborts and faults occur, the
script and the reader run one after the other, and two documents are not combined
with a fault, an abort or a second question. A spent fault counts as an activity,
except beside the script, where a failed statement is what the backfill is for. The
proofs of the four properties have none of these bounds. `evidence_runs` bounds
in the same way, by `Bounds` in `MCEvidenceRuns`, how many runs, repeated checks,
changes and faults (together `MaxEvents`) one behaviour combines; the proofs of its five
properties do not.

`lifecycle_versions` takes sends that succeed: with a failing one, a rescan whose
send fails late writes `failed` over a
decision made meanwhile (`documents.ts:972`), and a job still queued for that
version may then ingest an approved and revoked version's text anew, against
"Ready versions are immutable audit/citation evidence" (`run.ts:119`); both
`DecisionsStick` and `PublishedTextImmutable` fail then.

`CHECK_DEADLOCK FALSE` is set in all runs but `account_sign_ins`, which has no
rest: once every run or document has ended, the bounded faults are spent or the
bounded numbers used, there is nothing left to do, which is the system at rest.
What must not stop is stated as liveness.

Symmetry is used in safety runs only, over ids that no definition orders. The view
of `account_sign_ins` forgets how often a slot was honoured that nothing names any
more, which no action reads and which is reset when the slot is issued again; a
count above one is kept.

### Fairness

* `lifecycle_workers`: a handler goes on (`WF`), since every call in it has a
  timeout or the job expires; a job in the queue is delivered in the end and a
  row's job is sent (`SF`, for other work may take the slot for a while). A
  delivery that finds the version locked happens only while the holder is in an
  external call. `InFlightEnds` promises nothing after a death or a failed send:
  with a death the version may stay where it is (`lifecycle_reclaim`, and a
  submitted row whose API process died), and after a failed send of a rescan the
  busy lock can use up the retries of the next job while the row is submitted.
* `eval_runs`: the reconciler's timer, expiry and the clock are weakly fair, sends
  and deliveries strongly. Nobody polls the API. The clock moves on only when a
  free worker has left no job waiting and no statement is open (`PromptTick`) or
  nobody is at work (`BriskTick`): the worker polls every two seconds, and a run's
  work is shorter than the expiry (at most 250 questions, three at a time, against
  four hours). Faults are no more than retries, as each of them, a tick that meets
  an attempt at work among them, costs at most one. `Spec`, about which the proofs
  are, lets the clock tick at any time.
* `question_pool`: weak fairness of the event loop; workers and reports settle,
  as each of their calls has a deadline.
* `monitor_progress`: the timer and the deadline fire, and a pass that does not
  hang goes on. Transactions need no fairness.

## Findings

* `lifecycle_reclaim`: a worker that dies after the accepted scan leaves
  `lifecycle_state` at `parsing`, which the claim's WHERE clause does not list
  although the comment says an expired retry can reclaim it.
* `lifecycle_rollback`: the rollback of a first upload whose send failed deletes
  the document and, by cascade, a version another upload added to it.
* `monitor_backlog`: after an outage of more than an hour with more than one
  batch of events, the first batch moves the reference time for freshness and
  the alerts of the later batches are dropped.

Also seen, without a run:

* Documents. A document retired while one of its versions is being ingested is
  un-retired by a privileged upload's activation. A failed late send of a rescan
  overwrites a decision (above). When the COMMIT of the final transaction succeeds
  and its answer is lost, the catch block handles the version as failed
  (`lib/ingestion/run.ts:456`). Purge may delete a file it found unreferenced while
  an upload of the same bytes has stored it and not yet inserted its row
  (`routes/documents.ts:1239`).
* Evaluation. The six-hour sweep fails a run whose retry waits behind another run
  of the sequential worker (`lib/eval/persistence.ts:232`). A run whose retries are
  used up by crashes and overruns stays `running` until a browser's poll sweeps it.
* Asks. When the opening row is longer than the naming task accepts, no title is
  ever given, although the comment near `routes/ask.ts:366` expects a real exchange
  to supply it later. An ask in flight while a version is revoked and its receipts
  are purged freezes the withdrawn excerpt after the purge
  (`lib/citations.ts:472`); nothing purges it again, and only the reader's checks
  withhold it. A statement that fails after the insert, once the deadline has
  tripped, sends the refusal although the row exists, against "nothing durable was
  written" (`routes/ask.ts:563`); `RefusedIsNotLogged` is therefore stated for
  behaviours without a failed statement. An abort between two provider routes is
  answered with the canned refusal (`lib/generation/answer.ts:425`). The re-chunking
  script also freezes receipts of revoked versions.
* Accounts. A callback or a reset that races a deactivation can leave a session row
  for an inactive account, against the comment at `routes/admin/users.ts:857`; the
  session is not served.

* Evidence. A run that dies, or whose classification or queueing fails, after it
  appended a failing receipt leaves that failure unannounced for good, for the next
  run sees no change, although `docs/security/evidence-harness.md` promises an email
  per new failure; `ChangesAreAnnounced` therefore excepts the failures and errors
  such a run saw itself (`Unheard`), and only those, until the check next passes. A
  manual run that lists a check twice (`routes/admin/evidence.ts:443`) and is the first
  to find that it cannot run announces nothing, since `classify` looks at what came
  before the run only, and every later run finds two errors before it: the check that
  "could not run twice in a row" (`docs/security/evidence-harness.md:22`) is never
  announced. This is the last disjunct of `ChangesAreAnnounced`, without which
  `evidence_runs` finds it violated. An expired gap link is announced twice when the runs
  around its expiry straddle midnight. Lines beyond `MAX_PENDING_LINES` push out the
  oldest undelivered ones, which `QueuedIsKept` grants. Retiring the link of a
  failing check announces nothing.

## What is proved

All theorems are checked by TLAPS for every value of the constants that meets
the named assumptions of the modules (`BoundsAssumption`, `DistinctAssumption`,
`NoneAssumption`, `NumbersAssumption`, `LimitsAssumption`, `PoolAssumption`,
`EventsAssumption`, `MonitorAssumption`, `AccountsAssumption`,
`ReceiptsAssumption`, `EvidenceAssumption`, `ListAssumption`: bounds are natural numbers, `None` is
nobody's id, and, for the evaluation runs, expiry comes no later than the steal). Each module proves an
inductive invariant by one lemma per action and derives the rest from it.

* `DocumentLifecycleProofs`: `PublishedIsCurrent` is not inductive: `Commit`
  writes a row it read long ago. What saves it is that one handler at a time works
  on a version (`OneHandler`, the lock) and that a version between its claim and
  its last write is neither live nor up for review (`ClaimedIsHidden`), which in
  turn needs that nothing works on an upload before its job is sent
  (`UnsentIsUntouched`) or on a row that was never inserted (`WorkHasRows`).
  Proved: `TypeOK`, `PublishedIsCurrent`, `ActiveIsControlled`,
  `RetiredServesNothing`, `IndInv`.
* `DocumentReviewProofs` (on top of `IndInv`): a row is served right only if nobody
  who is between two statements could write something else over it. `ReadingSafe`
  says of every row that it is `Fine` (cleared if live, cut from its own text if
  read) and of every handler that it `Recalls` its version: the findings a skipped
  scan is written back with and the text a parsed attempt will commit are still
  those of the row. Proved: `FlaggedNeedsReview`, `ServedChunksMatchText`.
  Its second part is under `MaxSendFailures = 0`, for the reason above: `Settled`
  says that an approved row is filed (`parse_status` ready, a lifecycle of
  a published version) and that a version an ingestion works on is not approved and
  in none of those lifecycles. Then every write is `Firm`: it keeps decisions and
  published text. Proved: `PublishedTextImmutable`, `DecisionsStick`, and, step by
  step with `Publication`'s `Publish` and `Withdraw`, `ImplementsPublication`.
* `EvalRunsProofs`: tokens are never used twice (`LeasesAreUnique`), so a WHERE
  clause on the token is a check of the holder; `HoldersAgree` ties the age of a
  row to the age of the attempt. Proved: `ReportIsTheHolders`,
  `ProgressIsTheHolders`, `LiveWorkIsFresh` (here the order of the limits is
  needed), `FinishedStays`, `DuplicatesDoNotFence`.
* `QuestionPoolProofs`: what lanes hold, what was answered and what is counted
  add up, and the chain names its waiting lanes in order. Proved:
  `ResolvedIsComplete`, `EveryQuestionOnce`, and that the pool implements
  `Reports` step by step (`KeepsPromise`).
* `SecurityMonitorProofs`: whoever has rows or is past the lock holds it, and its
  rows lie above all committed ones (`ChainHolder`); so rows appear in order, and
  a batch read once stays the whole of what lies between its ends
  (`BatchIsWhole`), whatever commits later. Together with a cursor that is zero
  or a committed row this gives `NothingSkipped` and `FreshIsAnnounced` even when
  passes overlap and sessions are lost; `OnePassReads` and `OneHolds` hold while
  none is. Proved: `ChainUnbroken`, `CommitInSequence`, `NothingSkipped`,
  `OnePassReads`, `CursorStays`, `FreshIsAnnounced`.
* `AccountsProofs`: that sessions rest on the present password is not inductive; a
  request holds what it verified long ago. What it holds is either still good or
  refused: a named challenge that is still pending is of the present hash
  (`PendingIsPresent`, since every password write deletes all of them), a session a
  change of password names and that is still there has seen no other write
  (`NamedIsPresent`), what can still be honoured has not been (`PendingIsUnused`), a
  consumed link has one consumer until the transaction ends (`LinksAreHeld`), a
  passkey has one counter (`OneCountPerKey`) and a local session of a callback belongs
  to a callback in flight (`UnstampedIsInFlight`). Proved: all seven properties of
  `account_sign_ins`.
* `AskReceiptsProofs`: a row exists from a question's insert on (`RowsOfAsks`); only
  the opening row's task writes a title (`NamersAreLogged`, `TitleIsOpening`); cited
  chunks are of this cut or of an earlier one (`CitesArePast`); what the script saw is
  frozen, pending or counted as missed, and it cuts when nothing is left of either
  (`SeenIsFrozen`); and what a read was told cannot become untrue, because what is
  withdrawn for good stays so (`ReaderIsRight`). Proved: all four properties of
  `ask_receipts`.

* `EvidenceRunsProofs`: `Ruled` says that without a lost session only the holder of
  the lock is under way, and that an execution is where its phase may be. On it rest
  six invariants. `AllBacked` and `KeysInv`: what is remembered as reminded was
  queued, and a line about to be queued is new. `KeptInv`: what the run holds and
  has not cleared is still pending, so clearing takes no line of somebody else.
  `MonthsInv`: the months still to be appended follow the newest one. `MailedInv`:
  at most one email per recipient and month is out without a record, and it is that
  of the run at `marking`, or it is counted. `ToldInv`, for `ChangesAreAnnounced`: a
  run's own receipts are the latest, any number per check, and only the last of them
  closes the run for its check (`Closing`); until its lines are queued all streaks
  before its first receipt are told of or excused, and with its lines those it
  continues or begins, too. A run that ends early is blamed for no streak but those
  it has a receipt in. That
  `classify`, with the two receipts before the run and the links of the moment, is
  enough for that is `ClassifyKnows`, by cases on what it returns. The least and
  greatest elements it speaks of exist by the well-foundedness of the natural numbers
  (`HasLeast`, `HasGreatest`). Proved: `TypeOK` and all five properties of
  `evidence_runs`.

The runs do not list the inductive invariants: the theorems establish them for
every instance.

Model-checked only: liveness (`InFlightEnds`, `QueuedMoves`, `RunsEnd`, `PoolEnds`,
`EventsAreExported`, `StallsAreTold`), which is outside the prover. Every other
property of a passing run is proved, three of them while sends succeed.

## Plan

The order is by how much rests on a component and how many actors meet in it.
Steps 1 to 7 are done, with proofs.

1. `DocumentLifecycle`, `Publication`.
2. `EvalRuns`.
3. `QuestionPool`, `Reports`.
4. `SecurityEvents`, `SecurityMonitor`.
5. `Accounts`.
6. `AskReceipts`.
7. `EvidenceRuns`.
8. `StoredBlobs`: uploads, purges and shared content-hash keys: no row refers to a
   deleted blob. Needs the steps inside an upload, and version numbers.
9. `GapAnalysis`: the cache, its fingerprint and the shared run.
10. `BossClient`, `RateLimit`: the memoised broker start, window counters over
    several processes.
11. In `DocumentLifecycle`: a commit whose answer is lost and a lock whose session is
    lost; and, once the late send of a rescan no longer overwrites a decision, the
    three theorems without `MaxSendFailures = 0`.
12. Pure functions as operators against reference definitions: chunk boundaries,
    window rules, pass rates.

## Not modelled

Object storage, gap analysis, rate limits and the broker
client's start are in the plan. Retrieval is read-only; parsing, chunking and
embedding are functions of a text. Of the ask pipeline, rewriting, ranking, the
providers' text and the events of a stream are left out; of the accounts and of
the compliance evidence, what the sections above list. The content scan's and the firewall's regular expressions, the
compliance assistant, the other administration routes, the web client, the preview
and seed scripts and the scanner service keep no state that concurrent actors share;
they are most of the repository's lines. PROJECT.json gives the reason for each. Row
locks inside one transaction are below the grain: `Approve` and `Commit` lock a
version before its document, `Retire` and `Purge` the other way round, and PostgreSQL
aborts one of two that meet. The order of `created_at` in `query_log` is taken to be
the order of commits, which the database does not promise.
