------------------------- MODULE DocumentLifecycle -------------------------
(***************************************************************************)
(* The life of document versions in Truenote: upload, the ingestion worker *)
(* and its pg-boss job, the scan-only malware pass, the reviewers'         *)
(* decisions, retirement and purge.                                        *)
(*                                                                         *)
(* Rows of `documents` and `document_versions` are records; a row that was *)
(* never inserted has life "absent" and one that was deleted "deleted".    *)
(* A handler is one invocation of the worker callback: it holds the        *)
(* version's session-level advisory lock from "locked" until it ends, so   *)
(* the lock needs no variable of its own.  Every SQL statement, and every  *)
(* transaction that locks the rows it reads, is one step.                  *)
(***************************************************************************)
EXTENDS Naturals

CONSTANTS
    Documents, Versions,   \* ids of rows that may be inserted
    Handlers,              \* invocations of the worker callback that can overlap
    Jobs,                  \* slots of the pg-boss queue
    RetryLimit,            \* INGEST_QUEUE_POLICY.retryLimit
    MaxFaults,             \* bound: process deaths and claims the database fails
    MaxSendFailures,       \* bound: failed boss.send calls in a behaviour
    None

ASSUME DistinctAssumption ==
    /\ None \notin Documents \cup Versions \cup Handlers \cup Jobs
ASSUME BoundsAssumption ==
    /\ RetryLimit \in Nat
    /\ MaxFaults \in Nat
    /\ MaxSendFailures \in Nat

VARIABLES
    doc,          \* documents:          life and current_version_id
    ver,          \* document_versions
    job,          \* the ingest-document-version queue
    handler,      \* the running invocations of the worker callback
    sending,      \* API requests between their row write and boss.send
    faults, sendFailures

rowVars == <<doc, ver>>
faultVars == <<faults, sendFailures>>
vars == <<doc, ver, job, handler, sending, faults, sendFailures>>

----------------------------------------------------------------------------
(* Rows *)

Gone == {"absent", "deleted"}
InFlightLife == {"submitted", "scanning", "parsing"}
Lifecycles == InFlightLife \cup
    {"pending_review", "active", "retired", "quarantined", "rejected", "revoked", "failed"}
Findings == {"none", "flagged", "blocking"}
\* Which parse the stored markdown (or the markdown the chunks were cut from)
\* comes from: two stamps are enough to see one replaced by another.
Stamps == {"none", "a", "b"}

VersionRow ==
    [doc      : Documents \cup {None},
     life     : Lifecycles \cup Gone,
     parse    : {"pending", "parsing", "ready", "failed"},
     scan     : {"pending", "running", "clean", "infected", "unavailable", "disabled"},
     found    : Findings,                  \* scan_findings, as the policy sees them
     active   : BOOLEAN,                   \* is_active
     approved : {"no", "auto", "review"},  \* approved_at and who set it
     text     : Stamps,                    \* parsed_markdown
     chunks   : Stamps]

Blank == [doc |-> None, life |-> "absent", parse |-> "pending", scan |-> "pending",
          found |-> "none", active |-> FALSE, approved |-> "no",
          text |-> "none", chunks |-> "none"]
Erased == [Blank EXCEPT !.life = "deleted"]

DocRow == [life : {"active", "retired"} \cup Gone, current : Versions \cup {None}]

JobRow == [ver : Versions, mode : {"ingest", "scan_only"},
           tries : 0..RetryLimit, owner : Handlers \cup {None}]

\* seen is the lifecycle a scan-only pass read before it scanned the file;
\* found and text are what the handler computed (or read) and has not written.
HandlerRow ==
    [pc    : {"idle", "locked", "claimed", "parsing", "parsed", "rescanning", "done", "threw"},
     job   : Jobs \cup {None},
     ver   : Versions \cup {None},
     mode  : {"ingest", "scan_only"},
     found : Findings,
     text  : Stamps,
     seen  : Lifecycles \cup Gone]
Idle == [pc |-> "idle", job |-> None, ver |-> None, mode |-> "ingest",
         found |-> "none", text |-> "none", seen |-> "absent"]

TypeOK ==
    /\ doc \in [Documents -> DocRow]
    /\ ver \in [Versions -> VersionRow]
    /\ job \in [Jobs -> JobRow \cup {None}]
    /\ handler \in [Handlers -> HandlerRow]
    /\ sending \in [Versions -> {"no", "first_upload", "upload", "rescan"}]
    /\ faults \in 0..MaxFaults
    /\ sendFailures \in 0..MaxSendFailures

Init ==
    /\ doc = [d \in Documents |-> [life |-> "absent", current |-> None]]
    /\ ver = [v \in Versions |-> Blank]
    /\ job = [j \in Jobs |-> None]
    /\ handler = [h \in Handlers |-> Idle]
    /\ sending = [v \in Versions |-> "no"]
    /\ faults = 0
    /\ sendFailures = 0

Exists(v) == ver[v].life \notin Gone

\* The table's CHECK document_versions_active_control_check: a statement that
\* would leave such a row fails.
ActiveControl(row) ==
    row.active => /\ row.life = "active"
                  /\ row.approved # "no"
                  /\ row.scan \in {"clean", "disabled"}

\* UPDATE document_versions ... WHERE id = v: no row, no effect.
Updated(v, row) == IF Exists(v) THEN [ver EXCEPT ![v] = row] ELSE ver

----------------------------------------------------------------------------
(* The API: uploads and rescans, and the pg-boss job each one sends. *)

\* POST /upload, up to the inserted version row.
Upload(d, v) ==
    /\ doc[d].life # "deleted"
    /\ ver[v].life = "absent"
    /\ ver' = [ver EXCEPT ![v] = [Blank EXCEPT !.doc = d, !.life = "submitted"]]
    /\ doc' = IF doc[d].life = "absent" THEN [doc EXCEPT ![d].life = "active"] ELSE doc
    /\ sending' = [sending EXCEPT ![v] =
                     IF doc[d].life = "absent" THEN "first_upload" ELSE "upload"]
    /\ UNCHANGED <<job, handler, faultVars>>

\* Mutants: the guard on approved_at is dropped; rejected versions may be rescanned.
RescannableApproved(row) == row.life \in {"quarantined", "failed"}
RescannableRejected(row) ==
    row.life \in {"quarantined", "failed", "rejected"} /\ row.approved = "no"

Rescannable(row) == row.life \in {"quarantined", "failed"} /\ row.approved = "no"

\* POST /:versionId/rescan, the full re-ingestion of an unapproved version.
RequestRescan(v) ==
    /\ sending[v] = "no"
    /\ Rescannable(ver[v])
    /\ ver' = [ver EXCEPT ![v] = [@ EXCEPT !.life = "submitted", !.parse = "pending",
                                           !.scan = "pending", !.found = "none",
                                           !.active = FALSE]]
    /\ sending' = [sending EXCEPT ![v] = "rescan"]
    /\ UNCHANGED <<doc, job, handler, faultVars>>

ScanOnlyEligible(row) ==
    /\ row.scan = "disabled"
    /\ row.life \in {"pending_review", "active", "retired", "rejected", "revoked"}

Queued(j, v, mode) ==
    /\ job[j] = None
    /\ job' = [job EXCEPT ![j] = [ver |-> v, mode |-> mode, tries |-> 0, owner |-> None]]

\* POST /:versionId/rescan, the scan-only pass of a version that skipped the scanner.
RequestScanOnly(v, j) ==
    /\ ~Rescannable(ver[v])
    /\ ScanOnlyEligible(ver[v])
    /\ Queued(j, v, "scan_only")
    /\ UNCHANGED <<doc, ver, handler, sending, faultVars>>

\* enqueueIngestion succeeds.
Send(v, j) ==
    /\ sending[v] # "no"
    /\ Queued(j, v, "ingest")
    /\ sending' = [sending EXCEPT ![v] = "no"]
    /\ UNCHANGED <<doc, ver, handler, faultVars>>

\* DELETE FROM documents: the versions and their chunks go with it.
DeleteDocument(d) ==
    /\ doc' = [doc EXCEPT ![d] = [life |-> "deleted", current |-> None]]
    /\ ver' = [v \in Versions |-> IF Exists(v) /\ ver[v].doc = d THEN Erased ELSE ver[v]]

\* The rows the failed request writes back: an upload deletes what it created,
\* a rescan marks the version failed, whatever happened to it meanwhile.
UndoSend(v) ==
    \/ /\ sending[v] = "first_upload"
       /\ IF Exists(v) THEN DeleteDocument(ver[v].doc) ELSE UNCHANGED <<doc, ver>>
    \/ /\ sending[v] = "upload"
       /\ ver' = Updated(v, Erased)
       /\ UNCHANGED doc
    \/ /\ sending[v] = "rescan"
       /\ LET row == [ver[v] EXCEPT !.life = "failed", !.parse = "failed"]
          IN  ver' = IF ActiveControl(row) THEN Updated(v, row) ELSE ver
       /\ UNCHANGED doc

\* enqueueIngestion fails and the request undoes its write.
SendFails(v) ==
    /\ sendFailures < MaxSendFailures
    /\ UndoSend(v)
    /\ sending' = [sending EXCEPT ![v] = "no"]
    /\ sendFailures' = sendFailures + 1
    /\ UNCHANGED <<job, handler, faults>>

\* The API process dies between the row write and boss.send.
ApiCrash(v) ==
    /\ faults < MaxFaults
    /\ sending[v] # "no"
    /\ sending' = [sending EXCEPT ![v] = "no"]
    /\ faults' = faults + 1
    /\ UNCHANGED <<doc, ver, job, handler, sendFailures>>

----------------------------------------------------------------------------
(* pg-boss: delivery, retry, expiry. *)

Holding(h, v) == handler[h].pc # "idle" /\ handler[h].ver = v
Locked(v) == \E h \in Handlers : Holding(h, v)

\* A failed attempt goes back to the queue until its retries are used up.
Retried(j) == [job EXCEPT ![j] =
    IF job[j].tries < RetryLimit
    THEN [job[j] EXCEPT !.tries = job[j].tries + 1, !.owner = None] ELSE None]

\* Mutant: the handler runs without the advisory lock.
DeliverUnlocked(h, j) ==
    /\ handler[h].pc = "idle"
    /\ job[j] # None /\ job[j].owner = None
    /\ job' = [job EXCEPT ![j].owner = h]
    /\ handler' = [handler EXCEPT ![h] =
                     [Idle EXCEPT !.pc = "locked", !.job = j, !.ver = job[j].ver,
                                  !.mode = job[j].mode]]
    /\ UNCHANGED <<doc, ver, sending, faultVars>>

\* The worker fetches job j and takes the version's advisory lock.
Deliver(h, j) ==
    /\ handler[h].pc = "idle"
    /\ job[j] # None /\ job[j].owner = None
    /\ ~Locked(job[j].ver)
    /\ job' = [job EXCEPT ![j].owner = h]
    /\ handler' = [handler EXCEPT ![h] =
                     [Idle EXCEPT !.pc = "locked", !.job = j, !.ver = job[j].ver,
                                  !.mode = job[j].mode]]
    /\ UNCHANGED <<doc, ver, sending, faultVars>>

\* Another handler holds the lock: the invocation throws, which costs a retry.
\* The holder is in one of its external calls (scanner, parser, embedder); one
\* that has a single statement left is through it long before a retry (30 s).
DeliverBusy(h, j) ==
    /\ handler[h].pc = "idle"
    /\ job[j] # None /\ job[j].owner = None
    /\ \E k \in Handlers : /\ Holding(k, job[j].ver)
                          /\ handler[k].pc \in {"claimed", "parsing", "parsed", "rescanning"}
    /\ job' = Retried(j)
    /\ UNCHANGED <<doc, ver, handler, sending, faultVars>>

\* The attempt outlives expireInSeconds; its handler, if alive, runs on.
Expire(j) ==
    /\ job[j] # None /\ job[j].owner # None
    /\ job' = Retried(j)
    /\ UNCHANGED <<doc, ver, handler, sending, faultVars>>

\* The handler returns or throws: unlock, and report to pg-boss, which ignores
\* the report of an attempt it has expired.
Finish(h) ==
    /\ handler[h].pc \in {"done", "threw"}
    /\ LET j == handler[h].job
           mine == job[j] # None /\ job[j].owner = h
       IN  job' = CASE ~mine -> job
                    [] mine /\ handler[h].pc = "threw" -> Retried(j)
                    [] mine /\ handler[h].pc = "done" -> [job EXCEPT ![j] = None]
    /\ handler' = [handler EXCEPT ![h] = Idle]
    /\ UNCHANGED <<doc, ver, sending, faultVars>>

\* The worker dies: its session ends, which frees the lock; the job expires later.
WorkerCrash(h) ==
    /\ faults < MaxFaults
    /\ handler[h].pc # "idle"
    /\ handler' = [handler EXCEPT ![h] = Idle]
    /\ faults' = faults + 1
    /\ UNCHANGED <<doc, ver, job, sending, sendFailures>>

----------------------------------------------------------------------------
(* Ingestion: runClaimedIngestion, one step per write. *)

Advance(h, pc) == handler' = [handler EXCEPT ![h].pc = pc]
\* The invocation is over but for the unlock and the report to pg-boss.
Ends(h, outcome) == handler' = [handler EXCEPT ![h] =
    [Idle EXCEPT !.pc = outcome, !.job = handler[h].job, !.ver = handler[h].ver]]
workerFrame == <<job, sending, faultVars>>

Claimable(row) ==
    /\ row.parse # "ready"
    /\ row.life \in {"submitted", "scanning", "quarantined", "failed"}

Claim(h) ==
    LET v == handler[h].ver IN
    /\ handler[h].pc = "locked" /\ handler[h].mode = "ingest"
    /\ IF Claimable(ver[v])
         THEN /\ ver' = [ver EXCEPT ![v] = [@ EXCEPT !.parse = "parsing", !.life = "scanning",
                                                     !.scan = "running", !.found = "none"]]
              /\ Advance(h, "claimed")
         ELSE UNCHANGED ver /\ Ends(h, "done")
    /\ UNCHANGED <<doc, workerFrame>>

\* The verdict is accepted (scanned clean, or the bypass was on): on to the parser.
\* The UPDATE keeps is_active, so the CHECK constrains it.
ScanAccepted(h, verdict) ==
    LET v == handler[h].ver
        row == [ver[v] EXCEPT !.scan = verdict, !.found = "none", !.life = "parsing"]
    IN  /\ handler[h].pc = "claimed"
        /\ verdict \in {"clean", "disabled"}
        /\ ActiveControl(row)
        /\ ver' = Updated(v, row)
        /\ Advance(h, "parsing")
        /\ UNCHANGED <<doc, workerFrame>>

\* The verdict is refused, or the file signature is (whatever the verdict).
ScanRefused(h, verdict) ==
    LET v == handler[h].ver
        row == [ver[v] EXCEPT !.scan = verdict, !.found = "blocking", !.life = "quarantined",
                              !.parse = "failed", !.active = FALSE]
    IN  /\ handler[h].pc = "claimed"
        /\ verdict \in {"clean", "disabled", "infected", "unavailable"}
        /\ ver' = Updated(v, row)
        /\ Ends(h, "done")
        /\ UNCHANGED <<doc, workerFrame>>

\* Parse (or reuse the markdown of the same bytes), store the markdown, scan it.
Parse(h, found) ==
    LET v == handler[h].ver
        text == IF ver[v].text = "a" THEN "b" ELSE "a"
    IN  /\ handler[h].pc = "parsing"
        /\ ver' = Updated(v, [ver[v] EXCEPT !.text = text])
        /\ handler' = [handler EXCEPT ![h] =
                         [@ EXCEPT !.pc = "parsed", !.found = found, !.text = text]]
        /\ UNCHANGED <<doc, workerFrame>>

ContentRefused(h) ==
    LET v == handler[h].ver
        row == [ver[v] EXCEPT !.parse = "ready", !.life = "quarantined",
                              !.found = "blocking", !.active = FALSE]
    IN  /\ handler[h].pc = "parsed" /\ handler[h].found = "blocking"
        /\ ver' = Updated(v, row)
        /\ Ends(h, "done")
        /\ UNCHANGED <<doc, workerFrame>>

AcceptedScan == {"clean", "disabled"}

\* evaluateDocumentApproval: the row may be published, by this kind of decision.
MayPublish(row, acknowledged) ==
    /\ row.life = "pending_review"
    /\ row.parse = "ready"
    /\ row.scan \in AcceptedScan
    /\ row.found # "blocking"
    /\ row.found = "none" \/ acknowledged

\* shouldAutoActivateDocumentUpload: nothing actionable was found.
MayAutoActivate(row) == row.found = "none"

\* The versions after v is published with the given row: others of the document
\* that are active retire.
Published(v, row, how) ==
    [w \in Versions |->
        CASE w = v -> [row EXCEPT !.life = "active", !.active = TRUE, !.approved = how]
          [] w # v /\ ver[w].doc = row.doc /\ ver[w].active ->
               [ver[w] EXCEPT !.life = "retired", !.active = FALSE]
          [] OTHER -> ver[w]]

MakeCurrent(v) ==
    doc' = [doc EXCEPT ![ver[v].doc] = [life |-> "active", current |-> v]]

\* Mutants: activation looks at the findings stored before the text was scanned;
\* an attempt that finds chunks keeps them.
CommitOnStoredFindings(h, privileged) ==
    LET v == handler[h].ver
        row == [ver[v] EXCEPT !.parse = "ready", !.life = "pending_review", !.active = FALSE,
                              !.chunks = handler[h].text]
    IN  /\ handler[h].pc = "parsed" /\ handler[h].found # "blocking"
        /\ Exists(v)
        /\ IF privileged /\ MayAutoActivate(row) /\ MayPublish(row, FALSE)
             THEN /\ ver' = Published(v, [row EXCEPT !.found = handler[h].found], "auto")
                  /\ MakeCurrent(v)
             ELSE ver' = [ver EXCEPT ![v] = [row EXCEPT !.found = handler[h].found]] /\ UNCHANGED doc
        /\ Ends(h, "done")
        /\ UNCHANGED workerFrame
CommitKeepsChunks(h, privileged) ==
    LET v == handler[h].ver
    IN  /\ handler[h].pc = "parsed" /\ handler[h].found # "blocking"
        /\ Exists(v)
        /\ ver' = [ver EXCEPT ![v] =
                     [@ EXCEPT !.parse = "ready", !.life = "pending_review", !.active = FALSE,
                               !.found = handler[h].found,
                               !.chunks = IF @ = "none" THEN handler[h].text ELSE @]]
        /\ Ends(h, "done")
        /\ UNCHANGED <<doc, workerFrame>>

\* The final transaction: chunks, "ready", and activation for a privileged uploader.
Commit(h, privileged) ==
    LET v == handler[h].ver
        row == [ver[v] EXCEPT !.parse = "ready", !.life = "pending_review",
                              !.found = handler[h].found, !.active = FALSE,
                              !.chunks = handler[h].text]
    IN  /\ handler[h].pc = "parsed" /\ handler[h].found # "blocking"
        /\ Exists(v)
        /\ IF privileged /\ MayAutoActivate(row) /\ MayPublish(row, FALSE)
             THEN ver' = Published(v, row, "auto") /\ MakeCurrent(v)
             ELSE ver' = [ver EXCEPT ![v] = row] /\ UNCHANGED doc
        /\ Ends(h, "done")
        /\ UNCHANGED workerFrame

\* Mutant: the catch block sets parse_status only.
IngestFailsInPlace(h) ==
    LET v == handler[h].ver IN
    /\ handler[h].pc \in {"claimed", "parsing", "parsed"}
    /\ ver' = Updated(v, [ver[v] EXCEPT !.parse = "failed", !.active = FALSE])
    /\ Ends(h, "threw")
    /\ UNCHANGED <<doc, workerFrame>>

\* Any call throws after the claim: the catch block marks the version failed.
IngestFails(h) ==
    LET v == handler[h].ver
        row == [ver[v] EXCEPT !.parse = "failed", !.active = FALSE,
                              !.life = IF ver[v].life = "quarantined"
                                       THEN "quarantined" ELSE "failed"]
    IN  /\ handler[h].pc \in {"claimed", "parsing", "parsed"}
        /\ ver' = Updated(v, row)
        /\ Ends(h, "threw")
        /\ UNCHANGED <<doc, workerFrame>>

----------------------------------------------------------------------------
(* The scan-only malware pass: runLockedMalwareRescan. *)

RescanRead(h) ==
    LET v == handler[h].ver IN
    /\ handler[h].pc = "locked" /\ handler[h].mode = "scan_only"
    /\ IF ScanOnlyEligible(ver[v])
         THEN handler' = [handler EXCEPT ![h] =
                            [@ EXCEPT !.pc = "rescanning", !.seen = ver[v].life,
                                      !.found = ver[v].found]]
         ELSE Ends(h, "done")
    /\ UNCHANGED <<doc, ver, workerFrame>>

RescanClean(h) ==
    LET v == handler[h].ver IN
    /\ handler[h].pc = "rescanning"
    /\ ver' = IF ScanOnlyEligible(ver[v])
                THEN [ver EXCEPT ![v] = [@ EXCEPT !.scan = "clean", !.found = handler[h].found]]
                ELSE ver
    /\ Ends(h, "done")
    /\ UNCHANGED <<doc, workerFrame>>

QuarantineOnHit == {"pending_review", "active", "retired"}

\* Mutant: the verdict is recorded and is_active forgotten.
RescanInfectedStaysActive(h) ==
    LET v == handler[h].ver
        row == [ver[v] EXCEPT !.scan = "infected", !.found = "blocking", !.life = "quarantined"]
    IN  /\ handler[h].pc = "rescanning" /\ ver[v].life = handler[h].seen
        /\ ScanOnlyEligible(ver[v])
        /\ ver' = [ver EXCEPT ![v] = row]
        /\ Ends(h, "done")
        /\ UNCHANGED <<doc, workerFrame>>

RescanInfected(h) ==
    LET v == handler[h].ver
        seen == handler[h].seen
        row == [ver[v] EXCEPT !.scan = "infected", !.found = "blocking", !.active = FALSE,
                              !.life = IF seen \in QuarantineOnHit THEN "quarantined" ELSE seen]
    IN  /\ handler[h].pc = "rescanning"
        /\ IF ver[v].life = seen /\ ScanOnlyEligible(ver[v])
             THEN /\ ver' = [ver EXCEPT ![v] = row]
                  /\ doc' = [d \in Documents |->
                               IF d = ver[v].doc /\ doc[d].current = v
                               THEN [doc[d] EXCEPT !.current = None] ELSE doc[d]]
                  /\ Ends(h, "done")
             ELSE UNCHANGED <<doc, ver>> /\ Ends(h, "threw")
        /\ UNCHANGED workerFrame

\* The scanner gave no verdict, or the file could not be read.
RescanFails(h) ==
    /\ handler[h].pc = "rescanning"
    /\ Ends(h, "threw")
    /\ UNCHANGED <<doc, ver, workerFrame>>

\* The first statement under the lock fails: it is outside the try block, so the
\* row stays as it was and the attempt is spent.
FirstStatementFails(h) ==
    /\ faults < MaxFaults
    /\ handler[h].pc = "locked"
    /\ Ends(h, "threw")
    /\ faults' = faults + 1
    /\ UNCHANGED <<doc, ver, job, sending, sendFailures>>

----------------------------------------------------------------------------
(* Reviewers and administrators. *)

reviewFrame == <<job, handler, sending, faultVars>>

Approve(v, acknowledged) ==
    /\ MayPublish(ver[v], acknowledged)
    /\ ver' = Published(v, ver[v], "review")
    /\ MakeCurrent(v)
    /\ UNCHANGED reviewFrame

Reject(v) ==
    /\ ver[v].life \in {"pending_review", "quarantined"}
    /\ ver' = [ver EXCEPT ![v] = [@ EXCEPT !.life = "rejected", !.active = FALSE]]
    /\ UNCHANGED <<doc, reviewFrame>>

\* Mutant: the document keeps pointing at the revoked version.
RevokeKeepsPointer(v) ==
    /\ ver[v].life = "active"
    /\ ver' = [ver EXCEPT ![v] = [@ EXCEPT !.life = "revoked", !.active = FALSE]]
    /\ UNCHANGED <<doc, reviewFrame>>

Revoke(v) ==
    /\ ver[v].life = "active"
    /\ ver' = [ver EXCEPT ![v] = [@ EXCEPT !.life = "revoked", !.active = FALSE]]
    /\ doc' = [d \in Documents |->
                 IF d = ver[v].doc /\ doc[d].current = v
                 THEN [doc[d] EXCEPT !.current = None] ELSE doc[d]]
    /\ UNCHANGED reviewFrame

\* DELETE /:id, "reversible retirement": every version of the document.
Retire(d) ==
    /\ doc[d].life = "active"
    /\ doc' = [doc EXCEPT ![d] = [life |-> "retired", current |-> None]]
    /\ LET mine == {v \in Versions : Exists(v) /\ ver[v].doc = d}
       IN  ver' = [v \in Versions |->
                     IF v \notin mine THEN ver[v]
                     ELSE [ver[v] EXCEPT !.active = FALSE,
                             !.life = IF ver[v].life \in {"revoked", "rejected"}
                                      THEN ver[v].life ELSE "retired"]]
    /\ UNCHANGED reviewFrame

\* POST /:id/purge, with the title confirmed and the retention elapsed or overridden.
Purge(d) ==
    /\ doc[d].life = "retired"
    /\ DeleteDocument(d)
    /\ UNCHANGED reviewFrame

----------------------------------------------------------------------------

IngestStep(h) ==
    \/ Claim(h)
    \/ \E verdict \in {"clean", "disabled"} : ScanAccepted(h, verdict)
    \/ \E verdict \in {"clean", "disabled", "infected", "unavailable"} : ScanRefused(h, verdict)
    \/ \E found \in Findings : Parse(h, found)
    \/ ContentRefused(h)
    \/ \E privileged \in BOOLEAN : Commit(h, privileged)
    \/ IngestFails(h)

RescanStep(h) ==
    \/ RescanRead(h)
    \/ RescanClean(h)
    \/ RescanInfected(h)
    \/ RescanFails(h)

HandlerStep(h) == IngestStep(h) \/ RescanStep(h) \/ Finish(h)

Queue ==
    \/ \E h \in Handlers, j \in Jobs : Deliver(h, j) \/ DeliverBusy(h, j)
    \/ \E j \in Jobs : Expire(j)

Api ==
    \/ \E d \in Documents, v \in Versions : Upload(d, v)
    \/ \E v \in Versions : RequestRescan(v)
    \/ \E v \in Versions, j \in Jobs : RequestScanOnly(v, j) \/ Send(v, j)
    \/ \E v \in Versions : SendFails(v) \/ ApiCrash(v)

Review ==
    \/ \E v \in Versions, acknowledged \in BOOLEAN : Approve(v, acknowledged)
    \/ \E v \in Versions : Reject(v) \/ Revoke(v)
    \/ \E d \in Documents : Retire(d) \/ Purge(d)

Next ==
    \/ Api
    \/ Queue
    \/ \E h \in Handlers : HandlerStep(h) \/ FirstStatementFails(h) \/ WorkerCrash(h)
    \/ Review

Spec == Init /\ [][Next]_vars

(* A live handler runs on; the queue is first in, first out, so a waiting job is
   not passed over for ever; an API request reaches boss.send. *)
Fairness ==
    /\ \A h \in Handlers : WF_vars(HandlerStep(h))
    /\ \A j \in Jobs : SF_vars(\E h \in Handlers : Deliver(h, j))
    /\ \A v \in Versions : SF_vars(\E j \in Jobs : Send(v, j))

FairSpec == Spec /\ Fairness
----------------------------------------------------------------------------
(* Properties *)

\* The version a document names as current is the one version that is active:
\* retrieval (is_active) and the pointer (current_version_id) never disagree,
\* and two versions of a document are never live together.
PublishedIsCurrent ==
    /\ \A v \in Versions : ver[v].active => Exists(v) /\ doc[ver[v].doc].current = v
    /\ \A d \in Documents, v \in Versions :
          doc[d].current = v => ver[v].active /\ ver[v].doc = d

\* The row states that leave the table's CHECK satisfied, and the lifecycle
\* column agrees with is_active: no statement of the program is refused by the
\* CHECK in the middle of a transaction.
ActiveIsControlled ==
    \A v \in Versions : ActiveControl(ver[v]) /\ (ver[v].life = "active" => ver[v].active)

\* A version with a scanner finding is live only through a reviewer who
\* acknowledged it, and one with a blocking finding never is, whatever order
\* ingestion, scan-only passes and reviews came in.
FlaggedNeedsReview ==
    \A v \in Versions : ver[v].active =>
        /\ ver[v].found # "blocking"
        /\ ver[v].found = "flagged" => ver[v].approved = "review"

\* What reviewers see and retrieval serves is one text: the chunks of a version
\* that awaits review or is live were cut from the markdown stored with it,
\* however many attempts and retries wrote either.
ServedChunksMatchText ==
    \A v \in Versions : ver[v].life \in {"pending_review", "active"} =>
        ver[v].text # "none" /\ ver[v].chunks = ver[v].text

\* No version is live in a document that is retired.
RetiredServesNothing ==
    \A v \in Versions : ver[v].active => doc[ver[v].doc].life = "active"

\* A version that was ever published keeps its text, its chunks and its approval
\* until its row is deleted ("Ready versions are immutable audit/citation
\* evidence"): no retry, rescan or second handler rewrites it.
PublishedTextImmutable ==
    [][\A v \in Versions : ver[v].approved # "no" /\ Exists(v)' =>
          /\ ver'[v].approved = ver[v].approved
          /\ ver'[v].text = ver[v].text
          /\ ver'[v].chunks = ver[v].chunks]_vars

\* A rejection or a revocation is undone by nothing but the purge of the row.
DecisionsStick ==
    [][\A v \in Versions : ver[v].life \in {"rejected", "revoked"} =>
          ver'[v].life \in {ver[v].life, "deleted"}]_vars

\* A submitted version does not stay in flight while no process dies and no send
\* fails: ingestion publishes it, queues it for review, quarantines it or fails it,
\* whatever its retries were spent on.
InFlightEnds ==
    \A v \in Versions :
        ver[v].life \in InFlightLife ~>
            ver[v].life \notin InFlightLife \/ faults + sendFailures > 0

(* The inductive invariant behind PublishedIsCurrent: what holds between the steps
   of a handler, and of an upload, that makes their unguarded writes safe. *)

\* One handler at a time works on a version: the advisory lock.
OneHandler ==
    \A h, k \in Handlers, v \in Versions : Holding(h, v) /\ Holding(k, v) => h = k

\* Between its claim and its last write a handler's version is neither live nor
\* up for review, so no reviewer can publish it under the handler.
ClaimedIsHidden ==
    \A h \in Handlers : handler[h].pc \in {"claimed", "parsing", "parsed"} =>
        ver[handler[h].ver].life \notin {"pending_review", "active"}

\* A running handler knows its job and its version.
HandlersHaveJobs ==
    \A h \in Handlers : handler[h].pc # "idle" =>
        handler[h].ver \in Versions /\ handler[h].job \in Jobs

\* Nothing works on an upload before its job is sent.
UnsentIsUntouched ==
    \A v \in Versions : sending[v] \in {"first_upload", "upload"} =>
        /\ ver[v].life \in {"submitted", "retired", "deleted"}
        /\ ver[v].scan = "pending"
        /\ \A j \in Jobs : job[j] # None => job[j].ver # v
        /\ \A h \in Handlers : ~Holding(h, v)

\* A queued job, a handler and a request in progress are about a row that was inserted.
WorkHasRows ==
    \A v \in Versions : ver[v].life = "absent" =>
        /\ sending[v] = "no"
        /\ \A j \in Jobs : job[j] # None => job[j].ver # v
        /\ \A h \in Handlers : ~Holding(h, v)

\* Rows that exist belong to a document; rows that do not are not live.
RowsHaveDocuments ==
    \A v \in Versions : Exists(v) => ver[v].doc \in Documents

\* Only a document that is not retired points at a current version.
CurrentIsOpen == \A d \in Documents : doc[d].current # None => doc[d].life = "active"

\* The parts together; each step of the program preserves it.
IndInv ==
    /\ TypeOK
    /\ PublishedIsCurrent
    /\ ActiveIsControlled
    /\ OneHandler
    /\ ClaimedIsHidden
    /\ HandlersHaveJobs
    /\ UnsentIsUntouched
    /\ WorkHasRows
    /\ RowsHaveDocuments
    /\ CurrentIsOpen

\* The lifecycle implements Publication: what a document serves is its current
\* version, and a version is given up for good once it was approved and is not
\* active, or its row is gone.
Serving == INSTANCE Publication WITH
    live <- [d \in Documents |-> doc[d].current],
    spent <- {v \in Versions : \/ ver[v].life = "deleted"
                               \/ ver[v].approved # "no" /\ ~ver[v].active}
ImplementsPublication == Serving!Spec

\* "an expired retry can reclaim `parsing`": a version left in parse_status
\* parsing by a handler that is gone can be claimed by the next delivery.
ReclaimsParsing ==
    \A v \in Versions :
        ver[v].parse = "parsing" /\ ver[v].life # "retired" /\ ~Locked(v) => Claimable(ver[v])

\* "Rollback only what THIS upload created": a version of another upload that
\* was queued is not deleted while its document is live.
OnlyOwnUploadUndone ==
    [][\A v \in Versions : Exists(v) /\ sending[v] = "no" /\ ~Exists(v)' =>
          doc[ver[v].doc].life = "retired"]_vars
=============================================================================
