---------------------- MODULE DocumentLifecycleProofs ----------------------
(* Theorems about DocumentLifecycle, for every set of documents, versions,  *)
(* handlers and jobs and every bound.                                       *)
EXTENDS DocumentLifecycle, TLAPS

USE DEF faultVars

\* The column values the operations write are values the columns may have.
LEMMA Columns ==
    /\ {"submitted", "scanning", "parsing", "pending_review", "active", "retired",
        "quarantined", "rejected", "revoked", "failed"} \subseteq Lifecycles
    /\ {"absent", "deleted"} \subseteq Gone
    /\ {"none", "flagged", "blocking"} \subseteq Findings
    /\ {"none", "a", "b"} \subseteq Stamps
    /\ Blank \in VersionRow /\ Erased \in VersionRow /\ Idle \in HandlerRow
  BY DEF Lifecycles, InFlightLife, Gone, Findings, Stamps, Blank, Erased, Idle, VersionRow,
         HandlerRow

LEMMA HandlerFields ==
    ASSUME TypeOK, NEW h \in Handlers
    PROVE  /\ handler[h] \in HandlerRow
           /\ handler[h].found \in Findings /\ handler[h].text \in Stamps
           /\ handler[h].seen \in Lifecycles \cup Gone
           /\ handler[h].job \in Jobs \cup {None}
           /\ handler[h].ver \in Versions \cup {None}
  <1>1. handler[h] \in HandlerRow
    BY DEF TypeOK
  <1> QED BY <1>1 DEF HandlerRow

LEMMA VersionFields ==
    ASSUME TypeOK, NEW v \in Versions
    PROVE  /\ ver[v] \in VersionRow
           /\ ver[v].life \in Lifecycles \cup Gone
           /\ ver[v].found \in Findings
           /\ ver[v].doc \in Documents \cup {None}
           /\ ver[v].active \in BOOLEAN
  <1>1. ver[v] \in VersionRow
    BY DEF TypeOK
  <1> QED BY <1>1 DEF VersionRow

\* An UPDATE of a well-formed row leaves the table well formed.
LEMMA UpdatedType ==
    ASSUME TypeOK, NEW v \in Versions, NEW row \in VersionRow
    PROVE  Updated(v, row) \in [Versions -> VersionRow]
  BY DEF Updated, TypeOK

LEMMA RetriedType ==
    ASSUME TypeOK, NEW j \in Jobs, job[j] # None
    PROVE  Retried(j) \in [Jobs -> JobRow \cup {None}]
  <1>1. job[j] \in JobRow
    BY DEF TypeOK
  <1>2. CASE job[j].tries < RetryLimit
    <2>1. job[j].tries + 1 \in 0..RetryLimit
      BY <1>1, <1>2, BoundsAssumption DEF JobRow
    <2>2. [job[j] EXCEPT !.tries = job[j].tries + 1, !.owner = None] \in JobRow
      BY <1>1, <2>1 DEF JobRow
    <2> QED BY <1>2, <2>2 DEF Retried, TypeOK
  <1>3. CASE ~(job[j].tries < RetryLimit)
    BY <1>3 DEF Retried, TypeOK
  <1> QED BY <1>2, <1>3

LEMMA DeleteType ==
    ASSUME TypeOK, NEW d \in Documents, DeleteDocument(d)
    PROVE  doc' \in [Documents -> DocRow] /\ ver' \in [Versions -> VersionRow]
  BY Columns DEF DeleteDocument, TypeOK, DocRow

LEMMA ApiType == ASSUME TypeOK, RowsHaveDocuments, Api PROVE TypeOK'
  <1>1. ASSUME NEW d \in Documents, NEW v \in Versions, Upload(d, v) PROVE TypeOK'
    <2>1. [Blank EXCEPT !.doc = d, !.life = "submitted"] \in VersionRow
      BY Columns DEF VersionRow
    <2>2. [doc EXCEPT ![d].life = "active"] \in [Documents -> DocRow]
      BY DEF TypeOK, DocRow
    <2> QED BY <1>1, <2>1, <2>2 DEF Upload, TypeOK
  <1>2. ASSUME NEW v \in Versions, RequestRescan(v) PROVE TypeOK'
    <2>1. [ver[v] EXCEPT !.life = "submitted", !.parse = "pending", !.scan = "pending",
                         !.found = "none", !.active = FALSE] \in VersionRow
      BY Columns DEF TypeOK, VersionRow
    <2> QED BY <1>2, <2>1 DEF RequestRescan, TypeOK
  <1>3. ASSUME NEW v \in Versions, NEW j \in Jobs, RequestScanOnly(v, j) PROVE TypeOK'
    BY <1>3, BoundsAssumption DEF RequestScanOnly, Queued, JobRow, TypeOK
  <1>4. ASSUME NEW v \in Versions, NEW j \in Jobs, Send(v, j) PROVE TypeOK'
    BY <1>4, BoundsAssumption DEF Send, Queued, JobRow, TypeOK
  <1>5. ASSUME NEW v \in Versions, SendFails(v) PROVE TypeOK'
    <2>1. doc' \in [Documents -> DocRow] /\ ver' \in [Versions -> VersionRow]
      <3>1. CASE sending[v] = "first_upload"
        <4>1. CASE Exists(v)
          <5>1. ver[v].doc \in Documents
            BY <4>1 DEF RowsHaveDocuments
          <5> QED BY <1>5, <3>1, <4>1, <5>1, DeleteType DEF SendFails, UndoSend
        <4>2. CASE ~Exists(v)
          BY <1>5, <3>1, <4>2 DEF SendFails, UndoSend, TypeOK
        <4> QED BY <4>1, <4>2
      <3>2. CASE sending[v] = "upload"
        BY <1>5, <3>2, UpdatedType, Columns DEF SendFails, UndoSend, TypeOK
      <3>3. CASE sending[v] = "rescan"
        <4>1. [ver[v] EXCEPT !.life = "failed", !.parse = "failed"] \in VersionRow
          BY Columns DEF TypeOK, VersionRow
        <4> QED BY <1>5, <3>3, <4>1, UpdatedType DEF SendFails, UndoSend, TypeOK
      <3> QED BY <1>5, <3>1, <3>2, <3>3 DEF SendFails, UndoSend
    <2>2. sendFailures' \in 0..MaxSendFailures
      BY <1>5, BoundsAssumption DEF SendFails, TypeOK
    <2> QED BY <1>5, <2>1, <2>2 DEF SendFails, TypeOK
  <1>6. ASSUME NEW v \in Versions, ApiCrash(v) PROVE TypeOK'
    BY <1>6, BoundsAssumption DEF ApiCrash, TypeOK
  <1> QED BY <1>1, <1>2, <1>3, <1>4, <1>5, <1>6 DEF Api

LEMMA QueueType == ASSUME TypeOK, Queue PROVE TypeOK'
  <1>1. ASSUME NEW h \in Handlers, NEW j \in Jobs, Deliver(h, j) PROVE TypeOK'
    <2>1. job[j] \in JobRow
      BY <1>1 DEF Deliver, TypeOK
    <2>2. [job[j] EXCEPT !.owner = h] \in JobRow
      BY <2>1 DEF JobRow
    <2>3. [Idle EXCEPT !.pc = "locked", !.job = j, !.ver = job[j].ver, !.mode = job[j].mode]
            \in HandlerRow
      BY <2>1, Columns DEF HandlerRow, JobRow
    <2> QED BY <1>1, <2>2, <2>3 DEF Deliver, TypeOK
  <1>2. ASSUME NEW h \in Handlers, NEW j \in Jobs, DeliverBusy(h, j) PROVE TypeOK'
    BY <1>2, RetriedType DEF DeliverBusy, TypeOK
  <1>3. ASSUME NEW j \in Jobs, Expire(j) PROVE TypeOK'
    BY <1>3, RetriedType DEF Expire, TypeOK
  <1> QED BY <1>1, <1>2, <1>3 DEF Queue

\* A handler moves on, or ends, as a well-formed handler.
LEMMA AdvanceType ==
    ASSUME TypeOK, NEW h \in Handlers,
           NEW pc \in {"idle", "locked", "claimed", "parsing", "parsed", "rescanning", "done", "threw"},
           Advance(h, pc) \/ Ends(h, pc)
    PROVE  handler' \in [Handlers -> HandlerRow]
  <1>1. [handler[h] EXCEPT !.pc = pc] \in HandlerRow
    BY DEF TypeOK, HandlerRow
  <1>2. [Idle EXCEPT !.pc = pc, !.job = handler[h].job, !.ver = handler[h].ver] \in HandlerRow
    BY Columns DEF TypeOK, HandlerRow
  <1> QED BY <1>1, <1>2 DEF Advance, Ends, TypeOK

\* Publishing writes well-formed rows to the versions of one document.
LEMMA PublishedType ==
    ASSUME TypeOK, NEW v \in Versions, NEW row \in VersionRow, NEW how \in {"auto", "review"}
    PROVE  Published(v, row, how) \in [Versions -> VersionRow]
  <1>1. [row EXCEPT !.life = "active", !.active = TRUE, !.approved = how] \in VersionRow
    BY Columns DEF VersionRow
  <1>2. ASSUME NEW w \in Versions
        PROVE  [ver[w] EXCEPT !.life = "retired", !.active = FALSE] \in VersionRow
    BY Columns DEF TypeOK, VersionRow
  <1> QED BY <1>1, <1>2 DEF Published, TypeOK

LEMMA MakeCurrentType ==
    ASSUME TypeOK, NEW v \in Versions, MakeCurrent(v)
    PROVE  doc' \in [Documents -> DocRow]
  BY DEF MakeCurrent, TypeOK, DocRow

LEMMA IngestType == ASSUME TypeOK, HandlersHaveJobs, NEW h \in Handlers, IngestStep(h)
                    PROVE  TypeOK'
  <1> DEFINE v == handler[h].ver
  <1> USE DEF workerFrame
  <1>a. handler[h].pc # "idle" => v \in Versions
    BY DEF HandlersHaveJobs
  <1>1. CASE Claim(h)
    <2>1. v \in Versions
      BY <1>1, <1>a DEF Claim
    <2>2. [ver[v] EXCEPT !.parse = "parsing", !.life = "scanning", !.scan = "running",
                         !.found = "none"] \in VersionRow
      BY <2>1, Columns DEF TypeOK, VersionRow
    <2>3. handler' \in [Handlers -> HandlerRow]
      BY <1>1, AdvanceType DEF Claim
    <2> QED BY <1>1, <2>1, <2>2, <2>3 DEF Claim, TypeOK
  <1>2. ASSUME NEW verdict \in {"clean", "disabled"}, ScanAccepted(h, verdict) PROVE TypeOK'
    <2>1. v \in Versions
      BY <1>2, <1>a DEF ScanAccepted
    <2>2. [ver[v] EXCEPT !.scan = verdict, !.found = "none", !.life = "parsing"] \in VersionRow
      BY <2>1, Columns DEF TypeOK, VersionRow
    <2>3. handler' \in [Handlers -> HandlerRow]
      BY <1>2, AdvanceType DEF ScanAccepted
    <2>4. ver' \in [Versions -> VersionRow]
      BY <1>2, <2>1, <2>2, UpdatedType DEF ScanAccepted
    <2> QED BY <1>2, <2>3, <2>4 DEF ScanAccepted, TypeOK
  <1>3. ASSUME NEW verdict \in {"clean", "disabled", "infected", "unavailable"},
               ScanRefused(h, verdict) PROVE TypeOK'
    <2>1. v \in Versions
      BY <1>3, <1>a DEF ScanRefused
    <2>2. [ver[v] EXCEPT !.scan = verdict, !.found = "blocking", !.life = "quarantined",
                         !.parse = "failed", !.active = FALSE] \in VersionRow
      BY <2>1, Columns DEF TypeOK, VersionRow
    <2>3. handler' \in [Handlers -> HandlerRow]
      BY <1>3, AdvanceType DEF ScanRefused
    <2>4. ver' \in [Versions -> VersionRow]
      BY <1>3, <2>1, <2>2, UpdatedType DEF ScanRefused
    <2> QED BY <1>3, <2>3, <2>4 DEF ScanRefused, TypeOK
  <1>4. ASSUME NEW found \in Findings, Parse(h, found) PROVE TypeOK'
    <2>1. v \in Versions
      BY <1>4, <1>a DEF Parse
    <2> DEFINE text == IF ver[v].text = "a" THEN "b" ELSE "a"
    <2>2. text \in Stamps
      BY Columns
    <2>3. [ver[v] EXCEPT !.text = text] \in VersionRow
      BY <2>1, <2>2 DEF TypeOK, VersionRow
    <2>4. [handler[h] EXCEPT !.pc = "parsed", !.found = found, !.text = text] \in HandlerRow
      BY <2>2 DEF TypeOK, HandlerRow
    <2>5. ver' \in [Versions -> VersionRow]
      BY <1>4, <2>1, <2>3, UpdatedType DEF Parse
    <2> QED BY <1>4, <2>4, <2>5 DEF Parse, TypeOK
  <1>5. CASE ContentRefused(h)
    <2>1. v \in Versions
      BY <1>5, <1>a DEF ContentRefused
    <2>2. [ver[v] EXCEPT !.parse = "ready", !.life = "quarantined", !.found = "blocking",
                         !.active = FALSE] \in VersionRow
      BY <2>1, Columns DEF TypeOK, VersionRow
    <2>3. handler' \in [Handlers -> HandlerRow]
      BY <1>5, AdvanceType DEF ContentRefused
    <2>4. ver' \in [Versions -> VersionRow]
      BY <1>5, <2>1, <2>2, UpdatedType DEF ContentRefused
    <2> QED BY <1>5, <2>3, <2>4 DEF ContentRefused, TypeOK
  <1>6. ASSUME NEW privileged \in BOOLEAN, Commit(h, privileged) PROVE TypeOK'
    <2>1. v \in Versions
      BY <1>6, <1>a DEF Commit
    <2> DEFINE row == [ver[v] EXCEPT !.parse = "ready", !.life = "pending_review",
                                     !.found = handler[h].found, !.active = FALSE,
                                     !.chunks = handler[h].text]
    <2>2. row \in VersionRow
      BY <2>1, Columns, HandlerFields, VersionFields DEF VersionRow
    <2>3. handler' \in [Handlers -> HandlerRow]
      BY <1>6, AdvanceType DEF Commit
    <2>4. CASE ver' = Published(v, row, "auto") /\ MakeCurrent(v)
      BY <1>6, <2>1, <2>2, <2>3, <2>4, PublishedType, MakeCurrentType DEF Commit, TypeOK
    <2>5. CASE ver' = [ver EXCEPT ![v] = row] /\ UNCHANGED doc
      BY <1>6, <2>2, <2>3, <2>5 DEF Commit, TypeOK
    <2> QED BY <1>6, <2>4, <2>5 DEF Commit
  <1>7. CASE IngestFails(h)
    <2>1. v \in Versions
      BY <1>7, <1>a DEF IngestFails
    <2> DEFINE life == IF ver[v].life = "quarantined" THEN "quarantined" ELSE "failed"
    <2>a. life \in Lifecycles
      BY Columns
    <2>2. [ver[v] EXCEPT !.parse = "failed", !.active = FALSE, !.life = life] \in VersionRow
      <3> HIDE DEF life
      <3> QED BY <2>1, <2>a, VersionFields DEF VersionRow
    <2>3. handler' \in [Handlers -> HandlerRow]
      BY <1>7, AdvanceType DEF IngestFails
    <2>4. ver' \in [Versions -> VersionRow]
      BY <1>7, <2>1, <2>2, UpdatedType DEF IngestFails
    <2> QED BY <1>7, <2>3, <2>4 DEF IngestFails, TypeOK
  <1> QED BY <1>1, <1>2, <1>3, <1>4, <1>5, <1>6, <1>7 DEF IngestStep

LEMMA RescanType == ASSUME TypeOK, HandlersHaveJobs, NEW h \in Handlers, RescanStep(h)
                    PROVE  TypeOK'
  <1> DEFINE v == handler[h].ver
  <1> USE DEF workerFrame
  <1>a. handler[h].pc # "idle" => v \in Versions
    BY DEF HandlersHaveJobs
  <1>1. CASE RescanRead(h)
    <2>1. v \in Versions
      BY <1>1, <1>a DEF RescanRead
    <2>2. [handler[h] EXCEPT !.pc = "rescanning", !.seen = ver[v].life, !.found = ver[v].found]
            \in HandlerRow
      BY <2>1, HandlerFields, VersionFields DEF HandlerRow
    <2>3. handler' \in [Handlers -> HandlerRow]
      BY <1>1, <2>2, AdvanceType DEF RescanRead, TypeOK
    <2> QED BY <1>1, <2>3 DEF RescanRead, TypeOK
  <1>2. CASE RescanClean(h)
    <2>1. v \in Versions
      BY <1>2, <1>a DEF RescanClean
    <2>2. [ver[v] EXCEPT !.scan = "clean", !.found = handler[h].found] \in VersionRow
      BY <2>1, HandlerFields, VersionFields DEF VersionRow
    <2>3. handler' \in [Handlers -> HandlerRow]
      BY <1>2, AdvanceType DEF RescanClean
    <2> QED BY <1>2, <2>2, <2>3 DEF RescanClean, TypeOK
  <1>3. CASE RescanInfected(h)
    <2>1. v \in Versions
      BY <1>3, <1>a DEF RescanInfected
    <2> DEFINE life == IF handler[h].seen \in QuarantineOnHit THEN "quarantined" ELSE handler[h].seen
    <2>a. life \in Lifecycles \cup Gone
      BY Columns DEF TypeOK, HandlerRow
    <2>2. [ver[v] EXCEPT !.scan = "infected", !.found = "blocking", !.active = FALSE,
                         !.life = life] \in VersionRow
      <3> HIDE DEF life
      <3> QED BY <2>1, <2>a, Columns DEF TypeOK, VersionRow
    <2>3. handler' \in [Handlers -> HandlerRow]
      BY <1>3, AdvanceType DEF RescanInfected
    <2>4. ver' \in [Versions -> VersionRow]
      BY <1>3, <2>1, <2>2 DEF RescanInfected, TypeOK
    <2>5. doc' \in [Documents -> DocRow]
      BY <1>3 DEF RescanInfected, TypeOK, DocRow
    <2> QED BY <1>3, <2>3, <2>4, <2>5 DEF RescanInfected, TypeOK
  <1>4. CASE RescanFails(h)
    BY <1>4, AdvanceType DEF RescanFails, TypeOK
  <1> QED BY <1>1, <1>2, <1>3, <1>4 DEF RescanStep

LEMMA EndType ==
    ASSUME TypeOK, HandlersHaveJobs, NEW h \in Handlers,
           Finish(h) \/ FirstStatementFails(h) \/ WorkerCrash(h)
    PROVE  TypeOK'
  <1>1. CASE Finish(h)
    <2> DEFINE j == handler[h].job
    <2>1. handler' \in [Handlers -> HandlerRow]
      BY <1>1, Columns DEF Finish, TypeOK
    <2>2. job' \in [Jobs -> JobRow \cup {None}]
      <3>1. CASE job' = job
        BY <3>1 DEF TypeOK
      <3>2. CASE job' = Retried(j) /\ job[j] # None
        <4>1. j \in Jobs
          BY <1>1 DEF Finish, HandlersHaveJobs
        <4> QED BY <3>2, <4>1, RetriedType
      <3>3. CASE job' = [job EXCEPT ![j] = None]
        BY <3>3 DEF TypeOK
      <3> QED BY <1>1, <3>1, <3>2, <3>3 DEF Finish
    <2> QED BY <1>1, <2>1, <2>2 DEF Finish, TypeOK
  <1>2. CASE FirstStatementFails(h)
    BY <1>2, AdvanceType, BoundsAssumption DEF FirstStatementFails, TypeOK
  <1>3. CASE WorkerCrash(h)
    BY <1>3, Columns, BoundsAssumption DEF WorkerCrash, TypeOK
  <1> QED BY <1>1, <1>2, <1>3

LEMMA ReviewType == ASSUME TypeOK, Review PROVE TypeOK'
  <1> USE DEF reviewFrame
  <1>1. ASSUME NEW v \in Versions, NEW acknowledged \in BOOLEAN, Approve(v, acknowledged)
        PROVE  TypeOK'
    BY <1>1, PublishedType, MakeCurrentType DEF Approve, TypeOK
  <1>2. ASSUME NEW v \in Versions, Reject(v) PROVE TypeOK'
    <2>1. [ver[v] EXCEPT !.life = "rejected", !.active = FALSE] \in VersionRow
      BY Columns DEF TypeOK, VersionRow
    <2> QED BY <1>2, <2>1 DEF Reject, TypeOK
  <1>3. ASSUME NEW v \in Versions, Revoke(v) PROVE TypeOK'
    <2>1. [ver[v] EXCEPT !.life = "revoked", !.active = FALSE] \in VersionRow
      BY Columns DEF TypeOK, VersionRow
    <2>2. doc' \in [Documents -> DocRow]
      BY <1>3 DEF Revoke, TypeOK, DocRow
    <2> QED BY <1>3, <2>1, <2>2 DEF Revoke, TypeOK
  <1>4. ASSUME NEW d \in Documents, Retire(d) PROVE TypeOK'
    <2>1. ASSUME NEW v \in Versions, NEW life \in {"retired", ver[v].life}
          PROVE  [ver[v] EXCEPT !.active = FALSE, !.life = life] \in VersionRow
      BY Columns DEF TypeOK, VersionRow
    <2>2. ver' \in [Versions -> VersionRow]
      BY <1>4, <2>1 DEF Retire, TypeOK
    <2>3. doc' \in [Documents -> DocRow]
      BY <1>4 DEF Retire, TypeOK, DocRow
    <2> QED BY <1>4, <2>2, <2>3 DEF Retire, TypeOK
  <1>5. ASSUME NEW d \in Documents, Purge(d) PROVE TypeOK'
    BY <1>5, DeleteType DEF Purge, TypeOK
  <1> QED BY <1>1, <1>2, <1>3, <1>4, <1>5 DEF Review

----------------------------------------------------------------------------
(* The inductive invariant.  RowsAgree is its part about the rows; the rest is
   about the handlers and the requests. *)

RowsAgree == PublishedIsCurrent /\ ActiveIsControlled /\ RowsHaveDocuments /\ CurrentIsOpen

\* A write that neither starts from a live row nor makes one keeps rows and
\* pointers in agreement.
LEMMA QuietWrite ==
    ASSUME TypeOK, RowsAgree, NEW v \in Versions, NEW row \in VersionRow,
           ~ver[v].active, ~row.active, row.life # "active",
           row.life \notin Gone => row.doc \in Documents,
           ver' = [ver EXCEPT ![v] = row] \/ ver' = ver, doc' = doc
    PROVE  RowsAgree'
  <1>1. CASE ver' = ver
    BY <1>1 DEF RowsAgree, PublishedIsCurrent, ActiveIsControlled, RowsHaveDocuments, CurrentIsOpen,
                Exists
  <1>2. CASE ver' = [ver EXCEPT ![v] = row]
    <2>1. ver'[v] = row /\ \A w \in Versions : w # v => ver'[w] = ver[w]
      BY <1>2 DEF TypeOK
    <2>2. PublishedIsCurrent'
      BY <2>1 DEF RowsAgree, PublishedIsCurrent, Exists
    <2>3. ActiveIsControlled'
      BY <2>1 DEF RowsAgree, ActiveIsControlled, ActiveControl
    <2>4. RowsHaveDocuments' /\ CurrentIsOpen'
      BY <2>1 DEF RowsAgree, RowsHaveDocuments, CurrentIsOpen, Exists
    <2> QED BY <2>2, <2>3, <2>4 DEF RowsAgree
  <1> QED BY <1>1, <1>2

\* Publishing moves the document's pointer with the one version that is live.
LEMMA PublishedAgrees ==
    ASSUME TypeOK, RowsAgree, NEW v \in Versions, NEW row \in VersionRow,
           NEW how \in {"auto", "review"},
           Exists(v), row.doc = ver[v].doc, row.scan \in {"clean", "disabled"},
           ver' = Published(v, row, how), MakeCurrent(v)
    PROVE  RowsAgree'
  <1> DEFINE d == ver[v].doc
  <1>1. d \in Documents
    BY DEF RowsAgree, RowsHaveDocuments
  <1>2. ver'[v] = [row EXCEPT !.life = "active", !.active = TRUE, !.approved = how]
    BY DEF Published
  <1>3. /\ ver'[v].life = "active" /\ ver'[v].active /\ ver'[v].approved = how
        /\ ver'[v].scan = row.scan /\ ver'[v].doc = d
    BY <1>2 DEF VersionRow
  <1>4. ASSUME NEW w \in Versions, w # v, ver[w].doc = d, ver[w].active
        PROVE  ~ver'[w].active /\ ver'[w].life = "retired" /\ ver'[w].doc = d
    <2>1. ver'[w] = [ver[w] EXCEPT !.life = "retired", !.active = FALSE]
      BY <1>4 DEF Published
    <2> QED BY <1>4, <2>1, VersionFields DEF VersionRow
  <1>5. ASSUME NEW w \in Versions, w # v, ~(ver[w].doc = d /\ ver[w].active)
        PROVE  ver'[w] = ver[w]
    BY <1>5, VersionFields DEF Published
  <1>6. doc'[d] = [life |-> "active", current |-> v] /\ \A e \in Documents : e # d => doc'[e] = doc[e]
    BY <1>1 DEF MakeCurrent, TypeOK
  <1>7. PublishedIsCurrent'
    <2>1. ASSUME NEW w \in Versions, ver'[w].active
          PROVE  Exists(w)' /\ doc'[ver'[w].doc].current = w
      <3>1. CASE w = v
        BY <3>1, <1>3, <1>6 DEF Exists, Gone
      <3>2. CASE w # v
        <4>1. ver'[w] = ver[w] /\ ver[w].doc # d
          BY <3>2, <2>1, <1>4, <1>5
        <4>2. ver[w].doc \in Documents
          BY <4>1, <2>1 DEF RowsAgree, PublishedIsCurrent, RowsHaveDocuments
        <4> QED BY <4>1, <4>2, <2>1, <1>6 DEF RowsAgree, PublishedIsCurrent, Exists
      <3> QED BY <3>1, <3>2
    <2>2. ASSUME NEW e \in Documents, NEW w \in Versions, doc'[e].current = w
          PROVE  ver'[w].active /\ ver'[w].doc = e
      <3>1. CASE e = d
        BY <3>1, <2>2, <1>3, <1>6
      <3>2. CASE e # d
        <4>1. ver[w].active /\ ver[w].doc = e
          BY <3>2, <2>2, <1>6 DEF RowsAgree, PublishedIsCurrent
        <4> QED BY <3>2, <4>1, <1>5
      <3> QED BY <3>1, <3>2
    <2> QED BY <2>1, <2>2 DEF PublishedIsCurrent
  <1>8. ActiveIsControlled'
    <2> SUFFICES ASSUME NEW w \in Versions
                 PROVE  ActiveControl(ver'[w]) /\ (ver'[w].life = "active" => ver'[w].active)
      BY DEF ActiveIsControlled
    <2>1. CASE w = v
      BY <2>1, <1>3 DEF ActiveControl
    <2>2. CASE w # v /\ ver[w].doc = d /\ ver[w].active
      BY <2>2, <1>4 DEF ActiveControl
    <2>3. CASE w # v /\ ~(ver[w].doc = d /\ ver[w].active)
      BY <2>3, <1>5 DEF RowsAgree, ActiveIsControlled
    <2> QED BY <2>1, <2>2, <2>3
  <1>9. RowsHaveDocuments'
    <2> SUFFICES ASSUME NEW w \in Versions, Exists(w)' PROVE ver'[w].doc \in Documents
      BY DEF RowsHaveDocuments
    <2>1. CASE w # v /\ ~(ver[w].doc = d /\ ver[w].active)
      BY <2>1, <1>5 DEF RowsAgree, RowsHaveDocuments, Exists
    <2> QED BY <2>1, <1>1, <1>3, <1>4
  <1>10. CurrentIsOpen'
    BY <1>6 DEF RowsAgree, CurrentIsOpen
  <1> QED BY <1>7, <1>8, <1>9, <1>10 DEF RowsAgree

\* Deleting a document takes its rows and its pointer together.
LEMMA DeleteAgrees ==
    ASSUME TypeOK, RowsAgree, NEW d \in Documents, DeleteDocument(d)
    PROVE  RowsAgree'
  <1>1. \A v \in Versions : ver'[v] = IF Exists(v) /\ ver[v].doc = d THEN Erased ELSE ver[v]
    BY DEF DeleteDocument
  <1>2. ~Erased.active /\ Erased.life = "deleted"
    BY DEF Erased, Blank
  <1>3. doc'[d].current = None /\ \A e \in Documents : e # d => doc'[e] = doc[e]
    BY DEF DeleteDocument, TypeOK
  <1>4. PublishedIsCurrent'
    <2>1. ASSUME NEW v \in Versions, ver'[v].active
          PROVE  Exists(v)' /\ doc'[ver'[v].doc].current = v
      <3>1. ver'[v] = ver[v] /\ Exists(v) /\ ver[v].doc # d
        BY <2>1, <1>1, <1>2 DEF RowsAgree, PublishedIsCurrent
      <3>2. ver[v].doc \in Documents
        BY <3>1 DEF RowsAgree, RowsHaveDocuments
      <3> QED BY <2>1, <3>1, <3>2, <1>3 DEF RowsAgree, PublishedIsCurrent, Exists
    <2>2. ASSUME NEW e \in Documents, NEW v \in Versions, doc'[e].current = v
          PROVE  ver'[v].active /\ ver'[v].doc = e
      <3>1. e # d
        BY <2>2, <1>3, DistinctAssumption
      <3> QED BY <2>2, <3>1, <1>1, <1>3 DEF RowsAgree, PublishedIsCurrent
    <2> QED BY <2>1, <2>2 DEF PublishedIsCurrent
  <1>5. ActiveIsControlled'
    BY <1>1, <1>2 DEF RowsAgree, ActiveIsControlled, ActiveControl
  <1>6. RowsHaveDocuments'
    BY <1>1, <1>2 DEF RowsAgree, RowsHaveDocuments, Exists, Gone
  <1>7. CurrentIsOpen'
    BY <1>3 DEF RowsAgree, CurrentIsOpen
  <1> QED BY <1>4, <1>5, <1>6, <1>7 DEF RowsAgree

\* Taking the live version off a document, in one transaction with the pointer.
LEMMA WithdrawnAgrees ==
    ASSUME TypeOK, RowsAgree, NEW v \in Versions, NEW row \in VersionRow,
           Exists(v), row.doc = ver[v].doc, ~row.active, row.life # "active",
           ver' = [ver EXCEPT ![v] = row],
           doc' = [d \in Documents |-> IF d = ver[v].doc /\ doc[d].current = v
                                       THEN [doc[d] EXCEPT !.current = None] ELSE doc[d]]
    PROVE  RowsAgree'
  <1>1. ver'[v] = row /\ \A w \in Versions : w # v => ver'[w] = ver[w]
    BY DEF TypeOK
  <1>2. ver[v].doc \in Documents
    BY DEF RowsAgree, RowsHaveDocuments
  <1>3. \A d \in Documents : /\ doc'[d].current = IF d = ver[v].doc /\ doc[d].current = v
                                                  THEN None ELSE doc[d].current
                             /\ doc'[d].life = doc[d].life
    BY DEF TypeOK, DocRow
  <1>4. PublishedIsCurrent'
    <2>1. ASSUME NEW w \in Versions, ver'[w].active
          PROVE  Exists(w)' /\ doc'[ver'[w].doc].current = w
      <3>1. w # v /\ ver'[w] = ver[w]
        BY <2>1, <1>1
      <3>2. ver[w].doc \in Documents /\ Exists(w) /\ doc[ver[w].doc].current = w
        BY <2>1, <3>1 DEF RowsAgree, PublishedIsCurrent, RowsHaveDocuments
      <3> QED BY <3>1, <3>2, <1>3 DEF Exists
    <2>2. ASSUME NEW d \in Documents, NEW w \in Versions, doc'[d].current = w
          PROVE  ver'[w].active /\ ver'[w].doc = d
      <3>1. doc[d].current = w
        BY <2>2, <1>3, DistinctAssumption
      <3>2. ver[w].active /\ ver[w].doc = d
        BY <3>1 DEF RowsAgree, PublishedIsCurrent
      <3>3. w # v
        BY <2>2, <3>1, <3>2, <1>3, DistinctAssumption
      <3> QED BY <3>2, <3>3, <1>1
    <2> QED BY <2>1, <2>2 DEF PublishedIsCurrent
  <1>5. ActiveIsControlled'
    BY <1>1 DEF RowsAgree, ActiveIsControlled, ActiveControl
  <1>6. RowsHaveDocuments' /\ CurrentIsOpen'
    BY <1>1, <1>2, <1>3 DEF RowsAgree, RowsHaveDocuments, CurrentIsOpen, Exists
  <1> QED BY <1>4, <1>5, <1>6 DEF RowsAgree

\* Retiring a document takes every version of it off with the pointer.
LEMMA RetireAgrees ==
    ASSUME TypeOK, RowsAgree, NEW d \in Documents, Retire(d)
    PROVE  RowsAgree'
  <1>1. ASSUME NEW v \in Versions
        PROVE  IF Exists(v) /\ ver[v].doc = d
               THEN /\ ~ver'[v].active /\ ver'[v].doc = d
                    /\ ver'[v].life \in {"revoked", "rejected", "retired"}
               ELSE ver'[v] = ver[v]
    BY VersionFields DEF Retire, VersionRow
  <1>2. /\ doc'[d].current = None
        /\ \A e \in Documents : e # d => doc'[e] = doc[e]
    BY DEF Retire, TypeOK
  <1>3. PublishedIsCurrent'
    <2>1. ASSUME NEW v \in Versions, ver'[v].active
          PROVE  Exists(v)' /\ doc'[ver'[v].doc].current = v
      <3>1. ver'[v] = ver[v] /\ Exists(v) /\ ver[v].doc # d
        BY <2>1, <1>1 DEF RowsAgree, PublishedIsCurrent
      <3>2. ver[v].doc \in Documents
        BY <3>1 DEF RowsAgree, RowsHaveDocuments
      <3> QED BY <2>1, <3>1, <3>2, <1>2 DEF RowsAgree, PublishedIsCurrent, Exists
    <2>2. ASSUME NEW e \in Documents, NEW v \in Versions, doc'[e].current = v
          PROVE  ver'[v].active /\ ver'[v].doc = e
      <3>1. e # d
        BY <2>2, <1>2, DistinctAssumption
      <3> QED BY <2>2, <3>1, <1>1, <1>2 DEF RowsAgree, PublishedIsCurrent
    <2> QED BY <2>1, <2>2 DEF PublishedIsCurrent
  <1>4. ActiveIsControlled'
    BY <1>1 DEF RowsAgree, ActiveIsControlled, ActiveControl
  <1>5. RowsHaveDocuments' /\ CurrentIsOpen'
    BY <1>1, <1>2 DEF RowsAgree, RowsHaveDocuments, CurrentIsOpen, Exists, Gone
  <1> QED BY <1>3, <1>4, <1>5 DEF RowsAgree

----------------------------------------------------------------------------

RequestsAgree == UnsentIsUntouched /\ WorkHasRows

\* What a step may do to rows, jobs and handlers without the requests in
\* progress noticing: it starts no work, inserts no row and begins no request.
LEMMA RequestsKept ==
    ASSUME RequestsAgree,
           \A w \in Versions :
               /\ sending'[w] \in {sending[w], "no"} \/ ver[w].life # "absent"
               /\ sending'[w] \in {"first_upload", "upload"} => sending'[w] = sending[w]
               /\ ver'[w].life = ver[w].life \/ ver'[w].life \in {"retired", "deleted"}
                     \/ sending[w] \notin {"first_upload", "upload"}
               /\ ver'[w].scan = ver[w].scan \/ ver'[w].scan = "pending"
                     \/ sending[w] \notin {"first_upload", "upload"}
               /\ ver'[w].life = "absent" => ver[w].life = "absent",
           \A j \in Jobs : job'[j] # None => job[j] # None /\ job'[j].ver = job[j].ver,
           \A h \in Handlers, w \in Versions : Holding(h, w)' => Holding(h, w)
    PROVE  RequestsAgree'
  <1>1. UnsentIsUntouched'
    BY DEF RequestsAgree, UnsentIsUntouched
  <1>2. WorkHasRows'
    BY DEF RequestsAgree, WorkHasRows
  <1> QED BY <1>1, <1>2 DEF RequestsAgree

\* The parts about handlers survive a step that only lets handlers go, and hides
\* no claimed version less than before.
LEMMA HandlersKept ==
    ASSUME OneHandler, ClaimedIsHidden, HandlersHaveJobs,
           \A h \in Handlers : handler'[h] = handler[h] \/ handler'[h].pc = "idle",
           \A h \in Handlers : handler[h].pc \in {"claimed", "parsing", "parsed"} =>
               \/ ver'[handler[h].ver].life = ver[handler[h].ver].life
               \/ ver'[handler[h].ver].life \notin {"pending_review", "active"}
    PROVE  /\ OneHandler' /\ ClaimedIsHidden' /\ HandlersHaveJobs'
           /\ \A h \in Handlers, w \in Versions : Holding(h, w)' => Holding(h, w)
  BY DEF OneHandler, ClaimedIsHidden, HandlersHaveJobs, Holding

\* They survive a handler's own step on its version.
LEMMA HandlerMoves ==
    ASSUME OneHandler, ClaimedIsHidden, HandlersHaveJobs, NEW h \in Handlers,
           handler[h].pc # "idle",
           \A k \in Handlers : k # h => handler'[k] = handler[k],
           handler'[h].pc # "idle",
           handler'[h].ver = handler[h].ver, handler'[h].job = handler[h].job,
           \A w \in Versions : w # handler[h].ver =>
               ver'[w].life = ver[w].life \/ ver'[w].life \notin {"pending_review", "active"},
           handler'[h].pc \in {"claimed", "parsing", "parsed"} =>
               ver'[handler[h].ver].life \notin {"pending_review", "active"}
    PROVE  /\ OneHandler' /\ ClaimedIsHidden' /\ HandlersHaveJobs'
           /\ \A k \in Handlers, w \in Versions : Holding(k, w)' => Holding(k, w)
  <1>1. \A k \in Handlers, w \in Versions : Holding(k, w)' => Holding(k, w)
    BY DEF Holding
  <1>2. OneHandler'
    BY <1>1 DEF OneHandler
  <1>3. HandlersHaveJobs'
    BY DEF HandlersHaveJobs
  <1>4. ClaimedIsHidden'
    <2> SUFFICES ASSUME NEW k \in Handlers, handler'[k].pc \in {"claimed", "parsing", "parsed"}
                 PROVE  ver'[handler'[k].ver].life \notin {"pending_review", "active"}
      BY DEF ClaimedIsHidden
    <2>1. CASE k = h
      BY <2>1
    <2>2. CASE k # h
      <3>1. handler'[k] = handler[k] /\ handler[k].ver \in Versions /\ handler[h].ver \in Versions
        BY <2>2 DEF HandlersHaveJobs
      <3>2. handler[k].ver # handler[h].ver
        BY <2>2, <3>1 DEF OneHandler, Holding
      <3> QED BY <3>1, <3>2 DEF ClaimedIsHidden
    <2> QED BY <2>1, <2>2
  <1> QED BY <1>1, <1>2, <1>3, <1>4

LEMMA IndParts ==
    IndInv <=> /\ TypeOK /\ RowsAgree /\ RequestsAgree
               /\ OneHandler /\ ClaimedIsHidden /\ HandlersHaveJobs
  BY DEF IndInv, RowsAgree, RequestsAgree

LEMMA IndPartsNext ==
    ASSUME TypeOK', RowsAgree', RequestsAgree', OneHandler', ClaimedIsHidden', HandlersHaveJobs'
    PROVE  IndInv'
  BY DEF IndInv, RowsAgree, RequestsAgree

\* A row that does not exist is not live, and a live row has life "active".
LEMMA ActiveRow ==
    ASSUME TypeOK, RowsAgree, NEW v \in Versions
    PROVE  /\ ver[v].active <=> ver[v].life = "active"
           /\ ver[v].active => Exists(v) /\ ver[v].doc \in Documents
           /\ Exists(v) => ver[v].doc \in Documents
  BY DEF RowsAgree, ActiveIsControlled, ActiveControl, PublishedIsCurrent, RowsHaveDocuments

LEMMA UploadInv ==
    ASSUME IndInv, TypeOK', NEW d \in Documents, NEW v \in Versions, Upload(d, v)
    PROVE  IndInv'
  <1> USE IndParts
  <1> DEFINE row == [Blank EXCEPT !.doc = d, !.life = "submitted"]
  <1>1. /\ row \in VersionRow /\ ~row.active /\ row.life = "submitted" /\ row.doc = d
        /\ row.scan = "pending"
    BY Columns DEF Blank, VersionRow
  <1>2. /\ ver'[v] = row /\ ver[v].life = "absent" /\ ~ver[v].active
        /\ \A w \in Versions : w # v => ver'[w] = ver[w]
    BY ActiveRow DEF Upload, TypeOK
  <1> HIDE DEF row
  <1>3. /\ \A e \in Documents : doc'[e].current = doc[e].current
        /\ \A e \in Documents : doc[e].life = "active" => doc'[e].life = "active"
    BY DEF Upload, TypeOK, DocRow
  <1>4. PublishedIsCurrent'
    <2>1. ASSUME NEW w \in Versions, ver'[w].active
          PROVE  Exists(w)' /\ doc'[ver'[w].doc].current = w
      <3>1. w # v /\ ver'[w] = ver[w]
        BY <2>1, <1>1, <1>2
      <3>2. Exists(w) /\ ver[w].doc \in Documents /\ doc[ver[w].doc].current = w
        BY <2>1, <3>1, ActiveRow DEF RowsAgree, PublishedIsCurrent
      <3> QED BY <3>1, <3>2, <1>3 DEF Exists
    <2>2. ASSUME NEW e \in Documents, NEW w \in Versions, doc'[e].current = w
          PROVE  ver'[w].active /\ ver'[w].doc = e
      <3>1. ver[w].active /\ ver[w].doc = e
        BY <2>2, <1>3 DEF RowsAgree, PublishedIsCurrent
      <3> QED BY <3>1, <1>2
    <2> QED BY <2>1, <2>2 DEF PublishedIsCurrent
  <1>5. ActiveIsControlled'
    BY <1>1, <1>2 DEF RowsAgree, ActiveIsControlled, ActiveControl
  <1>6. RowsHaveDocuments' /\ CurrentIsOpen'
    BY <1>1, <1>2, <1>3 DEF RowsAgree, RowsHaveDocuments, CurrentIsOpen, Exists
  <1>7. /\ OneHandler' /\ ClaimedIsHidden' /\ HandlersHaveJobs'
        /\ \A h \in Handlers, w \in Versions : Holding(h, w)' => Holding(h, w)
    <2>1. \A h \in Handlers : handler[h].pc \in {"claimed", "parsing", "parsed"} =>
             \/ ver'[handler[h].ver].life = ver[handler[h].ver].life
             \/ ver'[handler[h].ver].life \notin {"pending_review", "active"}
      BY <1>1, <1>2 DEF HandlersHaveJobs
    <2> QED BY <2>1, HandlersKept DEF Upload
  <1>8. RequestsAgree'
    <2>1. \A j \in Jobs : job'[j] # None => job'[j].ver # v
      BY <1>2 DEF Upload, RequestsAgree, WorkHasRows
    <2>2. \A h \in Handlers : ~Holding(h, v)'
      BY <1>2, <1>7 DEF RequestsAgree, WorkHasRows
    <2>3. \A w \in Versions : w # v => sending'[w] = sending[w]
      BY DEF Upload, TypeOK
    <2>4. UnsentIsUntouched'
      <3> SUFFICES ASSUME NEW w \in Versions, sending'[w] \in {"first_upload", "upload"}
                   PROVE  /\ ver'[w].life \in {"submitted", "retired", "deleted"}
                          /\ ver'[w].scan = "pending"
                          /\ \A j \in Jobs : job'[j] # None => job'[j].ver # w
                          /\ \A h \in Handlers : ~Holding(h, w)'
        BY DEF UnsentIsUntouched
      <3>1. CASE w = v
        BY <3>1, <1>1, <1>2, <2>1, <2>2
      <3>2. CASE w # v
        BY <3>2, <1>2, <1>7, <2>3 DEF Upload, RequestsAgree, UnsentIsUntouched
      <3> QED BY <3>1, <3>2
    <2>5. WorkHasRows'
      <3> SUFFICES ASSUME NEW w \in Versions, ver'[w].life = "absent"
                   PROVE  /\ sending'[w] = "no"
                          /\ \A j \in Jobs : job'[j] # None => job'[j].ver # w
                          /\ \A h \in Handlers : ~Holding(h, w)'
        BY DEF WorkHasRows
      <3>1. w # v
        BY <1>1, <1>2
      <3> QED BY <3>1, <1>2, <1>7, <2>3 DEF Upload, RequestsAgree, WorkHasRows
    <2> QED BY <2>4, <2>5 DEF RequestsAgree
  <1> QED BY <1>4, <1>5, <1>6, <1>7, <1>8, IndPartsNext DEF RowsAgree

LEMMA RequestRescanInv ==
    ASSUME IndInv, TypeOK', NEW v \in Versions, RequestRescan(v)
    PROVE  IndInv'
  <1> USE IndParts
  <1> DEFINE row == [ver[v] EXCEPT !.life = "submitted", !.parse = "pending", !.scan = "pending",
                                   !.found = "none", !.active = FALSE]
  <1>1. /\ row \in VersionRow /\ ~row.active /\ row.life = "submitted" /\ row.doc = ver[v].doc
        /\ row.scan = "pending"
    BY Columns, VersionFields DEF VersionRow
  <1>2. /\ ver' = [ver EXCEPT ![v] = row]
        /\ ver[v].life \in {"quarantined", "failed"} /\ ~ver[v].active /\ ver[v].doc \in Documents
    BY ActiveRow DEF RequestRescan, Rescannable, Exists, Gone
  <1> HIDE DEF row
  <1>3. ver'[v] = row /\ \A w \in Versions : w # v => ver'[w] = ver[w]
    BY <1>2 DEF TypeOK
  <1>4. RowsAgree'
    BY <1>1, <1>2, QuietWrite DEF RequestRescan
  <1>5. /\ OneHandler' /\ ClaimedIsHidden' /\ HandlersHaveJobs'
        /\ \A h \in Handlers, w \in Versions : Holding(h, w)' => Holding(h, w)
    <2>1. \A h \in Handlers : handler[h].pc \in {"claimed", "parsing", "parsed"} =>
             \/ ver'[handler[h].ver].life = ver[handler[h].ver].life
             \/ ver'[handler[h].ver].life \notin {"pending_review", "active"}
      BY <1>1, <1>3 DEF HandlersHaveJobs
    <2> QED BY <2>1, HandlersKept DEF RequestRescan
  <1>6. RequestsAgree'
    <2>1. /\ sending[v] = "no" /\ sending'[v] = "rescan"
          /\ \A w \in Versions : w # v => sending'[w] = sending[w]
      BY DEF RequestRescan, TypeOK
    <2> QED BY <1>1, <1>2, <1>3, <1>5, <2>1, RequestsKept DEF RequestRescan
  <1> QED BY <1>4, <1>5, <1>6, IndPartsNext

\* A new job is about a row that exists and that no upload in progress owns.
LEMMA QueuedInv ==
    ASSUME IndInv, TypeOK', NEW v \in Versions, NEW j \in Jobs, NEW mode \in {"ingest", "scan_only"},
           Queued(j, v, mode), doc' = doc, ver' = ver, handler' = handler,
           \A w \in Versions : sending'[w] \in {sending[w], "no"},
           ver[v].life # "absent",
           sending'[v] \notin {"first_upload", "upload"}
    PROVE  IndInv'
  <1> USE IndParts
  <1>1. RowsAgree'
    BY DEF RowsAgree, PublishedIsCurrent, ActiveIsControlled, RowsHaveDocuments, CurrentIsOpen,
           Exists
  <1>2. OneHandler' /\ ClaimedIsHidden' /\ HandlersHaveJobs'
    BY HandlersKept
  <1>3. \A i \in Jobs : job'[i] # None => \/ job[i] # None /\ job'[i].ver = job[i].ver
                                          \/ job'[i].ver = v
    BY DEF Queued, TypeOK
  <1>4. UnsentIsUntouched'
    BY <1>3 DEF RequestsAgree, UnsentIsUntouched, Holding
  <1>5. WorkHasRows'
    BY <1>3 DEF RequestsAgree, WorkHasRows, Holding
  <1> QED BY <1>1, <1>2, <1>4, <1>5, IndPartsNext DEF RequestsAgree

LEMMA SendFailsInv ==
    ASSUME IndInv, TypeOK', NEW v \in Versions, SendFails(v)
    PROVE  IndInv'
  <1> USE IndParts
  <1>a. \A w \in Versions : sending'[w] = IF w = v THEN "no" ELSE sending[w]
    BY DEF SendFails, TypeOK
  <1>1. /\ RowsAgree'
        /\ \A w \in Versions : \/ ver'[w] = ver[w]
                               \/ ver'[w].life = "deleted" /\ ver'[w].scan = "pending"
                               \/ w = v /\ ver'[w].life = "failed"
    <2>1. CASE sending[v] = "first_upload" /\ Exists(v)
      <3>1. ver[v].doc \in Documents /\ DeleteDocument(ver[v].doc)
        BY <2>1, ActiveRow DEF SendFails, UndoSend
      <3>2. \A w \in Versions : \/ ver'[w] = ver[w]
                                \/ ver'[w].life = "deleted" /\ ver'[w].scan = "pending"
        <4>1. Erased.life = "deleted" /\ Erased.scan = "pending"
          BY DEF Erased, Blank
        <4> QED BY <3>1, <4>1 DEF DeleteDocument
      <3> QED BY <3>1, <3>2, DeleteAgrees
    <2>2. CASE sending[v] = "first_upload" /\ ~Exists(v)
      <3>1. UNCHANGED <<doc, ver>>
        BY <2>2 DEF SendFails, UndoSend
      <3> QED BY <3>1 DEF RowsAgree, PublishedIsCurrent, ActiveIsControlled, RowsHaveDocuments,
                          CurrentIsOpen, Exists
    <2>3. CASE sending[v] = "upload"
      <3>1. ver' = Updated(v, Erased) /\ doc' = doc
        BY <2>3 DEF SendFails, UndoSend
      <3>2. ver[v].life # "active" /\ ~ver[v].active
        BY <2>3, ActiveRow DEF RequestsAgree, UnsentIsUntouched
      <3>3. ~Erased.active /\ Erased.life = "deleted" /\ Erased.scan = "pending"
        BY DEF Erased, Blank
      <3>4. RowsAgree'
        BY <3>1, <3>2, <3>3, Columns, QuietWrite DEF Updated, Gone
      <3> QED BY <3>1, <3>3, <3>4 DEF Updated, TypeOK
    <2>4. CASE sending[v] = "rescan"
      <3> DEFINE row == [ver[v] EXCEPT !.life = "failed", !.parse = "failed"]
      <3>1. ver' = (IF ActiveControl(row) THEN Updated(v, row) ELSE ver) /\ doc' = doc
        BY <2>4 DEF SendFails, UndoSend
      <3>2. row \in VersionRow /\ row.life = "failed" /\ row.doc = ver[v].doc /\ row.active = ver[v].active
        BY Columns, VersionFields DEF VersionRow
      <3> HIDE DEF row
      <3>3. CASE ActiveControl(row) /\ Exists(v)
        <4>1. ver' = [ver EXCEPT ![v] = row]
          BY <3>1, <3>3 DEF Updated
        <4>2. ~row.active /\ ver[v].doc \in Documents
          BY <3>2, <3>3, ActiveRow DEF ActiveControl
        <4>3. RowsAgree'
          BY <3>1, <3>2, <4>1, <4>2, QuietWrite
        <4> QED BY <3>2, <4>1, <4>3 DEF TypeOK
      <3>4. CASE ~(ActiveControl(row) /\ Exists(v))
        <4>1. ver' = ver /\ doc' = doc
          BY <3>1, <3>4 DEF Updated
        <4> QED BY <4>1 DEF RowsAgree, PublishedIsCurrent, ActiveIsControlled, RowsHaveDocuments,
                            CurrentIsOpen, Exists
      <3> QED BY <3>3, <3>4
    <2> QED BY <2>1, <2>2, <2>3, <2>4 DEF SendFails, UndoSend
  <1>2. /\ OneHandler' /\ ClaimedIsHidden' /\ HandlersHaveJobs'
        /\ \A h \in Handlers, w \in Versions : Holding(h, w)' => Holding(h, w)
    <2>1. \A h \in Handlers : handler[h].pc \in {"claimed", "parsing", "parsed"} =>
             \/ ver'[handler[h].ver].life = ver[handler[h].ver].life
             \/ ver'[handler[h].ver].life \notin {"pending_review", "active"}
      BY <1>1 DEF HandlersHaveJobs
    <2> QED BY <2>1, HandlersKept DEF SendFails
  <1>3. UnsentIsUntouched'
    BY <1>a, <1>1, <1>2 DEF RequestsAgree, UnsentIsUntouched, SendFails
  <1>4. WorkHasRows'
    BY <1>a, <1>1, <1>2 DEF RequestsAgree, WorkHasRows, SendFails
  <1> QED BY <1>1, <1>2, <1>3, <1>4, IndPartsNext DEF RequestsAgree

LEMMA ApiInv == ASSUME IndInv, Api PROVE IndInv'
  <1> USE IndParts
  <1>t. TypeOK'
    BY ApiType DEF RowsAgree
  <1>1. ASSUME NEW d \in Documents, NEW v \in Versions, Upload(d, v) PROVE IndInv'
    BY <1>t, <1>1, UploadInv
  <1>2. ASSUME NEW v \in Versions, RequestRescan(v) PROVE IndInv'
    BY <1>t, <1>2, RequestRescanInv
  <1>3. ASSUME NEW v \in Versions, NEW j \in Jobs, RequestScanOnly(v, j) PROVE IndInv'
    <2>1. /\ Queued(j, v, "scan_only") /\ UNCHANGED <<doc, ver, handler, sending>>
          /\ ver[v].scan = "disabled" /\ ver[v].life # "absent"
      BY <1>3 DEF RequestScanOnly, ScanOnlyEligible
    <2>2. sending[v] \notin {"first_upload", "upload"}
      BY <2>1 DEF RequestsAgree, UnsentIsUntouched
    <2> QED BY <1>t, <2>1, <2>2, QueuedInv
  <1>4. ASSUME NEW v \in Versions, NEW j \in Jobs, Send(v, j) PROVE IndInv'
    <2>1. /\ Queued(j, v, "ingest") /\ UNCHANGED <<doc, ver, handler>>
          /\ sending'[v] = "no" /\ \A w \in Versions : sending'[w] \in {sending[w], "no"}
      BY <1>4 DEF Send, TypeOK
    <2>2. ver[v].life # "absent"
      BY <1>4 DEF Send, RequestsAgree, WorkHasRows
    <2> QED BY <1>t, <2>1, <2>2, QueuedInv
  <1>5. ASSUME NEW v \in Versions, SendFails(v) PROVE IndInv'
    BY <1>t, <1>5, SendFailsInv
  <1>6. ASSUME NEW v \in Versions, ApiCrash(v) PROVE IndInv'
    <2>1. /\ UNCHANGED <<doc, ver, job, handler>>
          /\ \A w \in Versions : sending'[w] \in {sending[w], "no"}
      BY <1>6 DEF ApiCrash, TypeOK
    <2>2. RowsAgree'
      BY <2>1 DEF RowsAgree, PublishedIsCurrent, ActiveIsControlled, RowsHaveDocuments,
                  CurrentIsOpen, Exists
    <2>3. /\ OneHandler' /\ ClaimedIsHidden' /\ HandlersHaveJobs'
          /\ \A h \in Handlers, w \in Versions : Holding(h, w)' => Holding(h, w)
      BY <2>1, HandlersKept
    <2>4. RequestsAgree'
      BY <2>1, <2>3, RequestsKept
    <2> QED BY <1>t, <2>2, <2>3, <2>4, IndPartsNext
  <1> QED BY <1>1, <1>2, <1>3, <1>4, <1>5, <1>6 DEF Api

\* A step that leaves the rows alone leaves them in agreement.
LEMMA RowsKept ==
    ASSUME RowsAgree, doc' = doc, ver' = ver
    PROVE  RowsAgree'
  BY DEF RowsAgree, PublishedIsCurrent, ActiveIsControlled, RowsHaveDocuments, CurrentIsOpen, Exists

LEMMA RetriedVersions ==
    ASSUME TypeOK, NEW j \in Jobs, job[j] # None, job' = Retried(j)
    PROVE  \A i \in Jobs : job'[i] # None => job[i] # None /\ job'[i].ver = job[i].ver
  <1>1. job[j] \in JobRow
    BY DEF TypeOK
  <1>2. [job[j] EXCEPT !.tries = job[j].tries + 1, !.owner = None].ver = job[j].ver
    BY <1>1 DEF JobRow
  <1> QED BY <1>2 DEF Retried, TypeOK

LEMMA QueueInv == ASSUME IndInv, Queue PROVE IndInv'
  <1> USE IndParts
  <1>t. TypeOK'
    BY QueueType
  <1>1. ASSUME NEW h \in Handlers, NEW j \in Jobs, Deliver(h, j) PROVE IndInv'
    <2> DEFINE v == job[j].ver
    <2>1. /\ job[j] \in JobRow /\ v \in Versions
          /\ job[j] # None
      BY <1>1 DEF Deliver, TypeOK, JobRow
    <2>2. /\ handler'[h].pc = "locked" /\ handler'[h].ver = v /\ handler'[h].job = j
          /\ \A k \in Handlers : k # h => handler'[k] = handler[k]
      BY <1>1, Columns DEF Deliver, TypeOK, HandlerRow
    <2>3. \A i \in Jobs : job'[i] # None => job[i] # None /\ job'[i].ver = job[i].ver
      BY <1>1, <2>1 DEF Deliver, TypeOK, JobRow
    <2>4. RowsAgree'
      BY <1>1, RowsKept DEF Deliver
    <2>5. \A k \in Handlers, w \in Versions : Holding(k, w)' => Holding(k, w) \/ (k = h /\ w = v)
      BY <2>2 DEF Holding
    <2>6. OneHandler'
      BY <1>1, <2>5 DEF Deliver, Locked, OneHandler
    <2>7. ClaimedIsHidden'
      BY <1>1, <2>2 DEF Deliver, ClaimedIsHidden
    <2>8. HandlersHaveJobs'
      BY <2>1, <2>2 DEF HandlersHaveJobs
    <2>9. UnsentIsUntouched'
      BY <1>1, <2>1, <2>3, <2>5 DEF Deliver, RequestsAgree, UnsentIsUntouched
    <2>10. WorkHasRows'
      BY <1>1, <2>1, <2>3, <2>5 DEF Deliver, RequestsAgree, WorkHasRows
    <2> QED BY <1>t, <2>4, <2>6, <2>7, <2>8, <2>9, <2>10, IndPartsNext DEF RequestsAgree
  <1>2. ASSUME NEW j \in Jobs, job[j] # None, job' = Retried(j),
               UNCHANGED <<doc, ver, handler, sending>>
        PROVE  IndInv'
    <2>1. RowsAgree'
      BY <1>2, RowsKept
    <2>2. /\ OneHandler' /\ ClaimedIsHidden' /\ HandlersHaveJobs'
          /\ \A h \in Handlers, w \in Versions : Holding(h, w)' => Holding(h, w)
      BY <1>2, HandlersKept
    <2>3. RequestsAgree'
      BY <1>2, <2>2, RetriedVersions, RequestsKept
    <2> QED BY <1>t, <2>1, <2>2, <2>3, IndPartsNext
  <1>3. ASSUME NEW h \in Handlers, NEW j \in Jobs, DeliverBusy(h, j) PROVE IndInv'
    BY <1>2, <1>3 DEF DeliverBusy
  <1>4. ASSUME NEW j \in Jobs, Expire(j) PROVE IndInv'
    BY <1>2, <1>4 DEF Expire
  <1> QED BY <1>1, <1>3, <1>4 DEF Queue

\* A step of a running handler on its own version: the premises are what the
\* step must establish about rows; the rest of the invariant follows.
LEMMA StepInv ==
    ASSUME IndInv, TypeOK', RowsAgree', NEW h \in Handlers, handler[h].pc # "idle",
           \A k \in Handlers : k # h => handler'[k] = handler[k],
           handler'[h].pc # "idle",
           handler'[h].ver = handler[h].ver, handler'[h].job = handler[h].job,
           handler'[h].pc \in {"claimed", "parsing", "parsed"} =>
               ver'[handler[h].ver].life \notin {"pending_review", "active"},
           ver'[handler[h].ver].life # "absent",
           \A w \in Versions : w # handler[h].ver =>
               ver'[w] = ver[w] \/ (ver'[w].life = "retired" /\ ver'[w].scan = ver[w].scan),
           job' = job, sending' = sending
    PROVE  IndInv'
  <1> USE IndParts
  <1>1. /\ OneHandler' /\ ClaimedIsHidden' /\ HandlersHaveJobs'
        /\ \A k \in Handlers, w \in Versions : Holding(k, w)' => Holding(k, w)
    BY HandlerMoves
  <1>2. handler[h].ver \in Versions /\ Holding(h, handler[h].ver)
    BY DEF HandlersHaveJobs, Holding
  <1>3. sending[handler[h].ver] \notin {"first_upload", "upload"}
    BY <1>2 DEF RequestsAgree, UnsentIsUntouched
  <1>4. RequestsAgree'
    BY <1>1, <1>2, <1>3, RequestsKept
  <1> QED BY <1>1, <1>4, IndPartsNext

\* The frequent kind: a write that neither starts from a live row nor makes one.
LEMMA QuietStepInv ==
    ASSUME IndInv, TypeOK', NEW h \in Handlers, handler[h].pc # "idle",
           \A k \in Handlers : k # h => handler'[k] = handler[k],
           handler'[h].pc # "idle",
           handler'[h].ver = handler[h].ver, handler'[h].job = handler[h].job,
           NEW row \in VersionRow,
           ver' = Updated(handler[h].ver, row), doc' = doc,
           ~ver[handler[h].ver].active, ~row.active,
           row.life \notin Gone \cup {"active"}, row.doc = ver[handler[h].ver].doc,
           handler'[h].pc \in {"claimed", "parsing", "parsed"} =>
               row.life # "pending_review" /\ ver[handler[h].ver].life \notin {"pending_review", "active"},
           job' = job, sending' = sending
    PROVE  IndInv'
  <1> USE IndParts
  <1> DEFINE v == handler[h].ver
  <1>1. v \in Versions /\ Holding(h, v)
    BY DEF HandlersHaveJobs, Holding
  <1>2. ver[v].life # "absent"
    BY <1>1 DEF RequestsAgree, WorkHasRows
  <1>3. CASE Exists(v)
    <2>1. ver' = [ver EXCEPT ![v] = row] /\ ver[v].doc \in Documents
      BY <1>1, <1>3, ActiveRow DEF Updated
    <2>2. RowsAgree'
      BY <1>1, <2>1, QuietWrite
    <2>3. ver'[v] = row /\ \A w \in Versions : w # v => ver'[w] = ver[w]
      BY <1>1, <2>1 DEF TypeOK
    <2> QED BY <2>2, <2>3, StepInv DEF Gone
  <1>4. CASE ~Exists(v)
    <2>1. ver' = ver
      BY <1>4 DEF Updated
    <2> QED BY <1>2, <2>1, RowsKept, StepInv
  <1> QED BY <1>3, <1>4

\* How Advance and Ends move a handler.
LEMMA Moves ==
    ASSUME TypeOK, NEW h \in Handlers,
           NEW pc \in {"locked", "claimed", "parsing", "parsed", "rescanning", "done", "threw"},
           Advance(h, pc) \/ Ends(h, pc)
    PROVE  /\ handler'[h].pc = pc /\ handler'[h].pc # "idle"
           /\ handler'[h].ver = handler[h].ver /\ handler'[h].job = handler[h].job
           /\ \A k \in Handlers : k # h => handler'[k] = handler[k]
  <1>1. handler[h] \in HandlerRow /\ Idle \in HandlerRow
    BY Columns DEF TypeOK
  <1>2. CASE Advance(h, pc)
    BY <1>1, <1>2 DEF Advance, TypeOK, HandlerRow
  <1>3. CASE Ends(h, pc)
    <2>1. handler' = [handler EXCEPT ![h] = [Idle EXCEPT !.pc = pc, !.job = handler[h].job,
                                                         !.ver = handler[h].ver]]
      BY <1>3 DEF Ends
    <2> QED BY <1>1, <2>1 DEF TypeOK, HandlerRow
  <1> QED BY <1>2, <1>3

LEMMA IngestInv == ASSUME IndInv, NEW h \in Handlers, IngestStep(h) PROVE IndInv'
  <1> USE IndParts
  <1> USE DEF workerFrame
  <1> DEFINE v == handler[h].ver
  <1>t. TypeOK'
    BY IngestType
  <1>a. handler[h].pc # "idle" => v \in Versions /\ ver[v].life # "absent"
    BY DEF HandlersHaveJobs, RequestsAgree, WorkHasRows, Holding
  <1>b. handler[h].pc \in {"claimed", "parsing", "parsed"} =>
          /\ v \in Versions /\ ~ver[v].active
          /\ ver[v].life \notin {"pending_review", "active"}
    BY <1>a, ActiveRow DEF ClaimedIsHidden
  <1>1. CASE Claim(h)
    <2>1. v \in Versions /\ ver[v].life # "absent" /\ handler[h].pc = "locked"
      BY <1>1, <1>a DEF Claim
    <2>2. CASE Claimable(ver[v])
      <3> DEFINE row == [ver[v] EXCEPT !.parse = "parsing", !.life = "scanning",
                                       !.scan = "running", !.found = "none"]
      <3>1. /\ row \in VersionRow /\ row.life = "scanning" /\ row.doc = ver[v].doc
            /\ row.active = ver[v].active
        BY <2>1, Columns, VersionFields DEF VersionRow
      <3>2. ver' = [ver EXCEPT ![v] = row] /\ Advance(h, "claimed")
        BY <1>1, <2>2 DEF Claim
      <3>3. /\ Exists(v) /\ ~ver[v].active
            /\ ver[v].life \notin {"pending_review", "active"}
        BY <2>1, <2>2, ActiveRow DEF Claimable, Exists, Gone
      <3> HIDE DEF row
      <3>4. ver' = Updated(v, row)
        BY <3>2, <3>3 DEF Updated
      <3>5. row.life \notin Gone \cup {"active"}
        BY <3>1 DEF Gone
      <3> QED BY <1>1, <1>t, <2>1, <3>1, <3>2, <3>3, <3>4, <3>5, Moves, QuietStepInv DEF Claim
    <2>3. CASE ~Claimable(ver[v])
      <3>1. ver' = ver /\ doc' = doc /\ Ends(h, "done")
        BY <1>1, <2>3 DEF Claim
      <3>2. RowsAgree'
        BY <3>1, RowsKept
      <3> QED BY <1>1, <1>t, <2>1, <3>1, <3>2, Moves, StepInv DEF Claim
    <2> QED BY <2>2, <2>3
  <1>2. ASSUME NEW verdict \in {"clean", "disabled"}, ScanAccepted(h, verdict) PROVE IndInv'
    <2> DEFINE row == [ver[v] EXCEPT !.scan = verdict, !.found = "none", !.life = "parsing"]
    <2>1. /\ handler[h].pc = "claimed" /\ Advance(h, "parsing") /\ ver' = Updated(v, row)
          /\ UNCHANGED <<doc, workerFrame>>
      BY <1>2 DEF ScanAccepted
    <2>2. /\ row \in VersionRow /\ row.life = "parsing" /\ row.doc = ver[v].doc
          /\ row.active = ver[v].active
      BY <1>b, <2>1, Columns, VersionFields DEF VersionRow
    <2> HIDE DEF row
    <2>3. row.life \notin Gone \cup {"active"}
      BY <2>2 DEF Gone
    <2> QED BY <1>b, <1>t, <2>1, <2>2, <2>3, Moves, QuietStepInv
  <1>3. ASSUME NEW verdict \in {"clean", "disabled", "infected", "unavailable"},
               ScanRefused(h, verdict) PROVE IndInv'
    <2> DEFINE row == [ver[v] EXCEPT !.scan = verdict, !.found = "blocking",
                                     !.life = "quarantined", !.parse = "failed", !.active = FALSE]
    <2>1. /\ handler[h].pc = "claimed" /\ Ends(h, "done") /\ ver' = Updated(v, row)
          /\ UNCHANGED <<doc, workerFrame>>
      BY <1>3 DEF ScanRefused
    <2>2. /\ row \in VersionRow /\ row.life = "quarantined" /\ row.doc = ver[v].doc /\ ~row.active
      BY <1>b, <2>1, Columns, VersionFields DEF VersionRow
    <2> HIDE DEF row
    <2>3. row.life \notin Gone \cup {"active"}
      BY <2>2 DEF Gone
    <2> QED BY <1>b, <1>t, <2>1, <2>2, <2>3, Moves, QuietStepInv
  <1>4. ASSUME NEW found \in Findings, Parse(h, found) PROVE IndInv'
    <2> DEFINE text == IF ver[v].text = "a" THEN "b" ELSE "a"
               row == [ver[v] EXCEPT !.text = text]
    <2>a. text \in Stamps
      BY Columns
    <2>1. /\ handler[h].pc = "parsing" /\ ver' = Updated(v, row)
          /\ handler' = [handler EXCEPT ![h] = [handler[h] EXCEPT !.pc = "parsed",
                                                  !.found = found, !.text = text]]
          /\ UNCHANGED <<doc, workerFrame>>
      BY <1>4 DEF Parse
    <2> HIDE DEF text
    <2>2. /\ row \in VersionRow /\ row.life = ver[v].life /\ row.doc = ver[v].doc
          /\ row.active = ver[v].active
      BY <1>b, <2>1, <2>a, Columns, VersionFields DEF VersionRow
    <2> HIDE DEF row
    <2>3. /\ handler'[h].pc = "parsed" /\ handler'[h].ver = v
          /\ handler'[h].job = handler[h].job
          /\ \A k \in Handlers : k # h => handler'[k] = handler[k]
      BY <2>1, <2>a DEF TypeOK, HandlerRow
    <2>4. v \in Versions /\ ver[v].life # "active" /\ ver[v].life # "pending_review" /\ ~ver[v].active
      BY <1>b, <2>1
    <2>5. CASE Exists(v)
      <3>1. row.life \notin Gone \cup {"active"}
        BY <2>2, <2>4, <2>5 DEF Exists
      <3> QED BY <1>t, <2>1, <2>2, <2>3, <2>4, <3>1, QuietStepInv
    <2>6. CASE ~Exists(v)
      <3>1. ver' = ver
        BY <2>1, <2>6 DEF Updated
      <3>2. RowsAgree'
        BY <2>1, <3>1, RowsKept
      <3> QED BY <1>a, <1>t, <2>1, <2>3, <2>4, <3>1, <3>2, StepInv
    <2> QED BY <2>5, <2>6
  <1>5. CASE ContentRefused(h)
    <2> DEFINE row == [ver[v] EXCEPT !.parse = "ready", !.life = "quarantined",
                                     !.found = "blocking", !.active = FALSE]
    <2>1. /\ handler[h].pc = "parsed" /\ Ends(h, "done") /\ ver' = Updated(v, row)
          /\ UNCHANGED <<doc, workerFrame>>
      BY <1>5 DEF ContentRefused
    <2>2. /\ row \in VersionRow /\ row.life = "quarantined" /\ row.doc = ver[v].doc /\ ~row.active
      BY <1>b, <2>1, Columns, VersionFields DEF VersionRow
    <2> HIDE DEF row
    <2>3. row.life \notin Gone \cup {"active"}
      BY <2>2 DEF Gone
    <2> QED BY <1>b, <1>t, <2>1, <2>2, <2>3, Moves, QuietStepInv
  <1>6. ASSUME NEW privileged \in BOOLEAN, Commit(h, privileged) PROVE IndInv'
    <2> DEFINE row == [ver[v] EXCEPT !.parse = "ready", !.life = "pending_review",
                                     !.found = handler[h].found, !.active = FALSE,
                                     !.chunks = handler[h].text]
    <2>1. /\ handler[h].pc = "parsed" /\ Ends(h, "done") /\ Exists(v) /\ UNCHANGED workerFrame
          /\ \/ row.scan \in {"clean", "disabled"} /\ ver' = Published(v, row, "auto") /\ MakeCurrent(v)
             \/ ver' = [ver EXCEPT ![v] = row] /\ doc' = doc
      BY <1>6 DEF Commit, MayPublish, AcceptedScan
    <2>2. /\ row \in VersionRow /\ row.life = "pending_review" /\ row.doc = ver[v].doc /\ ~row.active
      BY <1>b, <2>1, HandlerFields, Columns, VersionFields DEF VersionRow
    <2> HIDE DEF row
    <2>3. CASE row.scan \in {"clean", "disabled"} /\ ver' = Published(v, row, "auto") /\ MakeCurrent(v)
      <3>1. RowsAgree'
        BY <1>b, <2>1, <2>2, <2>3, PublishedAgrees
      <3>2. ver'[v].life # "absent"
        BY <1>b, <2>1, <2>2, <2>3 DEF Published, VersionRow
      <3>3. ASSUME NEW w \in Versions, w # v
            PROVE  ver'[w] = ver[w] \/ (ver'[w].life = "retired" /\ ver'[w].scan = ver[w].scan)
        <4>1. ver'[w] = IF ver[w].doc = row.doc /\ ver[w].active
                        THEN [ver[w] EXCEPT !.life = "retired", !.active = FALSE] ELSE ver[w]
          BY <2>3, <3>3, VersionFields DEF Published
        <4> QED BY <4>1, VersionFields DEF VersionRow
      <3> QED BY <1>b, <1>t, <2>1, <3>1, <3>2, <3>3, Moves, StepInv
    <2>4. CASE ver' = [ver EXCEPT ![v] = row] /\ doc' = doc
      <3>1. ver' = Updated(v, row)
        BY <2>1, <2>4 DEF Updated
      <3>2. row.life \notin Gone \cup {"active"}
        BY <2>2 DEF Gone
      <3> QED BY <1>b, <1>t, <2>1, <2>2, <2>4, <3>1, <3>2, Moves, QuietStepInv
    <2> QED BY <2>1, <2>3, <2>4
  <1>7. CASE IngestFails(h)
    <2> DEFINE life == IF ver[v].life = "quarantined" THEN "quarantined" ELSE "failed"
               row == [ver[v] EXCEPT !.parse = "failed", !.active = FALSE, !.life = life]
    <2>1. /\ handler[h].pc \in {"claimed", "parsing", "parsed"} /\ Ends(h, "threw")
          /\ ver' = Updated(v, row) /\ UNCHANGED <<doc, workerFrame>>
      BY <1>7 DEF IngestFails
    <2>a. life \in {"quarantined", "failed"}
      OBVIOUS
    <2> HIDE DEF life
    <2>2. /\ row \in VersionRow /\ row.life = life /\ row.doc = ver[v].doc /\ ~row.active
      BY <1>b, <2>1, <2>a, Columns, VersionFields DEF VersionRow
    <2> HIDE DEF row
    <2>3. row.life \notin Gone \cup {"active"}
      BY <2>2, <2>a DEF Gone
    <2> QED BY <1>b, <1>t, <2>1, <2>2, <2>3, Moves, QuietStepInv
  <1> QED BY <1>1, <1>2, <1>3, <1>4, <1>5, <1>6, <1>7 DEF IngestStep

LEMMA RescanInv == ASSUME IndInv, NEW h \in Handlers, RescanStep(h) PROVE IndInv'
  <1> USE IndParts
  <1> USE DEF workerFrame
  <1> DEFINE v == handler[h].ver
  <1>t. TypeOK'
    BY RescanType
  <1>a. handler[h].pc # "idle" => v \in Versions /\ ver[v].life # "absent"
    BY DEF HandlersHaveJobs, RequestsAgree, WorkHasRows, Holding
  <1>0. ASSUME handler[h].pc # "idle", UNCHANGED <<doc, ver, job, sending>>,
               \A k \in Handlers : k # h => handler'[k] = handler[k],
               handler'[h].pc \in {"rescanning", "done", "threw"},
               handler'[h].ver = v, handler'[h].job = handler[h].job
        PROVE  IndInv'
    <2>1. RowsAgree'
      BY <1>0, RowsKept
    <2> QED BY <1>0, <1>a, <1>t, <2>1, StepInv
  <1>1. CASE RescanRead(h)
    <2>1. CASE ScanOnlyEligible(ver[v])
      <3>1. handler' = [handler EXCEPT ![h] = [handler[h] EXCEPT !.pc = "rescanning",
                                                 !.seen = ver[v].life, !.found = ver[v].found]]
        BY <1>1, <2>1 DEF RescanRead
      <3>2. /\ handler'[h].pc = "rescanning" /\ handler'[h].ver = v
            /\ handler'[h].job = handler[h].job
            /\ \A k \in Handlers : k # h => handler'[k] = handler[k]
        BY <3>1 DEF TypeOK, HandlerRow
      <3> QED BY <1>1, <1>0, <3>2 DEF RescanRead
    <2>2. CASE ~ScanOnlyEligible(ver[v])
      BY <1>1, <1>0, <2>2, Moves DEF RescanRead
    <2> QED BY <2>1, <2>2
  <1>2. CASE RescanClean(h)
    <2>1. CASE ScanOnlyEligible(ver[v])
      <3> DEFINE row == [ver[v] EXCEPT !.scan = "clean", !.found = handler[h].found]
      <3>1. /\ v \in Versions /\ handler[h].pc = "rescanning" /\ Ends(h, "done")
            /\ ver' = [ver EXCEPT ![v] = row] /\ UNCHANGED <<doc, workerFrame>>
        BY <1>2, <1>a, <2>1 DEF RescanClean
      <3>2. /\ row.life = ver[v].life /\ row.active = ver[v].active /\ row.doc = ver[v].doc
            /\ row.approved = ver[v].approved /\ row.scan = "clean"
        BY <3>1, VersionFields DEF VersionRow
      <3> HIDE DEF row
      <3>3. ver'[v] = row /\ \A w \in Versions : w # v => ver'[w] = ver[w]
        BY <3>1 DEF TypeOK
      <3>4. PublishedIsCurrent'
        BY <3>1, <3>2, <3>3 DEF RowsAgree, PublishedIsCurrent, Exists
      <3>5. ActiveIsControlled'
        BY <3>1, <3>2, <3>3 DEF RowsAgree, ActiveIsControlled, ActiveControl
      <3>6. RowsHaveDocuments' /\ CurrentIsOpen'
        BY <3>1, <3>2, <3>3 DEF RowsAgree, RowsHaveDocuments, CurrentIsOpen, Exists
      <3>7. RowsAgree'
        BY <3>4, <3>5, <3>6 DEF RowsAgree
      <3> QED BY <1>a, <1>t, <3>1, <3>2, <3>3, <3>7, Moves, StepInv
    <2>2. CASE ~ScanOnlyEligible(ver[v])
      BY <1>2, <1>0, <2>2, Moves DEF RescanClean
    <2> QED BY <2>1, <2>2
  <1>3. CASE RescanInfected(h)
    <2>1. CASE ver[v].life = handler[h].seen /\ ScanOnlyEligible(ver[v])
      <3> DEFINE life == IF handler[h].seen \in QuarantineOnHit THEN "quarantined"
                         ELSE handler[h].seen
                 row == [ver[v] EXCEPT !.scan = "infected", !.found = "blocking",
                                       !.active = FALSE, !.life = life]
      <3>1. /\ v \in Versions /\ handler[h].pc = "rescanning" /\ Ends(h, "done")
            /\ ver' = [ver EXCEPT ![v] = row] /\ UNCHANGED workerFrame
            /\ doc' = [d \in Documents |-> IF d = ver[v].doc /\ doc[d].current = v
                                           THEN [doc[d] EXCEPT !.current = None] ELSE doc[d]]
        BY <1>3, <1>a, <2>1 DEF RescanInfected
      <3>2. life \in {"quarantined", "rejected", "revoked"}
        BY <2>1 DEF ScanOnlyEligible, QuarantineOnHit
      <3> HIDE DEF life
      <3>3. /\ row \in VersionRow /\ row.life = life /\ ~row.active /\ row.doc = ver[v].doc
        BY <3>1, <3>2, Columns, VersionFields DEF VersionRow
      <3> HIDE DEF row
      <3>4. Exists(v)
        BY <2>1 DEF ScanOnlyEligible, Exists, Gone
      <3>5. RowsAgree'
        BY <3>1, <3>2, <3>3, <3>4, WithdrawnAgrees
      <3>6. ver'[v] = row /\ \A w \in Versions : w # v => ver'[w] = ver[w]
        BY <3>1 DEF TypeOK
      <3> QED BY <1>t, <3>1, <3>2, <3>3, <3>5, <3>6, Moves, StepInv
    <2>2. CASE ~(ver[v].life = handler[h].seen /\ ScanOnlyEligible(ver[v]))
      BY <1>3, <1>0, <2>2, Moves DEF RescanInfected
    <2> QED BY <2>1, <2>2
  <1>4. CASE RescanFails(h)
    BY <1>4, <1>0, Moves DEF RescanFails
  <1> QED BY <1>1, <1>2, <1>3, <1>4 DEF RescanStep

LEMMA EndInv ==
    ASSUME IndInv, NEW h \in Handlers, Finish(h) \/ FirstStatementFails(h) \/ WorkerCrash(h)
    PROVE  IndInv'
  <1> USE IndParts
  <1>t. TypeOK'
    BY EndType
  <1>1. RowsAgree'
    BY RowsKept DEF Finish, FirstStatementFails, WorkerCrash
  <1>2. CASE Finish(h) \/ WorkerCrash(h)
    <2>1. /\ handler' = [handler EXCEPT ![h] = Idle] /\ UNCHANGED <<ver, sending>>
          /\ Idle.pc = "idle"
      BY <1>2 DEF Finish, WorkerCrash, Idle
    <2>2. /\ OneHandler' /\ ClaimedIsHidden' /\ HandlersHaveJobs'
          /\ \A k \in Handlers, w \in Versions : Holding(k, w)' => Holding(k, w)
      <3>1. \A k \in Handlers : handler'[k] = handler[k] \/ handler'[k].pc = "idle"
        BY <2>1 DEF TypeOK
      <3> QED BY <2>1, <3>1, HandlersKept
    <2>3. \A j \in Jobs : job'[j] # None => job[j] # None /\ job'[j].ver = job[j].ver
      <3>1. CASE job' = job
        BY <3>1
      <3>2. CASE Finish(h) /\ job' # job
        <4> DEFINE j == handler[h].job
        <4>1. j \in Jobs
          BY <3>2 DEF Finish, HandlersHaveJobs
        <4>2. (job[j] # None /\ job' = Retried(j)) \/ job' = [job EXCEPT ![j] = None]
          BY <3>2 DEF Finish
        <4>3. CASE job' = [job EXCEPT ![j] = None]
          BY <4>3 DEF TypeOK
        <4> QED BY <4>1, <4>2, <4>3, RetriedVersions
      <3> QED BY <1>2, <3>1, <3>2 DEF WorkerCrash
    <2>4. RequestsAgree'
      BY <2>1, <2>2, <2>3, RequestsKept
    <2> QED BY <1>t, <1>1, <2>2, <2>4, IndPartsNext
  <1>3. CASE FirstStatementFails(h)
    <2>1. ver[handler[h].ver].life # "absent"
      BY <1>3 DEF FirstStatementFails, HandlersHaveJobs, RequestsAgree, WorkHasRows, Holding
    <2> QED BY <1>t, <1>1, <1>3, <2>1, Moves, StepInv DEF FirstStatementFails
  <1> QED BY <1>2, <1>3

\* A decision about rows: it moves no handler, and a row it publishes awaited review.
LEMMA DecisionInv ==
    ASSUME IndInv, TypeOK', RowsAgree', UNCHANGED <<job, handler, sending>>,
           \A w \in Versions :
               \/ ver'[w] = ver[w]
               \/ ver'[w].life \in {"retired", "deleted"} /\ ver'[w].scan \in {ver[w].scan, "pending"}
               \/ ver[w].life \in {"rejected", "revoked"} /\ ver'[w].life = ver[w].life
               \/ ver[w].life \in {"pending_review", "quarantined"} /\ ver'[w].life = "rejected"
               \/ ver[w].life = "active" /\ ver'[w].life = "revoked"
               \/ ver[w].life = "pending_review" /\ ver'[w].life = "active"
    PROVE  IndInv'
  <1> USE IndParts
  <1>1. /\ OneHandler' /\ ClaimedIsHidden' /\ HandlersHaveJobs'
        /\ \A h \in Handlers, w \in Versions : Holding(h, w)' => Holding(h, w)
    <2>1. \A h \in Handlers : handler[h].pc \in {"claimed", "parsing", "parsed"} =>
             \/ ver'[handler[h].ver].life = ver[handler[h].ver].life
             \/ ver'[handler[h].ver].life \notin {"pending_review", "active"}
      <3> SUFFICES ASSUME NEW h \in Handlers, handler[h].pc \in {"claimed", "parsing", "parsed"}
                   PROVE  \/ ver'[handler[h].ver].life = ver[handler[h].ver].life
                          \/ ver'[handler[h].ver].life \notin {"pending_review", "active"}
        OBVIOUS
      <3>1. /\ handler[h].ver \in Versions
            /\ ver[handler[h].ver].life \notin {"pending_review", "active"}
        BY DEF HandlersHaveJobs, ClaimedIsHidden
      <3> QED BY <3>1
    <2> QED BY <2>1, HandlersKept
  <1>2. RequestsAgree'
    <2>1. UnsentIsUntouched'
      BY <1>1 DEF RequestsAgree, UnsentIsUntouched
    <2>2. WorkHasRows'
      BY <1>1 DEF RequestsAgree, WorkHasRows
    <2> QED BY <2>1, <2>2 DEF RequestsAgree
  <1> QED BY <1>1, <1>2, IndPartsNext

LEMMA ReviewInv == ASSUME IndInv, Review PROVE IndInv'
  <1> USE IndParts
  <1> USE DEF reviewFrame
  <1>t. TypeOK'
    BY ReviewType
  <1>1. ASSUME NEW v \in Versions, NEW acknowledged \in BOOLEAN, Approve(v, acknowledged)
        PROVE  IndInv'
    <2>1. /\ ver[v].life = "pending_review" /\ ver[v].scan \in {"clean", "disabled"}
          /\ ver' = Published(v, ver[v], "review") /\ MakeCurrent(v)
          /\ UNCHANGED <<job, handler, sending>>
      BY <1>1 DEF Approve, MayPublish, AcceptedScan
    <2>2. Exists(v) /\ ver[v] \in VersionRow
      BY <2>1, VersionFields DEF Exists, Gone
    <2>3. RowsAgree'
      BY <2>1, <2>2, PublishedAgrees
    <2>4. ASSUME NEW w \in Versions
          PROVE  \/ ver'[w] = ver[w]
                 \/ ver'[w].life = "retired" /\ ver'[w].scan = ver[w].scan
                 \/ ver[w].life = "pending_review" /\ ver'[w].life = "active"
      <3>1. CASE w = v
        BY <2>1, <2>2, <3>1 DEF Published, VersionRow
      <3>2. CASE w # v
        <4>1. ver'[w] = IF ver[w].doc = ver[v].doc /\ ver[w].active
                        THEN [ver[w] EXCEPT !.life = "retired", !.active = FALSE] ELSE ver[w]
          BY <2>1, <3>2, VersionFields DEF Published
        <4> QED BY <4>1, VersionFields DEF VersionRow
      <3> QED BY <3>1, <3>2
    <2> QED BY <1>t, <2>1, <2>3, <2>4, DecisionInv
  <1>2. ASSUME NEW v \in Versions, Reject(v) PROVE IndInv'
    <2> DEFINE row == [ver[v] EXCEPT !.life = "rejected", !.active = FALSE]
    <2>1. /\ ver[v].life \in {"pending_review", "quarantined"}
          /\ ver' = [ver EXCEPT ![v] = row] /\ UNCHANGED <<doc, job, handler, sending>>
      BY <1>2 DEF Reject
    <2>2. /\ row \in VersionRow /\ row.life = "rejected" /\ ~row.active /\ row.doc = ver[v].doc
      BY Columns, VersionFields DEF VersionRow
    <2> HIDE DEF row
    <2>3. ~ver[v].active /\ ver[v].doc \in Documents
      BY <2>1, ActiveRow DEF Exists, Gone
    <2>4. RowsAgree'
      BY <2>1, <2>2, <2>3, QuietWrite
    <2>5. ver'[v] = row /\ \A w \in Versions : w # v => ver'[w] = ver[w]
      BY <2>1 DEF TypeOK
    <2> QED BY <1>t, <2>1, <2>2, <2>4, <2>5, DecisionInv
  <1>3. ASSUME NEW v \in Versions, Revoke(v) PROVE IndInv'
    <2> DEFINE row == [ver[v] EXCEPT !.life = "revoked", !.active = FALSE]
    <2>1. /\ ver[v].life = "active"
          /\ ver' = [ver EXCEPT ![v] = row] /\ UNCHANGED <<job, handler, sending>>
          /\ doc' = [d \in Documents |-> IF d = ver[v].doc /\ doc[d].current = v
                                         THEN [doc[d] EXCEPT !.current = None] ELSE doc[d]]
      BY <1>3 DEF Revoke
    <2>2. /\ row \in VersionRow /\ row.life = "revoked" /\ ~row.active /\ row.doc = ver[v].doc
      BY Columns, VersionFields DEF VersionRow
    <2> HIDE DEF row
    <2>3. Exists(v)
      BY <2>1 DEF Exists, Gone
    <2>4. RowsAgree'
      BY <2>1, <2>2, <2>3, WithdrawnAgrees
    <2>5. ver'[v] = row /\ \A w \in Versions : w # v => ver'[w] = ver[w]
      BY <2>1 DEF TypeOK
    <2> QED BY <1>t, <2>1, <2>2, <2>4, <2>5, DecisionInv
  <1>4. ASSUME NEW d \in Documents, Retire(d) PROVE IndInv'
    <2>1. RowsAgree'
      BY <1>4, RetireAgrees
    <2>2. ASSUME NEW w \in Versions
          PROVE  \/ ver'[w] = ver[w]
                 \/ ver'[w].life = "retired" /\ ver'[w].scan = ver[w].scan
                 \/ ver[w].life \in {"rejected", "revoked"} /\ ver'[w].life = ver[w].life
      <3>1. CASE Exists(w) /\ ver[w].doc = d
        BY <1>4, <3>1, VersionFields DEF Retire, VersionRow
      <3>2. CASE ~(Exists(w) /\ ver[w].doc = d)
        BY <1>4, <3>2 DEF Retire
      <3> QED BY <3>1, <3>2
    <2> QED BY <1>t, <1>4, <2>1, <2>2, DecisionInv DEF Retire
  <1>5. ASSUME NEW d \in Documents, Purge(d) PROVE IndInv'
    <2>1. Erased.life = "deleted" /\ Erased.scan = "pending"
      BY DEF Erased, Blank
    <2>2. \A w \in Versions : \/ ver'[w] = ver[w]
                              \/ ver'[w].life = "deleted" /\ ver'[w].scan = "pending"
      BY <1>5, <2>1 DEF Purge, DeleteDocument
    <2> QED BY <1>t, <1>5, <2>2, DeleteAgrees, DecisionInv DEF Purge
  <1> QED BY <1>1, <1>2, <1>3, <1>4, <1>5 DEF Review

----------------------------------------------------------------------------

LEMMA InitInv == Init => IndInv
  <1> SUFFICES ASSUME Init PROVE IndInv
    OBVIOUS
  <1>1. /\ Blank \in VersionRow /\ Blank.life = "absent" /\ ~Blank.active
        /\ Idle \in HandlerRow /\ Idle.pc = "idle"
    BY Columns DEF Blank, Idle
  <1>2. TypeOK
    BY <1>1, BoundsAssumption DEF Init, TypeOK, DocRow, Gone
  <1>3. PublishedIsCurrent /\ ActiveIsControlled /\ RowsHaveDocuments /\ CurrentIsOpen
    BY <1>1, DistinctAssumption
       DEF Init, PublishedIsCurrent, ActiveIsControlled, ActiveControl, RowsHaveDocuments,
           CurrentIsOpen, Exists, Gone
  <1>4. OneHandler /\ ClaimedIsHidden /\ HandlersHaveJobs /\ UnsentIsUntouched /\ WorkHasRows
    BY <1>1 DEF Init, OneHandler, ClaimedIsHidden, HandlersHaveJobs, UnsentIsUntouched,
                WorkHasRows, Holding
  <1> QED BY <1>2, <1>3, <1>4 DEF IndInv

\* Every step of the program, and every stuttering step, preserves the invariant.
LEMMA NextInv == IndInv /\ [Next]_vars => IndInv'
  <1> SUFFICES ASSUME IndInv, [Next]_vars PROVE IndInv'
    OBVIOUS
  <1>1. CASE Api
    BY <1>1, ApiInv
  <1>2. CASE Queue
    BY <1>2, QueueInv
  <1>3. ASSUME NEW h \in Handlers, HandlerStep(h) \/ FirstStatementFails(h) \/ WorkerCrash(h)
        PROVE  IndInv'
    BY <1>3, IngestInv, RescanInv, EndInv DEF HandlerStep
  <1>4. CASE Review
    BY <1>4, ReviewInv
  <1>5. CASE UNCHANGED vars
    BY <1>5 DEF vars, IndInv, TypeOK, PublishedIsCurrent, ActiveIsControlled, RowsHaveDocuments,
                CurrentIsOpen, OneHandler, ClaimedIsHidden, HandlersHaveJobs, UnsentIsUntouched,
                WorkHasRows, Exists, Holding
  <1> QED BY <1>1, <1>2, <1>3, <1>4, <1>5 DEF Next

\* The invariant that carries the others: rows, pointers, handlers, jobs and
\* requests in progress agree between every two statements of the program.
THEOREM Invariance == Spec => []IndInv
  BY InitInv, NextInv, PTL DEF Spec

\* Every variable keeps its type: in particular a handler's version is a version
\* and a retried job never exceeds its retry limit.
THEOREM TypeCorrect == Spec => []TypeOK
  <1>1. IndInv => TypeOK
    BY DEF IndInv
  <1> QED BY <1>1, Invariance, PTL

\* A document's pointer and the active flags of its versions agree, so at most
\* one version of a document is ever live.
THEOREM PublishedAlwaysCurrent == Spec => []PublishedIsCurrent
  <1>1. IndInv => PublishedIsCurrent
    BY DEF IndInv
  <1> QED BY <1>1, Invariance, PTL

\* No reachable row breaks the CHECK that guards activation, so the database
\* refuses no statement of ingestion or review in the middle of its transaction.
THEOREM ActiveAlwaysControlled == Spec => []ActiveIsControlled
  <1>1. IndInv => ActiveIsControlled
    BY DEF IndInv
  <1> QED BY <1>1, Invariance, PTL

\* A retired document serves no version.
THEOREM RetiredAlwaysDark == Spec => []RetiredServesNothing
  <1>1. ASSUME IndInv PROVE RetiredServesNothing
    <2> SUFFICES ASSUME NEW v \in Versions, ver[v].active
                 PROVE  doc[ver[v].doc].life = "active"
      BY DEF RetiredServesNothing
    <2>1. Exists(v) /\ doc[ver[v].doc].current = v /\ ver[v].doc \in Documents
      BY <1>1 DEF IndInv, PublishedIsCurrent, RowsHaveDocuments
    <2>2. v # None
      BY DistinctAssumption
    <2> QED BY <1>1, <2>1, <2>2 DEF IndInv, CurrentIsOpen
  <1> QED BY <1>1, Invariance, PTL
=============================================================================
