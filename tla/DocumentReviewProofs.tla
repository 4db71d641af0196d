------------------------ MODULE DocumentReviewProofs ------------------------
(* What reviewers decide and readers see: theorems about DocumentLifecycle   *)
(* that rest on its inductive invariant and on what a handler remembers of   *)
(* its version between two of its statements; then what becomes of decisions *)
(* and of published text while sends succeed, and that the lifecycle         *)
(* implements Publication.                                                   *)
EXTENDS DocumentLifecycleProofs

Seen == {"pending_review", "active"}     \* lifecycles in which the text is read
Working == {"claimed", "parsing", "parsed"}

\* A live row may be live, and a text that is read is the one that was cut.
Cleared(row) == row.found # "blocking" /\ (row.found = "flagged" => row.approved = "review")
Fine(row) == /\ row.active => Cleared(row)
             /\ row.life \in Seen => row.text # "none" /\ row.chunks = row.text

\* What a handler read or wrote earlier is still what the row says.
Recalls(h) ==
    LET row == ver[handler[h].ver] IN
    /\ handler[h].pc = "rescanning" /\ row.scan = "disabled" => row.found = handler[h].found
    /\ handler[h].pc = "parsed" /\ row.life \notin Gone =>
          row.text # "none" /\ row.text = handler[h].text

ReadingSafe ==
    /\ \A v \in Versions : Fine(ver[v])
    /\ \A h \in Handlers : Recalls(h)

\* A write that brings no text, no finding of a skipped scan and no version into
\* the readers' sight.
Kept(old, new) ==
    /\ new.life \notin Gone => /\ old.life \notin Gone
                               /\ new.text = old.text /\ new.chunks = old.chunks
    /\ new.scan = "disabled" => old.scan = "disabled" /\ new.found = old.found
    /\ new.active => Cleared(new)
    /\ new.life \in Seen => old.life \in Seen

LEMMA SameIsKept ==
    ASSUME ReadingSafe, NEW v \in Versions, ver'[v] = ver[v]
    PROVE  Kept(ver[v], ver'[v])
  BY DEF ReadingSafe, Fine, Kept

\* Every row is kept, or fine and remembered by nobody who could be wrong about it;
\* every handler stays as it is, or remembers rightly.
LEMMA Carried ==
    ASSUME IndInv, ReadingSafe,
           \A w \in Versions : \/ Kept(ver[w], ver'[w])
                               \/ /\ Fine(ver'[w])
                                  /\ \A k \in Handlers : handler'[k].ver = w => Recalls(k)',
           \A k \in Handlers : handler'[k] = handler[k] \/ Recalls(k)'
    PROVE  ReadingSafe'
  <1>1. ASSUME NEW w \in Versions PROVE Fine(ver'[w])
    <2>1. CASE Kept(ver[w], ver'[w])
      BY <2>1 DEF ReadingSafe, Fine, Kept, Seen, Gone
    <2> QED BY <2>1
  <1>2. ASSUME NEW k \in Handlers PROVE Recalls(k)'
    <2> SUFFICES ASSUME handler'[k] = handler[k], handler[k].pc # "idle",
                        Kept(ver[handler[k].ver], ver'[handler[k].ver])
                 PROVE  Recalls(k)'
      <3>1. CASE handler'[k] = handler[k] /\ handler[k].pc = "idle"
        BY <3>1 DEF Recalls
      <3>2. handler[k].pc # "idle" => handler[k].ver \in Versions
        BY DEF IndInv, HandlersHaveJobs
      <3> QED BY <3>1, <3>2
    <2>1. Recalls(k)
      BY DEF ReadingSafe
    <2> QED BY <2>1 DEF Recalls, Kept
  <1> QED BY <1>1, <1>2 DEF ReadingSafe

\* A step of the handler that holds the version's lock.
LEMMA OwnStep ==
    ASSUME IndInv, ReadingSafe, NEW h \in Handlers, handler[h].pc # "idle",
           \A k \in Handlers : k # h => handler'[k] = handler[k],
           handler'[h].ver = handler[h].ver,
           Fine(ver'[handler[h].ver]), Recalls(h)',
           \A w \in Versions : w # handler[h].ver => Kept(ver[w], ver'[w])
    PROVE  ReadingSafe'
  <1>1. handler[h].ver \in Versions /\ Holding(h, handler[h].ver)
    BY DEF IndInv, HandlersHaveJobs, Holding
  <1>2. ASSUME NEW k \in Handlers, handler'[k].ver = handler[h].ver PROVE Recalls(k)'
    <2>1. CASE k # h
      <3>1. handler[k].pc = "idle"
        BY <2>1, <1>1, <1>2 DEF IndInv, OneHandler, Holding
      <3> QED BY <2>1, <3>1 DEF Recalls
    <2> QED BY <2>1
  <1> QED BY <1>1, <1>2, Carried

\* A step that leaves rows and handlers alone.
LEMMA Unmoved ==
    ASSUME ReadingSafe, ver' = ver, handler' = handler
    PROVE  ReadingSafe'
  BY DEF ReadingSafe, Fine, Cleared, Recalls

\* An UPDATE of one row, in the form each lemma needs it.
LEMMA OneRow ==
    ASSUME TypeOK, NEW v \in Versions, NEW row,
           ver' = [ver EXCEPT ![v] = row] \/ ver' = Updated(v, row)
    PROVE  /\ Exists(v) => ver'[v] = row
           /\ ver'[v] = row \/ ver'[v] = ver[v]
           /\ \A w \in Versions : w # v => ver'[w] = ver[w]
  BY DEF Updated, TypeOK

LEMMA OneKept ==
    ASSUME IndInv, ReadingSafe, NEW v \in Versions, NEW row, Kept(ver[v], row),
           ver' = [ver EXCEPT ![v] = row] \/ ver' = Updated(v, row),
           handler' = handler
    PROVE  ReadingSafe'
  <1>1. \A w \in Versions : Kept(ver[w], ver'[w])
    BY OneRow, SameIsKept DEF IndInv
  <1> QED BY <1>1, Carried

LEMMA ErasedIsKept == ASSUME NEW old PROVE Kept(old, Erased)
  <1>1. Erased.life = "deleted" /\ Erased.scan = "pending" /\ ~Erased.active
    BY DEF Erased, Blank
  <1> QED BY <1>1 DEF Kept, Seen, Gone

LEMMA DeleteKeeps ==
    ASSUME IndInv, ReadingSafe, NEW d \in Documents, DeleteDocument(d), handler' = handler
    PROVE  ReadingSafe'
  <1>1. ASSUME NEW w \in Versions PROVE Kept(ver[w], ver'[w])
    BY ErasedIsKept, SameIsKept DEF DeleteDocument
  <1> QED BY <1>1, Carried

\* What publishing a version does to the others: some of them retire.
LEMMA PublishedKeeps ==
    ASSUME IndInv, ReadingSafe, NEW v \in Versions, NEW row, NEW how,
           ver' = Published(v, row, how)
    PROVE  \A w \in Versions : w # v => Kept(ver[w], ver'[w])
  <1> SUFFICES ASSUME NEW w \in Versions, w # v PROVE Kept(ver[w], ver'[w])
    OBVIOUS
  <1>1. CASE ver[w].doc = row.doc /\ ver[w].active
    <2>1. /\ ver'[w].life = "retired" /\ ~ver'[w].active
          /\ ver'[w].scan = ver[w].scan /\ ver'[w].found = ver[w].found
          /\ ver'[w].text = ver[w].text /\ ver'[w].chunks = ver[w].chunks
      BY <1>1 DEF Published, IndInv, TypeOK, VersionRow
    <2>2. Exists(w)
      BY <1>1 DEF IndInv, PublishedIsCurrent
    <2> QED BY <2>1, <2>2 DEF Kept, Seen, Exists
  <1>2. CASE ~(ver[w].doc = row.doc /\ ver[w].active)
    BY <1>2, VersionFields, SameIsKept DEF Published, IndInv
  <1> QED BY <1>1, <1>2

LEMMA ApiReads == ASSUME IndInv, ReadingSafe, Api PROVE ReadingSafe'
  <1>1. ASSUME NEW d \in Documents, NEW v \in Versions, Upload(d, v) PROVE ReadingSafe'
    <2> DEFINE row == [Blank EXCEPT !.doc = d, !.life = "submitted"]
    <2>1. row.life = "submitted" /\ ~row.active
      BY DEF Blank
    <2>2. ver' = [ver EXCEPT ![v] = row] /\ handler' = handler /\ ver[v].life = "absent"
      BY <1>1 DEF Upload
    <2> HIDE DEF row
    <2>3. ver'[v] = row /\ \A w \in Versions : w # v => ver'[w] = ver[w]
      BY <2>2 DEF IndInv, TypeOK
    <2>4. \A k \in Handlers : ~Holding(k, v)
      BY <2>2 DEF IndInv, WorkHasRows
    <2>5. \A k \in Handlers : handler'[k].ver = v => Recalls(k)'
      BY <2>2, <2>4 DEF Holding, Recalls
    <2>6. Fine(ver'[v])
      BY <2>1, <2>3 DEF Fine, Seen
    <2> QED BY <2>2, <2>3, <2>5, <2>6, SameIsKept, Carried
  <1>2. ASSUME NEW v \in Versions, RequestRescan(v) PROVE ReadingSafe'
    <2> DEFINE row == [ver[v] EXCEPT !.life = "submitted", !.parse = "pending",
                                     !.scan = "pending", !.found = "none", !.active = FALSE]
    <2>1. /\ row.life = "submitted" /\ row.scan = "pending" /\ ~row.active
          /\ row.text = ver[v].text /\ row.chunks = ver[v].chunks
      BY DEF IndInv, TypeOK, VersionRow
    <2>2. Kept(ver[v], row)
      BY <1>2, <2>1 DEF RequestRescan, Rescannable, Kept, Seen, Gone
    <2>3. ver' = [ver EXCEPT ![v] = row] /\ handler' = handler
      BY <1>2 DEF RequestRescan
    <2> QED BY <2>2, <2>3, OneKept
  <1>3. ASSUME NEW v \in Versions, NEW j \in Jobs, RequestScanOnly(v, j) \/ Send(v, j)
        PROVE  ReadingSafe'
    BY <1>3, Unmoved DEF RequestScanOnly, Send
  <1>4. ASSUME NEW v \in Versions, SendFails(v) PROVE ReadingSafe'
    <2>1. handler' = handler /\ UndoSend(v)
      BY <1>4 DEF SendFails
    <2>2. CASE sending[v] = "first_upload"
      <3>1. CASE Exists(v)
        <4>1. ver[v].doc \in Documents
          BY <3>1 DEF IndInv, RowsHaveDocuments
        <4> QED BY <2>1, <2>2, <3>1, <4>1, DeleteKeeps DEF UndoSend
      <3>2. CASE ~Exists(v)
        BY <2>1, <2>2, <3>2, Unmoved DEF UndoSend
      <3> QED BY <3>1, <3>2
    <2>3. CASE sending[v] = "upload"
      BY <2>1, <2>3, ErasedIsKept, OneKept DEF UndoSend
    <2>4. CASE sending[v] = "rescan"
      <3> DEFINE row == [ver[v] EXCEPT !.life = "failed", !.parse = "failed"]
      <3>1. /\ row.life = "failed" /\ row.scan = ver[v].scan /\ row.found = ver[v].found
            /\ row.text = ver[v].text /\ row.chunks = ver[v].chunks /\ row.active = ver[v].active
        BY DEF IndInv, TypeOK, VersionRow
      <3>2. CASE ActiveControl(row) /\ Exists(v)
        <4>1. ~row.active
          BY <3>1, <3>2 DEF ActiveControl
        <4>2. Kept(ver[v], row)
          BY <3>1, <3>2, <4>1 DEF Kept, Seen, Exists
        <4>3. ver' = Updated(v, row)
          BY <2>1, <2>4, <3>2 DEF UndoSend
        <4> QED BY <2>1, <4>2, <4>3, OneKept
      <3>3. CASE ~(ActiveControl(row) /\ Exists(v))
        BY <2>1, <2>4, <3>3, Unmoved DEF UndoSend, Updated
      <3> QED BY <3>2, <3>3
    <2> QED BY <2>1, <2>2, <2>3, <2>4 DEF UndoSend
  <1>5. ASSUME NEW v \in Versions, ApiCrash(v) PROVE ReadingSafe'
    BY <1>5, Unmoved DEF ApiCrash
  <1> QED BY <1>1, <1>2, <1>3, <1>4, <1>5 DEF Api

LEMMA QueueReads == ASSUME IndInv, ReadingSafe, Queue PROVE ReadingSafe'
  <1>1. ASSUME NEW h \in Handlers, NEW j \in Jobs, Deliver(h, j) PROVE ReadingSafe'
    <2>1. /\ handler'[h].pc = "locked" /\ ver' = ver
          /\ \A k \in Handlers : k # h => handler'[k] = handler[k]
      BY <1>1, Columns DEF Deliver, IndInv, TypeOK, HandlerRow
    <2>2. Recalls(h)'
      BY <2>1 DEF Recalls
    <2>3. \A w \in Versions : Kept(ver[w], ver'[w])
      BY <2>1, SameIsKept
    <2> QED BY <2>1, <2>2, <2>3, Carried
  <1>2. ASSUME NEW h \in Handlers, NEW j \in Jobs, DeliverBusy(h, j) PROVE ReadingSafe'
    BY <1>2, Unmoved DEF DeliverBusy
  <1>3. ASSUME NEW j \in Jobs, Expire(j) PROVE ReadingSafe'
    BY <1>3, Unmoved DEF Expire
  <1> QED BY <1>1, <1>2, <1>3 DEF Queue

LEMMA ReviewReads == ASSUME IndInv, ReadingSafe, Review PROVE ReadingSafe'
  <1> USE DEF reviewFrame
  <1>1. ASSUME NEW v \in Versions, NEW acknowledged \in BOOLEAN, Approve(v, acknowledged)
        PROVE  ReadingSafe'
    <2>1. handler' = handler /\ ver' = Published(v, ver[v], "review") /\ MayPublish(ver[v], acknowledged)
      BY <1>1 DEF Approve
    <2>2. Kept(ver[v], ver'[v])
      <3>1. ver'[v] = [ver[v] EXCEPT !.life = "active", !.active = TRUE, !.approved = "review"]
        BY <2>1 DEF Published
      <3>2. /\ ver'[v].life = "active" /\ ver'[v].found = ver[v].found /\ ver'[v].scan = ver[v].scan
            /\ ver'[v].text = ver[v].text /\ ver'[v].chunks = ver[v].chunks
            /\ ver'[v].approved = "review"
        BY <3>1 DEF IndInv, TypeOK, VersionRow
      <3> QED BY <2>1, <3>2 DEF Kept, Cleared, MayPublish, Seen, Gone
    <2>3. \A w \in Versions : w # v => Kept(ver[w], ver'[w])
      BY <2>1, PublishedKeeps DEF IndInv
    <2> QED BY <2>1, <2>2, <2>3, Carried
  <1>2. ASSUME NEW v \in Versions, Reject(v) PROVE ReadingSafe'
    <2>1. Kept(ver[v], [ver[v] EXCEPT !.life = "rejected", !.active = FALSE])
      <3> DEFINE row == [ver[v] EXCEPT !.life = "rejected", !.active = FALSE]
      <3>1. /\ row.life = "rejected" /\ row.scan = ver[v].scan /\ row.found = ver[v].found
            /\ row.text = ver[v].text /\ row.chunks = ver[v].chunks /\ ~row.active
        BY DEF IndInv, TypeOK, VersionRow
      <3> QED BY <1>2, <3>1 DEF Reject, Kept, Seen, Gone
    <2> QED BY <1>2, <2>1, OneKept DEF Reject
  <1>3. ASSUME NEW v \in Versions, Revoke(v) PROVE ReadingSafe'
    <2>1. Kept(ver[v], [ver[v] EXCEPT !.life = "revoked", !.active = FALSE])
      <3> DEFINE row == [ver[v] EXCEPT !.life = "revoked", !.active = FALSE]
      <3>1. /\ row.life = "revoked" /\ row.scan = ver[v].scan /\ row.found = ver[v].found
            /\ row.text = ver[v].text /\ row.chunks = ver[v].chunks /\ ~row.active
        BY DEF IndInv, TypeOK, VersionRow
      <3> QED BY <1>3, <3>1 DEF Revoke, Kept, Seen, Gone
    <2> QED BY <1>3, <2>1, OneKept DEF Revoke
  <1>4. ASSUME NEW d \in Documents, Retire(d) PROVE ReadingSafe'
    <2>1. ASSUME NEW w \in Versions PROVE Kept(ver[w], ver'[w])
      <3>1. CASE ~(Exists(w) /\ ver[w].doc = d)
        BY <1>4, <3>1, SameIsKept DEF Retire
      <3>2. CASE Exists(w) /\ ver[w].doc = d
        <4>1. /\ ver'[w].life \in {"revoked", "rejected", "retired"} /\ ~ver'[w].active
              /\ ver'[w].scan = ver[w].scan /\ ver'[w].found = ver[w].found
              /\ ver'[w].text = ver[w].text /\ ver'[w].chunks = ver[w].chunks
          <5> DEFINE life == IF ver[w].life \in {"revoked", "rejected"} THEN ver[w].life
                             ELSE "retired"
          <5>1. ver'[w] = [ver[w] EXCEPT !.active = FALSE, !.life = life]
            BY <1>4, <3>2 DEF Retire
          <5>2. ver[w] \in VersionRow /\ life \in {"revoked", "rejected", "retired"}
            BY DEF IndInv, TypeOK
          <5> HIDE DEF life
          <5> QED BY <5>1, <5>2 DEF VersionRow
        <4> QED BY <3>2, <4>1 DEF Kept, Exists, Seen
      <3> QED BY <3>1, <3>2
    <2> QED BY <1>4, <2>1, Carried DEF Retire
  <1>5. ASSUME NEW d \in Documents, Purge(d) PROVE ReadingSafe'
    BY <1>5, DeleteKeeps DEF Purge
  <1> QED BY <1>1, <1>2, <1>3, <1>4, <1>5 DEF Review

\* The handler's write of one row, when it works or rescans no more after it.
LEMMA OwnRow ==
    ASSUME IndInv, ReadingSafe, NEW h \in Handlers, handler[h].pc # "idle",
           NEW pc \in {"claimed", "parsing", "done", "threw"}, Advance(h, pc) \/ Ends(h, pc),
           NEW row, Fine(row) \/ ver' = ver,
           \/ ver' = [ver EXCEPT ![handler[h].ver] = row]
           \/ ver' = Updated(handler[h].ver, row)
           \/ ver' = ver
    PROVE  ReadingSafe'
  <1> DEFINE v == handler[h].ver
  <1>1. v \in Versions
    BY DEF IndInv, HandlersHaveJobs
  <1>2. /\ handler'[h].pc = pc /\ handler'[h].ver = v
        /\ \A k \in Handlers : k # h => handler'[k] = handler[k]
    BY Moves DEF IndInv
  <1>3. /\ ver'[v] = row \/ ver'[v] = ver[v]
        /\ \A w \in Versions : w # v => ver'[w] = ver[w]
    BY <1>1, OneRow DEF IndInv
  <1>4. Fine(ver'[v])
    <2>1. Fine(ver[v])
      BY <1>1 DEF ReadingSafe
    <2>2. CASE ver' = ver
      BY <2>1, <2>2
    <2>3. CASE Fine(row)
      BY <2>1, <2>3, <1>3
    <2> QED BY <2>2, <2>3
  <1>5. Recalls(h)'
    BY <1>2 DEF Recalls
  <1>6. \A w \in Versions : w # v => Kept(ver[w], ver'[w])
    BY <1>3, SameIsKept
  <1> QED BY <1>2, <1>4, <1>5, <1>6, OwnStep

LEMMA IngestReads == ASSUME IndInv, ReadingSafe, NEW h \in Handlers, IngestStep(h)
                     PROVE  ReadingSafe'
  <1> USE DEF workerFrame
  <1> DEFINE v == handler[h].ver
  <1>a. handler[h].pc # "idle" => v \in Versions /\ ver[v] \in VersionRow
    BY DEF IndInv, HandlersHaveJobs, TypeOK
  <1>b. handler[h].pc \in Working => ~ver[v].active /\ ver[v].life \notin Seen
    BY <1>a DEF IndInv, ClaimedIsHidden, ActiveIsControlled, ActiveControl, Working, Seen
  <1>1. CASE Claim(h)
    <2> DEFINE row == [ver[v] EXCEPT !.parse = "parsing", !.life = "scanning", !.scan = "running",
                                     !.found = "none"]
    <2>1. handler[h].pc # "idle" /\ v \in Versions
      BY <1>1, <1>a DEF Claim
    <2>2. CASE Claimable(ver[v])
      <3>1. ~ver[v].active
        BY <2>1, <2>2 DEF Claimable, IndInv, ActiveIsControlled, ActiveControl
      <3>2. row.life = "scanning" /\ row.active = ver[v].active
        BY <2>1, <1>a DEF VersionRow
      <3>3. Fine(row)
        BY <3>1, <3>2 DEF Fine, Seen
      <3>4. ver' = [ver EXCEPT ![v] = row] /\ Advance(h, "claimed")
        BY <1>1, <2>2 DEF Claim
      <3> QED BY <2>1, <3>3, <3>4, OwnRow
    <2>3. CASE ~Claimable(ver[v])
      BY <1>1, <2>1, <2>3, OwnRow DEF Claim
    <2> QED BY <2>2, <2>3
  <1>2. ASSUME NEW verdict \in {"clean", "disabled"}, ScanAccepted(h, verdict)
        PROVE  ReadingSafe'
    <2> DEFINE row == [ver[v] EXCEPT !.scan = verdict, !.found = "none", !.life = "parsing"]
    <2>1. handler[h].pc = "claimed" /\ ver' = Updated(v, row) /\ Advance(h, "parsing")
      BY <1>2 DEF ScanAccepted
    <2>2. row.life = "parsing" /\ row.active = ver[v].active
      BY <2>1, <1>a DEF VersionRow
    <2>3. Fine(row)
      BY <2>1, <2>2, <1>b DEF Fine, Seen, Working
    <2> QED BY <2>1, <2>3, OwnRow
  <1>3. ASSUME NEW verdict \in {"clean", "disabled", "infected", "unavailable"},
               ScanRefused(h, verdict)
        PROVE  ReadingSafe'
    <2> DEFINE row == [ver[v] EXCEPT !.scan = verdict, !.found = "blocking",
                                     !.life = "quarantined", !.parse = "failed", !.active = FALSE]
    <2>1. handler[h].pc = "claimed" /\ ver' = Updated(v, row) /\ Ends(h, "done")
      BY <1>3 DEF ScanRefused
    <2>2. row.life = "quarantined" /\ ~row.active
      BY <2>1, <1>a DEF VersionRow
    <2>3. Fine(row)
      BY <2>2 DEF Fine, Seen
    <2> QED BY <2>1, <2>3, OwnRow
  <1>4. ASSUME NEW found \in Findings, Parse(h, found) PROVE ReadingSafe'
    <2> DEFINE text == IF ver[v].text = "a" THEN "b" ELSE "a"
               row == [ver[v] EXCEPT !.text = text]
    <2>1. handler[h].pc = "parsing" /\ v \in Versions
      BY <1>4, <1>a DEF Parse
    <2>2. /\ handler'[h].pc = "parsed" /\ handler'[h].ver = v /\ handler'[h].text = text
          /\ \A k \in Handlers : k # h => handler'[k] = handler[k]
      BY <1>4 DEF Parse, IndInv, TypeOK, HandlerRow
    <2>3. text # "none"
      OBVIOUS
    <2> HIDE DEF text
    <2>4. row.text = text /\ row.life = ver[v].life /\ row.active = ver[v].active
      BY <2>1, <1>a DEF VersionRow
    <2>5. ver' = Updated(v, row)
      BY <1>4 DEF Parse, text
    <2>6. /\ Exists(v) => ver'[v] = row
          /\ ~Exists(v) => ver'[v] = ver[v]
          /\ \A w \in Versions : w # v => ver'[w] = ver[w]
      BY <2>1, <2>5 DEF Updated, IndInv, TypeOK
    <2>7. Fine(ver'[v])
      BY <2>1, <2>4, <2>6, <1>b DEF Fine, Working
    <2>8. Recalls(h)'
      BY <2>2, <2>3, <2>4, <2>6 DEF Recalls, Exists
    <2>9. \A w \in Versions : w # v => Kept(ver[w], ver'[w])
      BY <2>6, SameIsKept
    <2> QED BY <2>1, <2>2, <2>7, <2>8, <2>9, OwnStep
  <1>5. CASE ContentRefused(h)
    <2> DEFINE row == [ver[v] EXCEPT !.parse = "ready", !.life = "quarantined",
                                     !.found = "blocking", !.active = FALSE]
    <2>1. handler[h].pc = "parsed" /\ ver' = Updated(v, row) /\ Ends(h, "done")
      BY <1>5 DEF ContentRefused
    <2>2. row.life = "quarantined" /\ ~row.active
      BY <2>1, <1>a DEF VersionRow
    <2>3. Fine(row)
      BY <2>2 DEF Fine, Seen
    <2> QED BY <2>1, <2>3, OwnRow
  <1>6. ASSUME NEW privileged \in BOOLEAN, Commit(h, privileged) PROVE ReadingSafe'
    <2> DEFINE row == [ver[v] EXCEPT !.parse = "ready", !.life = "pending_review",
                                     !.found = handler[h].found, !.active = FALSE,
                                     !.chunks = handler[h].text]
    <2>1. handler[h].pc = "parsed" /\ Exists(v) /\ v \in Versions /\ Ends(h, "done")
      BY <1>6, <1>a DEF Commit
    <2>2. /\ row.life = "pending_review" /\ ~row.active /\ row.found = handler[h].found
          /\ row.text = ver[v].text /\ row.chunks = handler[h].text
      BY <2>1, <1>a DEF VersionRow
    <2>3. row.text # "none" /\ row.chunks = row.text
      BY <2>1, <2>2 DEF ReadingSafe, Recalls, Exists
    <2>4. CASE ver' = [ver EXCEPT ![v] = row]
      <3>1. Fine(row)
        BY <2>2, <2>3 DEF Fine
      <3> QED BY <2>1, <2>4, <3>1, OwnRow
    <2>5. CASE ver' = Published(v, row, "auto") /\ MayAutoActivate(row)
      <3>1. /\ handler'[h].pc = "done" /\ handler'[h].ver = v
            /\ \A k \in Handlers : k # h => handler'[k] = handler[k]
        BY <2>1, Moves DEF IndInv
      <3>2. ver'[v] = [row EXCEPT !.life = "active", !.active = TRUE, !.approved = "auto"]
        BY <2>1, <2>5 DEF Published
      <3>3. row \in VersionRow
        BY <2>1, <1>a, Columns, HandlerFields DEF IndInv, VersionRow
      <3> HIDE DEF row
      <3>4. ver'[v].found = row.found /\ ver'[v].text = row.text /\ ver'[v].chunks = row.chunks
        BY <3>2, <3>3 DEF VersionRow
      <3>5. Fine(ver'[v])
        BY <2>3, <2>5, <3>4 DEF Fine, Cleared, MayAutoActivate
      <3>6. Recalls(h)'
        BY <3>1 DEF Recalls
      <3>7. \A w \in Versions : w # v => Kept(ver[w], ver'[w])
        BY <2>1, <2>5, PublishedKeeps
      <3> QED BY <2>1, <3>1, <3>5, <3>6, <3>7, OwnStep
    <2> QED BY <1>6, <2>4, <2>5 DEF Commit
  <1>7. CASE IngestFails(h)
    <2> DEFINE life == IF ver[v].life = "quarantined" THEN "quarantined" ELSE "failed"
               row == [ver[v] EXCEPT !.parse = "failed", !.active = FALSE, !.life = life]
    <2>1. handler[h].pc # "idle" /\ ver' = Updated(v, row) /\ Ends(h, "threw")
      BY <1>7 DEF IngestFails
    <2>2. life \notin Seen
      BY DEF Seen
    <2> HIDE DEF life
    <2>3. row.life = life /\ ~row.active
      BY <2>1, <1>a DEF VersionRow
    <2>4. Fine(row)
      BY <2>2, <2>3 DEF Fine
    <2> QED BY <2>1, <2>4, OwnRow
  <1> QED BY <1>1, <1>2, <1>3, <1>4, <1>5, <1>6, <1>7 DEF IngestStep

LEMMA RescanReads == ASSUME IndInv, ReadingSafe, NEW h \in Handlers, RescanStep(h)
                     PROVE  ReadingSafe'
  <1> USE DEF workerFrame
  <1> DEFINE v == handler[h].ver
  <1>a. handler[h].pc # "idle" => v \in Versions /\ ver[v] \in VersionRow
    BY DEF IndInv, HandlersHaveJobs, TypeOK
  <1>1. CASE RescanRead(h)
    <2>1. handler[h].pc # "idle" /\ v \in Versions /\ ver' = ver
      BY <1>1, <1>a DEF RescanRead
    <2>2. CASE ScanOnlyEligible(ver[v])
      <3>1. /\ handler'[h].pc = "rescanning" /\ handler'[h].ver = v
            /\ handler'[h].found = ver[v].found
            /\ \A k \in Handlers : k # h => handler'[k] = handler[k]
        BY <1>1, <2>2 DEF RescanRead, IndInv, TypeOK, HandlerRow
      <3>2. Fine(ver'[v]) /\ \A w \in Versions : Kept(ver[w], ver'[w])
        BY <2>1, SameIsKept DEF ReadingSafe
      <3>3. Recalls(h)'
        BY <2>1, <3>1 DEF Recalls
      <3> QED BY <2>1, <3>1, <3>2, <3>3, OwnStep
    <2>3. CASE ~ScanOnlyEligible(ver[v])
      <3>1. Ends(h, "done")
        BY <1>1, <2>3 DEF RescanRead
      <3> QED BY <2>1, <3>1, OwnRow
    <2> QED BY <2>2, <2>3
  <1>2. CASE RescanClean(h)
    <2> DEFINE row == [ver[v] EXCEPT !.scan = "clean", !.found = handler[h].found]
    <2>1. handler[h].pc = "rescanning" /\ v \in Versions /\ Ends(h, "done")
      BY <1>2, <1>a DEF RescanClean
    <2>2. CASE ScanOnlyEligible(ver[v])
      <3>1. handler[h].found = ver[v].found
        BY <2>1, <2>2 DEF ReadingSafe, Recalls, ScanOnlyEligible
      <3>2. /\ row.life = ver[v].life /\ row.active = ver[v].active /\ row.found = ver[v].found
            /\ row.approved = ver[v].approved
            /\ row.text = ver[v].text /\ row.chunks = ver[v].chunks
        BY <2>1, <3>1, <1>a DEF VersionRow
      <3>3. Fine(row)
        BY <2>1, <3>2 DEF ReadingSafe, Fine, Cleared
      <3>4. ver' = [ver EXCEPT ![v] = row]
        BY <1>2, <2>2 DEF RescanClean
      <3> QED BY <2>1, <3>3, <3>4, OwnRow
    <2>3. CASE ~ScanOnlyEligible(ver[v])
      BY <1>2, <2>1, <2>3, OwnRow DEF RescanClean
    <2> QED BY <2>2, <2>3
  <1>3. CASE RescanInfected(h)
    <2> DEFINE seen == handler[h].seen
               life == IF seen \in QuarantineOnHit THEN "quarantined" ELSE seen
               row == [ver[v] EXCEPT !.scan = "infected", !.found = "blocking",
                                     !.active = FALSE, !.life = life]
    <2>1. handler[h].pc = "rescanning" /\ v \in Versions
      BY <1>3, <1>a DEF RescanInfected
    <2>2. CASE ver[v].life = seen /\ ScanOnlyEligible(ver[v])
      <3>1. life \notin Seen
        BY <2>2 DEF QuarantineOnHit, Seen
      <3> HIDE DEF life
      <3>2. row.life = life /\ ~row.active
        BY <2>1, <1>a DEF VersionRow
      <3>3. Fine(row)
        BY <3>1, <3>2 DEF Fine
      <3>4. ver' = [ver EXCEPT ![v] = row] /\ Ends(h, "done")
        BY <1>3, <2>2 DEF RescanInfected, life
      <3> QED BY <2>1, <3>3, <3>4, OwnRow
    <2>3. CASE ~(ver[v].life = seen /\ ScanOnlyEligible(ver[v]))
      <3>1. ver' = ver /\ Ends(h, "threw")
        BY <1>3, <2>3 DEF RescanInfected
      <3> QED BY <2>1, <3>1, OwnRow
    <2> QED BY <2>2, <2>3
  <1>4. CASE RescanFails(h)
    BY <1>4, OwnRow DEF RescanFails
  <1> QED BY <1>1, <1>2, <1>3, <1>4 DEF RescanStep

\* The end of a handler, whether it returns, throws or dies.
LEMMA EndReads ==
    ASSUME IndInv, ReadingSafe, NEW h \in Handlers,
           Finish(h) \/ FirstStatementFails(h) \/ WorkerCrash(h)
    PROVE  ReadingSafe'
  <1>1. /\ ver' = ver
        /\ handler'[h].pc \in {"idle", "threw"}
        /\ \A k \in Handlers : k # h => handler'[k] = handler[k]
    <2>1. CASE Finish(h) \/ WorkerCrash(h)
      BY <2>1 DEF Finish, WorkerCrash, IndInv, TypeOK, Idle
    <2>2. CASE FirstStatementFails(h)
      BY <2>2, Moves DEF FirstStatementFails, IndInv
    <2> QED BY <2>1, <2>2
  <1>2. Recalls(h)'
    BY <1>1 DEF Recalls
  <1>3. \A w \in Versions : Kept(ver[w], ver'[w])
    BY <1>1, SameIsKept
  <1> QED BY <1>1, <1>2, <1>3, Carried

LEMMA ReadingInit == Init => ReadingSafe
  BY DEF Init, ReadingSafe, Fine, Recalls, Blank, Idle, Seen

LEMMA ReadingNext == IndInv /\ ReadingSafe /\ [Next]_vars => ReadingSafe'
  <1> SUFFICES ASSUME IndInv, ReadingSafe, [Next]_vars PROVE ReadingSafe'
    OBVIOUS
  <1>1. ASSUME NEW h \in Handlers, HandlerStep(h) \/ FirstStatementFails(h) \/ WorkerCrash(h)
        PROVE  ReadingSafe'
    BY <1>1, IngestReads, RescanReads, EndReads DEF HandlerStep
  <1>2. CASE UNCHANGED vars
    BY <1>2, Unmoved DEF vars
  <1> QED BY <1>1, <1>2, ApiReads, QueueReads, ReviewReads DEF Next

\* What readers see is cleared and is the text that was cut, and handlers
\* remember their rows rightly, after every step.
THEOREM ReadingIsSafe == Spec => []ReadingSafe
  BY Invariance, ReadingInit, ReadingNext, PTL DEF Spec

\* A version with a finding is live only through a reviewer who acknowledged
\* it, and one with a blocking finding never is.
THEOREM FlaggedAlwaysNeedsReview == Spec => []FlaggedNeedsReview
  <1>1. ReadingSafe => FlaggedNeedsReview
    BY DEF ReadingSafe, Fine, Cleared, FlaggedNeedsReview
  <1> QED BY <1>1, ReadingIsSafe, PTL

\* The chunks of a version that awaits review or is live were cut from the
\* markdown stored with it, however many attempts wrote either.
THEOREM ServedChunksAlwaysMatchText == Spec => []ServedChunksMatchText
  <1>1. ReadingSafe => ServedChunksMatchText
    BY DEF ReadingSafe, Fine, Seen, ServedChunksMatchText
  <1> QED BY <1>1, ReadingIsSafe, PTL

-------------------------------------------------------------------------------
(* Decisions and published text.                                             *)

Decided == {"rejected", "revoked"}
\* Lifecycles of a version that was published, and of one a handler works on.
Released == {"active", "retired", "quarantined", "rejected", "revoked"}
Unreleased == {"scanning", "parsing", "retired", "deleted"}

\* What was approved has its text, and no ingestion works on it.
Filed(row) == row.approved # "no" => row.parse = "ready" /\ row.life \in Released
Apart(h) == handler[h].pc \in Working =>
    LET row == ver[handler[h].ver] IN row.approved = "no" /\ row.life \in Unreleased

Settled ==
    /\ \A v \in Versions : Filed(ver[v])
    /\ \A h \in Handlers : Apart(h)

\* What every write does to a row, and what others' writes do to a row a handler works on.
Firm(old, new) ==
    /\ old.life \in Decided => new.life \in {old.life, "deleted"}
    /\ old.approved # "no" /\ new.life \notin Gone =>
          /\ new.approved = old.approved
          /\ new.text = old.text /\ new.chunks = old.chunks
    /\ Filed(new)
Undisturbed(old, new) ==
    old.approved = "no" /\ old.life \in Unreleased =>
        new.approved = "no" /\ new.life \in Unreleased

GivenUp(row) == row.life = "deleted" \/ (row.approved # "no" /\ ~row.active)

AllFirm == \A v \in Versions : Firm(ver[v], ver'[v])
ServingStep == [Serving!Next]_(Serving!vars)

LEMMA SameIsFirm ==
    ASSUME Settled, NEW v \in Versions, ver'[v] = ver[v]
    PROVE  Firm(ver[v], ver'[v]) /\ Undisturbed(ver[v], ver'[v])
  BY DEF Settled, Firm, Undisturbed

\* Handlers stay apart from what was approved.
LEMMA StaysSettled ==
    ASSUME IndInv, Settled, AllFirm,
           \A k \in Handlers :
               \/ Apart(k)'
               \/ /\ handler'[k] = handler[k]
                  /\ handler[k].pc = "idle"
                        \/ Undisturbed(ver[handler[k].ver], ver'[handler[k].ver])
    PROVE  Settled'
  <1>1. ASSUME NEW v \in Versions PROVE Filed(ver'[v])
    BY DEF AllFirm, Firm
  <1>2. ASSUME NEW k \in Handlers PROVE Apart(k)'
    BY DEF Settled, Apart, Undisturbed, Working
  <1> QED BY <1>1, <1>2 DEF Settled

\* The handler that holds the lock is the only one to work on its version.
LEMMA OwnSettled ==
    ASSUME IndInv, Settled, AllFirm, NEW h \in Handlers, handler[h].pc # "idle",
           \A k \in Handlers : k # h => handler'[k] = handler[k],
           Apart(h)',
           \A w \in Versions : w # handler[h].ver => Undisturbed(ver[w], ver'[w])
    PROVE  Settled'
  <1>1. ASSUME NEW k \in Handlers, k # h, handler[k].pc # "idle"
        PROVE  Undisturbed(ver[handler[k].ver], ver'[handler[k].ver])
    BY <1>1 DEF IndInv, HandlersHaveJobs, OneHandler, Holding
  <1> QED BY <1>1, StaysSettled

\* A step that moves no pointer and gives no version up is none of Publication.
LEMMA NothingServed ==
    ASSUME \A d \in Documents : doc'[d].current = doc[d].current,
           \A v \in Versions : GivenUp(ver'[v]) <=> GivenUp(ver[v])
    PROVE  ServingStep
  BY DEF ServingStep, Serving!vars, GivenUp

\* A write of one row that was never approved and is not published by it.
LEMMA OneFirm ==
    ASSUME IndInv, Settled, NEW v \in Versions, NEW row,
           ver' = [ver EXCEPT ![v] = row] \/ ver' = Updated(v, row),
           Firm(ver[v], row), Exists(v) => (GivenUp(row) <=> GivenUp(ver[v])),
           Exists(v) \/ ver' = Updated(v, row) \/ (GivenUp(row) <=> GivenUp(ver[v])),
           doc' = doc
    PROVE  /\ AllFirm /\ ServingStep
           /\ \A w \in Versions : w # v => Undisturbed(ver[w], ver'[w])
  <1>1. /\ ver'[v] = row \/ ver'[v] = ver[v]
        /\ \A w \in Versions : w # v => ver'[w] = ver[w]
    BY OneRow DEF IndInv
  <1>2. AllFirm
    BY <1>1, SameIsFirm DEF AllFirm
  <1>3. ~Exists(v) /\ ver' = Updated(v, row) => ver' = ver
    BY DEF Updated
  <1>4. \A w \in Versions : GivenUp(ver'[w]) <=> GivenUp(ver[w])
    BY <1>1, <1>3
  <1>5. ServingStep
    BY <1>4, NothingServed
  <1> QED BY <1>1, <1>2, <1>5, SameIsFirm

\* A step that leaves rows and pointers alone.
LEMMA RowsStill ==
    ASSUME Settled, ver' = ver, doc' = doc
    PROVE  /\ AllFirm /\ ServingStep
           /\ \A w \in Versions : Undisturbed(ver[w], ver'[w])
  BY SameIsFirm, NothingServed DEF AllFirm

LEMMA Undone ==
    ASSUME MaxSendFailures = 0, TypeOK, NEW v \in Versions
    PROVE  ~SendFails(v)
  BY DEF SendFails, TypeOK

LEMMA ApiDecides == ASSUME MaxSendFailures = 0, IndInv, Settled, Api
                    PROVE  Settled' /\ AllFirm /\ ServingStep
  <1>1. ASSUME NEW d \in Documents, NEW v \in Versions, Upload(d, v)
        PROVE  Settled' /\ AllFirm /\ ServingStep
    <2> DEFINE row == [Blank EXCEPT !.doc = d, !.life = "submitted"]
    <2>1. row.life = "submitted" /\ row.approved = "no"
      BY DEF Blank
    <2>2. ver' = [ver EXCEPT ![v] = row] /\ handler' = handler /\ ver[v].life = "absent"
      BY <1>1 DEF Upload
    <2> HIDE DEF row
    <2>3. ver[v].approved = "no"
      BY <2>2 DEF Settled, Filed, Released
    <2>4. ver'[v] = row /\ \A w \in Versions : w # v => ver'[w] = ver[w]
      BY <2>2 DEF IndInv, TypeOK
    <2>5. Firm(ver[v], row) /\ Undisturbed(ver[v], row) /\ (GivenUp(row) <=> GivenUp(ver[v]))
      BY <2>1, <2>2, <2>3 DEF Firm, Undisturbed, Decided, Unreleased, Filed, GivenUp
    <2>6. /\ \A w \in Versions : Undisturbed(ver[w], ver'[w])
          /\ \A w \in Versions : GivenUp(ver'[w]) <=> GivenUp(ver[w])
          /\ AllFirm
      BY <2>4, <2>5, SameIsFirm DEF AllFirm
    <2>7. Settled'
      BY <2>2, <2>6, StaysSettled DEF IndInv, HandlersHaveJobs
    <2>8. \A e \in Documents : doc'[e].current = doc[e].current
      BY <1>1 DEF Upload, IndInv, TypeOK, DocRow
    <2> QED BY <2>6, <2>7, <2>8, NothingServed
  <1>2. ASSUME NEW v \in Versions, RequestRescan(v)
        PROVE  Settled' /\ AllFirm /\ ServingStep
    <2> DEFINE row == [ver[v] EXCEPT !.life = "submitted", !.parse = "pending",
                                     !.scan = "pending", !.found = "none", !.active = FALSE]
    <2>1. row.life = "submitted" /\ row.approved = ver[v].approved
      BY DEF IndInv, TypeOK, VersionRow
    <2>2. /\ ver' = [ver EXCEPT ![v] = row] /\ handler' = handler /\ doc' = doc
          /\ ver[v].life \in {"quarantined", "failed"} /\ ver[v].approved = "no"
      BY <1>2 DEF RequestRescan, Rescannable
    <2> HIDE DEF row
    <2>3. Firm(ver[v], row) /\ Undisturbed(ver[v], row) /\ (GivenUp(row) <=> GivenUp(ver[v]))
      BY <2>1, <2>2 DEF Firm, Undisturbed, Decided, Unreleased, Filed, GivenUp
    <2>4. ver'[v] = row
      BY <2>2 DEF IndInv, TypeOK
    <2>5. /\ AllFirm /\ ServingStep
          /\ \A w \in Versions : Undisturbed(ver[w], ver'[w])
      BY <2>2, <2>3, <2>4, OneFirm
    <2> QED BY <2>2, <2>5, StaysSettled DEF IndInv, HandlersHaveJobs
  <1>3. ASSUME NEW v \in Versions, NEW j \in Jobs, RequestScanOnly(v, j) \/ Send(v, j)
        PROVE  Settled' /\ AllFirm /\ ServingStep
    BY <1>3, RowsStill, StaysSettled DEF RequestScanOnly, Send, IndInv, HandlersHaveJobs
  <1>4. ASSUME NEW v \in Versions, SendFails(v) PROVE FALSE
    BY <1>4, Undone DEF IndInv
  <1>5. ASSUME NEW v \in Versions, ApiCrash(v) PROVE Settled' /\ AllFirm /\ ServingStep
    BY <1>5, RowsStill, StaysSettled DEF ApiCrash, IndInv, HandlersHaveJobs
  <1> QED BY <1>1, <1>2, <1>3, <1>4, <1>5 DEF Api

LEMMA QueueDecides == ASSUME IndInv, Settled, Queue
                      PROVE  Settled' /\ AllFirm /\ ServingStep
  <1>1. ASSUME NEW h \in Handlers, NEW j \in Jobs, Deliver(h, j)
        PROVE  Settled' /\ AllFirm /\ ServingStep
    <2>1. /\ handler'[h].pc = "locked" /\ ver' = ver /\ doc' = doc
          /\ \A k \in Handlers : k # h => handler'[k] = handler[k]
      BY <1>1, Columns DEF Deliver, IndInv, TypeOK, HandlerRow
    <2>2. Apart(h)'
      BY <2>1 DEF Apart, Working
    <2> QED BY <2>1, <2>2, RowsStill, StaysSettled DEF IndInv, HandlersHaveJobs
  <1>2. ASSUME NEW j \in Jobs, UNCHANGED <<doc, ver, handler>>
        PROVE  Settled' /\ AllFirm /\ ServingStep
    BY <1>2, RowsStill, StaysSettled DEF IndInv, HandlersHaveJobs
  <1> QED BY <1>1, <1>2 DEF Queue, DeliverBusy, Expire

\* Publishing a version that was never approved: the document's live version is
\* given up for it.
LEMMA PublishedServes ==
    ASSUME IndInv, Settled, NEW v \in Versions, NEW row \in VersionRow,
           NEW how \in {"auto", "review"},
           Exists(v), ver[v].approved = "no", ver[v].life \notin Decided,
           row.doc = ver[v].doc, row.parse = "ready",
           ver' = Published(v, row, how), MakeCurrent(v)
    PROVE  /\ AllFirm /\ ServingStep
           /\ \A w \in Versions : w # v => Undisturbed(ver[w], ver'[w])
  <1> DEFINE d == ver[v].doc
  <1>1. d \in Documents /\ ~ver[v].active /\ v # None
    BY DistinctAssumption DEF IndInv, RowsHaveDocuments, ActiveIsControlled, ActiveControl
  <1>2. /\ ver'[v].life = "active" /\ ver'[v].active /\ ver'[v].approved = how
        /\ ver'[v].parse = "ready"
    <2>1. ver'[v] = [row EXCEPT !.life = "active", !.active = TRUE, !.approved = how]
      BY DEF Published
    <2> QED BY <2>1 DEF VersionRow
  <1>3. Firm(ver[v], ver'[v])
    BY <1>2 DEF Firm, Filed, Released
  <1>4. ASSUME NEW w \in Versions, w # v, ver[w].doc = d, ver[w].active
        PROVE  /\ ver'[w].life = "retired" /\ ~ver'[w].active
               /\ ver'[w].parse = ver[w].parse /\ ver'[w].approved = ver[w].approved
               /\ ver'[w].text = ver[w].text /\ ver'[w].chunks = ver[w].chunks
               /\ ver[w].life = "active" /\ ver[w].approved # "no"
    <2>1. ver'[w] = [ver[w] EXCEPT !.life = "retired", !.active = FALSE]
      BY <1>4 DEF Published
    <2>2. ver[w] \in VersionRow
      BY DEF IndInv, TypeOK
    <2> QED BY <1>4, <2>1, <2>2 DEF VersionRow, IndInv, ActiveIsControlled, ActiveControl
  <1>5. ASSUME NEW w \in Versions, w # v, ~(ver[w].doc = d /\ ver[w].active)
        PROVE  ver'[w] = ver[w]
    BY <1>5, VersionFields DEF Published, IndInv
  <1>6. ASSUME NEW w \in Versions, w # v
        PROVE  Firm(ver[w], ver'[w]) /\ Undisturbed(ver[w], ver'[w])
    <2>1. CASE ver[w].doc = d /\ ver[w].active
      <3>1. Filed(ver[w])
        BY DEF Settled
      <3> QED BY <1>6, <2>1, <1>4, <3>1
              DEF Firm, Filed, Undisturbed, Decided, Released
    <2>2. CASE ~(ver[w].doc = d /\ ver[w].active)
      BY <1>6, <2>2, <1>5, SameIsFirm
    <2> QED BY <2>1, <2>2
  <1>7. AllFirm
    BY <1>3, <1>6 DEF AllFirm
  <1> DEFINE live == [e \in Documents |-> doc[e].current]
             spent == {w \in Versions : GivenUp(ver[w])}
  <1>8. /\ doc'[d].current = v
        /\ \A e \in Documents : e # d => doc'[e].current = doc[e].current
    BY <1>1 DEF MakeCurrent, IndInv, TypeOK
  <1>9. live' = [live EXCEPT ![d] = v]
    BY <1>1, <1>8
  <1>10. ~GivenUp(ver[v]) /\ \A e \in Documents : doc[e].current # v
    BY <1>1 DEF Exists, Gone, GivenUp, IndInv, PublishedIsCurrent
  <1>11. spent' = spent \cup ({live[d]} \ {None})
    <2>1. ASSUME NEW w \in Versions
          PROVE  GivenUp(ver'[w]) <=> GivenUp(ver[w]) \/ w = doc[d].current
      <3>1. CASE w = v
        BY <3>1, <1>1, <1>2, <1>10 DEF GivenUp
      <3>2. CASE w # v /\ ver[w].doc = d /\ ver[w].active
        <4>1. doc[d].current = w
          BY <3>2 DEF IndInv, PublishedIsCurrent
        <4> QED BY <3>2, <4>1, <1>4 DEF GivenUp
      <3>3. CASE w # v /\ ~(ver[w].doc = d /\ ver[w].active)
        <4>1. doc[d].current # w
          BY <3>3, <1>1 DEF IndInv, PublishedIsCurrent
        <4> QED BY <3>3, <4>1, <1>5
      <3> QED BY <3>1, <3>2, <3>3
    <2>2. doc[d].current \in Versions \cup {None} /\ live[d] = doc[d].current
      BY <1>1 DEF IndInv, TypeOK, DocRow
    <2>3. None \notin Versions
      BY DistinctAssumption
    <2> QED BY <2>1, <2>2, <2>3
  <1>12. Serving!Publish(d, v)
    BY <1>9, <1>10, <1>11
       DEF Serving!Publish, Serving!Served, Serving!Leaving, GivenUp
  <1>13. ServingStep
    BY <1>1, <1>12 DEF ServingStep, Serving!Next
  <1> QED BY <1>6, <1>7, <1>13

\* One version is taken off its document, if it was live, in one transaction
\* with the pointer.
LEMMA WithdrawnServes ==
    ASSUME IndInv, Settled, NEW v \in Versions, NEW row,
           Firm(ver[v], row), ver[v].life # "deleted", row.life # "deleted",
           row.approved = ver[v].approved, ~row.active,
           ver' = [ver EXCEPT ![v] = row],
           doc' = [d \in Documents |-> IF d = ver[v].doc /\ doc[d].current = v
                                       THEN [doc[d] EXCEPT !.current = None] ELSE doc[d]]
    PROVE  /\ AllFirm /\ ServingStep
           /\ \A w \in Versions : w # v => Undisturbed(ver[w], ver'[w])
  <1>1. ver'[v] = row /\ \A w \in Versions : w # v => ver'[w] = ver[w]
    BY DEF IndInv, TypeOK
  <1>2. AllFirm /\ \A w \in Versions : w # v => Undisturbed(ver[w], ver'[w])
    BY <1>1, SameIsFirm DEF AllFirm
  <1>3. ServingStep
    <2>1. CASE ~ver[v].active
      <3>1. \A d \in Documents : doc'[d].current = doc[d].current
        BY <2>1 DEF IndInv, PublishedIsCurrent
      <3>2. \A w \in Versions : GivenUp(ver'[w]) <=> GivenUp(ver[w])
        BY <1>1, <2>1 DEF GivenUp
      <3> QED BY <3>1, <3>2, NothingServed
    <2>2. CASE ver[v].active
      <3> DEFINE d == ver[v].doc
                 live == [e \in Documents |-> doc[e].current]
                 spent == {w \in Versions : GivenUp(ver[w])}
      <3>1. d \in Documents /\ doc[d].current = v /\ v # None /\ ver[v].approved # "no"
        BY <2>2, DistinctAssumption
           DEF IndInv, PublishedIsCurrent, RowsHaveDocuments, ActiveIsControlled, ActiveControl
      <3>2. /\ doc'[d].current = None
            /\ \A e \in Documents : e # d => doc'[e].current = doc[e].current
        BY <3>1 DEF IndInv, TypeOK, DocRow
      <3>3. live' = [live EXCEPT ![d] = None]
        BY <3>1, <3>2
      <3>4. \A w \in Versions : GivenUp(ver'[w]) <=> GivenUp(ver[w]) \/ w = v
        BY <1>1, <3>1 DEF GivenUp
      <3>5. spent' = spent \cup {} \cup ({live[d]} \ {None})
        BY <3>1, <3>4
      <3>6. Serving!Withdraw(d, {})
        BY <3>3, <3>5 DEF Serving!Withdraw, Serving!Served, Serving!Leaving, GivenUp
      <3> QED BY <3>1, <3>6 DEF ServingStep, Serving!Next
    <2> QED BY <2>1, <2>2
  <1> QED BY <1>2, <1>3

\* A whole document is taken off, its rows retired or deleted.
LEMMA EmptiedServes ==
    ASSUME IndInv, Settled, NEW d \in Documents,
           doc'[d].current = None, \A e \in Documents : e # d => doc'[e] = doc[e],
           \A w \in Versions :
               IF Exists(w) /\ ver[w].doc = d
               THEN \/ ver'[w].life = "deleted" /\ ver'[w].approved = "no"
                    \/ /\ ver'[w].life = IF ver[w].life \in Decided THEN ver[w].life ELSE "retired"
                       /\ ~ver'[w].active
                       /\ ver'[w].parse = ver[w].parse /\ ver'[w].approved = ver[w].approved
                       /\ ver'[w].text = ver[w].text /\ ver'[w].chunks = ver[w].chunks
               ELSE ver'[w] = ver[w],
           handler' = handler
    PROVE  Settled' /\ AllFirm /\ ServingStep
  <1>1. ASSUME NEW w \in Versions
        PROVE  Firm(ver[w], ver'[w]) /\ Undisturbed(ver[w], ver'[w])
    <2>1. CASE Exists(w) /\ ver[w].doc = d
      <3>1. Filed(ver[w])
        BY DEF Settled
      <3>2. CASE ver'[w].life = "deleted" /\ ver'[w].approved = "no"
        BY <3>2 DEF Firm, Filed, Undisturbed, Unreleased, Gone
      <3>3. CASE ver'[w].life # "deleted" \/ ver'[w].approved # "no"
        BY <2>1, <3>1, <3>3 DEF Firm, Filed, Undisturbed, Unreleased, Decided, Released
      <3> QED BY <3>2, <3>3
    <2>2. CASE ~(Exists(w) /\ ver[w].doc = d)
      BY <2>2, SameIsFirm
    <2> QED BY <2>1, <2>2
  <1>2. AllFirm
    BY <1>1 DEF AllFirm
  <1>3. Settled'
    BY <1>1, <1>2, StaysSettled DEF IndInv, HandlersHaveJobs
  <1> DEFINE live == [e \in Documents |-> doc[e].current]
             spent == {w \in Versions : GivenUp(ver[w])}
             given == {w \in Versions : Exists(w) /\ ver[w].doc = d /\ ver'[w].life = "deleted"}
  <1>4. live' = [live EXCEPT ![d] = None]
    OBVIOUS
  <1>5. ASSUME NEW w \in Versions, w \notin given
        PROVE  GivenUp(ver'[w]) <=> GivenUp(ver[w]) \/ w = live[d]
    <2>1. CASE Exists(w) /\ ver[w].doc = d
      <3>1. ver'[w].life # "deleted" /\ ver[w].life # "deleted"
        BY <1>5, <2>1 DEF Exists, Gone
      <3>2. ver[w].active => ver[w].approved # "no" /\ doc[d].current = w
        BY <2>1 DEF IndInv, PublishedIsCurrent, ActiveIsControlled, ActiveControl
      <3>3. doc[d].current = w => ver[w].active
        BY DEF IndInv, PublishedIsCurrent
      <3> QED BY <2>1, <3>1, <3>2, <3>3 DEF GivenUp
    <2>2. CASE ~(Exists(w) /\ ver[w].doc = d)
      <3>1. doc[d].current # w
        BY <2>2 DEF IndInv, PublishedIsCurrent
      <3> QED BY <2>2, <3>1
    <2> QED BY <2>1, <2>2
  <1>6. live[d] \in Versions \cup {None} /\ None \notin Versions
    BY DistinctAssumption DEF IndInv, TypeOK, DocRow
  <1>7. spent' = spent \cup given \cup ({live[d]} \ {None})
    <2>1. \A w \in given : GivenUp(ver'[w])
      BY DEF GivenUp
    <2> HIDE DEF given, live
    <2>2. \A w \in Versions : GivenUp(ver'[w]) <=> GivenUp(ver[w]) \/ w \in given \/ w = live[d]
      BY <1>5, <2>1
    <2>3. given \subseteq Versions
      BY DEF given
    <2>4. spent' = {w \in Versions : GivenUp(ver'[w])}
      OBVIOUS
    <2> QED BY <1>6, <2>2, <2>3, <2>4
  <1>8. ASSUME NEW w \in given, NEW e \in Documents, doc[e].current = w
        PROVE  w = doc[d].current
    BY <1>8 DEF IndInv, PublishedIsCurrent
  <1>9. Serving!Withdraw(d, given)
    BY <1>4, <1>7, <1>8 DEF Serving!Withdraw, Serving!Served, Serving!Leaving, GivenUp
  <1>10. ServingStep
    <2>1. given \in SUBSET Versions
      OBVIOUS
    <2> HIDE DEF given
    <2>2. \E gone \in SUBSET Versions : Serving!Withdraw(d, gone)
      BY <1>9, <2>1 DEF Serving!Withdraw
    <2> QED BY <2>2 DEF ServingStep, Serving!Next
  <1> QED BY <1>2, <1>3, <1>10

LEMMA ReviewDecides == ASSUME IndInv, Settled, Review
                       PROVE  Settled' /\ AllFirm /\ ServingStep
  <1> USE DEF reviewFrame
  <1>1. ASSUME NEW v \in Versions, NEW acknowledged \in BOOLEAN, Approve(v, acknowledged)
        PROVE  Settled' /\ AllFirm /\ ServingStep
    <2>1. /\ handler' = handler /\ ver' = Published(v, ver[v], "review") /\ MakeCurrent(v)
          /\ ver[v].life = "pending_review" /\ ver[v].parse = "ready"
      BY <1>1 DEF Approve, MayPublish
    <2>2. ver[v].approved = "no" /\ Exists(v) /\ ver[v] \in VersionRow /\ ver[v].life \notin Decided
      BY <2>1 DEF Settled, Filed, Released, Exists, Gone, Decided, IndInv, TypeOK
    <2>3. /\ AllFirm /\ ServingStep
          /\ \A w \in Versions : w # v => Undisturbed(ver[w], ver'[w])
      BY <2>1, <2>2, PublishedServes
    <2>4. Undisturbed(ver[v], ver'[v])
      BY <2>1 DEF Undisturbed, Unreleased
    <2> QED BY <2>1, <2>3, <2>4, StaysSettled DEF IndInv, HandlersHaveJobs
  <1>2. ASSUME NEW v \in Versions, Reject(v) PROVE Settled' /\ AllFirm /\ ServingStep
    <2> DEFINE row == [ver[v] EXCEPT !.life = "rejected", !.active = FALSE]
    <2>1. /\ row.life = "rejected" /\ row.parse = ver[v].parse /\ ~row.active
          /\ row.approved = ver[v].approved
          /\ row.text = ver[v].text /\ row.chunks = ver[v].chunks
      BY DEF IndInv, TypeOK, VersionRow
    <2>2. /\ ver' = [ver EXCEPT ![v] = row] /\ handler' = handler /\ doc' = doc
          /\ ver[v].life \in {"pending_review", "quarantined"}
      BY <1>2 DEF Reject
    <2> HIDE DEF row
    <2>3. ~ver[v].active /\ Filed(ver[v])
      BY <2>2 DEF IndInv, ActiveIsControlled, ActiveControl, Settled
    <2>4. Firm(ver[v], row) /\ Undisturbed(ver[v], row) /\ (GivenUp(row) <=> GivenUp(ver[v]))
      BY <2>1, <2>2, <2>3 DEF Firm, Undisturbed, Decided, Unreleased, Released, Filed, GivenUp
    <2>5. ver'[v] = row
      BY <2>2 DEF IndInv, TypeOK
    <2>6. /\ AllFirm /\ ServingStep
          /\ \A w \in Versions : Undisturbed(ver[w], ver'[w])
      BY <2>2, <2>4, <2>5, OneFirm
    <2> QED BY <2>2, <2>6, StaysSettled DEF IndInv, HandlersHaveJobs
  <1>3. ASSUME NEW v \in Versions, Revoke(v) PROVE Settled' /\ AllFirm /\ ServingStep
    <2> DEFINE row == [ver[v] EXCEPT !.life = "revoked", !.active = FALSE]
    <2>1. /\ row.life = "revoked" /\ row.parse = ver[v].parse /\ ~row.active
          /\ row.approved = ver[v].approved
          /\ row.text = ver[v].text /\ row.chunks = ver[v].chunks
      BY DEF IndInv, TypeOK, VersionRow
    <2>2. /\ ver' = [ver EXCEPT ![v] = row] /\ handler' = handler
          /\ ver[v].life = "active"
          /\ doc' = [d \in Documents |-> IF d = ver[v].doc /\ doc[d].current = v
                                         THEN [doc[d] EXCEPT !.current = None] ELSE doc[d]]
      BY <1>3 DEF Revoke
    <2> HIDE DEF row
    <2>3. Firm(ver[v], row) /\ Undisturbed(ver[v], row)
      BY <2>1, <2>2 DEF Firm, Undisturbed, Decided, Unreleased, Released, Filed, Settled
    <2>4. ver'[v] = row
      BY <2>2 DEF IndInv, TypeOK
    <2>5. /\ AllFirm /\ ServingStep
          /\ \A w \in Versions : Undisturbed(ver[w], ver'[w])
      BY <2>1, <2>2, <2>3, <2>4, WithdrawnServes
    <2> QED BY <2>2, <2>5, StaysSettled DEF IndInv, HandlersHaveJobs
  <1>4. ASSUME NEW d \in Documents, Retire(d) PROVE Settled' /\ AllFirm /\ ServingStep
    <2>1. doc'[d].current = None /\ \A e \in Documents : e # d => doc'[e] = doc[e]
      BY <1>4 DEF Retire, IndInv, TypeOK
    <2>2. ASSUME NEW w \in Versions, Exists(w), ver[w].doc = d
          PROVE  /\ ver'[w].life = IF ver[w].life \in Decided THEN ver[w].life ELSE "retired"
                 /\ ~ver'[w].active
                 /\ ver'[w].parse = ver[w].parse /\ ver'[w].approved = ver[w].approved
                 /\ ver'[w].text = ver[w].text /\ ver'[w].chunks = ver[w].chunks
      <3> DEFINE life == IF ver[w].life \in Decided THEN ver[w].life ELSE "retired"
      <3>1. ver'[w] = [ver[w] EXCEPT !.active = FALSE, !.life = life]
        BY <1>4, <2>2 DEF Retire, Decided
      <3>2. ver[w] \in VersionRow
        BY DEF IndInv, TypeOK
      <3> HIDE DEF life
      <3>3. /\ ver'[w].life = life /\ ~ver'[w].active
            /\ ver'[w].parse = ver[w].parse /\ ver'[w].approved = ver[w].approved
            /\ ver'[w].text = ver[w].text /\ ver'[w].chunks = ver[w].chunks
        BY <3>1, <3>2 DEF VersionRow
      <3> QED BY <3>3 DEF life
    <2>3. \A w \in Versions : ~(Exists(w) /\ ver[w].doc = d) => ver'[w] = ver[w]
      BY <1>4 DEF Retire
    <2>4. handler' = handler
      BY <1>4 DEF Retire
    <2> QED BY <2>1, <2>2, <2>3, <2>4, EmptiedServes
  <1>5. ASSUME NEW d \in Documents, Purge(d) PROVE Settled' /\ AllFirm /\ ServingStep
    <2>1. doc'[d].current = None /\ \A e \in Documents : e # d => doc'[e] = doc[e]
      BY <1>5 DEF Purge, DeleteDocument, IndInv, TypeOK
    <2>2. Erased.life = "deleted" /\ Erased.approved = "no"
      BY DEF Erased, Blank
    <2>3. \A w \in Versions : ver'[w] = IF Exists(w) /\ ver[w].doc = d THEN Erased ELSE ver[w]
      BY <1>5 DEF Purge, DeleteDocument
    <2>4. handler' = handler
      BY <1>5 DEF Purge
    <2> QED BY <2>1, <2>2, <2>3, <2>4, EmptiedServes
  <1> QED BY <1>1, <1>2, <1>3, <1>4, <1>5 DEF Review

\* A working handler's write of its row, after which it works on or is done.
LEMMA OwnFirm ==
    ASSUME IndInv, Settled, NEW h \in Handlers, handler[h].pc \in Working,
           \A k \in Handlers : k # h => handler'[k] = handler[k],
           handler'[h].ver = handler[h].ver,
           NEW row,
           \/ ver' = [ver EXCEPT ![handler[h].ver] = row] /\ Exists(handler[h].ver)
           \/ ver' = Updated(handler[h].ver, row),
           row.approved = ver[handler[h].ver].approved,
           Exists(handler[h].ver) => row.life # "deleted",
           handler'[h].pc \in Working => row.life \in Unreleased,
           doc' = doc
    PROVE  Settled' /\ AllFirm /\ ServingStep
  <1> DEFINE v == handler[h].ver
  <1>1. v \in Versions /\ handler[h].pc # "idle"
    BY DEF IndInv, HandlersHaveJobs, Working
  <1>2. ver[v].approved = "no" /\ ver[v].life \in Unreleased
    BY DEF Settled, Apart
  <1>3. Firm(ver[v], row)
    BY <1>2 DEF Firm, Filed, Unreleased, Decided
  <1>4. Exists(v) => (GivenUp(row) <=> GivenUp(ver[v]))
    BY <1>2 DEF Exists, Gone, GivenUp
  <1>5. /\ AllFirm /\ ServingStep
        /\ \A w \in Versions : w # v => Undisturbed(ver[w], ver'[w])
    BY <1>1, <1>3, <1>4, OneFirm
  <1>6. Apart(h)'
    <2>1. ver'[v] = row \/ ver'[v] = ver[v]
      BY <1>1, OneRow DEF IndInv
    <2> QED BY <1>2, <2>1 DEF Apart
  <1> QED BY <1>1, <1>5, <1>6, OwnSettled

\* A handler ends, or reads, without a write.
LEMMA OwnStill ==
    ASSUME IndInv, Settled, NEW h \in Handlers, ver' = ver, doc' = doc,
           \A k \in Handlers : k # h => handler'[k] = handler[k],
           handler'[h].pc \notin Working
    PROVE  Settled' /\ AllFirm /\ ServingStep
  <1>1. Apart(h)'
    BY DEF Apart
  <1> QED BY <1>1, RowsStill, StaysSettled DEF IndInv, HandlersHaveJobs

LEMMA IngestDecides == ASSUME IndInv, Settled, NEW h \in Handlers, IngestStep(h)
                       PROVE  Settled' /\ AllFirm /\ ServingStep
  <1> USE DEF workerFrame
  <1> DEFINE v == handler[h].ver
  <1>a. handler[h].pc # "idle" => v \in Versions /\ ver[v] \in VersionRow
    BY DEF IndInv, HandlersHaveJobs, TypeOK
  <1>b. handler[h].pc \in Working => /\ ver[v].approved = "no"
                                     /\ ver[v].life \in Unreleased /\ ver[v].life \notin Decided
    BY DEF Settled, Apart, Unreleased, Decided
  <1>m. ASSUME NEW pc \in {"claimed", "parsing", "parsed", "done", "threw"},
               Advance(h, pc) \/ Ends(h, pc)
        PROVE  /\ handler'[h].pc = pc /\ handler'[h].ver = v
               /\ \A k \in Handlers : k # h => handler'[k] = handler[k]
    BY <1>m, Moves DEF IndInv
  <1>1. CASE Claim(h)
    <2> DEFINE row == [ver[v] EXCEPT !.parse = "parsing", !.life = "scanning", !.scan = "running",
                                     !.found = "none"]
    <2>1. handler[h].pc # "idle" /\ v \in Versions /\ doc' = doc
      BY <1>1, <1>a DEF Claim
    <2>2. CASE Claimable(ver[v])
      <3>1. ver[v].approved = "no" /\ ver[v].life \notin Decided \cup {"deleted"}
        BY <2>1, <2>2 DEF Claimable, Settled, Filed, Decided
      <3>2. row.life = "scanning" /\ row.approved = ver[v].approved
        BY <2>1, <1>a DEF VersionRow
      <3>3. ver' = [ver EXCEPT ![v] = row] /\ Advance(h, "claimed")
        BY <1>1, <2>2 DEF Claim
      <3>4. /\ handler'[h].pc = "claimed" /\ handler'[h].ver = v
            /\ \A k \in Handlers : k # h => handler'[k] = handler[k]
        BY <3>3, <1>m
      <3>5. ver'[v] = row
        BY <2>1, <3>3 DEF IndInv, TypeOK
      <3> HIDE DEF row
      <3>6. /\ Firm(ver[v], row) /\ (GivenUp(row) <=> GivenUp(ver[v]))
        BY <3>1, <3>2 DEF Firm, Filed, GivenUp
      <3>7. /\ AllFirm /\ ServingStep
            /\ \A w \in Versions : w # v => Undisturbed(ver[w], ver'[w])
        BY <2>1, <3>3, <3>6, OneFirm
      <3>8. Apart(h)'
        BY <3>1, <3>2, <3>4, <3>5 DEF Apart, Unreleased
      <3> QED BY <2>1, <3>4, <3>7, <3>8, OwnSettled
    <2>3. CASE ~Claimable(ver[v])
      <3>1. ver' = ver /\ Ends(h, "done")
        BY <1>1, <2>3 DEF Claim
      <3>2. handler'[h].pc \notin Working /\ \A k \in Handlers : k # h => handler'[k] = handler[k]
        BY <3>1, <1>m DEF Working
      <3> QED BY <2>1, <3>1, <3>2, OwnStill
    <2> QED BY <2>2, <2>3
  <1>2. ASSUME NEW verdict \in {"clean", "disabled"}, ScanAccepted(h, verdict)
        PROVE  Settled' /\ AllFirm /\ ServingStep
    <2> DEFINE row == [ver[v] EXCEPT !.scan = verdict, !.found = "none", !.life = "parsing"]
    <2>1. /\ handler[h].pc \in Working /\ handler[h].pc # "idle"
          /\ ver' = Updated(v, row) /\ Advance(h, "parsing") /\ doc' = doc
      BY <1>2 DEF ScanAccepted, Working
    <2>2. row.life = "parsing" /\ row.approved = ver[v].approved
      BY <2>1, <1>a DEF VersionRow
    <2> QED BY <2>1, <2>2, <1>m, OwnFirm DEF Unreleased
  <1>3. ASSUME NEW verdict \in {"clean", "disabled", "infected", "unavailable"},
               ScanRefused(h, verdict)
        PROVE  Settled' /\ AllFirm /\ ServingStep
    <2> DEFINE row == [ver[v] EXCEPT !.scan = verdict, !.found = "blocking",
                                     !.life = "quarantined", !.parse = "failed", !.active = FALSE]
    <2>1. /\ handler[h].pc \in Working /\ handler[h].pc # "idle"
          /\ ver' = Updated(v, row) /\ Ends(h, "done") /\ doc' = doc
      BY <1>3 DEF ScanRefused, Working
    <2>2. row.life = "quarantined" /\ row.approved = ver[v].approved
      BY <2>1, <1>a DEF VersionRow
    <2> QED BY <2>1, <2>2, <1>m, OwnFirm DEF Working
  <1>4. ASSUME NEW found \in Findings, Parse(h, found)
        PROVE  Settled' /\ AllFirm /\ ServingStep
    <2> DEFINE text == IF ver[v].text = "a" THEN "b" ELSE "a"
               row == [ver[v] EXCEPT !.text = text]
    <2>1. /\ handler[h].pc \in Working /\ handler[h].pc # "idle"
          /\ ver' = Updated(v, row) /\ doc' = doc
      BY <1>4 DEF Parse, Working
    <2>2. /\ handler'[h].ver = v
          /\ \A k \in Handlers : k # h => handler'[k] = handler[k]
      BY <1>4 DEF Parse, IndInv, TypeOK, HandlerRow
    <2> HIDE DEF text
    <2>3. row.life = ver[v].life /\ row.approved = ver[v].approved
      BY <2>1, <1>a DEF VersionRow
    <2> QED BY <2>1, <2>2, <2>3, <1>b, OwnFirm DEF Exists, Gone
  <1>5. CASE ContentRefused(h)
    <2> DEFINE row == [ver[v] EXCEPT !.parse = "ready", !.life = "quarantined",
                                     !.found = "blocking", !.active = FALSE]
    <2>1. /\ handler[h].pc \in Working /\ handler[h].pc # "idle"
          /\ ver' = Updated(v, row) /\ Ends(h, "done") /\ doc' = doc
      BY <1>5 DEF ContentRefused, Working
    <2>2. row.life = "quarantined" /\ row.approved = ver[v].approved
      BY <2>1, <1>a DEF VersionRow
    <2> QED BY <2>1, <2>2, <1>m, OwnFirm DEF Working
  <1>6. ASSUME NEW privileged \in BOOLEAN, Commit(h, privileged)
        PROVE  Settled' /\ AllFirm /\ ServingStep
    <2> DEFINE row == [ver[v] EXCEPT !.parse = "ready", !.life = "pending_review",
                                     !.found = handler[h].found, !.active = FALSE,
                                     !.chunks = handler[h].text]
    <2>1. /\ handler[h].pc \in Working /\ handler[h].pc # "idle"
          /\ Exists(v) /\ v \in Versions /\ Ends(h, "done")
      BY <1>6, <1>a DEF Commit, Working
    <2>2. row \in VersionRow
      BY <2>1, <1>a, Columns, HandlerFields DEF IndInv, VersionRow
    <2>3. /\ row.life = "pending_review" /\ row.approved = ver[v].approved
          /\ row.doc = ver[v].doc /\ row.parse = "ready"
      BY <2>1, <1>a DEF VersionRow
    <2>4. /\ handler'[h].pc = "done" /\ handler'[h].ver = v
          /\ \A k \in Handlers : k # h => handler'[k] = handler[k]
      BY <2>1, <1>m
    <2>5. CASE ver' = [ver EXCEPT ![v] = row] /\ doc' = doc
      BY <2>1, <2>3, <2>4, <2>5, OwnFirm DEF Working
    <2>6. CASE ver' = Published(v, row, "auto") /\ MakeCurrent(v)
      <3> HIDE DEF row
      <3>1. /\ AllFirm /\ ServingStep
            /\ \A w \in Versions : w # v => Undisturbed(ver[w], ver'[w])
        BY <2>1, <2>2, <2>3, <2>6, <1>b, PublishedServes
      <3>2. Apart(h)'
        BY <2>4 DEF Apart, Working
      <3> QED BY <2>1, <2>4, <3>1, <3>2, OwnSettled
    <2> QED BY <1>6, <2>5, <2>6 DEF Commit
  <1>7. CASE IngestFails(h)
    <2> DEFINE life == IF ver[v].life = "quarantined" THEN "quarantined" ELSE "failed"
               row == [ver[v] EXCEPT !.parse = "failed", !.active = FALSE, !.life = life]
    <2>1. /\ handler[h].pc \in Working /\ handler[h].pc # "idle"
          /\ ver' = Updated(v, row) /\ Ends(h, "threw") /\ doc' = doc
      BY <1>7 DEF IngestFails, Working
    <2>2. life # "deleted"
      OBVIOUS
    <2> HIDE DEF life
    <2>3. row.life = life /\ row.approved = ver[v].approved
      BY <2>1, <1>a DEF VersionRow
    <2> QED BY <2>1, <2>2, <2>3, <1>m, OwnFirm DEF Working
  <1> QED BY <1>1, <1>2, <1>3, <1>4, <1>5, <1>6, <1>7 DEF IngestStep

LEMMA RescanDecides == ASSUME IndInv, Settled, NEW h \in Handlers, RescanStep(h)
                       PROVE  Settled' /\ AllFirm /\ ServingStep
  <1> USE DEF workerFrame
  <1> DEFINE v == handler[h].ver
  <1>a. handler[h].pc # "idle" => v \in Versions /\ ver[v] \in VersionRow
    BY DEF IndInv, HandlersHaveJobs, TypeOK
  <1>m. ASSUME NEW pc \in {"done", "threw"}, Ends(h, pc)
        PROVE  /\ handler'[h].pc = pc /\ handler'[h].pc \notin Working
               /\ \A k \in Handlers : k # h => handler'[k] = handler[k]
    BY <1>m, Moves DEF IndInv, Working
  <1>1. CASE RescanRead(h)
    <2>1. ver' = ver /\ doc' = doc
      BY <1>1 DEF RescanRead
    <2>2. handler'[h].pc \notin Working /\ \A k \in Handlers : k # h => handler'[k] = handler[k]
      <3>1. CASE ScanOnlyEligible(ver[v])
        BY <1>1, <3>1 DEF RescanRead, IndInv, TypeOK, HandlerRow, Working
      <3>2. CASE ~ScanOnlyEligible(ver[v])
        BY <1>1, <3>2, <1>m DEF RescanRead
      <3> QED BY <3>1, <3>2
    <2> QED BY <2>1, <2>2, OwnStill
  <1>2. CASE RescanClean(h)
    <2> DEFINE row == [ver[v] EXCEPT !.scan = "clean", !.found = handler[h].found]
    <2>1. /\ handler[h].pc # "idle" /\ v \in Versions /\ Ends(h, "done") /\ doc' = doc
      BY <1>2, <1>a DEF RescanClean
    <2>2. CASE ScanOnlyEligible(ver[v])
      <3>1. /\ row.life = ver[v].life /\ row.active = ver[v].active
            /\ row.parse = ver[v].parse /\ row.approved = ver[v].approved
            /\ row.text = ver[v].text /\ row.chunks = ver[v].chunks
        BY <2>1, <1>a DEF VersionRow
      <3>2. ver' = [ver EXCEPT ![v] = row]
        BY <1>2, <2>2 DEF RescanClean
      <3> HIDE DEF row
      <3>3. Firm(ver[v], row) /\ (GivenUp(row) <=> GivenUp(ver[v]))
        BY <2>1, <3>1 DEF Firm, Filed, GivenUp, Settled
      <3>4. /\ AllFirm /\ ServingStep
            /\ \A w \in Versions : w # v => Undisturbed(ver[w], ver'[w])
        BY <2>1, <3>2, <3>3, OneFirm
      <3>5. Apart(h)'
        BY <2>1, <1>m DEF Apart
      <3> QED BY <2>1, <1>m, <3>4, <3>5, OwnSettled
    <2>3. CASE ~ScanOnlyEligible(ver[v])
      <3>1. ver' = ver
        BY <1>2, <2>3 DEF RescanClean
      <3> QED BY <2>1, <3>1, <1>m, OwnStill
    <2> QED BY <2>2, <2>3
  <1>3. CASE RescanInfected(h)
    <2> DEFINE seen == handler[h].seen
               life == IF seen \in QuarantineOnHit THEN "quarantined" ELSE seen
               row == [ver[v] EXCEPT !.scan = "infected", !.found = "blocking",
                                     !.active = FALSE, !.life = life]
    <2>1. handler[h].pc # "idle" /\ v \in Versions
      BY <1>3, <1>a DEF RescanInfected
    <2>2. CASE ver[v].life = seen /\ ScanOnlyEligible(ver[v])
      <3>1. /\ ver[v].life \in {"pending_review", "active", "retired", "rejected", "revoked"}
            /\ life = IF ver[v].life \in Decided THEN ver[v].life ELSE "quarantined"
        BY <2>2 DEF QuarantineOnHit, Decided, ScanOnlyEligible
      <3>2. /\ ver' = [ver EXCEPT ![v] = row] /\ Ends(h, "done")
            /\ doc' = [d \in Documents |-> IF d = ver[v].doc /\ doc[d].current = v
                                           THEN [doc[d] EXCEPT !.current = None] ELSE doc[d]]
        BY <1>3, <2>2 DEF RescanInfected
      <3> HIDE DEF life
      <3>3. /\ row.life = life /\ ~row.active
            /\ row.parse = ver[v].parse /\ row.approved = ver[v].approved
            /\ row.text = ver[v].text /\ row.chunks = ver[v].chunks
        BY <2>1, <1>a DEF VersionRow
      <3> HIDE DEF row
      <3>4. Firm(ver[v], row) /\ row.life # "deleted" /\ ver[v].life # "deleted"
        BY <2>1, <3>1, <3>3 DEF Firm, Filed, Decided, Released, Settled
      <3>5. /\ AllFirm /\ ServingStep
            /\ \A w \in Versions : w # v => Undisturbed(ver[w], ver'[w])
        BY <2>1, <3>2, <3>3, <3>4, WithdrawnServes
      <3>6. Apart(h)'
        BY <3>2, <1>m DEF Apart
      <3> QED BY <2>1, <3>2, <1>m, <3>5, <3>6, OwnSettled
    <2>3. CASE ~(ver[v].life = seen /\ ScanOnlyEligible(ver[v]))
      <3>1. ver' = ver /\ doc' = doc /\ Ends(h, "threw")
        BY <1>3, <2>3 DEF RescanInfected
      <3> QED BY <3>1, <1>m, OwnStill
    <2> QED BY <2>2, <2>3
  <1>4. CASE RescanFails(h)
    BY <1>4, <1>m, OwnStill DEF RescanFails
  <1> QED BY <1>1, <1>2, <1>3, <1>4 DEF RescanStep

LEMMA EndDecides ==
    ASSUME IndInv, Settled, NEW h \in Handlers,
           Finish(h) \/ FirstStatementFails(h) \/ WorkerCrash(h)
    PROVE  Settled' /\ AllFirm /\ ServingStep
  <1>1. /\ ver' = ver /\ doc' = doc
        /\ handler'[h].pc \in {"idle", "threw"}
        /\ \A k \in Handlers : k # h => handler'[k] = handler[k]
    <2>1. CASE Finish(h) \/ WorkerCrash(h)
      BY <2>1 DEF Finish, WorkerCrash, IndInv, TypeOK, Idle
    <2>2. CASE FirstStatementFails(h)
      BY <2>2, Moves DEF FirstStatementFails, IndInv
    <2> QED BY <2>1, <2>2
  <1> QED BY <1>1, OwnStill DEF Working

LEMMA SettledInit == Init => Settled
  BY DEF Init, Settled, Filed, Apart, Blank, Idle, Working

LEMMA SettledNext ==
    ASSUME MaxSendFailures = 0, IndInv, Settled, [Next]_vars
    PROVE  Settled' /\ AllFirm /\ ServingStep
  <1>1. ASSUME NEW h \in Handlers, HandlerStep(h) \/ FirstStatementFails(h) \/ WorkerCrash(h)
        PROVE  Settled' /\ AllFirm /\ ServingStep
    BY <1>1, IngestDecides, RescanDecides, EndDecides DEF HandlerStep
  <1>2. CASE UNCHANGED vars
    BY <1>2, RowsStill, StaysSettled DEF vars, IndInv, HandlersHaveJobs
  <1> QED BY <1>1, <1>2, ApiDecides, QueueDecides, ReviewDecides DEF Next

\* While sends succeed no ingestion works on what was approved, and approved rows
\* have their text and a lifecycle that follows publication.
THEOREM ApprovedIsApart == MaxSendFailures = 0 => (Spec => []Settled)
  <1> SUFFICES ASSUME MaxSendFailures = 0 PROVE Spec => []Settled
    OBVIOUS
  <1>1. IndInv /\ Settled /\ [Next]_vars => Settled'
    BY SettledNext
  <1> QED BY <1>1, Invariance, SettledInit, PTL DEF Spec

\* While sends succeed nothing rewrites the text, the chunks or the approval of a
\* version that was published.
THEOREM PublishedTextStays == MaxSendFailures = 0 => (Spec => PublishedTextImmutable)
  <1> SUFFICES ASSUME MaxSendFailures = 0 PROVE Spec => PublishedTextImmutable
    OBVIOUS
  <1> DEFINE Stays == \A v \in Versions : ver[v].approved # "no" /\ Exists(v)' =>
          /\ ver'[v].approved = ver[v].approved
          /\ ver'[v].text = ver[v].text
          /\ ver'[v].chunks = ver[v].chunks
  <1>1. IndInv /\ Settled /\ [Next]_vars => [Stays]_vars
    BY SettledNext DEF AllFirm, Firm, Exists
  <1>2. Spec => []Settled
    BY ApprovedIsApart
  <1> QED BY <1>1, <1>2, Invariance, PTL DEF Spec, PublishedTextImmutable

\* While sends succeed a rejection or a revocation ends only with its row.
THEOREM DecisionsAlwaysStick == MaxSendFailures = 0 => (Spec => DecisionsStick)
  <1> SUFFICES ASSUME MaxSendFailures = 0 PROVE Spec => DecisionsStick
    OBVIOUS
  <1> DEFINE Sticks == \A v \in Versions : ver[v].life \in {"rejected", "revoked"} =>
          ver'[v].life \in {ver[v].life, "deleted"}
  <1>1. IndInv /\ Settled /\ [Next]_vars => [Sticks]_vars
    BY SettledNext DEF AllFirm, Firm, Decided
  <1>2. Spec => []Settled
    BY ApprovedIsApart
  <1> QED BY <1>1, <1>2, Invariance, PTL DEF Spec, DecisionsStick

\* While sends succeed the lifecycle implements Publication: every step publishes
\* one version over the last one, withdraws or discards, or is none of its business.
THEOREM LifecyclePublishes == MaxSendFailures = 0 => (Spec => ImplementsPublication)
  <1> SUFFICES ASSUME MaxSendFailures = 0 PROVE Spec => ImplementsPublication
    OBVIOUS
  <1>1. Init => Serving!Init
    BY DEF Init, Serving!Init, Blank
  <1>2. IndInv /\ Settled /\ [Next]_vars => [Serving!Next]_(Serving!vars)
    BY SettledNext DEF ServingStep
  <1>3. Spec => []Settled
    BY ApprovedIsApart
  <1> QED BY <1>1, <1>2, <1>3, Invariance, PTL DEF Spec, ImplementsPublication, Serving!Spec
=============================================================================
