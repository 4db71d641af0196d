------------------------------ MODULE AskReceipts ------------------------------
(***************************************************************************)
(* The questions of one chat session, the rows and citation receipts they  *)
(* leave, and the history that reads them back, while documents are        *)
(* published, quarantined, revoked, retired and deleted and a script cuts  *)
(* the corpus into new chunks.                                             *)
(*                                                                         *)
(* Nothing holds a lock over two statements: an ask retrieves chunks,      *)
(* waits for a provider and then writes; the purge of receipts and the     *)
(* naming of the session run detached; history reads four tables one       *)
(* after the other.                                                        *)
(*                                                                         *)
(* A chunk is its version and how often that version was cut anew.  The    *)
(* user's clearance and the approval of the sources are fixed.             *)
(***************************************************************************)
EXTENDS Naturals, Sequences

CONSTANTS
    Asks,       \* requests, each with the query_log row it may insert
    Docs,       \* documents
    Versions,   \* document versions
    MaxCuts,    \* bound: times a version is cut anew
    MaxFaults,  \* bound: failed statements and process deaths
    None        \* no title

ASSUME ReceiptsAssumption ==
    /\ MaxCuts \in Nat /\ MaxFaults \in Nat
    /\ None \notin Asks

VARIABLES
    docOf,    \* the document of each version
    doc,      \* documents.lifecycle_state
    version,  \* document_versions.lifecycle_state; "none" is not published yet
    infected, \* versions with scan_status infected
    cuts,     \* which chunks a version has
    ask,      \* the requests
    log,      \* the session's query_log rows, oldest first
    receipt,  \* their citation_snapshots
    title,    \* chat_sessions.title, as the row it was generated from
    namer,    \* the naming tasks
    purging,  \* documents whose receipts are being purged
    script,   \* the re-chunking script
    reader,   \* one read of the history
    faults

Request(at, cites, abort) == [at |-> at, cites |-> cites, abort |-> abort, late |-> FALSE]

corpus == <<docOf, doc, version, infected>>
vars == <<corpus, cuts, ask, log, receipt, title, namer, purging, script, reader, faults>>

Chunks == Versions \X (0..MaxCuts)

AskRow ==
    [at    : {"asked", "generating", "logging", "saving", "touching", "closing", "done"},
     cites : SUBSET Chunks,               \* what it retrieved, then what it cites
     abort : {"no", "left", "late"},      \* the client left, or the deadline passed
     late  : BOOLEAN]                     \* the client was told of the deadline

ScriptRow ==
    [at      : {"idle", "targeted", "freezing", "cutting"},
     targets : SUBSET Versions,
     seen    : 0..Len(log),               \* rows its SELECT saw
     pending : SUBSET Asks,               \* receipts still to be frozen
     missed  : BOOLEAN]                   \* one was not, or cannot be

\* barred is what had been withdrawn for good when the read began.
ReaderRow ==
    [at     : {"idle", "listed", "snapped", "chunked", "shown"},
     barred : SUBSET Versions,
     title  : Asks \cup {None},
     seen   : 0..Len(log),
     frozen : SUBSET Asks,
     live   : SUBSET Chunks,
     shown  : SUBSET Asks]

NoScript == [at |-> "idle", targets |-> {}, seen |-> 0, pending |-> {}, missed |-> FALSE]
NoReader == [at |-> "idle", barred |-> {}, title |-> None, seen |-> 0, frozen |-> {},
             live |-> {}, shown |-> {}]

TypeOK ==
    /\ docOf \in [Versions -> Docs]
    /\ doc \in [Docs -> {"active", "retired", "gone"}]
    /\ version \in [Versions -> {"none", "active", "retired", "quarantined", "revoked", "gone"}]
    /\ infected \in SUBSET Versions
    /\ cuts \in [Versions -> 0..MaxCuts]
    /\ ask \in [Asks -> AskRow]
    /\ log \in Seq(Asks)
    /\ receipt \in [Asks -> {"never", "frozen", "purged"}]
    /\ title \in Asks \cup {None}
    /\ namer \in [Asks -> {"off", "queued", "naming"}]
    /\ purging \in SUBSET Docs
    /\ script \in ScriptRow
    /\ reader \in ReaderRow
    /\ faults \in 0..MaxFaults

Init ==
    /\ docOf \in [Versions -> Docs]
    /\ doc = [d \in Docs |-> IF \E v \in Versions : docOf[v] = d THEN "active" ELSE "gone"]
    /\ version = [v \in Versions |-> "none"]
    /\ infected = {}
    /\ cuts = [v \in Versions |-> 0]
    /\ ask = [a \in Asks |-> Request("asked", {}, "no")]
    /\ log = <<>>
    /\ receipt = [a \in Asks |-> "never"]
    /\ title = None
    /\ namer = [a \in Asks |-> "off"]
    /\ purging = {}
    /\ script = NoScript
    /\ reader = NoReader
    /\ faults = 0

Fault == faults < MaxFaults /\ faults' = faults + 1

Live(c) == version[c[1]] \notin {"none", "gone"} /\ c[2] = cuts[c[1]]
Of(d) == {v \in Versions : docOf[v] = d}
First(n) == {log[i] : i \in 1..n}
Logged == First(Len(log))

-------------------------------------------------------------------------------
(* POST /ask and /ask/stream.                                              *)

askFrame == <<corpus, cuts, title, purging, script, reader>>
Aborted(a) == ask[a].abort # "no"
Moves(a, at) == ask' = [ask EXCEPT ![a].at = at]

\* What remains of a request is its row and what its client was told.
Ended(a, late) ==
    [at |-> "done", cites |-> IF a \in Logged THEN ask[a].cites ELSE {}, abort |-> "no", late |-> late]
Replies(a, late) == ask' = [ask EXCEPT ![a] = Ended(a, late)]

\* Over MAX_QUESTION_CHARS: a refusal is logged, nothing is named.
TooLong(a) ==
    /\ ask[a].at = "asked"
    /\ log' = Append(log, a)
    /\ Moves(a, "closing")
    /\ UNCHANGED <<receipt, namer, faults, askFrame>>

\* The wall-clock budget, and the response closed early: one AbortController.
\* A client that leaves after the answer was generated changes nothing.
Deadline(a) ==
    /\ ask[a].at # "done" /\ ask[a].abort # "late"
    /\ ask' = [ask EXCEPT ![a].abort = "late"]
    /\ UNCHANGED <<log, receipt, namer, faults, askFrame>>

Leave(a) ==
    /\ ask[a].at \in {"asked", "generating"} /\ ask[a].abort = "no"
    /\ ask' = [ask EXCEPT ![a].abort = "left"]
    /\ UNCHANGED <<log, receipt, namer, faults, askFrame>>

\* The rewrite and retrieve: chunks of active versions, or none good enough.
Retrieve(a) ==
    /\ ask[a].at = "asked" /\ ~Aborted(a)
    /\ \E hits \in SUBSET {c \in Chunks : Live(c) /\ version[c[1]] = "active"} :
          ask' = [ask EXCEPT ![a] = Request("generating", hits, "no")]
    /\ UNCHANGED <<log, receipt, namer, faults, askFrame>>

\* An answer that cites what was retrieved, or a refusal: retrieval found
\* nothing, the model refused, every route failed, or the walk over the routes
\* met the abort between two of them.
Generate(a) ==
    /\ ask[a].at = "generating"
    /\ \E cites \in {{}} \cup {hits \in {ask[a].cites} : ~Aborted(a)} :
          ask' = [ask EXCEPT ![a] =
                     Request("logging", cites, IF @.abort = "left" THEN "no" ELSE @.abort)]
    /\ UNCHANGED <<log, receipt, namer, faults, askFrame>>

\* Mutant: the budget is looked at once more after the row was written.
CancelledLate(a) ==
    /\ \/ ask[a].at \in {"asked", "touching"}
       \/ ask[a].at = "generating" /\ ask[a].cites # {}
    /\ Aborted(a)
    /\ Replies(a, ask[a].abort = "late")
    /\ UNCHANGED <<log, receipt, namer, faults, askFrame>>

\* A provider call that is cancelled throws.
Cancelled(a) ==
    /\ \/ ask[a].at = "asked"
       \/ ask[a].at = "generating" /\ ask[a].cites # {}
    /\ Aborted(a)
    /\ Replies(a, ask[a].abort = "late")
    /\ UNCHANGED <<log, receipt, namer, faults, askFrame>>

Insert(a) ==
    /\ ask[a].at = "logging"
    /\ log' = Append(log, a)
    /\ Moves(a, IF ask[a].cites = {} THEN "touching" ELSE "saving")
    /\ UNCHANGED <<receipt, namer, faults, askFrame>>

\* UPDATE ... WHERE citation_snapshots = '[]': the first write is the last.
Frozen(a) == receipt' = [receipt EXCEPT ![a] = IF @ = "never" THEN "frozen" ELSE @]

\* saveCitationSnapshots; a failure is swallowed.
Save(a) ==
    /\ ask[a].at = "saving"
    /\ \/ Frozen(a) /\ UNCHANGED faults
       \/ Fault /\ UNCHANGED receipt
    /\ Moves(a, "touching")
    /\ UNCHANGED <<log, namer, askFrame>>

\* touchSession; the naming task is started and the response goes out.
Touch(a) ==
    /\ ask[a].at \in {"touching", "closing"}
    /\ namer' = [namer EXCEPT ![a] = IF ask[a].at = "touching" THEN "queued" ELSE "off"]
    /\ Replies(a, FALSE)
    /\ UNCHANGED <<log, receipt, faults, askFrame>>

\* Another statement throws: the deadline's refusal, or an error.
StatementFails(a) ==
    /\ ask[a].at \in {"asked", "generating", "logging", "touching", "closing"}
    /\ Fault
    /\ Replies(a, ask[a].abort = "late")
    /\ UNCHANGED <<log, receipt, namer, askFrame>>

-------------------------------------------------------------------------------
(* Naming the session, detached from the response.                         *)

namerFrame == <<corpus, cuts, ask, log, receipt, purging, script, reader>>

\* Mutant: whoever finds the session untitled names it.
NamerTakesAny(a) ==
    /\ namer[a] = "queued"
    /\ namer' = [namer EXCEPT ![a] = IF title = None THEN "naming" ELSE "off"]
    /\ UNCHANGED <<title, faults, namerFrame>>

\* Only the session's first row names it, unless it has a title.
NamerReads(a) ==
    /\ namer[a] = "queued"
    /\ namer' = [namer EXCEPT ![a] = IF log[1] = a /\ title = None THEN "naming" ELSE "off"]
    /\ UNCHANGED <<title, faults, namerFrame>>

\* UPDATE ... WHERE title IS NULL, after the model was asked for one.
NamerWrites(a) ==
    /\ namer[a] = "naming"
    /\ title' = IF title = None THEN a ELSE title
    /\ namer' = [namer EXCEPT ![a] = "off"]
    /\ UNCHANGED <<faults, namerFrame>>

NamerFails(a) ==
    /\ namer[a] # "off"
    /\ Fault
    /\ namer' = [namer EXCEPT ![a] = "off"]
    /\ UNCHANGED <<title, namerFrame>>

\* The API process dies with its requests, naming tasks and purges.
ApiCrash ==
    /\ Fault
    /\ ask' = [a \in Asks |-> IF ask[a].at = "done" THEN ask[a] ELSE Ended(a, FALSE)]
    /\ namer' = [a \in Asks |-> "off"]
    /\ purging' = {}
    /\ reader' = NoReader
    /\ UNCHANGED <<corpus, cuts, log, receipt, title, script>>

-------------------------------------------------------------------------------
(* The documents.                                                          *)

docFrame == <<docOf, cuts, ask, log, receipt, title, namer, script, reader, faults>>

\* A new version goes live: the one before it retires, a retired document returns.
Publish(v) ==
    /\ version[v] = "none" /\ doc[docOf[v]] # "gone"
    /\ version' = [w \in Versions |->
                     IF w = v THEN "active"
                     ELSE IF docOf[w] = docOf[v] /\ version[w] = "active" THEN "retired"
                     ELSE version[w]]
    /\ doc' = [doc EXCEPT ![docOf[v]] = "active"]
    /\ UNCHANGED <<infected, purging, docFrame>>

\* A scan-only pass finds the file infected; an infected one gets no other pass.
Quarantine(v) ==
    /\ version[v] \in {"active", "retired"} /\ v \notin infected
    /\ version' = [version EXCEPT ![v] = "quarantined"]
    /\ infected' = infected \cup {v}
    /\ UNCHANGED <<doc, purging, docFrame>>

\* The purge is started and not awaited.
Revoke(v) ==
    /\ version[v] = "active"
    /\ version' = [version EXCEPT ![v] = "revoked"]
    /\ purging' = purging \cup {docOf[v]}
    /\ UNCHANGED <<doc, infected, docFrame>>

\* Every version retires, a quarantined one included; a revoked one stays so.
RetireDocument(d) ==
    /\ doc[d] = "active"
    /\ doc' = [doc EXCEPT ![d] = "retired"]
    /\ version' = [v \in Versions |->
                     IF v \in Of(d) /\ version[v] \in {"active", "quarantined"} THEN "retired"
                     ELSE version[v]]
    /\ UNCHANGED <<infected, purging, docFrame>>

DeleteDocument(d) ==
    /\ doc[d] = "retired"
    /\ doc' = [doc EXCEPT ![d] = "gone"]
    /\ version' = [v \in Versions |-> IF v \in Of(d) THEN "gone" ELSE version[v]]
    /\ purging' = purging \cup {d}
    /\ UNCHANGED <<infected, docFrame>>

\* purgeCitationSnapshotsForDocument: one UPDATE, which may fail.
PurgeReceipts(d) ==
    /\ d \in purging
    /\ purging' = purging \ {d}
    /\ \/ /\ receipt' = [a \in Asks |->
                           IF receipt[a] = "frozen" /\ \E c \in ask[a].cites : docOf[c[1]] = d
                           THEN "purged" ELSE receipt[a]]
          /\ UNCHANGED faults
       \/ Fault /\ UNCHANGED receipt
    /\ UNCHANGED <<corpus, cuts, ask, log, title, namer, script, reader>>

-------------------------------------------------------------------------------
(* scripts/src/reingest.ts: receipts are frozen, then versions cut anew.   *)

scriptFrame == <<corpus, ask, log, title, namer, purging, reader>>

ScriptStarts ==
    /\ script.at = "idle"
    /\ script' = [NoScript EXCEPT !.at = "targeted",
                                  !.targets = {v \in Versions : version[v] = "active"}]
    /\ UNCHANGED <<cuts, receipt, faults, scriptFrame>>

\* Rows without a receipt that cite chunks which are there; a receipt is made
\* from all of its chunks or not at all.
Unfrozen == {a \in Logged : receipt[a] = "never" /\ \E c \in ask[a].cites : Live(c)}
Whole == {a \in Unfrozen : \A c \in ask[a].cites : Live(c)}

ScriptSelects ==
    /\ script.at = "targeted"
    /\ script' = [script EXCEPT !.at = "freezing", !.seen = Len(log),
                                !.pending = Whole, !.missed = Unfrozen # Whole]
    /\ UNCHANGED <<cuts, receipt, faults, scriptFrame>>

\* The same guarded write as the ask's.  When it wrote nothing the receipt is
\* read back, and one that is there counts; either statement may fail.
ScriptFreezes(a) ==
    /\ a \in script.pending
    /\ \/ /\ Frozen(a)
          /\ script' = [script EXCEPT !.pending = @ \ {a},
                                      !.missed = @ \/ receipt[a] = "purged"]
          /\ UNCHANGED faults
       \/ /\ Fault
          /\ \E missed \in {TRUE, script.missed \/ receipt[a] # "frozen"} :
                script' = [script EXCEPT !.pending = @ \ {a}, !.missed = missed]
          /\ UNCHANGED receipt
    /\ UNCHANGED <<cuts, scriptFrame>>

\* Mutant: receipts that could not be frozen are only reported.
ScriptGoesOn ==
    /\ script.at = "freezing" /\ script.pending = {}
    /\ script' = [script EXCEPT !.at = "cutting"]
    /\ UNCHANGED <<cuts, receipt, faults, scriptFrame>>

ScriptDecides ==
    /\ script.at = "freezing" /\ script.pending = {}
    /\ script' = IF script.missed THEN NoScript ELSE [script EXCEPT !.at = "cutting"]
    /\ UNCHANGED <<cuts, receipt, faults, scriptFrame>>

\* DELETE and INSERT of a version's chunks in one transaction, also for a
\* version that was withdrawn meanwhile; the insert fails for a deleted one.
ScriptCuts(v) ==
    /\ script.at = "cutting" /\ v \in script.targets
    /\ \/ /\ version[v] # "gone" /\ cuts[v] < MaxCuts
          /\ cuts' = [cuts EXCEPT ![v] = @ + 1]
          /\ script' = [script EXCEPT !.targets = @ \ {v}]
       \/ /\ version[v] = "gone"
          /\ script' = NoScript
          /\ UNCHANGED cuts
    /\ UNCHANGED <<receipt, faults, scriptFrame>>

\* Done, or stopped by an error.
ScriptEnds ==
    /\ script.at # "idle"
    /\ \/ script.at = "cutting" /\ script.targets = {} /\ UNCHANGED faults
       \/ Fault
    /\ script' = NoScript
    /\ UNCHANGED <<cuts, receipt, scriptFrame>>

-------------------------------------------------------------------------------
(* GET /sessions and /sessions/:id: the session, its rows, their receipts, *)
(* the chunks of rows without one, and last the versions.                  *)

readFrame == <<corpus, cuts, ask, log, receipt, title, namer, purging, script, faults>>
Withdrawn == infected \cup {v \in Versions : version[v] \in {"revoked", "gone"}}

\* The title and the rows; rows are only added and a title is set once.
ReadSession ==
    /\ reader.at = "idle" /\ log # <<>>
    /\ reader' = [NoReader EXCEPT !.at = "listed", !.barred = Withdrawn, !.title = title,
                                  !.seen = Len(log)]
    /\ UNCHANGED readFrame

ReadReceipts ==
    /\ reader.at = "listed"
    /\ reader' = [reader EXCEPT !.at = "snapped",
                                !.frozen = {a \in First(reader.seen) : receipt[a] = "frozen"}]
    /\ UNCHANGED readFrame

ReadChunks ==
    /\ reader.at = "snapped"
    /\ reader' = [reader EXCEPT !.at = "chunked",
                    !.live = {c \in Chunks :
                                /\ Live(c)
                                /\ \E a \in First(reader.seen) \ reader.frozen : c \in ask[a].cites}]
    /\ UNCHANGED readFrame

\* Mutant: the verdict of the scanner is left to the lifecycle.
ReadableByLifecycle(v) ==
    doc[docOf[v]] = "active" /\ version[v] \in {"active", "retired"}

Readable(v) ==
    doc[docOf[v]] = "active" /\ version[v] \in {"active", "retired"} /\ v \notin infected

\* An exchange is shown whole or not at all.
Authorized(a) ==
    /\ ask[a].cites # {}
    /\ \A c \in ask[a].cites :
          /\ Readable(c[1])
          /\ a \in reader.frozen \/ (c \in reader.live /\ version[c[1]] = "active")

\* canReleaseTitle: the opening exchange is shown, and no cited one is withheld.
Releases(shown) ==
    /\ log[1] \in shown
    /\ \A a \in First(reader.seen) : a \in shown \/ ask[a].cites = {}

ReadVersions ==
    /\ reader.at = "chunked"
    /\ LET shown == {a \in First(reader.seen) : Authorized(a)}
       IN  reader' = [reader EXCEPT !.at = "shown", !.shown = shown, !.live = {}, !.frozen = {},
                                    !.title = IF Releases(shown) THEN @ ELSE None]
    /\ UNCHANGED readFrame

ReadEnds ==
    /\ reader.at = "shown"
    /\ reader' = NoReader
    /\ UNCHANGED readFrame

-------------------------------------------------------------------------------
AskStep(a) ==
    \/ Retrieve(a) \/ Generate(a) \/ Cancelled(a) \/ Insert(a) \/ Save(a) \/ Touch(a)

Naming(a) == NamerReads(a) \/ NamerWrites(a) \/ NamerFails(a)

Documents ==
    \/ \E v \in Versions : Publish(v) \/ Quarantine(v) \/ Revoke(v)
    \/ \E d \in Docs : RetireDocument(d) \/ DeleteDocument(d) \/ PurgeReceipts(d)

Script ==
    \/ ScriptStarts \/ ScriptSelects \/ ScriptDecides \/ ScriptEnds
    \/ \E a \in Asks : ScriptFreezes(a)
    \/ \E v \in Versions : ScriptCuts(v)

Read == ReadSession \/ ReadReceipts \/ ReadChunks \/ ReadVersions \/ ReadEnds

Next ==
    \/ \E a \in Asks :
          \/ TooLong(a) \/ Deadline(a) \/ Leave(a) \/ AskStep(a)
          \/ StatementFails(a) \/ Naming(a)
    \/ ApiCrash \/ Documents \/ Script \/ Read

Spec == Init /\ [][Next]_vars

-------------------------------------------------------------------------------
(* What was revoked, deleted or found infected before a read began appears *)
(* nowhere in it, neither as an excerpt nor through the session's title.   *)
HistoryWithholds ==
    reader.at = "shown" =>
        \A a \in reader.shown \cup ({reader.title} \ {None}) :
            \A c \in ask[a].cites : c[1] \notin reader.barred

(* A title that is shown was generated from the session's opening exchange *)
(* and that exchange is shown with it: naming tasks that finish out of     *)
(* order supply none.                                                      *)
TitleIsTheOpenings ==
    reader.at = "shown" /\ reader.title # None =>
        reader.title = log[1] /\ reader.title \in reader.shown

(* When the script replaces a version's chunks, every row it could see     *)
(* that cites them has had its receipt frozen.                             *)
CutAfterFreezing ==
    [][\A v \in Versions : cuts'[v] # cuts[v] =>
          \A a \in First(script.seen) :
              <<v, cuts[v]>> \in ask[a].cites => receipt[a] # "never"]_vars

(* While no statement fails, a client that is told of the deadline leaves  *)
(* no row behind, whenever the deadline falls.                             *)
RefusedIsNotLogged ==
    faults = 0 => \A a \in Asks : ask[a].late => a \notin Logged
================================================================================
