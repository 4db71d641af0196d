--------------------------- MODULE AskReceiptsProofs ---------------------------
(* Theorems about AskReceipts, for any number of questions, documents and   *)
(* versions, and any number of cuts and faults.                             *)
EXTENDS AskReceipts, TLAPS

(* A row is written when its question leaves "logging", and not before.     *)
RowsOfAsks ==
    \A a \in Asks :
        /\ ask[a].at \in {"asked", "generating", "logging"} => a \notin Logged
        /\ ask[a].at \in {"saving", "touching", "closing"} => a \in Logged
        /\ ask[a].late => ask[a].at = "done"

(* Whoever names the session is one of its rows, the opening one from the   *)
(* moment it has looked.                                                    *)
NamersAreLogged ==
    \A a \in Asks :
        /\ namer[a] # "off" => a \in Logged
        /\ namer[a] = "naming" => a = log[1]

TitleIsOpening == title # None => log # <<>> /\ title = log[1]

(* Cited chunks were published, and are of this cut or of an earlier one.   *)
CitesArePast ==
    \A a \in Asks : \A c \in ask[a].cites : version[c[1]] # "none" /\ c[2] <= cuts[c[1]]

(* What the script has still to do, or has given up, for the rows it saw.   *)
SeenIsFrozen ==
    /\ \A a \in First(script.seen) : \A v \in Versions :
          <<v, cuts[v]>> \in ask[a].cites /\ version[v] # "gone" =>
              receipt[a] # "never" \/ a \in script.pending \/ script.missed
    /\ script.at = "cutting" => script.pending = {} /\ ~script.missed
    /\ script.at \in {"idle", "targeted"} => script.seen = 0

(* What a read of the history knows stays true of the rows and versions.    *)
ReaderIsRight ==
    /\ reader.barred \subseteq Withdrawn
    /\ reader.title # None => reader.seen >= 1 /\ reader.title = log[1]
    /\ reader.shown \subseteq Logged
    /\ reader.at = "shown" /\ reader.title # None => reader.title \in reader.shown

IndInv ==
    /\ TypeOK /\ RowsOfAsks /\ NamersAreLogged /\ TitleIsOpening /\ CitesArePast
    /\ SeenIsFrozen /\ ReaderIsRight /\ HistoryWithholds /\ RefusedIsNotLogged

-------------------------------------------------------------------------------
(* The rows of the history.                                                 *)

LEMMA Appended ==
    ASSUME log \in Seq(Asks), NEW a \in Asks, log' = Append(log, a)
    PROVE  /\ log' \in Seq(Asks) /\ Len(log') = Len(log) + 1
           /\ \A i \in 1..Len(log) : log'[i] = log[i]
           /\ Logged' = Logged \cup {a}
  <1>1. /\ log' \in Seq(Asks) /\ Len(log') = Len(log) + 1 /\ log'[Len(log) + 1] = a
        /\ \A i \in 1..Len(log) : log'[i] = log[i]
    OBVIOUS
  <1>2. Len(log) \in Nat /\ 1..Len(log') = 1..Len(log) \cup {Len(log) + 1}
    BY <1>1
  <1> QED BY <1>1, <1>2 DEF Logged, First

\* The rows that are there stay, in their places.
LogKept ==
    /\ log' \in Seq(Asks) /\ Len(log) <= Len(log')
    /\ \A i \in 1..Len(log) : log'[i] = log[i]
    /\ Logged \subseteq Logged'

LEMMA SameLog == ASSUME TypeOK, UNCHANGED log PROVE LogKept
  BY DEF TypeOK, LogKept, Logged, First

LEMMA MoreLog == ASSUME TypeOK, NEW a \in Asks, log' = Append(log, a) PROVE LogKept
  BY Appended DEF TypeOK, LogKept

\* What was seen of them is still the same.
LEMMA FirstKept ==
    ASSUME TypeOK, LogKept
    PROVE  \A n \in 0..Len(log) :
              {log'[i] : i \in 1..n} = First(n) /\ First(n) \subseteq Logged
  <1> SUFFICES ASSUME NEW n \in 0..Len(log)
               PROVE  {log'[i] : i \in 1..n} = First(n) /\ First(n) \subseteq Logged
    OBVIOUS
  <1>1. Len(log) \in Nat
    BY DEF TypeOK
  <1>2. \A i \in 1..n : i \in 1..Len(log)
    BY <1>1
  <1>3. \A i \in 1..n : log'[i] = log[i]
    BY <1>2 DEF LogKept
  <1> QED BY <1>2, <1>3 DEF First, Logged

-------------------------------------------------------------------------------
(* The requests.                                                            *)

\* Request a takes the given row, the others keep theirs.
Takes(a, row) == row \in AskRow /\ ask' \in [Asks -> AskRow] /\ ask'[a] = row
                   /\ \A b \in Asks \ {a} : ask'[b] = ask[b]

Row(at, cites, abort, late) == [at |-> at, cites |-> cites, abort |-> abort, late |-> late]

LEMMA AskFields ==
    ASSUME TypeOK, NEW a \in Asks
    PROVE  /\ ask[a] = Row(ask[a].at, ask[a].cites, ask[a].abort, ask[a].late)
           /\ ask[a] \in AskRow /\ ask[a].cites \in SUBSET Chunks
           /\ ask[a].abort \in {"no", "left", "late"} /\ ask[a].late \in BOOLEAN
           /\ ask[a].at \in {"asked", "generating", "logging", "saving", "touching", "closing", "done"}
  BY DEF TypeOK, AskRow, Row

LEMMA MovesTakes ==
    ASSUME TypeOK, NEW a \in Asks,
           NEW at \in {"asked", "generating", "logging", "saving", "touching", "closing", "done"},
           Moves(a, at)
    PROVE  Takes(a, Row(at, ask[a].cites, ask[a].abort, ask[a].late))
  BY AskFields DEF TypeOK, AskRow, Row, Moves, Takes

LEMMA RepliesTakes ==
    ASSUME TypeOK, NEW a \in Asks, NEW late \in BOOLEAN, Replies(a, late)
    PROVE  Takes(a, Row("done", IF a \in Logged THEN ask[a].cites ELSE {}, "no", late))
  BY AskFields DEF TypeOK, AskRow, Row, Replies, Ended, Takes

LEMMA RetrieveTakes ==
    ASSUME TypeOK, NEW a \in Asks, Retrieve(a)
    PROVE  \E hits \in SUBSET {c \in Chunks : Live(c)} :
              Takes(a, Request("generating", hits, "no"))
  <1>1. PICK hits \in SUBSET {c \in Chunks : Live(c) /\ version[c[1]] = "active"} :
           ask' = [ask EXCEPT ![a] = Request("generating", hits, "no")]
    BY DEF Retrieve
  <1>2. hits \in SUBSET {c \in Chunks : Live(c)} /\ hits \in SUBSET Chunks
    OBVIOUS
  <1>3. Takes(a, Request("generating", hits, "no"))
    BY <1>1, <1>2 DEF TypeOK, AskRow, Request, Takes
  <1> QED BY <1>2, <1>3

LEMMA GenerateTakes ==
    ASSUME TypeOK, NEW a \in Asks, Generate(a)
    PROVE  \E cites \in {{}, ask[a].cites}, abort \in {"no", "late"} :
              Takes(a, Request("logging", cites, abort))
  <1> DEFINE abort == IF ask[a].abort = "left" THEN "no" ELSE ask[a].abort
  <1>1. PICK cites \in {{}, ask[a].cites} :
           ask' = [ask EXCEPT ![a] = Request("logging", cites, abort)]
    BY DEF Generate
  <1>2. cites \in SUBSET Chunks /\ abort \in {"no", "late"}
    BY AskFields
  <1>3. Takes(a, Request("logging", cites, abort))
    BY <1>1, <1>2 DEF TypeOK, AskRow, Request, Takes
  <1> QED BY <1>2, <1>3

LEMMA AbortTakes ==
    ASSUME TypeOK, NEW a \in Asks, NEW abort \in {"left", "late"},
           ask' = [ask EXCEPT ![a].abort = abort]
    PROVE  Takes(a, Row(ask[a].at, ask[a].cites, abort, ask[a].late))
  BY AskFields DEF TypeOK, AskRow, Row, Takes

\* The steps of a request: what they must leave for the invariant to hold.
LEMMA AskKeeps ==
    ASSUME IndInv, NEW a \in Asks, NEW row, Takes(a, row), LogKept, Logged' \subseteq Logged \cup {a},
           receipt' \in [Asks -> {"never", "frozen", "purged"}],
           \A b \in Asks : receipt[b] # "never" => receipt'[b] # "never",
           namer' \in [Asks -> {"off", "queued", "naming"}],
           \A b \in Asks : /\ namer'[b] # "off" => namer[b] # "off" \/ b \in Logged'
                           /\ namer'[b] = "naming" => namer[b] = "naming",
           faults' \in 0..MaxFaults, faults' = 0 => faults = 0, UNCHANGED askFrame,
           a \in Logged => row.cites = ask[a].cites,
           \A c \in row.cites : version[c[1]] # "none" /\ c[2] <= cuts[c[1]],
           row.at \in {"asked", "generating", "logging"} => a \notin Logged',
           row.at \in {"saving", "touching", "closing"} => a \in Logged',
           row.late => row.at = "done" /\ (faults' = 0 => a \notin Logged')
    PROVE  IndInv'
  <1> USE DEF IndInv, askFrame, corpus
  <1>1. TypeOK'
    <2>1. script \in ScriptRow'
      BY DEF TypeOK, ScriptRow, LogKept
    <2>2. reader \in ReaderRow'
      BY DEF TypeOK, ReaderRow, LogKept
    <2> QED BY <2>1, <2>2 DEF TypeOK, Takes, LogKept, AskRow
  <1>2. RowsOfAsks'
    BY DEF RowsOfAsks, Takes, LogKept
  <1>3. NamersAreLogged' /\ TitleIsOpening'
    <2>1. \A b \in Logged : log' # <<>> /\ log # <<>> /\ log'[1] = log[1]
      BY DEF TypeOK, LogKept, Logged, First
    <2> QED BY <2>1 DEF NamersAreLogged, TitleIsOpening, LogKept, TypeOK
  <1>4. CitesArePast'
    BY DEF CitesArePast, Takes
  <1>5. \A b \in Logged : b \in Asks /\ ask'[b].cites = ask[b].cites
    BY DEF Takes, TypeOK, Logged, First
  <1>6. SeenIsFrozen'
    <2>1. First(script.seen)' = First(script.seen) /\ First(script.seen) \subseteq Logged
      BY FirstKept DEF TypeOK, ScriptRow, First
    <2> QED BY <2>1, <1>5 DEF SeenIsFrozen
  <1>7. ReaderIsRight'
    BY DEF ReaderIsRight, Withdrawn, LogKept, TypeOK, ReaderRow
  <1>8. HistoryWithholds'
    BY <1>5 DEF HistoryWithholds, ReaderIsRight
  <1>9. RefusedIsNotLogged'
    BY DEF RefusedIsNotLogged, Takes
  <1> QED BY <1>1, <1>2, <1>3, <1>4, <1>6, <1>7, <1>8, <1>9

\* A request that writes nothing but its own state.
LEMMA QuietAskKeeps ==
    ASSUME IndInv, NEW a \in Asks, NEW row, Takes(a, row), UNCHANGED <<log, receipt, namer, askFrame>>,
           faults' \in 0..MaxFaults, faults' = 0 => faults = 0,
           a \in Logged => row.cites = ask[a].cites,
           \A c \in row.cites : version[c[1]] # "none" /\ c[2] <= cuts[c[1]],
           row.at \in {"asked", "generating", "logging"} => a \notin Logged,
           row.at \in {"saving", "touching", "closing"} => a \in Logged,
           row.late => row.at = "done" /\ (faults' = 0 => a \notin Logged)
    PROVE  IndInv'
  <1>1. LogKept /\ Logged' = Logged
    BY SameLog DEF IndInv, Logged, First
  <1>2. /\ receipt' \in [Asks -> {"never", "frozen", "purged"}]
        /\ namer' \in [Asks -> {"off", "queued", "naming"}]
    BY DEF IndInv, TypeOK
  <1> QED BY <1>1, <1>2, AskKeeps

\* What an unfinished request brings along.
LEMMA AskKnows ==
    ASSUME IndInv, NEW a \in Asks
    PROVE  /\ faults \in 0..MaxFaults
           /\ \A c \in ask[a].cites : version[c[1]] # "none" /\ c[2] <= cuts[c[1]]
           /\ ask[a].at \in {"asked", "generating", "logging"} => a \notin Logged
           /\ ask[a].at \in {"saving", "touching", "closing"} => a \in Logged
           /\ ask[a].late => ask[a].at = "done" /\ (faults = 0 => a \notin Logged)
  BY DEF IndInv, TypeOK, CitesArePast, RowsOfAsks, RefusedIsNotLogged

LEMMA DeadlineInv == ASSUME IndInv, NEW a \in Asks, Deadline(a) PROVE IndInv'
  <1>1. Takes(a, Row(ask[a].at, ask[a].cites, "late", ask[a].late))
    BY AbortTakes DEF IndInv, Deadline
  <1> QED BY <1>1, AskKnows, QuietAskKeeps DEF Deadline, Row

LEMMA LeaveInv == ASSUME IndInv, NEW a \in Asks, Leave(a) PROVE IndInv'
  <1>1. Takes(a, Row(ask[a].at, ask[a].cites, "left", ask[a].late))
    BY AbortTakes DEF IndInv, Leave
  <1> QED BY <1>1, AskKnows, QuietAskKeeps DEF Leave, Row

\* Only chunks of versions that are there are retrieved.
LEMMA RetrieveInv == ASSUME IndInv, NEW a \in Asks, Retrieve(a) PROVE IndInv'
  <1>1. PICK hits \in SUBSET {c \in Chunks : Live(c)} : Takes(a, Request("generating", hits, "no"))
    BY RetrieveTakes DEF IndInv
  <1>2. \A c \in hits : version[c[1]] # "none" /\ c[2] <= cuts[c[1]]
    <2>1. \A c \in hits : Live(c) /\ cuts[c[1]] \in Nat
      BY <1>1 DEF IndInv, TypeOK, Chunks
    <2> QED BY <2>1 DEF Live
  <1> QED BY <1>1, <1>2, AskKnows, QuietAskKeeps DEF Retrieve, Request

LEMMA GenerateInv == ASSUME IndInv, NEW a \in Asks, Generate(a) PROVE IndInv'
  <1>1. PICK cites \in {{}, ask[a].cites}, abort \in {"no", "late"} :
           Takes(a, Request("logging", cites, abort))
    BY GenerateTakes DEF IndInv
  <1> QED BY <1>1, AskKnows, QuietAskKeeps DEF Generate, Request

\* A request is only cancelled before its row is written.
LEMMA CancelledInv == ASSUME IndInv, NEW a \in Asks, Cancelled(a) PROVE IndInv'
  <1>1. (ask[a].abort = "late") \in BOOLEAN /\ a \notin Logged
    BY AskKnows DEF Cancelled
  <1>2. Takes(a, Row("done", {}, "no", ask[a].abort = "late"))
    BY <1>1, RepliesTakes DEF IndInv, Cancelled
  <1> QED BY <1>1, <1>2, AskKnows, QuietAskKeeps DEF Cancelled, Row

LEMMA StatementFailsInv == ASSUME IndInv, NEW a \in Asks, StatementFails(a) PROVE IndInv'
  <1>1. (ask[a].abort = "late") \in BOOLEAN
    OBVIOUS
  <1>2. Takes(a, Row("done", IF a \in Logged THEN ask[a].cites ELSE {}, "no", ask[a].abort = "late"))
    BY <1>1, RepliesTakes DEF IndInv, StatementFails
  <1>3. faults' \in 0..MaxFaults /\ faults' # 0
    BY AskKnows, ReceiptsAssumption DEF StatementFails, Fault
  <1> QED BY <1>2, <1>3, AskKnows, QuietAskKeeps DEF StatementFails, Row

LEMMA WritesRow ==
    ASSUME IndInv, NEW a \in Asks, NEW at \in {"closing", "touching", "saving"},
           ask[a].at \in {"asked", "logging"}, log' = Append(log, a), Moves(a, at),
           UNCHANGED <<receipt, namer, faults, askFrame>>
    PROVE  IndInv'
  <1>1. Takes(a, Row(at, ask[a].cites, ask[a].abort, ask[a].late))
    BY MovesTakes DEF IndInv
  <1>2. LogKept /\ Logged' = Logged \cup {a}
    BY MoreLog, Appended DEF IndInv, TypeOK
  <1>3. /\ receipt' \in [Asks -> {"never", "frozen", "purged"}]
        /\ namer' \in [Asks -> {"off", "queued", "naming"}]
    BY DEF IndInv, TypeOK
  <1> QED BY <1>1, <1>2, <1>3, AskKnows, AskKeeps DEF Row

LEMMA TooLongInv == ASSUME IndInv, NEW a \in Asks, TooLong(a) PROVE IndInv'
  BY WritesRow DEF TooLong

LEMMA InsertInv == ASSUME IndInv, NEW a \in Asks, Insert(a) PROVE IndInv'
  BY WritesRow DEF Insert

LEMMA FrozenKeeps ==
    ASSUME TypeOK, NEW a \in Asks, Frozen(a) \/ UNCHANGED receipt
    PROVE  /\ receipt' \in [Asks -> {"never", "frozen", "purged"}]
           /\ \A b \in Asks : receipt[b] # "never" => receipt'[b] # "never"
  BY DEF TypeOK, Frozen

LEMMA SaveInv == ASSUME IndInv, NEW a \in Asks, Save(a) PROVE IndInv'
  <1>1. Takes(a, Row("touching", ask[a].cites, ask[a].abort, ask[a].late))
    BY MovesTakes DEF IndInv, Save
  <1>2. LogKept /\ Logged' = Logged
    BY SameLog DEF IndInv, Save, Logged, First
  <1>3. /\ receipt' \in [Asks -> {"never", "frozen", "purged"}]
        /\ \A b \in Asks : receipt[b] # "never" => receipt'[b] # "never"
    BY FrozenKeeps DEF IndInv, Save
  <1>4. faults' \in 0..MaxFaults /\ (faults' = 0 => faults = 0)
    BY AskKnows, ReceiptsAssumption DEF Save, Fault
  <1>5. namer' \in [Asks -> {"off", "queued", "naming"}]
    BY DEF IndInv, TypeOK, Save
  <1> QED BY <1>1, <1>2, <1>3, <1>4, <1>5, AskKnows, AskKeeps DEF Save, Row

LEMMA TouchInv == ASSUME IndInv, NEW a \in Asks, Touch(a) PROVE IndInv'
  <1>1. a \in Logged
    BY AskKnows DEF Touch
  <1>2. Takes(a, Row("done", ask[a].cites, "no", FALSE))
    BY <1>1, RepliesTakes DEF IndInv, Touch
  <1>3. LogKept /\ Logged' = Logged
    BY SameLog DEF IndInv, Touch, Logged, First
  <1>4. namer' \in [Asks -> {"off", "queued", "naming"}]
    BY DEF IndInv, TypeOK, Touch
  <1>5. \A b \in Asks : /\ namer'[b] # "off" => namer[b] # "off" \/ b \in Logged'
                        /\ namer'[b] = "naming" => namer[b] = "naming"
    BY <1>1, <1>3 DEF IndInv, TypeOK, Touch
  <1>6. receipt' \in [Asks -> {"never", "frozen", "purged"}]
    BY DEF IndInv, TypeOK, Touch
  <1> QED BY <1>1, <1>2, <1>3, <1>4, <1>5, <1>6, AskKnows, AskKeeps DEF Touch, Row

-------------------------------------------------------------------------------
(* Naming.                                                                  *)

\* The opening row never changes.
LEMMA NamerKeeps ==
    ASSUME IndInv, UNCHANGED namerFrame, title' \in Asks \cup {None},
           namer' \in [Asks -> {"off", "queued", "naming"}],
           faults' \in 0..MaxFaults, faults' = 0 => faults = 0,
           NamersAreLogged', TitleIsOpening'
    PROVE  IndInv'
  <1> USE DEF IndInv, namerFrame, corpus
  <1>1. TypeOK'
    BY DEF TypeOK, ScriptRow, ReaderRow
  <1>2. RowsOfAsks' /\ CitesArePast' /\ RefusedIsNotLogged'
    BY DEF RowsOfAsks, CitesArePast, RefusedIsNotLogged, Logged, First
  <1>3. SeenIsFrozen'
    BY DEF SeenIsFrozen, First
  <1>4. ReaderIsRight' /\ HistoryWithholds'
    BY DEF ReaderIsRight, HistoryWithholds, Withdrawn, Logged, First
  <1> QED BY <1>1, <1>2, <1>3, <1>4

LEMMA NamerReadsInv == ASSUME IndInv, NEW a \in Asks, NamerReads(a) PROVE IndInv'
  <1>1. namer' \in [Asks -> {"off", "queued", "naming"}]
    BY DEF IndInv, TypeOK, NamerReads
  <1>2. NamersAreLogged'
    BY DEF IndInv, TypeOK, NamerReads, NamersAreLogged, namerFrame, Logged, First
  <1>3. TitleIsOpening' /\ title' \in Asks \cup {None} /\ faults' \in 0..MaxFaults
    BY DEF IndInv, TypeOK, NamerReads, TitleIsOpening, namerFrame
  <1> QED BY <1>1, <1>2, <1>3, NamerKeeps DEF NamerReads

LEMMA NamerWritesInv == ASSUME IndInv, NEW a \in Asks, NamerWrites(a) PROVE IndInv'
  <1>1. namer' \in [Asks -> {"off", "queued", "naming"}]
    BY DEF IndInv, TypeOK, NamerWrites
  <1>2. NamersAreLogged'
    BY DEF IndInv, TypeOK, NamerWrites, NamersAreLogged, namerFrame, Logged, First
  <1>3. log # <<>> /\ log[1] = a
    BY DEF IndInv, TypeOK, NamerWrites, NamersAreLogged, Logged, First
  <1>4. TitleIsOpening' /\ title' \in Asks \cup {None} /\ faults' \in 0..MaxFaults
    BY <1>3 DEF IndInv, TypeOK, NamerWrites, TitleIsOpening, namerFrame
  <1> QED BY <1>1, <1>2, <1>4, NamerKeeps DEF NamerWrites

LEMMA NamerFailsInv == ASSUME IndInv, NEW a \in Asks, NamerFails(a) PROVE IndInv'
  <1>1. namer' \in [Asks -> {"off", "queued", "naming"}]
    BY DEF IndInv, TypeOK, NamerFails
  <1>2. NamersAreLogged'
    BY DEF IndInv, TypeOK, NamerFails, NamersAreLogged, namerFrame, Logged, First
  <1>3. TitleIsOpening' /\ title' \in Asks \cup {None}
    BY DEF IndInv, TypeOK, NamerFails, TitleIsOpening, namerFrame
  <1>4. faults' \in 0..MaxFaults /\ faults' # 0
    BY ReceiptsAssumption DEF IndInv, TypeOK, NamerFails, Fault
  <1> QED BY <1>1, <1>2, <1>3, <1>4, NamerKeeps DEF NamerFails

LEMMA ApiCrashInv == ASSUME IndInv, ApiCrash PROVE IndInv'
  <1> USE DEF IndInv, ApiCrash, corpus
  <1>1. /\ \A a \in Asks : ask'[a] \in AskRow
        /\ \A a \in Asks : ask'[a].at = "done" /\ ask'[a].cites \subseteq ask[a].cites
        /\ \A a \in Logged : a \in Asks /\ ask'[a].cites = ask[a].cites
    <2>1. \A a \in Asks : Ended(a, FALSE) \in AskRow
      BY AskFields DEF AskRow, Ended
    <2>2. \A a \in Logged : a \in Asks
      BY DEF TypeOK, Logged, First
    <2> QED BY <2>1, <2>2, AskFields DEF Ended
  <1>2. faults' \in 0..MaxFaults /\ faults' # 0
    BY ReceiptsAssumption DEF TypeOK, Fault
  <1>3. TypeOK'
    <2>1. reader' \in ReaderRow'
      BY DEF TypeOK, ReaderRow, NoReader
    <2> QED BY <1>1, <1>2, <2>1 DEF TypeOK, ScriptRow, AskRow
  <1>4. RowsOfAsks' /\ CitesArePast'
    BY <1>1 DEF RowsOfAsks, CitesArePast
  <1>5. NamersAreLogged' /\ TitleIsOpening'
    BY DEF NamersAreLogged, TitleIsOpening, Logged, First
  <1>6. SeenIsFrozen'
    <2>1. First(script.seen)' = First(script.seen) /\ First(script.seen) \subseteq Logged
      BY FirstKept, SameLog DEF TypeOK, ScriptRow, First
    <2> QED BY <2>1, <1>1 DEF SeenIsFrozen
  <1>7. ReaderIsRight' /\ HistoryWithholds' /\ RefusedIsNotLogged'
    BY <1>2 DEF ReaderIsRight, HistoryWithholds, RefusedIsNotLogged, NoReader
  <1> QED BY <1>3, <1>4, <1>5, <1>6, <1>7

-------------------------------------------------------------------------------
(* The documents.                                                           *)

LEMMA DocsKeep ==
    ASSUME IndInv, UNCHANGED docFrame, TypeOK', Withdrawn \subseteq Withdrawn',
           \A v \in Versions : /\ version[v] # "none" => version'[v] # "none"
                               /\ version[v] = "gone" => version'[v] = "gone"
    PROVE  IndInv'
  <1> USE DEF IndInv, docFrame
  <1>1. RowsOfAsks' /\ NamersAreLogged' /\ TitleIsOpening' /\ RefusedIsNotLogged'
    BY DEF RowsOfAsks, NamersAreLogged, TitleIsOpening, RefusedIsNotLogged, Logged, First
  <1>2. CitesArePast'
    BY AskFields DEF CitesArePast, Chunks
  <1>3. SeenIsFrozen'
    BY DEF SeenIsFrozen, First
  <1>4. ReaderIsRight' /\ HistoryWithholds'
    BY DEF ReaderIsRight, HistoryWithholds, Logged, First
  <1> QED BY <1>1, <1>2, <1>3, <1>4

LEMMA DocTypes ==
    ASSUME TypeOK, UNCHANGED docFrame, doc' \in [Docs -> {"active", "retired", "gone"}],
           version' \in [Versions -> {"none", "active", "retired", "quarantined", "revoked", "gone"}],
           infected' \in SUBSET Versions, purging' \in SUBSET Docs
    PROVE  TypeOK'
  BY DEF TypeOK, docFrame, ScriptRow, ReaderRow

LEMMA PublishInv == ASSUME IndInv, NEW v \in Versions, Publish(v) PROVE IndInv'
  <1>1. TypeOK'
    BY DocTypes DEF IndInv, TypeOK, Publish, docFrame
  <1>2. \A w \in Versions : /\ version[w] # "none" => version'[w] # "none"
                            /\ version[w] = "gone" => version'[w] = "gone"
    BY DEF IndInv, TypeOK, Publish, Of
  <1>3. Withdrawn \subseteq Withdrawn'
    BY DEF IndInv, TypeOK, Publish, Withdrawn, Of
  <1> QED BY <1>1, <1>2, <1>3, DocsKeep DEF Publish

LEMMA QuarantineInv == ASSUME IndInv, NEW v \in Versions, Quarantine(v) PROVE IndInv'
  <1>1. TypeOK'
    BY DocTypes DEF IndInv, TypeOK, Quarantine, docFrame
  <1>2. \A w \in Versions : /\ version[w] # "none" => version'[w] # "none"
                            /\ version[w] = "gone" => version'[w] = "gone"
    BY DEF IndInv, TypeOK, Quarantine, Of
  <1>3. Withdrawn \subseteq Withdrawn'
    BY DEF IndInv, TypeOK, Quarantine, Withdrawn, Of
  <1> QED BY <1>1, <1>2, <1>3, DocsKeep DEF Quarantine

LEMMA RevokeInv == ASSUME IndInv, NEW v \in Versions, Revoke(v) PROVE IndInv'
  <1>1. TypeOK'
    BY DocTypes DEF IndInv, TypeOK, Revoke, docFrame
  <1>2. \A w \in Versions : /\ version[w] # "none" => version'[w] # "none"
                            /\ version[w] = "gone" => version'[w] = "gone"
    BY DEF IndInv, TypeOK, Revoke, Of
  <1>3. Withdrawn \subseteq Withdrawn'
    BY DEF IndInv, TypeOK, Revoke, Withdrawn, Of
  <1> QED BY <1>1, <1>2, <1>3, DocsKeep DEF Revoke

LEMMA RetireDocumentInv == ASSUME IndInv, NEW d \in Docs, RetireDocument(d) PROVE IndInv'
  <1>1. TypeOK'
    BY DocTypes DEF IndInv, TypeOK, RetireDocument, docFrame
  <1>2. \A w \in Versions : /\ version[w] # "none" => version'[w] # "none"
                            /\ version[w] = "gone" => version'[w] = "gone"
    BY DEF IndInv, TypeOK, RetireDocument, Of
  <1>3. Withdrawn \subseteq Withdrawn'
    BY DEF IndInv, TypeOK, RetireDocument, Withdrawn, Of
  <1> QED BY <1>1, <1>2, <1>3, DocsKeep DEF RetireDocument

LEMMA DeleteDocumentInv == ASSUME IndInv, NEW d \in Docs, DeleteDocument(d) PROVE IndInv'
  <1>1. TypeOK'
    BY DocTypes DEF IndInv, TypeOK, DeleteDocument, docFrame
  <1>2. \A w \in Versions : /\ version[w] # "none" => version'[w] # "none"
                            /\ version[w] = "gone" => version'[w] = "gone"
    BY DEF IndInv, TypeOK, DeleteDocument, Of
  <1>3. Withdrawn \subseteq Withdrawn'
    BY DEF IndInv, TypeOK, DeleteDocument, Withdrawn, Of
  <1> QED BY <1>1, <1>2, <1>3, DocsKeep DEF DeleteDocument

LEMMA PurgeReceiptsInv == ASSUME IndInv, NEW d \in Docs, PurgeReceipts(d) PROVE IndInv'
  <1> USE DEF IndInv, PurgeReceipts, corpus
  <1>1. /\ receipt' \in [Asks -> {"never", "frozen", "purged"}]
        /\ \A a \in Asks : receipt[a] # "never" => receipt'[a] # "never"
    BY DEF TypeOK
  <1>2. faults' \in 0..MaxFaults /\ (faults' = 0 => faults = 0)
    BY ReceiptsAssumption DEF TypeOK, Fault
  <1>3. TypeOK'
    BY <1>1, <1>2 DEF TypeOK, ScriptRow, ReaderRow
  <1>4. RowsOfAsks' /\ NamersAreLogged' /\ TitleIsOpening' /\ CitesArePast'
    BY DEF RowsOfAsks, NamersAreLogged, TitleIsOpening, CitesArePast, Logged, First
  <1>5. SeenIsFrozen'
    <2>1. First(script.seen)' = First(script.seen) /\ First(script.seen) \subseteq Asks
      BY FirstKept, SameLog DEF TypeOK, ScriptRow, First, Logged
    <2> QED BY <1>1, <2>1 DEF SeenIsFrozen
  <1>6. ReaderIsRight' /\ HistoryWithholds' /\ RefusedIsNotLogged'
    BY <1>2 DEF ReaderIsRight, HistoryWithholds, RefusedIsNotLogged, Withdrawn, Logged, First
  <1> QED BY <1>3, <1>4, <1>5, <1>6

-------------------------------------------------------------------------------
(* The script.                                                              *)

\* Cited chunks stay those of this cut or of an earlier one.
LEMMA ScriptKeeps ==
    ASSUME IndInv, UNCHANGED scriptFrame, script' \in ScriptRow,
           receipt' \in [Asks -> {"never", "frozen", "purged"}],
           cuts' \in [Versions -> 0..MaxCuts], \A v \in Versions : cuts[v] <= cuts'[v],
           faults' \in 0..MaxFaults, faults' = 0 => faults = 0, SeenIsFrozen'
    PROVE  IndInv'
  <1> USE DEF IndInv, scriptFrame, corpus
  <1>1. TypeOK'
    BY DEF TypeOK, ScriptRow, ReaderRow
  <1>2. RowsOfAsks' /\ NamersAreLogged' /\ TitleIsOpening'
    BY DEF RowsOfAsks, NamersAreLogged, TitleIsOpening, Logged, First
  <1>3. CitesArePast'
    <2> SUFFICES ASSUME NEW a \in Asks, NEW c \in ask[a].cites
                 PROVE  version[c[1]] # "none" /\ c[2] <= cuts'[c[1]]
      BY DEF CitesArePast
    <2>1. c \in Chunks /\ version[c[1]] # "none" /\ c[2] <= cuts[c[1]]
      BY AskFields DEF CitesArePast
    <2>2. c[1] \in Versions /\ c[2] \in Nat
      BY <2>1, ReceiptsAssumption DEF Chunks
    <2>3. cuts[c[1]] \in Nat /\ cuts'[c[1]] \in Nat /\ cuts[c[1]] <= cuts'[c[1]]
      BY <2>2, ReceiptsAssumption DEF TypeOK
    <2> QED BY <2>1, <2>2, <2>3
  <1>4. ReaderIsRight' /\ HistoryWithholds' /\ RefusedIsNotLogged'
    BY DEF ReaderIsRight, HistoryWithholds, RefusedIsNotLogged, Withdrawn, Logged, First
  <1> QED BY <1>1, <1>2, <1>3, <1>4

LEMMA SameCuts ==
    ASSUME TypeOK, UNCHANGED cuts
    PROVE  cuts' \in [Versions -> 0..MaxCuts] /\ \A v \in Versions : cuts[v] <= cuts'[v]
  BY DEF TypeOK

\* A script that is not under way has seen no row.
LEMMA NoScriptIsFrozen == script'.seen = 0 /\ script'.at # "cutting" => SeenIsFrozen'
  BY DEF SeenIsFrozen, First

LEMMA ScriptStartsInv == ASSUME IndInv, ScriptStarts PROVE IndInv'
  <1> DEFINE targets == {v \in Versions : version[v] = "active"}
  <1>0. targets \in SUBSET Versions /\ Len(log) \in Nat
    BY DEF IndInv, TypeOK
  <1>a. script' = [NoScript EXCEPT !.at = "targeted", !.targets = targets]
    BY DEF ScriptStarts
  <1> HIDE DEF targets
  <1>1. script' \in ScriptRow /\ script'.seen = 0 /\ script'.at # "cutting"
    <2>1. script' = [at |-> "targeted", targets |-> targets, seen |-> 0, pending |-> {},
                     missed |-> FALSE]
      BY <1>a DEF NoScript
    <2> QED BY <1>0, <2>1 DEF ScriptRow
  <1>2. faults' \in 0..MaxFaults /\ receipt' \in [Asks -> {"never", "frozen", "purged"}]
    BY DEF IndInv, TypeOK, ScriptStarts
  <1> QED BY <1>1, <1>2, SameCuts, NoScriptIsFrozen, ScriptKeeps DEF IndInv, ScriptStarts

\* Every row that cites a chunk which is there is to be frozen, or is missed.
LEMMA ScriptSelectsInv == ASSUME IndInv, ScriptSelects PROVE IndInv'
  <1> USE DEF IndInv
  <1>1. Whole \in SUBSET Asks /\ Len(log) \in 0..Len(log) /\ (Unfrozen # Whole) \in BOOLEAN
    BY DEF TypeOK, Unfrozen, Whole, Logged, First
  <1>2. script' \in ScriptRow
    BY <1>1 DEF TypeOK, ScriptSelects, ScriptRow
  <1>3. /\ script'.at = "freezing" /\ script'.seen = Len(log) /\ script'.pending = Whole
        /\ script'.missed = (Unfrozen # Whole)
    BY DEF TypeOK, ScriptSelects, ScriptRow
  <1>4. SeenIsFrozen'
    <2> SUFFICES ASSUME NEW a \in Logged, NEW v \in Versions, <<v, cuts[v]>> \in ask[a].cites,
                        version[v] # "gone", receipt[a] = "never"
                 PROVE  a \in Whole \/ Unfrozen # Whole
      <3>1. First(script.seen)' = Logged
        BY <1>3 DEF ScriptSelects, scriptFrame, Logged, First
      <3> QED BY <1>3, <3>1 DEF SeenIsFrozen, ScriptSelects, scriptFrame, corpus
    <2>1. a \in Asks
      BY DEF TypeOK, Logged, First
    <2>2. version[v] # "none"
      BY <2>1 DEF CitesArePast
    <2>3. Live(<<v, cuts[v]>>)
      BY <2>2 DEF Live
    <2> QED BY <2>3 DEF Unfrozen
  <1>5. faults' \in 0..MaxFaults /\ receipt' \in [Asks -> {"never", "frozen", "purged"}]
    BY DEF TypeOK, ScriptSelects
  <1> QED BY <1>2, <1>4, <1>5, SameCuts, ScriptKeeps DEF ScriptSelects

\* A row leaves the pending ones with a receipt, or the script will not cut.
LEMMA ScriptFreezesInv == ASSUME IndInv, NEW a \in Asks, ScriptFreezes(a) PROVE IndInv'
  <1> USE DEF IndInv
  <1>1. PICK missed \in BOOLEAN :
          /\ script' = [script EXCEPT !.pending = @ \ {a}, !.missed = missed]
          /\ script.missed => missed
          /\ receipt'[a] # "never" \/ missed
    <2>1. script.missed \in BOOLEAN /\ receipt[a] \in {"never", "frozen", "purged"}
      BY DEF TypeOK, ScriptRow
    <2>2. CASE Frozen(a) /\ script' = [script EXCEPT !.pending = @ \ {a},
                                         !.missed = @ \/ receipt[a] = "purged"]
      <3>1. receipt'[a] # "never"
        BY <2>2 DEF Frozen, TypeOK
      <3> QED BY <2>1, <2>2, <3>1
    <2>3. CASE /\ UNCHANGED receipt
               /\ \E missed \in {TRUE, script.missed \/ receipt[a] # "frozen"} :
                     script' = [script EXCEPT !.pending = @ \ {a}, !.missed = missed]
      BY <2>1, <2>3
    <2> QED BY <2>2, <2>3 DEF ScriptFreezes
  <1>2. script' \in ScriptRow
    BY <1>1 DEF TypeOK, ScriptRow, ScriptFreezes, scriptFrame
  <1>3. /\ script'.at = script.at /\ script'.seen = script.seen
        /\ script'.pending = script.pending \ {a} /\ script'.missed = missed
    BY <1>1 DEF TypeOK, ScriptRow
  <1>4. /\ receipt' \in [Asks -> {"never", "frozen", "purged"}]
        /\ \A b \in Asks : receipt[b] # "never" => receipt'[b] # "never"
    BY FrozenKeeps DEF ScriptFreezes
  <1>5. SeenIsFrozen'
    <2>1. First(script.seen)' = First(script.seen) /\ First(script.seen) \subseteq Asks
      <3>1. script.seen \in 0..Len(log) /\ log' = log /\ Logged \subseteq Asks
        BY DEF TypeOK, ScriptRow, ScriptFreezes, scriptFrame, Logged, First
      <3>2. First(script.seen) \subseteq Logged
        BY <3>1, FirstKept, SameLog
      <3> QED BY <1>3, <3>1, <3>2 DEF First
    <2>2. script.at # "cutting" /\ (script.at \in {"idle", "targeted"} => script.seen = 0)
      BY DEF SeenIsFrozen, ScriptFreezes
    <2> QED BY <1>1, <1>3, <1>4, <2>1, <2>2
            DEF SeenIsFrozen, ScriptFreezes, scriptFrame, corpus
  <1>6. faults' \in 0..MaxFaults /\ (faults' = 0 => faults = 0)
    BY ReceiptsAssumption DEF TypeOK, ScriptFreezes, Fault
  <1> QED BY <1>2, <1>4, <1>5, <1>6, SameCuts, ScriptKeeps DEF ScriptFreezes

LEMMA ScriptDecidesInv == ASSUME IndInv, ScriptDecides PROVE IndInv'
  <1> USE DEF IndInv
  <1>1. faults' \in 0..MaxFaults /\ receipt' \in [Asks -> {"never", "frozen", "purged"}]
    BY DEF TypeOK, ScriptDecides
  <1>2. CASE script.missed
    <2>1. script' \in ScriptRow /\ script'.seen = 0 /\ script'.at # "cutting"
      BY <1>2 DEF TypeOK, ScriptDecides, ScriptRow, NoScript
    <2> QED BY <1>1, <2>1, SameCuts, NoScriptIsFrozen, ScriptKeeps DEF ScriptDecides
  <1>3. CASE ~script.missed
    <2>1. script' \in ScriptRow
      BY <1>3 DEF TypeOK, ScriptDecides, ScriptRow
    <2>2. /\ script'.at = "cutting" /\ script'.seen = script.seen
          /\ script'.pending = {} /\ ~script'.missed /\ ~script.missed /\ script.pending = {}
      BY <1>3 DEF TypeOK, ScriptDecides, ScriptRow
    <2>3. SeenIsFrozen'
      BY <2>2 DEF SeenIsFrozen, ScriptDecides, scriptFrame, corpus, First
    <2> QED BY <1>1, <2>1, <2>3, SameCuts, ScriptKeeps DEF ScriptDecides
  <1> QED BY <1>2, <1>3

\* No row cites the new chunks yet.
LEMMA ScriptCutsInv == ASSUME IndInv, NEW v \in Versions, ScriptCuts(v) PROVE IndInv'
  <1> USE DEF IndInv
  <1>1. faults' \in 0..MaxFaults /\ receipt' \in [Asks -> {"never", "frozen", "purged"}]
    BY DEF TypeOK, ScriptCuts
  <1>2. CASE script' = NoScript /\ UNCHANGED cuts
    <2>1. script' \in ScriptRow /\ script'.seen = 0 /\ script'.at # "cutting"
      BY <1>2 DEF TypeOK, ScriptRow, NoScript
    <2> QED BY <1>1, <1>2, <2>1, SameCuts, NoScriptIsFrozen, ScriptKeeps DEF ScriptCuts
  <1>3. CASE /\ cuts[v] < MaxCuts /\ cuts' = [cuts EXCEPT ![v] = @ + 1]
             /\ script' = [script EXCEPT !.targets = @ \ {v}]
    <2>1. script' \in ScriptRow
      BY <1>3 DEF TypeOK, ScriptRow
    <2>2. /\ script'.at = script.at /\ script'.seen = script.seen
          /\ script'.pending = script.pending /\ script'.missed = script.missed
      BY <1>3 DEF TypeOK, ScriptRow
    <2>3. \A w \in Versions : cuts[w] \in Nat /\ cuts'[w] \in 0..MaxCuts /\ cuts[w] <= cuts'[w]
      BY <1>3, ReceiptsAssumption DEF TypeOK
    <2>4. cuts' \in [Versions -> 0..MaxCuts]
      BY <1>3, <2>3 DEF TypeOK
    <2>5. \A b \in Asks, w \in Versions :
             <<w, cuts'[w]>> \in ask[b].cites => <<w, cuts[w]>> \in ask[b].cites
      <3> SUFFICES ASSUME NEW b \in Asks, NEW w \in Versions, <<w, cuts'[w]>> \in ask[b].cites
                   PROVE  <<w, cuts[w]>> \in ask[b].cites
        OBVIOUS
      <3>1. cuts'[w] <= cuts[w]
        BY DEF CitesArePast
      <3>2. cuts'[w] \in Nat
        BY <2>3
      <3>3. cuts'[w] = cuts[w]
        BY <2>3, <3>1, <3>2
      <3> QED BY <3>3
    <2>6. SeenIsFrozen'
      <3>1. First(script.seen)' = First(script.seen) /\ First(script.seen) \subseteq Asks
        <4>1. script.seen \in 0..Len(log) /\ log' = log /\ Logged \subseteq Asks
          BY DEF TypeOK, ScriptRow, ScriptCuts, scriptFrame, Logged, First
        <4>2. First(script.seen) \subseteq Logged
          BY <4>1, FirstKept, SameLog
        <4> QED BY <2>2, <4>1, <4>2 DEF First
      <3> QED BY <2>2, <2>5, <3>1 DEF SeenIsFrozen, ScriptCuts, scriptFrame, corpus
    <2> QED BY <1>1, <2>1, <2>3, <2>4, <2>6, ScriptKeeps DEF ScriptCuts
  <1> QED BY <1>2, <1>3 DEF ScriptCuts

LEMMA ScriptEndsInv == ASSUME IndInv, ScriptEnds PROVE IndInv'
  <1>1. script' \in ScriptRow /\ script'.seen = 0 /\ script'.at # "cutting"
    BY DEF IndInv, TypeOK, ScriptEnds, ScriptRow, NoScript
  <1>2. receipt' \in [Asks -> {"never", "frozen", "purged"}]
    BY DEF IndInv, TypeOK, ScriptEnds
  <1>3. faults' \in 0..MaxFaults /\ (faults' = 0 => faults = 0)
    BY ReceiptsAssumption DEF IndInv, TypeOK, ScriptEnds, Fault
  <1> QED BY <1>1, <1>2, <1>3, SameCuts, NoScriptIsFrozen, ScriptKeeps DEF IndInv, ScriptEnds

-------------------------------------------------------------------------------
(* The reader.                                                              *)

LEMMA ReaderKeeps ==
    ASSUME IndInv, UNCHANGED readFrame, reader' \in ReaderRow, ReaderIsRight', HistoryWithholds'
    PROVE  IndInv'
  <1> USE DEF IndInv, readFrame, corpus
  <1>1. TypeOK'
    BY DEF TypeOK, ScriptRow, ReaderRow
  <1>2. RowsOfAsks' /\ NamersAreLogged' /\ TitleIsOpening' /\ CitesArePast' /\ RefusedIsNotLogged'
    BY DEF RowsOfAsks, NamersAreLogged, TitleIsOpening, CitesArePast, RefusedIsNotLogged, Logged,
           First
  <1>3. SeenIsFrozen'
    BY DEF SeenIsFrozen, First
  <1> QED BY <1>1, <1>2, <1>3

LEMMA ReadSessionInv == ASSUME IndInv, ReadSession PROVE IndInv'
  <1> USE DEF IndInv
  <1>1. Len(log) \in Nat /\ Len(log) >= 1
    BY DEF TypeOK, ReadSession
  <1>2. reader' \in ReaderRow
    <2>1. Withdrawn \in SUBSET Versions /\ title \in Asks \cup {None} /\ log' = log
          /\ Len(log) \in 0..Len(log)
      BY <1>1 DEF TypeOK, Withdrawn, ReadSession, readFrame
    <2> QED BY <2>1 DEF ReadSession, ReaderRow, NoReader
  <1>3. /\ reader'.at = "listed" /\ reader'.barred = Withdrawn /\ reader'.title = title
        /\ reader'.seen = Len(log) /\ reader'.shown = {}
    BY DEF ReadSession, NoReader
  <1>4. ReaderIsRight'
    BY <1>1, <1>3 DEF ReaderIsRight, TitleIsOpening, Withdrawn, ReadSession, readFrame, corpus
  <1>5. HistoryWithholds'
    BY <1>3 DEF HistoryWithholds
  <1> QED BY <1>2, <1>4, <1>5, ReaderKeeps DEF ReadSession

\* A read that has not come to an end.
LEMMA ReaderGoesOn ==
    ASSUME IndInv, UNCHANGED readFrame, reader' \in ReaderRow, reader'.at # "shown",
           reader'.barred = reader.barred, reader'.title = reader.title,
           reader'.seen = reader.seen, reader'.shown = reader.shown
    PROVE  IndInv'
  <1>1. ReaderIsRight'
    BY DEF IndInv, ReaderIsRight, Withdrawn, readFrame, corpus, Logged, First
  <1>2. HistoryWithholds'
    BY DEF HistoryWithholds
  <1> QED BY <1>1, <1>2, ReaderKeeps

LEMMA ReadReceiptsInv == ASSUME IndInv, ReadReceipts PROVE IndInv'
  <1>1. First(reader.seen) \subseteq Asks
    BY FirstKept, SameLog DEF IndInv, TypeOK, ReaderRow, ReadReceipts, readFrame, Logged, First
  <1> DEFINE frozen == {a \in First(reader.seen) : receipt[a] = "frozen"}
  <1>2. frozen \in SUBSET Asks
    BY <1>1
  <1>3. reader' = [reader EXCEPT !.at = "snapped", !.frozen = frozen]
    BY DEF ReadReceipts
  <1> HIDE DEF frozen
  <1>4. /\ reader' \in ReaderRow /\ reader'.at # "shown"
        /\ reader'.barred = reader.barred /\ reader'.title = reader.title
        /\ reader'.seen = reader.seen /\ reader'.shown = reader.shown
    BY <1>2, <1>3 DEF IndInv, TypeOK, ReaderRow
  <1> QED BY <1>4, ReaderGoesOn DEF ReadReceipts

LEMMA ReadChunksInv == ASSUME IndInv, ReadChunks PROVE IndInv'
  <1> DEFINE live == {c \in Chunks : /\ Live(c)
                                     /\ \E a \in First(reader.seen) \ reader.frozen :
                                           c \in ask[a].cites}
  <1>1. live \in SUBSET Chunks
    OBVIOUS
  <1>2. reader' = [reader EXCEPT !.at = "chunked", !.live = live]
    BY DEF ReadChunks
  <1> HIDE DEF live
  <1>3. /\ reader' \in ReaderRow /\ reader'.at # "shown"
        /\ reader'.barred = reader.barred /\ reader'.title = reader.title
        /\ reader'.seen = reader.seen /\ reader'.shown = reader.shown
    BY <1>1, <1>2 DEF IndInv, TypeOK, ReaderRow
  <1> QED BY <1>3, ReaderGoesOn DEF ReadChunks

\* The versions are read last: what was withdrawn before is withdrawn now.
LEMMA ReadVersionsInv == ASSUME IndInv, ReadVersions PROVE IndInv'
  <1> USE DEF IndInv
  <1> DEFINE shown == {a \in First(reader.seen) : Authorized(a)}
             shownTitle == IF Releases(shown) THEN reader.title ELSE None
  <1>1. First(reader.seen) \subseteq Logged /\ Logged \subseteq Asks
    BY FirstKept, SameLog DEF TypeOK, ReaderRow, ReadVersions, readFrame, Logged, First
  <1>2. shown \in SUBSET Asks /\ shown \subseteq Logged
    BY <1>1
  <1>3. \A a \in shown : \A c \in ask[a].cites : c[1] \notin reader.barred
    <2> SUFFICES ASSUME NEW a \in shown, NEW c \in ask[a].cites
                 PROVE  c[1] \notin reader.barred
      OBVIOUS
    <2>1. Readable(c[1])
      BY DEF Authorized
    <2>2. c[1] \notin Withdrawn
      BY <2>1 DEF Readable, Withdrawn
    <2> QED BY <2>2 DEF ReaderIsRight
  <1>4. shownTitle \in Asks \cup {None} /\ (shownTitle # None =>
           reader.title # None /\ shownTitle = reader.title /\ log[1] \in shown)
    BY DEF Releases, TypeOK, ReaderRow
  <1>5. reader' = [reader EXCEPT !.at = "shown", !.shown = shown, !.live = {}, !.frozen = {},
                                 !.title = shownTitle]
    BY DEF ReadVersions
  <1> HIDE DEF shown, shownTitle
  <1>6. reader' \in ReaderRow
    BY <1>2, <1>4, <1>5 DEF TypeOK, ReaderRow
  <1>7. /\ reader'.at = "shown" /\ reader'.shown = shown /\ reader'.title = shownTitle
        /\ reader'.seen = reader.seen /\ reader'.barred = reader.barred
    BY <1>5 DEF TypeOK, ReaderRow
  <1>8. ReaderIsRight'
    BY <1>2, <1>4, <1>7
       DEF ReaderIsRight, Withdrawn, ReadVersions, readFrame, corpus, Logged, First
  <1>9. HistoryWithholds'
    <2>1. shown \cup ({shownTitle} \ {None}) = shown
      BY <1>4 DEF ReaderIsRight
    <2> QED BY <1>3, <1>7, <2>1 DEF HistoryWithholds, ReadVersions, readFrame
  <1> QED BY <1>6, <1>8, <1>9, ReaderKeeps DEF ReadVersions

LEMMA ReadEndsInv == ASSUME IndInv, ReadEnds PROVE IndInv'
  <1>1. reader' \in ReaderRow
    BY DEF IndInv, TypeOK, ReadEnds, ReaderRow, NoReader
  <1>2. ReaderIsRight' /\ HistoryWithholds'
    BY DEF ReadEnds, NoReader, ReaderIsRight, HistoryWithholds
  <1> QED BY <1>1, <1>2, ReaderKeeps DEF ReadEnds

-------------------------------------------------------------------------------
(* The invariant.                                                           *)

LEMMA InitInv == Init => IndInv
  <1> SUFFICES ASSUME Init PROVE IndInv
    OBVIOUS
  <1> USE DEF Init
  <1>0. Logged = {} /\ First(0) = {} /\ log \in Seq(Asks) /\ Len(log) = 0
    BY DEF Logged, First
  <1>1. TypeOK
    <2>1. \A a \in Asks : ask[a] \in AskRow
      BY DEF AskRow, Request
    <2>2. script \in ScriptRow /\ reader \in ReaderRow
      BY <1>0 DEF ScriptRow, ReaderRow, NoScript, NoReader
    <2> QED BY <1>0, <2>1, <2>2, ReceiptsAssumption DEF TypeOK, AskRow, Request
  <1>2. RowsOfAsks /\ NamersAreLogged /\ TitleIsOpening /\ CitesArePast
    BY <1>0 DEF RowsOfAsks, NamersAreLogged, TitleIsOpening, CitesArePast, Request
  <1>3. SeenIsFrozen /\ ReaderIsRight /\ HistoryWithholds /\ RefusedIsNotLogged
    BY <1>0 DEF SeenIsFrozen, ReaderIsRight, HistoryWithholds, RefusedIsNotLogged, NoScript,
                NoReader, Request
  <1> QED BY <1>1, <1>2, <1>3 DEF IndInv

LEMMA StutterInv == ASSUME IndInv, UNCHANGED vars PROVE IndInv'
  <1>1. TypeOK'
    BY DEF vars, corpus, IndInv, TypeOK, ScriptRow, ReaderRow
  <1>2. ReaderIsRight' /\ HistoryWithholds' /\ reader' \in ReaderRow
    BY DEF vars, corpus, IndInv, TypeOK, ReaderIsRight, HistoryWithholds, ReaderRow, Withdrawn,
           Logged, First
  <1> QED BY <1>1, <1>2, ReaderKeeps DEF vars, readFrame

LEMMA NextInv == ASSUME IndInv, Next PROVE IndInv'
  <1>1. ASSUME NEW a \in Asks,
               \/ TooLong(a) \/ Deadline(a) \/ Leave(a) \/ AskStep(a)
               \/ StatementFails(a) \/ Naming(a)
        PROVE  IndInv'
    BY <1>1, TooLongInv, DeadlineInv, LeaveInv, RetrieveInv, GenerateInv, CancelledInv, InsertInv,
       SaveInv, TouchInv, StatementFailsInv, NamerReadsInv, NamerWritesInv, NamerFailsInv
       DEF AskStep, Naming
  <1>2. ASSUME Documents PROVE IndInv'
    BY <1>2, PublishInv, QuarantineInv, RevokeInv, RetireDocumentInv, DeleteDocumentInv,
       PurgeReceiptsInv DEF Documents
  <1>3. ASSUME Script PROVE IndInv'
    BY <1>3, ScriptStartsInv, ScriptSelectsInv, ScriptDecidesInv, ScriptEndsInv, ScriptFreezesInv,
       ScriptCutsInv DEF Script
  <1>4. ASSUME Read PROVE IndInv'
    BY <1>4, ReadSessionInv, ReadReceiptsInv, ReadChunksInv, ReadVersionsInv, ReadEndsInv DEF Read
  <1> QED BY <1>1, <1>2, <1>3, <1>4, ApiCrashInv DEF Next

(* Every reachable state satisfies the invariant, which implies the types.   *)
THEOREM Invariance == Spec => []IndInv
  <1>1. IndInv /\ [Next]_vars => IndInv'
    BY NextInv, StutterInv
  <1> QED BY <1>1, InitInv, PTL DEF Spec

(* What was revoked, deleted or found infected before a read of the history *)
(* began appears nowhere in it.                                             *)
THEOREM AlwaysHistoryWithholds == Spec => []HistoryWithholds
  <1>1. IndInv => HistoryWithholds
    BY DEF IndInv
  <1> QED BY <1>1, Invariance, PTL

(* A title that is shown was made from the opening exchange, shown with it. *)
THEOREM AlwaysTitleIsTheOpenings == Spec => []TitleIsTheOpenings
  <1>1. IndInv => TitleIsTheOpenings
    BY DEF IndInv, ReaderIsRight, TitleIsTheOpenings
  <1> QED BY <1>1, Invariance, PTL

(* While no statement fails, a refusal at the deadline leaves no row.        *)
THEOREM AlwaysRefusedIsNotLogged == Spec => []RefusedIsNotLogged
  <1>1. IndInv => RefusedIsNotLogged
    BY DEF IndInv
  <1> QED BY <1>1, Invariance, PTL

(* Chunks are replaced after the receipts of every row the script could see *)
(* were frozen.                                                             *)
THEOREM AlwaysCutAfterFreezing == Spec => CutAfterFreezing
  <1>1. IndInv /\ [Next]_vars =>
          [\A v \in Versions : cuts'[v] # cuts[v] =>
              \A a \in First(script.seen) :
                  <<v, cuts[v]>> \in ask[a].cites => receipt[a] # "never"]_vars
    <2> SUFFICES ASSUME IndInv, Next, NEW v \in Versions, cuts'[v] # cuts[v],
                        NEW a \in First(script.seen), <<v, cuts[v]>> \in ask[a].cites
                 PROVE  receipt[a] # "never"
      OBVIOUS
    <2>1. ScriptCuts(v)
      <3>1. \E w \in Versions : ScriptCuts(w)
        BY DEF Next, TooLong, Deadline, Leave, AskStep, Retrieve, Generate, Cancelled, Insert, Save,
               Touch, StatementFails, askFrame, Naming, NamerReads, NamerWrites, NamerFails,
               namerFrame, ApiCrash, Documents, Publish, Quarantine, Revoke, RetireDocument,
               DeleteDocument, docFrame, PurgeReceipts, Script, ScriptStarts, ScriptSelects,
               ScriptDecides, ScriptEnds, ScriptFreezes, Read, ReadSession, ReadReceipts,
               ReadChunks, ReadVersions, ReadEnds, readFrame
      <3>2. PICK w \in Versions : ScriptCuts(w)
        BY <3>1
      <3>3. w = v
        BY <3>2 DEF ScriptCuts, IndInv, TypeOK
      <3> QED BY <3>2, <3>3
    <2>2. script.at = "cutting" /\ version[v] # "gone"
      BY <2>1 DEF ScriptCuts
    <2>3. script.pending = {} /\ ~script.missed
      BY <2>2 DEF IndInv, SeenIsFrozen
    <2> QED BY <2>2, <2>3 DEF IndInv, SeenIsFrozen
  <1> QED BY <1>1, Invariance, PTL DEF Spec, CutAfterFreezing

================================================================================
