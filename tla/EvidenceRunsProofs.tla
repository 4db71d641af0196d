--------------------------- MODULE EvidenceRunsProofs ---------------------------
(* Theorems about EvidenceRuns, for any number of checks, attestations,      *)
(* recipients and workers, any number of runs and faults, and all limits.    *)
EXTENDS EvidenceRuns, SequenceTheorems, FiniteSetTheorems, WellFoundedInduction, TLAPS

USE EvidenceAssumption

-------------------------------------------------------------------------------
(* Types.                                                                   *)

LEMMA QuotientGrows ==
    ASSUME NEW D \in Nat, D > 0, NEW a \in Nat, NEW b \in Nat, a <= b
    PROVE  a \div D \in Nat /\ b \div D \in Nat /\ a \div D <= b \div D
  BY Z3

LEMMA MonthsGrow ==
    ASSUME NEW d \in 0..LastDay, NEW e \in 0..LastDay, d <= e
    PROVE  /\ Month(d) \in Months /\ Month(e) \in Months
           /\ Month(d) - 1 \in Months
           /\ Month(d) >= 1 /\ Month(d) <= Month(e)
  <1>1. d \div DaysPerMonth \in Nat /\ e \div DaysPerMonth \in Nat
        /\ d \div DaysPerMonth <= e \div DaysPerMonth
    BY QuotientGrows DEF EvidenceAssumption
  <1>2. e \div DaysPerMonth <= LastDay \div DaysPerMonth /\ LastDay \div DaysPerMonth \in Nat
    BY QuotientGrows DEF EvidenceAssumption
  <1> QED BY <1>1, <1>2 DEF Month, Months, EvidenceAssumption

LEMMA Fixed ==
    /\ Months' = Months /\ Line' = Line /\ Due' = Due /\ Receipt' = Receipt
    /\ NoExpiry' = NoExpiry
  BY DEF Months, Line, Due, Receipt, NoExpiry, Periods, Month

LEMMA NoneDue == NoDue \in Due
  BY DEF NoDue, Due

LEMMA IdleIsRow ==
    /\ Idle \in RunRow
    /\ \A n \in 1..MaxRuns : \A ids \in Seq(Checks) : \A at \in {"checking", "classifying"} :
          [Idle EXCEPT !.at = at, !.no = n, !.left = ids] \in RunRow
    /\ \A n \in 1..MaxRuns :
          /\ [Idle EXCEPT !.no = n, !.phase = "remind", !.at = "passes"] \in RunRow
          /\ [Idle EXCEPT !.no = n, !.phase = "summary", !.at = "catching up"] \in RunRow
  <1>1. 0 \in 0..MaxRuns /\ 0 \in Nat /\ 0 \in Int /\ <<>> \in Seq(Line) /\ <<>> \in Seq(Checks)
    BY DEF EvidenceAssumption
  <1>2. Idle \in RunRow
    BY <1>1, NoneDue DEF Idle, RunRow
  <1>3. \A n \in 1..MaxRuns : n \in 0..MaxRuns
    BY DEF EvidenceAssumption
  <1>4. ASSUME NEW n \in 1..MaxRuns, NEW ids \in Seq(Checks), NEW at \in {"checking", "classifying"}
        PROVE  [Idle EXCEPT !.at = at, !.no = n, !.left = ids] \in RunRow
    BY <1>1, <1>3, NoneDue DEF Idle, RunRow
  <1>5. ASSUME NEW n \in 1..MaxRuns
        PROVE  /\ [Idle EXCEPT !.no = n, !.phase = "remind", !.at = "passes"] \in RunRow
               /\ [Idle EXCEPT !.no = n, !.phase = "summary", !.at = "catching up"] \in RunRow
    BY <1>1, <1>3, NoneDue DEF Idle, RunRow
  <1> QED BY <1>2, <1>4, <1>5

LEMMA LaterRows == ASSUME receipts' \in Seq(Receipt), DOMAIN receipts \subseteq DOMAIN receipts'
    PROVE  RunRow \subseteq RunRow'
  BY DEF RunRow, Line, Due, Months

\* The type invariant in parts, after the groups of variables.
WorldTyped ==
    /\ day \in 0..LastDay
    /\ links \subseteq [check : Checks, expires : 0..NoExpiry, retired : BOOLEAN]
    /\ attested \in [Attestations -> 0..LastDay \cup {None}]
    /\ outside \in 0..MaxOutside

AlertTyped ==
    /\ pending \in Seq(Line) /\ queued \in Seq(Line)
    /\ reminded \in Due
    /\ mailed \subseteq Line \X Recipients
    /\ unheard \subseteq 1..MaxRuns

MonthlyTyped ==
    /\ summaries \in Seq([month : Months, at : Months])
    /\ sent \in [Months -> SUBSET Recipients]
    /\ letters \in [Months -> [Recipients -> [mailed : Nat, unrecorded : Nat]]]

\* An execution under way has the number of its run.
Numbered == \A w \in Workers : run[w].at # "idle" => run[w].no \in 1..MaxRuns

RunTyped ==
    /\ receipts \in Seq(Receipt)
    /\ lock \in Workers \cup {None}
    /\ run \in [Workers -> RunRow] /\ Numbered
    /\ runs \in 0..MaxRuns /\ faults \in 0..MaxFaults
    /\ lost \in BOOLEAN

Typed == WorldTyped /\ AlertTyped /\ MonthlyTyped /\ RunTyped

LEMMA Parts == Typed <=> TypeOK /\ Numbered
  BY DEF Typed, TypeOK, WorldTyped, AlertTyped, MonthlyTyped, RunTyped

LEMMA Kept ==
    ASSUME Typed
    PROVE  /\ UNCHANGED world => WorldTyped'
           /\ UNCHANGED alerting => AlertTyped'
           /\ UNCHANGED monthly => MonthlyTyped'
  <1>1. UNCHANGED world => WorldTyped'
    BY Fixed DEF Typed, WorldTyped, world
  <1>2. UNCHANGED alerting => AlertTyped'
    BY Fixed DEF Typed, AlertTyped, alerting
  <1>3. UNCHANGED monthly => MonthlyTyped'
    BY Fixed DEF Typed, MonthlyTyped, monthly
  <1> QED BY <1>1, <1>2, <1>3

LEMMA Rows ==
    ASSUME Typed, NEW w \in Workers
    PROVE  /\ run[w] \in RunRow
           /\ run[w].at # "idle" => run[w].no \in 1..MaxRuns
           /\ receipts \in Seq(Receipt)
  BY DEF Typed, RunTyped, Numbered

LEMMA Fields ==
    ASSUME NEW r \in RunRow
    PROVE  /\ r.no \in 0..MaxRuns /\ r.left \in Seq(Checks)
           /\ r.mine \subseteq DOMAIN receipts
           /\ r.lines \in Seq(Line) /\ r.old \in Nat /\ r.to \subseteq Recipients
           /\ r.due \in Due /\ r.toMake \subseteq Months
           /\ r.month \in Int /\ r.last \in Int
  BY DEF RunRow

LEMMA Going ==
    ASSUME Typed, NEW w \in Workers, NEW row \in RunRow', Goes(w, row),
           row.at # "idle" => row.no \in 1..MaxRuns,
           receipts' \in Seq(Receipt), DOMAIN receipts \subseteq DOMAIN receipts'
    PROVE  run' \in [Workers -> RunRow'] /\ Numbered'
  <1>1. RunRow \subseteq RunRow'
    BY LaterRows
  <1>2. run \in [Workers -> RunRow'] /\ Numbered
    BY <1>1 DEF Typed, RunTyped
  <1>3. run' = [run EXCEPT ![w] = row]
    BY DEF Goes
  <1> QED BY <1>2, <1>3 DEF Numbered

LEMMA Staying ==
    ASSUME Typed, UNCHANGED <<run, receipts>>
    PROVE  run' \in [Workers -> RunRow'] /\ Numbered' /\ receipts' \in Seq(Receipt)
  BY LaterRows, Fixed DEF Typed, RunTyped, Numbered

LEMMA FollowingIsRow ==
    ASSUME Typed, NEW w \in Workers, run[w].at # "idle"
    PROVE  Following(w) \in RunRow /\ Following(w).no \in 1..MaxRuns
  <1>1. run[w].no \in 1..MaxRuns /\ Idle \in RunRow
    BY Rows, IdleIsRow
  <1>2. [Idle EXCEPT !.no = run[w].no, !.phase = "remind", !.at = "passes"] \in RunRow
        /\ [Idle EXCEPT !.no = run[w].no, !.phase = "summary", !.at = "catching up"] \in RunRow
    BY <1>1, IdleIsRow
  <1>3. [Idle EXCEPT !.no = run[w].no, !.phase = "remind", !.at = "passes"].no = run[w].no
        /\ [Idle EXCEPT !.no = run[w].no, !.phase = "summary", !.at = "catching up"].no = run[w].no
    BY <1>1 DEF RunRow, Idle
  <1> QED BY <1>1, <1>2, <1>3 DEF Following

\* The steps of the executions.
LEMMA ListsAreSequences == \A ids \in Lists : ids \in Seq(Checks)
  BY DEF Lists

LEMMA TypedStart ==
    ASSUME Typed, NEW w \in Workers, NEW ids \in Lists, Start(w, ids)
    PROVE  Typed'
  <1> DEFINE at == IF ids = <<>> THEN "classifying" ELSE "checking"
             row == [Idle EXCEPT !.at = at, !.no = runs + 1, !.left = ids]
  <1>1. runs + 1 \in 1..MaxRuns
    <2>1. runs \in 0..MaxRuns /\ runs < MaxRuns /\ MaxRuns \in Nat
      BY DEF Start, Typed, RunTyped, EvidenceAssumption
    <2> QED BY <2>1
  <1>2. row \in RunRow /\ row.no = runs + 1 
    <2>1. row \in RunRow
      BY <1>1, IdleIsRow, ListsAreSequences
    <2> QED BY <2>1 DEF Idle
  <1>3. Goes(w, row) /\ UNCHANGED receipts
    BY DEF Start
  <1>4. receipts' \in Seq(Receipt) /\ row \in RunRow'
    BY <1>2, <1>3, LaterRows DEF Typed, RunTyped
  <1> HIDE DEF row
  <1>5. run' \in [Workers -> RunRow'] /\ Numbered'
    BY <1>1, <1>2, <1>3, <1>4, Going
  <1>6. RunTyped'
    BY <1>1, <1>4, <1>5, Fixed DEF Typed, RunTyped, Start
  <1> QED BY <1>6, Kept DEF Typed, Start

LEMMA TypedCheck ==
    ASSUME Typed, NEW w \in Workers, NEW result \in {"pass", "fail", "error"}, Check(w, result)
    PROVE  Typed'
  <1> DEFINE row == [run[w] EXCEPT !.left = Tail(@),
                              !.mine = @ \cup {Len(receipts) + 1},
                              !.at = IF Len(run[w].left) = 1 THEN "classifying" ELSE "checking"]
             new == [check |-> Head(run[w].left), result |-> result, day |-> day, run |-> run[w].no]
  <1>1. run[w] \in RunRow /\ run[w].no \in 1..MaxRuns /\ receipts \in Seq(Receipt)
    BY Rows DEF Check
  <1>a. Head(run[w].left) \in Checks /\ Tail(run[w].left) \in Seq(Checks)
    BY <1>1, Fields DEF Check
  <1>2. new \in Receipt
    BY <1>1, <1>a DEF Receipt, Typed, WorldTyped
  <1>3. receipts' = Append(receipts, new)
    BY DEF Check
  <1> HIDE DEF new
  <1>4. /\ receipts' \in Seq(Receipt) /\ DOMAIN receipts \subseteq DOMAIN receipts'
        /\ Len(receipts) + 1 \in DOMAIN receipts'
    BY <1>1, <1>2, <1>3
  <1>5. run[w] \in RunRow'
    BY <1>1, <1>4, LaterRows
  <1>6. row \in RunRow' /\ row.no = run[w].no
    BY <1>4, <1>5, <1>a DEF RunRow
  <1>7. Goes(w, row)
    BY DEF Check
  <1> HIDE DEF row
  <1>8. run' \in [Workers -> RunRow'] /\ Numbered'
    BY <1>1, <1>4, <1>6, <1>7, Going
  <1>9. RunTyped'
    BY <1>4, <1>8, Fixed DEF Typed, RunTyped, Check
  <1> QED BY <1>9, Kept DEF Typed, Check

\* A step that moves one execution and appends no receipt.
LEMMA Moved ==
    ASSUME Typed, NEW w \in Workers, NEW row \in RunRow, Goes(w, row), UNCHANGED receipts,
           row.at # "idle" => row.no \in 1..MaxRuns
    PROVE  run' \in [Workers -> RunRow'] /\ Numbered' /\ receipts' \in Seq(Receipt)
  <1>1. row \in RunRow' /\ receipts' \in Seq(Receipt)
    BY LaterRows, Rows
  <1> QED BY <1>1, Going

Advanced == run' \in [Workers -> RunRow'] /\ Numbered' /\ lock' \in Workers \cup {None}

LEMMA ReturnsTyped ==
    ASSUME Typed, NEW w \in Workers, Returns(w), UNCHANGED receipts
    PROVE  Advanced
  <1>1. Idle \in RunRow /\ Idle.at = "idle"
    BY IdleIsRow DEF Idle
  <1>2. run' \in [Workers -> RunRow'] /\ Numbered'
    BY <1>1, Moved DEF Returns
  <1>3. lock' \in Workers \cup {None}
    BY DEF Returns, Released, Typed, RunTyped
  <1> QED BY <1>2, <1>3 DEF Advanced

LEMMA FollowingTyped ==
    ASSUME Typed, NEW w \in Workers, run[w].at # "idle", Goes(w, Following(w)),
           UNCHANGED <<receipts, lock>>
    PROVE  Advanced
  <1>1. run' \in [Workers -> RunRow'] /\ Numbered'
    BY FollowingIsRow, Moved
  <1> QED BY <1>1 DEF Advanced, Typed, RunTyped

LEMMA EditTyped ==
    ASSUME Typed, NEW w \in Workers, run[w].at # "idle", NEW row \in RunRow, row.no = run[w].no,
           Goes(w, row), UNCHANGED <<receipts, lock>>
    PROVE  Advanced
  <1>1. run' \in [Workers -> RunRow'] /\ Numbered'
    BY Rows, Moved
  <1> QED BY <1>1 DEF Advanced, Typed, RunTyped

LEMMA OnwardTyped ==
    ASSUME Typed, NEW w \in Workers, run[w].at # "idle", Onward(w), UNCHANGED receipts
    PROVE  Advanced
  <1>1. CASE run[w].month = run[w].last
    BY <1>1, ReturnsTyped DEF Onward
  <1>2. CASE run[w].month # run[w].last
    <2> DEFINE row == [run[w] EXCEPT !.month = @ + 1, !.to = {}, !.at = "looking"]
    <2>1. run[w] \in RunRow
      BY Rows
    <2>a. run[w].month + 1 \in Int /\ {} \in SUBSET Recipients
      BY <2>1, Fields
    <2>2. row \in RunRow /\ row.no = run[w].no
      BY <2>1, <2>a DEF RunRow
    <2>3. Goes(w, row) /\ UNCHANGED lock
      BY <1>2 DEF Onward
    <2> HIDE DEF row
    <2> QED BY <2>2, <2>3, EditTyped
  <1> QED BY <1>1, <1>2

LEMMA PastTyped ==
    ASSUME Typed, NEW w \in Workers, NEW x, run[w].at # "idle", Past(w, x), UNCHANGED receipts
    PROVE  Advanced
  <1>1. CASE run[w].to = {x}
    BY <1>1, OnwardTyped DEF Past
  <1>2. CASE run[w].to # {x}
    <2> DEFINE row == [run[w] EXCEPT !.to = @ \ {x}, !.at = "mailing"]
    <2>1. run[w] \in RunRow
      BY Rows
    <2>2. row \in RunRow /\ row.no = run[w].no
      BY <2>1 DEF RunRow
    <2>3. Goes(w, row) /\ UNCHANGED lock
      BY <1>2 DEF Past
    <2> HIDE DEF row
    <2> QED BY <2>2, <2>3, EditTyped
  <1> QED BY <1>1, <1>2

\* What is left of Typed when an execution moved.
LEMMA AdvancedTyped ==
    ASSUME Typed, Advanced, UNCHANGED <<receipts, runs>>, lost' \in BOOLEAN,
           faults' \in 0..MaxFaults
    PROVE  RunTyped'
  BY Fixed DEF Advanced, Typed, RunTyped

LEMMA TypedWorld ==
    ASSUME Typed, World
    PROVE  Typed'
  <1>1. UNCHANGED <<receipts, alerting, monthly, lock, run, runs, faults, lost>>
    BY DEF World, NextDay, LinkGap, RetireGap, Attest, Outside
  <1>2. RunTyped'
    BY <1>1, Staying, Fixed DEF Typed, RunTyped
  <1>3. WorldTyped
    BY DEF Typed
  <1>4. WorldTyped'
    <2>1. CASE NextDay
      BY <2>1, <1>3, Fixed DEF NextDay, WorldTyped
    <2>2. ASSUME NEW c \in Checks, NEW e \in 0..NoExpiry, LinkGap(c, e) PROVE WorldTyped'
      <3>1. [check |-> c, expires |-> e, retired |-> FALSE]
               \in [check : Checks, expires : 0..NoExpiry, retired : BOOLEAN]
        OBVIOUS
      <3>2. outside' \in 0..MaxOutside
        BY <2>2, <1>3 DEF LinkGap, Outside, WorldTyped, EvidenceAssumption
      <3> QED BY <2>2, <1>3, <3>1, <3>2, Fixed DEF LinkGap, Outside, WorldTyped
    <2>3. ASSUME NEW l \in links, RetireGap(l) PROVE WorldTyped'
      <3>1. [l EXCEPT !.retired = TRUE]
               \in [check : Checks, expires : 0..NoExpiry, retired : BOOLEAN]
        BY <1>3 DEF WorldTyped
      <3>2. outside' \in 0..MaxOutside
        BY <2>3, <1>3 DEF RetireGap, Outside, WorldTyped, EvidenceAssumption
      <3> QED BY <2>3, <1>3, <3>1, <3>2, Fixed DEF RetireGap, Outside, WorldTyped
    <2>4. ASSUME NEW a \in Attestations, Attest(a) PROVE WorldTyped'
      BY <2>4, <1>3, Fixed DEF Attest, Outside, WorldTyped
    <2> QED BY <2>1, <2>2, <2>3, <2>4 DEF World
  <1> QED BY <1>1, <1>2, <1>4, Kept DEF Typed

LEMMA SomeFollowing ==
    ASSUME Typed, NEW w \in Workers, run[w].at # "idle", Goes(w, Following(w)),
           UNCHANGED <<receipts, lock, runs, faults, lost>>
    PROVE  RunTyped'
  <1>1. Advanced /\ lost' \in BOOLEAN /\ faults' \in 0..MaxFaults
    BY FollowingTyped DEF Typed, RunTyped
  <1> QED BY <1>1, AdvancedTyped

LEMMA SomeEdit ==
    ASSUME Typed, NEW w \in Workers, run[w].at # "idle", NEW row \in RunRow, row.no = run[w].no,
           Goes(w, row), UNCHANGED <<receipts, lock, runs, faults, lost>>
    PROVE  RunTyped'
  <1>1. Advanced /\ lost' \in BOOLEAN /\ faults' \in 0..MaxFaults
    BY EditTyped DEF Typed, RunTyped
  <1> QED BY <1>1, AdvancedTyped

\* The receipts of a run, and what follows from them.
LEMMA NotedFinite ==
    ASSUME Typed, NEW w \in Workers, NEW N
    PROVE  IsFiniteSet(Noted(w, N)) /\ Cardinality(Noted(w, N)) \in Nat
           /\ Noted(w, N) \subseteq DOMAIN receipts
  <1>1. run[w].mine \subseteq DOMAIN receipts /\ DOMAIN receipts = 1..Len(receipts)
        /\ Len(receipts) \in Nat
    BY Rows, Fields
  <1>2. IsFiniteSet(1..Len(receipts))
    BY <1>1, FS_Interval
  <1>3. Noted(w, N) \subseteq DOMAIN receipts
    BY <1>1 DEF Noted
  <1> QED BY <1>1, <1>2, <1>3, FS_Subset, FS_CardinalityType

LEMMA LinesAreLines ==
    ASSUME Typed, NEW w \in Workers, run[w].at # "idle",
           NEW N \in SUBSET (Attention \cup {"recovered"}), NEW told \in InOrder(Noted(w, N))
    PROVE  /\ LinesOf(w, told) \in Seq(Line)
           /\ \A k \in DOMAIN LinesOf(w, told) : LinesOf(w, told)[k].what # "reminder"
  <1> DEFINE n == Cardinality(Noted(w, N))
  <1>1. n \in Nat /\ Noted(w, N) \subseteq DOMAIN receipts
    BY NotedFinite
  <1>2. told \in [1..n -> Noted(w, N)]
    BY DEF InOrder
  <1>3. ASSUME NEW k \in 1..n
        PROVE  /\ [what |-> NoticeOf(w, told[k]), of |-> receipts[told[k]].check,
                   at |-> run[w].no] \in Line
               /\ NoticeOf(w, told[k]) # "reminder"
    <2>1. told[k] \in Noted(w, N)
      BY <1>2
    <2>2. NoticeOf(w, told[k]) \in N
      BY <2>1 DEF Noted
    <2>3. receipts[told[k]].check \in Checks
      <3>1. receipts \in Seq(Receipt) /\ told[k] \in DOMAIN receipts
        BY <1>1, <2>1, Rows
      <3>2. receipts[told[k]] \in Receipt
        BY <3>1
      <3> QED BY <3>2 DEF Receipt
    <2>4. run[w].no \in 1..MaxRuns
      BY Rows
    <2> QED BY <2>2, <2>3, <2>4 DEF Line, Attention
  <1>4. LinesOf(w, told) = [k \in 1..n |-> [what |-> NoticeOf(w, told[k]),
                                of |-> receipts[told[k]].check, at |-> run[w].no]]
    BY <1>2 DEF LinesOf
  <1> HIDE DEF n
  <1>5. LinesOf(w, told) \in [1..n -> Line]
    BY <1>3, <1>4
  <1> QED BY <1>1, <1>3, <1>4, <1>5

-------------------------------------------------------------------------------
(* Sequences of lines.                                                      *)

LEMMA Tails ==
    ASSUME NEW S, NEW s \in Seq(S), NEW m \in Nat, m >= 1
    PROVE  /\ SubSeq(s, m, Len(s)) \in Seq(S)
           /\ Len(SubSeq(s, m, Len(s))) = IF m <= Len(s) THEN Len(s) - m + 1 ELSE 0
           /\ \A i \in 1..Len(SubSeq(s, m, Len(s))) : SubSeq(s, m, Len(s))[i] = s[m - 1 + i]
  <1>1. Len(s) \in Nat /\ \A i \in m..Len(s) : i \in 1..Len(s) /\ s[i] \in S
    OBVIOUS
  <1>2. CASE m <= Len(s)
    BY <1>1, <1>2, SubSeqProperties
  <1>3. CASE m > Len(s)
    BY <1>1, <1>3, SubSeqEmpty
  <1> QED BY <1>1, <1>2, <1>3

LEMMA TailsAfter ==
    ASSUME NEW S, NEW s \in Seq(S), NEW n \in Nat
    PROVE  /\ SubSeq(s, n + 1, Len(s)) \in Seq(S)
           /\ Len(SubSeq(s, n + 1, Len(s))) = IF n <= Len(s) THEN Len(s) - n ELSE 0
           /\ \A i \in 1..Len(SubSeq(s, n + 1, Len(s))) : SubSeq(s, n + 1, Len(s))[i] = s[n + i]
  <1> DEFINE m == n + 1
  <1>1. m \in Nat /\ m >= 1 /\ n = m - 1 /\ Len(s) \in Nat
    OBVIOUS
  <1> HIDE DEF m
  <1>2. /\ SubSeq(s, m, Len(s)) \in Seq(S)
        /\ Len(SubSeq(s, m, Len(s))) = IF m <= Len(s) THEN Len(s) - m + 1 ELSE 0
        /\ \A i \in 1..Len(SubSeq(s, m, Len(s))) : SubSeq(s, m, Len(s))[i] = s[m - 1 + i]
    BY <1>1, Tails
  <1>3. Len(SubSeq(s, m, Len(s))) = IF n <= Len(s) THEN Len(s) - n ELSE 0
    BY <1>1, <1>2
  <1>4. \A i \in 1..Len(SubSeq(s, m, Len(s))) : SubSeq(s, m, Len(s))[i] = s[n + i]
    BY <1>1, <1>2
  <1> QED BY <1>2, <1>3, <1>4 DEF m

LEMMA YoungestOf ==
    ASSUME NEW S, NEW s \in Seq(S), NEW n \in Nat
    PROVE  /\ Youngest(s, n) \in Seq(S)
           /\ Len(Youngest(s, n)) = IF Len(s) <= n THEN Len(s) ELSE n
           /\ \A i \in 1..Len(Youngest(s, n)) :
                 Youngest(s, n)[i] = s[Len(s) - Len(Youngest(s, n)) + i]
  <1>1. CASE Len(s) <= n
    BY <1>1 DEF Youngest
  <1>2. CASE Len(s) > n
    <2>1. Len(s) - n + 1 \in Nat /\ Len(s) - n + 1 >= 1 /\ Len(s) \in Nat
      BY <1>2
    <2>2. Youngest(s, n) = SubSeq(s, Len(s) - n + 1, Len(s))
      BY <1>2 DEF Youngest
    <2> HIDE DEF Youngest
    <2>3. /\ Youngest(s, n) \in Seq(S)
          /\ Len(Youngest(s, n)) =
                IF Len(s) - n + 1 <= Len(s) THEN Len(s) - (Len(s) - n + 1) + 1 ELSE 0
          /\ \A i \in 1..Len(Youngest(s, n)) : Youngest(s, n)[i] = s[Len(s) - n + 1 - 1 + i]
      BY <2>1, <2>2, Tails
    <2>4. Len(Youngest(s, n)) = n
      BY <2>1, <2>3, <1>2
    <2> QED BY <2>1, <2>3, <2>4, <1>2
  <1> QED BY <1>1, <1>2

LEMMA FreshOf ==
    ASSUME Typed, NEW w \in Workers
    PROVE  /\ Fresh(w) \in Seq(Line)
           /\ Len(Fresh(w)) = IF run[w].old <= Len(run[w].lines)
                              THEN Len(run[w].lines) - run[w].old ELSE 0
           /\ \A i \in 1..Len(Fresh(w)) : Fresh(w)[i] = run[w].lines[run[w].old + i]
  <1>1. run[w].lines \in Seq(Line) /\ run[w].old \in Nat
    BY Rows, Fields
  <1> QED BY <1>1, TailsAfter DEF Fresh

LEMMA TypedClassify ==
    ASSUME Typed, NEW w \in Workers, Classify(w)
    PROVE  Typed'
  <1>1. PICK told \in InOrder(Noted(w, Attention)) : \E back \in InOrder(Noted(w, {"recovered"})) :
          Goes(w, [run[w] EXCEPT !.at = "reading", !.mine = {},
                                 !.lines = IF Noted(w, Attention) = {} THEN <<>>
                                           ELSE LinesOf(w, told) \o LinesOf(w, back)])
    BY DEF Classify
  <1>2. PICK back \in InOrder(Noted(w, {"recovered"})) :
          Goes(w, [run[w] EXCEPT !.at = "reading", !.mine = {},
                                 !.lines = IF Noted(w, Attention) = {} THEN <<>>
                                           ELSE LinesOf(w, told) \o LinesOf(w, back)])
    BY <1>1
  <1> DEFINE all == IF Noted(w, Attention) = {} THEN <<>>
                    ELSE LinesOf(w, told) \o LinesOf(w, back)
             row == [run[w] EXCEPT !.at = "reading", !.mine = {}, !.lines = all]
  <1>3. run[w] \in RunRow /\ run[w].at # "idle"
    BY Rows DEF Classify
  <1>4. all \in Seq(Line)
    <2>1. LinesOf(w, told) \in Seq(Line) /\ LinesOf(w, back) \in Seq(Line)
      BY <1>3, LinesAreLines
    <2> QED BY <2>1
  <1>5. Goes(w, row)
    BY <1>2
  <1> HIDE DEF all
  <1>6. row \in RunRow /\ row.no = run[w].no
    BY <1>3, <1>4 DEF RunRow
  <1> HIDE DEF row
  <1>7. RunTyped'
    BY <1>3, <1>5, <1>6, SomeEdit DEF Classify
  <1> QED BY <1>7, Kept DEF Typed, Classify

LEMMA TypedReadPending ==
    ASSUME Typed, NEW w \in Workers, ReadPending(w)
    PROVE  Typed'
  <1> DEFINE all == pending \o run[w].lines
             row == [run[w] EXCEPT !.lines = all, !.old = Len(pending), !.to = Recipients,
                                   !.at = IF run[w].lines = <<>> THEN "sending" ELSE "queueing"]
  <1>1. run[w] \in RunRow /\ run[w].at # "idle" /\ run[w].lines \in Seq(Line)
    BY Rows, Fields DEF ReadPending
  <1>2. pending \in Seq(Line) /\ Len(pending) \in Nat /\ all \in Seq(Line)
    BY <1>1 DEF Typed, AlertTyped
  <1>3. Goes(w, IF all = <<>> THEN Following(w) ELSE row)
    BY DEF ReadPending
  <1> HIDE DEF all
  <1>4. row \in RunRow /\ row.no = run[w].no
    BY <1>1, <1>2 DEF RunRow
  <1> HIDE DEF row
  <1>5. RunTyped'
    <2>1. CASE all = <<>>
      BY <1>1, <1>3, <2>1, SomeFollowing DEF ReadPending
    <2>2. CASE all # <<>>
      BY <1>1, <1>3, <1>4, <2>2, SomeEdit DEF ReadPending
    <2> QED BY <2>1, <2>2
  <1> QED BY <1>5, Kept DEF Typed, ReadPending

LEMMA TypedQueue ==
    ASSUME Typed, NEW w \in Workers, Queue(w)
    PROVE  Typed'
  <1> DEFINE row == [run[w] EXCEPT !.at = "sending"]
  <1>1. run[w] \in RunRow /\ run[w].at # "idle" /\ run[w].lines \in Seq(Line)
        /\ run[w].due \in Due
    BY Rows, Fields DEF Queue
  <1>2. row \in RunRow /\ row.no = run[w].no /\ Goes(w, row)
    BY <1>1 DEF RunRow, Queue
  <1> HIDE DEF row
  <1>3. RunTyped'
    BY <1>1, <1>2, SomeEdit DEF Queue
  <1>4. AlertTyped'
    <2>1. pending' \in Seq(Line)
      BY <1>1, YoungestOf DEF Queue, EvidenceAssumption
    <2>2. queued' \in Seq(Line)
      BY FreshOf DEF Queue, Typed, AlertTyped
    <2>3. reminded' \in Due
      BY <1>1 DEF Queue, Typed, AlertTyped
    <2> QED BY <2>1, <2>2, <2>3, Fixed DEF Queue, Typed, AlertTyped
  <1> QED BY <1>3, <1>4, Kept DEF Typed, Queue

LEMMA TypedSend ==
    ASSUME Typed, NEW w \in Workers, Send(w)
    PROVE  Typed'
  <1>1. PICK x \in run[w].to :
          /\ First(x, run[w].to)
          /\ mailed' = mailed \cup (Range(run[w].lines) \X {x})
          /\ Goes(w, [run[w] EXCEPT !.to = @ \ {x}])
    BY DEF Send
  <1> DEFINE row == [run[w] EXCEPT !.to = @ \ {x}]
  <1>2. run[w] \in RunRow /\ run[w].at # "idle" /\ run[w].lines \in Seq(Line)
        /\ run[w].to \subseteq Recipients
    BY Rows, Fields DEF Send
  <1>3. row \in RunRow /\ row.no = run[w].no /\ Goes(w, row)
    BY <1>1, <1>2 DEF RunRow
  <1> HIDE DEF row
  <1>4. RunTyped'
    BY <1>2, <1>3, SomeEdit DEF Send
  <1>5. Range(run[w].lines) \subseteq Line /\ x \in Recipients
    BY <1>2 DEF Range
  <1>6. AlertTyped'
    BY <1>1, <1>5, Fixed DEF Send, Typed, AlertTyped
  <1> QED BY <1>4, <1>6, Kept DEF Typed, Send

LEMMA TypedClear ==
    ASSUME Typed, NEW w \in Workers, Clear(w)
    PROVE  Typed'
  <1>1. RunTyped'
    BY SomeFollowing DEF Clear
  <1>2. AlertTyped'
    BY Fixed DEF Clear, Typed, AlertTyped
  <1> QED BY <1>1, <1>2, Kept DEF Typed, Clear

-------------------------------------------------------------------------------
(* The reminders and the summaries.                                         *)

LEMMA DueNowIsDue ==
    ASSUME Typed
    PROVE  DueNow \in Due
  <1> DEFINE D == {b \in Attestations : attested[b] = None \/ day >= attested[b] + Period}
  <1>1. ASSUME NEW a \in D
        PROVE  (IF attested[a] = None THEN None ELSE attested[a] + Period) \in Periods
    <2>1. attested[a] \in 0..LastDay \cup {None}
      BY DEF Typed, WorldTyped
    <2> QED BY <2>1 DEF Periods, EvidenceAssumption
  <1>2. D \in SUBSET Attestations
    OBVIOUS
  <1>3. DueNow \in [D -> Periods]
    BY <1>1 DEF DueNow
  <1> HIDE DEF D
  <1> QED BY <1>2, <1>3 DEF Due

LEMMA DueFields ==
    ASSUME NEW d \in Due
    PROVE  /\ DOMAIN d \subseteq Attestations
           /\ \A a \in DOMAIN d : d[a] \in Periods
           /\ d = [a \in DOMAIN d |-> d[a]]
  BY DEF Due

LEMMA TypedReadPasses ==
    ASSUME Typed, NEW w \in Workers, ReadPasses(w)
    PROVE  Typed'
  <1> DEFINE row == [run[w] EXCEPT !.at = "recalling", !.due = DueNow]
  <1>1. run[w] \in RunRow /\ run[w].at # "idle" /\ DueNow \in Due
    BY Rows, DueNowIsDue DEF ReadPasses
  <1>2. row \in RunRow /\ row.no = run[w].no
    BY <1>1 DEF RunRow
  <1>3. Goes(w, row)
    BY DEF ReadPasses
  <1> HIDE DEF row
  <1>4. RunTyped'
    BY <1>1, <1>2, <1>3, SomeEdit DEF ReadPasses
  <1> QED BY <1>4, Kept DEF Typed, ReadPasses

LEMMA RemindersAreLines ==
    ASSUME NEW due \in Due, NEW news \in SUBSET DOMAIN due, NEW order \in Listings(news)
    PROVE  [k \in DOMAIN order |-> Reminder(order[k], due[order[k]])] \in Seq(Line)
  <1>1. news \in SUBSET Attestations /\ IsFiniteSet(news)
    BY DueFields, FS_Subset DEF EvidenceAssumption
  <1>2. Cardinality(news) \in Nat
    BY <1>1, FS_CardinalityType
  <1> DEFINE n == Cardinality(news)
  <1>3. order \in [1..n -> news]
    BY DEF Listings
  <1>4. ASSUME NEW k \in 1..n PROVE Reminder(order[k], due[order[k]]) \in Line
    <2>1. order[k] \in DOMAIN due /\ order[k] \in Attestations /\ due[order[k]] \in Periods
      BY <1>1, <1>3, DueFields
    <2> QED BY <2>1 DEF Reminder, Line
  <1> HIDE DEF n
  <1>5. [k \in DOMAIN order |-> Reminder(order[k], due[order[k]])] \in [1..n -> Line]
    BY <1>3, <1>4
  <1> QED BY <1>2, <1>5 DEF n

News(w) == {a \in DOMAIN run[w].due : a \notin DOMAIN reminded \/ reminded[a] # run[w].due[a]}

RemindersOf(w, order) == [k \in DOMAIN order |-> Reminder(order[k], run[w].due[order[k]])]

LEMMA RecallCases ==
    ASSUME NEW w \in Workers, Recall(w)
    PROVE  \/ \E order \in Listings(News(w)) :
                 Goes(w, [run[w] EXCEPT !.at = "reading", !.lines = RemindersOf(w, order)])
           \/ News(w) = {} /\ Goes(w, [run[w] EXCEPT !.at = "remembering"])
           \/ News(w) = {} /\ Goes(w, Following(w))
  BY DEF Recall, News, RemindersOf

LEMMA TypedRecall ==
    ASSUME Typed, NEW w \in Workers, Recall(w)
    PROVE  Typed'
  <1>1. run[w] \in RunRow /\ run[w].at # "idle" /\ run[w].due \in Due
    BY Rows, Fields DEF Recall
  <1>2. RunTyped'
    <2>1. ASSUME NEW order \in Listings(News(w)),
                 Goes(w, [run[w] EXCEPT !.at = "reading", !.lines = RemindersOf(w, order)])
          PROVE  RunTyped'
      <3> DEFINE row == [run[w] EXCEPT !.at = "reading", !.lines = RemindersOf(w, order)]
      <3>1. RemindersOf(w, order) \in Seq(Line)
        BY <1>1, RemindersAreLines DEF News, RemindersOf
      <3>2. row \in RunRow /\ row.no = run[w].no
        BY <1>1, <3>1 DEF RunRow
      <3>3. Goes(w, row)
        BY <2>1
      <3> HIDE DEF row
      <3> QED BY <1>1, <3>2, <3>3, SomeEdit DEF Recall
    <2>2. ASSUME Goes(w, [run[w] EXCEPT !.at = "remembering"])
          PROVE  RunTyped'
      <3> DEFINE row == [run[w] EXCEPT !.at = "remembering"]
      <3>1. row \in RunRow /\ row.no = run[w].no
        BY <1>1 DEF RunRow
      <3>2. Goes(w, row)
        BY <2>2
      <3> HIDE DEF row
      <3> QED BY <1>1, <3>1, <3>2, SomeEdit DEF Recall
    <2>3. ASSUME Goes(w, Following(w)) PROVE RunTyped'
      BY <1>1, <2>3, SomeFollowing DEF Recall
    <2> QED BY <2>1, <2>2, <2>3, RecallCases
  <1> QED BY <1>2, Kept DEF Typed, Recall

LEMMA TypedRemember ==
    ASSUME Typed, NEW w \in Workers, Remember(w)
    PROVE  Typed'
  <1>1. run[w].due \in Due
    BY Rows, Fields
  <1>2. RunTyped'
    BY SomeFollowing DEF Remember
  <1>3. AlertTyped'
    BY <1>1, Fixed DEF Remember, Typed, AlertTyped
  <1> QED BY <1>2, <1>3, Kept DEF Typed, Remember

LEMMA MonthNow ==
    ASSUME Typed
    PROVE  Month(day) \in Months /\ Month(day) - 1 \in Months /\ Month(day) \in Nat
           /\ Months \subseteq Nat
  <1>1. day \in 0..LastDay
    BY DEF Typed, WorldTyped
  <1> QED BY <1>1, MonthsGrow DEF Months

LEMMA TypedLookForMonths ==
    ASSUME Typed, NEW w \in Workers, LookForMonths(w)
    PROVE  Typed'
  <1> DEFINE last == Month(day) - 1
             toMake == MonthsToCreate(last)
             row == [run[w] EXCEPT !.last = last, !.month = last - EmailMonths + 1,
                                  !.toMake = toMake,
                                  !.at = IF toMake = {} THEN "looking" ELSE "storing"]
  <1>1. last \in Months /\ last \in Int /\ last - EmailMonths + 1 \in Int
    BY MonthNow DEF EvidenceAssumption
  <1>2. run[w] \in RunRow /\ run[w].at # "idle"
    BY Rows DEF LookForMonths
  <1>3. toMake \subseteq Months
    BY <1>1 DEF MonthsToCreate
  <1>4. Goes(w, row)
    BY DEF LookForMonths
  <1> HIDE DEF last, toMake
  <1>5. row \in RunRow /\ row.no = run[w].no
    BY <1>1, <1>2, <1>3 DEF RunRow
  <1> HIDE DEF row
  <1>6. RunTyped'
    BY <1>2, <1>4, <1>5, SomeEdit DEF LookForMonths
  <1> QED BY <1>6, Kept DEF Typed, LookForMonths

LEMMA TypedStore ==
    ASSUME Typed, NEW w \in Workers, Store(w)
    PROVE  Typed'
  <1>1. PICK m \in run[w].toMake :
          /\ summaries' = IF m \in Summarised THEN summaries
                          ELSE Append(summaries, [month |-> m, at |-> Month(day)])
          /\ Goes(w, [run[w] EXCEPT !.toMake = @ \ {m},
                                    !.at = IF run[w].toMake = {m} THEN "looking" ELSE "storing"])
    BY DEF Store
  <1> DEFINE row == [run[w] EXCEPT !.toMake = @ \ {m},
                                    !.at = IF run[w].toMake = {m} THEN "looking" ELSE "storing"]
  <1>2. run[w] \in RunRow /\ run[w].at # "idle" /\ m \in Months
    BY Rows, Fields DEF Store
  <1>3. row \in RunRow /\ row.no = run[w].no /\ Goes(w, row)
    BY <1>1, <1>2 DEF RunRow
  <1> HIDE DEF row
  <1>4. RunTyped'
    BY <1>2, <1>3, SomeEdit DEF Store
  <1>5. [month |-> m, at |-> Month(day)] \in [month : Months, at : Months]
    BY <1>2, MonthNow
  <1>6. MonthlyTyped'
    <2> DEFINE S == [month : Months, at : Months]
               new == [month |-> m, at |-> Month(day)]
    <2>1. summaries \in Seq(S)
      BY DEF Typed, MonthlyTyped
    <2>2. summaries' = summaries \/ summaries' = Append(summaries, new)
      BY <1>1
    <2>3. new \in S
      BY <1>5
    <2> HIDE DEF new, S
    <2>4. summaries' \in Seq(S)
      BY <2>1, <2>2, <2>3
    <2> QED BY <2>4, Fixed DEF Store, Typed, MonthlyTyped, S
  <1> QED BY <1>4, <1>6, Kept DEF Typed, Store

LEMMA TypedLook ==
    ASSUME Typed, NEW w \in Workers, Look(w)
    PROVE  Typed'
  <1>1. run[w] \in RunRow /\ run[w].at # "idle"
    BY Rows DEF Look
  <1>2. Advanced
    <2>1. CASE Unserved(run[w].month) = {}
      BY <1>1, <2>1, OnwardTyped DEF Look
    <2>2. CASE Unserved(run[w].month) # {}
      <3> DEFINE row == [run[w] EXCEPT !.to = Unserved(run[w].month), !.at = "mailing"]
      <3>1. Unserved(run[w].month) \subseteq Recipients
        BY DEF Unserved
      <3>2. row \in RunRow /\ row.no = run[w].no
        BY <1>1, <3>1 DEF RunRow
      <3>3. Goes(w, row) /\ UNCHANGED <<receipts, lock>>
        BY <2>2 DEF Look
      <3> HIDE DEF row
      <3> QED BY <1>1, <3>2, <3>3, EditTyped
    <2> QED BY <2>1, <2>2
  <1>3. RunTyped'
    BY <1>2, AdvancedTyped DEF Look, Typed, RunTyped
  <1> QED BY <1>3, Kept DEF Typed, Look

\* The letters of a month count upwards.
LEMMA LettersTyped ==
    ASSUME Typed, NEW w \in Workers, NEW x \in Recipients, NEW a \in {0, 1}, NEW b \in {0, 1},
           letters' = Counted(w, x, a, b)
    PROVE  letters' \in [Months -> [Recipients -> [mailed : Nat, unrecorded : Nat]]]
  <1> DEFINE m == run[w].month
  <1> DEFINE L == [mailed : Nat, unrecorded : Nat]
  <1>1. letters \in [Months -> [Recipients -> L]]
    BY DEF Typed, MonthlyTyped
  <1>2. CASE m \in Months
    <2>1. letters[m] \in [Recipients -> L] /\ letters[m][x] \in L
      BY <1>1, <1>2
    <2> DEFINE new == [mailed |-> letters[m][x].mailed + a,
                       unrecorded |-> letters[m][x].unrecorded + b]
    <2>2. new \in L
      BY <2>1
    <2>3. letters' = [letters EXCEPT ![m] = [letters[m] EXCEPT ![x] = new]]
      BY <1>1, <1>2 DEF Counted
    <2> HIDE DEF new, L
    <2>4. [letters[m] EXCEPT ![x] = new] \in [Recipients -> L]
      BY <2>1, <2>2
    <2>5. letters' \in [Months -> [Recipients -> L]]
      BY <1>1, <2>3, <2>4
    <2> QED BY <2>5 DEF L
  <1>3. CASE m \notin Months
    <2> HIDE DEF L
    <2>1. letters' = letters
      BY <1>1, <1>3 DEF Counted
    <2> QED BY <1>1, <2>1 DEF L
  <1> QED BY <1>2, <1>3

LEMMA TypedMail ==
    ASSUME Typed, NEW w \in Workers, Mail(w)
    PROVE  Typed'
  <1> DEFINE row == [run[w] EXCEPT !.at = "marking"]
  <1>1. PICK x \in run[w].to : letters' = Counted(w, x, 1, 0)
    BY DEF Mail
  <1>2. run[w] \in RunRow /\ run[w].at # "idle" /\ x \in Recipients
    BY Rows, Fields DEF Mail
  <1>3. row \in RunRow /\ row.no = run[w].no /\ Goes(w, row)
    BY <1>2 DEF RunRow, Mail
  <1> HIDE DEF row
  <1>4. RunTyped'
    BY <1>2, <1>3, SomeEdit DEF Mail
  <1>5. MonthlyTyped'
    BY <1>1, <1>2, LettersTyped, Fixed DEF Mail, Typed, MonthlyTyped
  <1> QED BY <1>4, <1>5, Kept DEF Typed, Mail

LEMMA TypedMark ==
    ASSUME Typed, NEW w \in Workers, Mark(w)
    PROVE  Typed'
  <1>1. PICK x \in run[w].to :
          /\ sent' = [sent EXCEPT ![run[w].month] = @ \cup {x}]
          /\ Past(w, x)
    BY DEF Mark
  <1>2. run[w].at # "idle" /\ x \in Recipients /\ UNCHANGED <<receipts, runs, faults, lost>>
    BY Rows, Fields DEF Mark
  <1>3. Advanced
    BY <1>1, <1>2, PastTyped
  <1>4. RunTyped'
    BY <1>2, <1>3, AdvancedTyped DEF Typed, RunTyped
  <1>5. MonthlyTyped'
    BY <1>1, <1>2, Fixed DEF Mark, Typed, MonthlyTyped
  <1> QED BY <1>4, <1>5, Kept DEF Typed, Mark

LEMMA FaultTyped ==
    ASSUME Typed, Fault
    PROVE  faults' \in 0..MaxFaults
  BY DEF Typed, RunTyped, Fault, EvidenceAssumption

LEMMA TypedMailFails ==
    ASSUME Typed, NEW w \in Workers, MailFails(w)
    PROVE  Typed'
  <1>1. PICK x \in run[w].to :
          /\ \/ UNCHANGED letters
             \/ letters' = Counted(w, x, 1, 1) \/ letters' = Counted(w, x, 0, 1)
          /\ Past(w, x)
    BY DEF MailFails
  <1>2. run[w].at # "idle" /\ x \in Recipients
        /\ faults' \in 0..MaxFaults /\ UNCHANGED <<receipts, runs, lost>>
    BY Rows, Fields, FaultTyped DEF MailFails
  <1>3. Advanced
    BY <1>1, <1>2, PastTyped
  <1>4. RunTyped'
    BY <1>2, <1>3, AdvancedTyped DEF Typed, RunTyped
  <1>5. letters' \in [Months -> [Recipients -> [mailed : Nat, unrecorded : Nat]]]
    <2>1. CASE UNCHANGED letters
      BY <2>1 DEF Typed, MonthlyTyped
    <2>2. CASE letters' = Counted(w, x, 1, 1)
      BY <1>2, <2>2, LettersTyped
    <2>3. CASE letters' = Counted(w, x, 0, 1)
      BY <1>2, <2>3, LettersTyped
    <2> QED BY <1>1, <2>1, <2>2, <2>3
  <1>6. MonthlyTyped'
    BY <1>5, Fixed DEF MailFails, Typed, MonthlyTyped
  <1> QED BY <1>4, <1>6, Kept DEF Typed, MailFails

LEMMA TypedPhaseFails ==
    ASSUME Typed, NEW w \in Workers, PhaseFails(w)
    PROVE  Typed'
  <1>1. run[w].at # "idle" /\ faults' \in 0..MaxFaults /\ UNCHANGED <<receipts, runs, lost>>
    BY FaultTyped DEF PhaseFails
  <1>2. Advanced
    <2>1. CASE run[w].phase = "summary"
      BY <1>1, <2>1, ReturnsTyped DEF PhaseFails
    <2>2. CASE run[w].phase # "summary"
      BY <1>1, <2>2, FollowingTyped DEF PhaseFails
    <2> QED BY <2>1, <2>2
  <1>3. RunTyped'
    BY <1>1, <1>2, AdvancedTyped DEF Typed, RunTyped
  <1>4. AlertTyped'
    BY Rows, Fixed DEF PhaseFails, Typed, AlertTyped, Silenced
  <1> QED BY <1>3, <1>4, Kept DEF Typed, PhaseFails

LEMMA TypedRunDies ==
    ASSUME Typed, NEW w \in Workers, RunDies(w)
    PROVE  Typed'
  <1>1. faults' \in 0..MaxFaults /\ UNCHANGED <<receipts, runs, lost>>
    BY FaultTyped DEF RunDies
  <1>2. Advanced
    BY <1>1, ReturnsTyped DEF RunDies
  <1>3. RunTyped'
    BY <1>1, <1>2, AdvancedTyped DEF Typed, RunTyped
  <1>4. AlertTyped'
    BY Rows, Fixed DEF RunDies, Typed, AlertTyped, Silenced
  <1>5. letters' \in [Months -> [Recipients -> [mailed : Nat, unrecorded : Nat]]]
    <2>1. CASE run[w].at # "marking"
      BY <2>1 DEF RunDies, Typed, MonthlyTyped
    <2>2. CASE run[w].at = "marking"
      <3>1. PICK x \in run[w].to : letters' = Counted(w, x, 0, 1)
        BY <2>2 DEF RunDies
      <3>2. x \in Recipients
        BY Rows, Fields
      <3> QED BY <3>1, <3>2, LettersTyped
    <2> QED BY <2>1, <2>2
  <1>6. MonthlyTyped'
    BY <1>5, Fixed DEF RunDies, Typed, MonthlyTyped
  <1> QED BY <1>3, <1>4, <1>6, Kept DEF Typed, RunDies

LEMMA TypedSessionLost ==
    ASSUME Typed, SessionLost
    PROVE  Typed'
  <1>1. faults' \in 0..MaxFaults
    BY FaultTyped DEF SessionLost
  <1>2. RunTyped'
    BY <1>1, Staying, Fixed DEF SessionLost, Typed, RunTyped
  <1> QED BY <1>2, Kept DEF Typed, SessionLost

LEMMA TypedNext ==
    ASSUME Typed, [Next]_vars
    PROVE  Typed'
  <1>1. CASE UNCHANGED vars
    <2>1. RunTyped'
      BY <1>1, Staying, Fixed DEF vars, Typed, RunTyped
    <2> QED BY <1>1, <2>1, Kept DEF Typed, vars
  <1>2. CASE World
    BY <1>2, TypedWorld
  <1>3. CASE SessionLost
    BY <1>3, TypedSessionLost
  <1>4. ASSUME NEW w \in Workers, Step(w) PROVE Typed'
    <2>1. CASE \E ids \in Lists : Start(w, ids)
      BY <2>1, TypedStart
    <2>2. CASE \E result \in {"pass", "fail", "error"} : Check(w, result)
      BY <2>2, TypedCheck
    <2>3. CASE Alert(w)
      BY <2>3, TypedClassify, TypedReadPending, TypedQueue, TypedSend, TypedClear DEF Alert
    <2>4. CASE Remind(w)
      BY <2>4, TypedReadPasses, TypedRecall, TypedRemember DEF Remind
    <2>5. CASE Summarise(w)
      BY <2>5, TypedLookForMonths, TypedStore, TypedLook, TypedMail, TypedMark DEF Summarise
    <2>6. CASE MailFails(w) \/ PhaseFails(w) \/ RunDies(w)
      BY <2>6, TypedMailFails, TypedPhaseFails, TypedRunDies
    <2> QED BY <1>4, <2>1, <2>2, <2>3, <2>4, <2>5, <2>6 DEF Step
  <1> QED BY <1>1, <1>2, <1>3, <1>4 DEF Next

LEMMA TypedInit == Init => Typed
  <1> SUFFICES ASSUME Init PROVE Typed
    OBVIOUS
  <1>1. 0 \in 0..LastDay /\ 0 \in 0..MaxRuns /\ 0 \in 0..MaxOutside /\ 0 \in 0..MaxFaults
    BY DEF EvidenceAssumption
  <1>2. WorldTyped
    BY <1>1 DEF Init, WorldTyped
  <1>3. AlertTyped
    <2>1. <<>> \in Seq(Line)
      OBVIOUS
    <2> QED BY <2>1, NoneDue DEF Init, AlertTyped
  <1>4. MonthlyTyped
    BY DEF Init, MonthlyTyped
  <1>5. RunTyped
    <2>1. Idle \in RunRow /\ Idle.at = "idle"
      BY IdleIsRow DEF Idle
    <2>2. run = [w \in Workers |-> Idle] /\ receipts = <<>>
      BY DEF Init
    <2>3. run \in [Workers -> RunRow] /\ Numbered
      BY <2>1, <2>2 DEF Numbered
    <2>4. receipts \in Seq(Receipt)
      BY <2>2
    <2> QED BY <1>1, <2>3, <2>4 DEF Init, RunTyped
  <1> QED BY <1>2, <1>3, <1>4, <1>5 DEF Typed

\* The variables keep their types.
THEOREM TypeCorrect == Spec => []TypeOK
  <1>1. Spec => []Typed
    BY TypedInit, TypedNext, PTL DEF Spec
  <1>2. Typed => TypeOK
    BY Parts
  <1> QED BY <1>1, <1>2, PTL

-------------------------------------------------------------------------------
(* Who moves in a step, and the phases.                                     *)

FollowingRow(w) ==
    /\ Following(w).at \in {"passes", "catching up"}
    /\ Following(w).at = "passes" => Following(w).phase = "remind"

LEMMA FollowingShape == \A w \in Workers : FollowingRow(w)
  BY DEF FollowingRow, Following, Idle

\* Only w moves; it takes the lock, keeps it, or gives it back as it ends.
Alone1(w, row) ==
    /\ run' = [run EXCEPT ![w] = row]
    /\ \/ run[w].at = "idle" /\ lock = None /\ lock' = w
       \/ run[w].at # "idle" /\ lock' = lock
       \/ run[w].at # "idle" /\ lock' = Released(w) /\ row.at = "idle"

AtAlert == {"recalling", "reading", "queueing", "sending", "remembering"}

\* A step outside the alerts and reminders.
QuietStep(w) ==
    /\ UNCHANGED <<pending, reminded, queued, mailed>>
    /\ \E row : /\ Alone1(w, row)
                /\ row.at \notin AtAlert
                /\ row.at \in {"checking", "classifying"} => row.phase = "alert"
                /\ row.at = "passes" => row.phase = "remind"

PhaseFits(r) ==
    /\ r.at \in {"checking", "classifying"} => r.phase = "alert"
    /\ r.at \in {"passes", "recalling", "remembering"} => r.phase = "remind"
    /\ r.at \in {"reading", "queueing", "sending"} => r.phase \in {"alert", "remind"}

PhasesFit == \A w \in Workers : PhaseFits(run[w])

LEMMA QuietReturns ==
    ASSUME NEW w \in Workers, Returns(w), run[w].at # "idle",
           UNCHANGED <<pending, reminded, queued, mailed>>
    PROVE  QuietStep(w)
  <1>1. Alone1(w, Idle) /\ Idle.at = "idle"
    BY DEF Alone1, Returns, Goes, Idle
  <1> QED BY <1>1 DEF QuietStep, AtAlert

LEMMA QuietRow ==
    ASSUME NEW w \in Workers, NEW row, Goes(w, row), run[w].at # "idle",
           UNCHANGED <<lock, pending, reminded, queued, mailed>>,
           row.at \in {"passes", "catching up", "storing", "looking", "mailing", "marking"},
           row.at = "passes" => row.phase = "remind"
    PROVE  QuietStep(w)
  <1>1. Alone1(w, row)
    BY DEF Alone1, Goes
  <1> QED BY <1>1 DEF QuietStep, AtAlert

LEMMA QuietOnward ==
    ASSUME Typed, NEW w \in Workers, Onward(w), run[w].at # "idle",
           UNCHANGED <<pending, reminded, queued, mailed>>
    PROVE  QuietStep(w)
  <1>1. CASE run[w].month = run[w].last
    BY <1>1, QuietReturns DEF Onward
  <1>2. CASE run[w].month # run[w].last
    <2> DEFINE row == [run[w] EXCEPT !.month = @ + 1, !.to = {}, !.at = "looking"]
    <2>1. row.at = "looking"
      BY Rows DEF RunRow
    <2>2. Goes(w, row) /\ UNCHANGED lock
      BY <1>2 DEF Onward
    <2> HIDE DEF row
    <2> QED BY <2>1, <2>2, QuietRow
  <1> QED BY <1>1, <1>2

LEMMA QuietPast ==
    ASSUME Typed, NEW w \in Workers, NEW x, Past(w, x), run[w].at # "idle",
           UNCHANGED <<pending, reminded, queued, mailed>>
    PROVE  QuietStep(w)
  <1>1. CASE run[w].to = {x}
    BY <1>1, QuietOnward DEF Past
  <1>2. CASE run[w].to # {x}
    <2> DEFINE row == [run[w] EXCEPT !.to = @ \ {x}, !.at = "mailing"]
    <2>1. row.at = "mailing"
      BY Rows DEF RunRow
    <2>2. Goes(w, row) /\ UNCHANGED lock
      BY <1>2 DEF Past
    <2> HIDE DEF row
    <2> QED BY <2>1, <2>2, QuietRow
  <1> QED BY <1>1, <1>2

LEMMA QuietSteps ==
    ASSUME Typed, PhasesFit, NEW w \in Workers, Step(w)
    PROVE  \/ Alert(w) \/ Remind(w)
           \/ QuietStep(w)
  <1>1. run[w] \in RunRow
    BY Rows
  <1>2. ASSUME NEW ids \in Lists, Start(w, ids) PROVE QuietStep(w)
    <2> DEFINE at == IF ids = <<>> THEN "classifying" ELSE "checking"
               row == [Idle EXCEPT !.at = at, !.no = runs + 1, !.left = ids]
    <2>1. row.at \in {"checking", "classifying"} /\ row.phase = "alert"
      BY DEF Idle
    <2>2. Alone1(w, row)
      BY <1>2 DEF Start, Goes, Alone1
    <2> HIDE DEF row
    <2> QED BY <1>2, <2>1, <2>2 DEF QuietStep, AtAlert, Start, alerting
  <1>3. ASSUME NEW result, Check(w, result) PROVE QuietStep(w)
    <2> DEFINE row == [run[w] EXCEPT !.left = Tail(@),
                              !.mine = @ \cup {Len(receipts) + 1},
                              !.at = IF Len(run[w].left) = 1 THEN "classifying" ELSE "checking"]
    <2>1. row.at \in {"checking", "classifying"} /\ row.phase = run[w].phase
      BY <1>1 DEF RunRow
    <2>2. run[w].phase = "alert"
      BY <1>3 DEF Check, PhasesFit, PhaseFits
    <2>3. Alone1(w, row)
      BY <1>3 DEF Check, Goes, Alone1
    <2> HIDE DEF row
    <2> QED BY <1>3, <2>1, <2>2, <2>3 DEF QuietStep, AtAlert, Check, alerting
  <1>4. CASE LookForMonths(w)
    <2> DEFINE last == Month(day) - 1
               row == [run[w] EXCEPT !.last = last, !.month = last - EmailMonths + 1,
                              !.toMake = MonthsToCreate(last),
                              !.at = IF MonthsToCreate(last) = {} THEN "looking" ELSE "storing"]
    <2>1. row.at \in {"looking", "storing"}
      BY <1>1 DEF RunRow
    <2>2. Goes(w, row) /\ run[w].at # "idle" /\ UNCHANGED <<lock, alerting>>
      BY <1>4 DEF LookForMonths
    <2> HIDE DEF row
    <2> QED BY <2>1, <2>2, QuietRow DEF alerting
  <1>5. CASE Store(w)
    <2>1. PICK m : Goes(w, [run[w] EXCEPT !.toMake = @ \ {m},
                                    !.at = IF run[w].toMake = {m} THEN "looking" ELSE "storing"])
      BY <1>5 DEF Store
    <2> DEFINE row == [run[w] EXCEPT !.toMake = @ \ {m},
                                    !.at = IF run[w].toMake = {m} THEN "looking" ELSE "storing"]
    <2>2. row.at \in {"looking", "storing"} /\ Goes(w, row)
      BY <1>1, <2>1 DEF RunRow
    <2>3. run[w].at # "idle" /\ UNCHANGED <<lock, alerting>>
      BY <1>5 DEF Store
    <2> HIDE DEF row
    <2> QED BY <2>2, <2>3, QuietRow DEF alerting
  <1>6. CASE Look(w)
    <2>1. run[w].at # "idle" /\ UNCHANGED alerting
      BY <1>6 DEF Look
    <2>2. CASE Unserved(run[w].month) = {}
      BY <1>6, <2>1, <2>2, QuietOnward DEF Look, alerting
    <2>3. CASE Unserved(run[w].month) # {}
      <3> DEFINE row == [run[w] EXCEPT !.to = Unserved(run[w].month), !.at = "mailing"]
      <3>1. row.at = "mailing"
        BY <1>1 DEF RunRow
      <3>2. Goes(w, row) /\ UNCHANGED lock
        BY <1>6, <2>3 DEF Look
      <3> HIDE DEF row
      <3> QED BY <2>1, <3>1, <3>2, QuietRow DEF alerting
    <2> QED BY <2>2, <2>3
  <1>7. CASE Mail(w)
    <2> DEFINE row == [run[w] EXCEPT !.at = "marking"]
    <2>1. row.at = "marking"
      BY <1>1 DEF RunRow
    <2>2. Goes(w, row) /\ run[w].at # "idle" /\ UNCHANGED <<lock, alerting>>
      BY <1>7 DEF Mail
    <2> HIDE DEF row
    <2> QED BY <2>1, <2>2, QuietRow DEF alerting
  <1>8. CASE Mark(w)
    <2>1. run[w].at # "idle" /\ UNCHANGED alerting /\ \E x : Past(w, x)
      BY <1>8 DEF Mark
    <2> QED BY <2>1, QuietPast DEF alerting
  <1>9. CASE MailFails(w)
    <2>1. run[w].at # "idle" /\ UNCHANGED alerting /\ \E x : Past(w, x)
      BY <1>9 DEF MailFails
    <2> QED BY <2>1, QuietPast DEF alerting
  <1>10. CASE PhaseFails(w)
    <2>1. run[w].at # "idle" /\ UNCHANGED <<pending, reminded, queued, mailed>>
      BY <1>10 DEF PhaseFails
    <2>2. CASE run[w].phase = "summary"
      BY <1>10, <2>1, <2>2, QuietReturns DEF PhaseFails
    <2>3. CASE run[w].phase # "summary"
      BY <1>10, <2>1, <2>3, FollowingShape, QuietRow DEF PhaseFails, FollowingRow
    <2> QED BY <2>2, <2>3
  <1>11. CASE RunDies(w)
    BY <1>11, QuietReturns DEF RunDies
  <1> QED BY <1>2, <1>3, <1>4, <1>5, <1>6, <1>7, <1>8, <1>9, <1>10, <1>11
          DEF Step, Summarise

FitsAlone(w) == \E row : Alone1(w, row) /\ PhaseFits(row)

LEMMA FollowingFits ==
    ASSUME NEW w \in Workers, Goes(w, Following(w)), run[w].at # "idle", UNCHANGED lock
    PROVE  FitsAlone(w)
  <1>1. PhaseFits(Following(w))
    BY FollowingShape DEF FollowingRow, PhaseFits
  <1>2. Alone1(w, Following(w))
    BY DEF Alone1, Goes
  <1> QED BY <1>1, <1>2 DEF FitsAlone

LEMMA RowFits ==
    ASSUME NEW w \in Workers, NEW row, Goes(w, row), run[w].at # "idle", UNCHANGED lock,
           PhaseFits(row)
    PROVE  FitsAlone(w)
  <1>1. Alone1(w, row)
    BY DEF Alone1, Goes
  <1> QED BY <1>1 DEF FitsAlone

LEMMA StepsFit ==
    ASSUME Typed, PhasesFit, NEW w \in Workers, Step(w)
    PROVE  FitsAlone(w)
  <1>1. run[w] \in RunRow /\ PhaseFits(run[w])
    BY Rows DEF PhasesFit
  <1>2. CASE QuietStep(w)
    <2>1. PICK row : /\ Alone1(w, row)
                     /\ row.at \notin AtAlert
                     /\ row.at \in {"checking", "classifying"} => row.phase = "alert"
                     /\ row.at = "passes" => row.phase = "remind"
      BY <1>2 DEF QuietStep
    <2>2. PhaseFits(row)
      BY <2>1 DEF PhaseFits, AtAlert
    <2> QED BY <2>1, <2>2 DEF FitsAlone
  <1>3. CASE Classify(w)
    <2>1. PICK lines : Goes(w, [run[w] EXCEPT !.at = "reading", !.mine = {}, !.lines = lines])
      BY <1>3 DEF Classify
    <2> DEFINE row == [run[w] EXCEPT !.at = "reading", !.mine = {}, !.lines = lines]
    <2>2. PhaseFits(row)
      BY <1>1, <1>3 DEF PhaseFits, Classify, RunRow
    <2>3. Goes(w, row) /\ run[w].at # "idle" /\ UNCHANGED lock
      BY <1>3, <2>1 DEF Classify
    <2> HIDE DEF row
    <2> QED BY <2>2, <2>3, RowFits
  <1>4. CASE ReadPending(w)
    <2> DEFINE all == pending \o run[w].lines
               row == [run[w] EXCEPT !.lines = all, !.old = Len(pending), !.to = Recipients,
                                     !.at = IF run[w].lines = <<>> THEN "sending" ELSE "queueing"]
    <2>1. PhaseFits(row)
      BY <1>1, <1>4 DEF PhaseFits, ReadPending, RunRow
    <2>2. Goes(w, IF all = <<>> THEN Following(w) ELSE row)
          /\ run[w].at # "idle" /\ UNCHANGED lock
      BY <1>4 DEF ReadPending
    <2> HIDE DEF all, row
    <2>3. CASE all = <<>>
      BY <2>2, <2>3, FollowingFits
    <2>4. CASE all # <<>>
      BY <2>1, <2>2, <2>4, RowFits
    <2> QED BY <2>3, <2>4
  <1>5. CASE Queue(w)
    <2> DEFINE row == [run[w] EXCEPT !.at = "sending"]
    <2>1. PhaseFits(row)
      BY <1>1, <1>5 DEF PhaseFits, Queue, RunRow
    <2>2. Goes(w, row) /\ run[w].at # "idle" /\ UNCHANGED lock
      BY <1>5 DEF Queue
    <2> HIDE DEF row
    <2> QED BY <2>1, <2>2, RowFits
  <1>6. CASE Send(w)
    <2>1. PICK x : Goes(w, [run[w] EXCEPT !.to = @ \ {x}])
      BY <1>6 DEF Send
    <2> DEFINE row == [run[w] EXCEPT !.to = @ \ {x}]
    <2>2. PhaseFits(row)
      BY <1>1, <1>6 DEF PhaseFits, Send, RunRow
    <2>3. Goes(w, row) /\ run[w].at # "idle" /\ UNCHANGED lock
      BY <1>6, <2>1 DEF Send
    <2> HIDE DEF row
    <2> QED BY <2>2, <2>3, RowFits
  <1>7. CASE Clear(w) \/ Remember(w)
    BY <1>7, FollowingFits DEF Clear, Remember
  <1>8. CASE ReadPasses(w)
    <2> DEFINE row == [run[w] EXCEPT !.at = "recalling", !.due = DueNow]
    <2>1. PhaseFits(row)
      BY <1>1, <1>8 DEF PhaseFits, ReadPasses, RunRow
    <2>2. Goes(w, row) /\ run[w].at # "idle" /\ UNCHANGED lock
      BY <1>8 DEF ReadPasses
    <2> HIDE DEF row
    <2> QED BY <2>1, <2>2, RowFits
  <1>9. CASE Recall(w)
    <2>1. run[w].at = "recalling" /\ run[w].phase = "remind" /\ UNCHANGED lock
      BY <1>1, <1>9 DEF Recall, PhaseFits
    <2>2. ASSUME NEW order \in Listings(News(w)),
                 Goes(w, [run[w] EXCEPT !.at = "reading", !.lines = RemindersOf(w, order)])
          PROVE  FitsAlone(w)
      <3> DEFINE row == [run[w] EXCEPT !.at = "reading", !.lines = RemindersOf(w, order)]
      <3>1. PhaseFits(row)
        BY <1>1, <2>1 DEF PhaseFits, RunRow
      <3>2. Goes(w, row)
        BY <2>2
      <3> HIDE DEF row
      <3> QED BY <2>1, <3>1, <3>2, RowFits
    <2>3. ASSUME Goes(w, [run[w] EXCEPT !.at = "remembering"])
          PROVE  FitsAlone(w)
      <3> DEFINE row == [run[w] EXCEPT !.at = "remembering"]
      <3>1. PhaseFits(row)
        BY <1>1, <2>1 DEF PhaseFits, RunRow
      <3>2. Goes(w, row)
        BY <2>3
      <3> HIDE DEF row
      <3> QED BY <2>1, <3>1, <3>2, RowFits
    <2>4. ASSUME Goes(w, Following(w)) PROVE FitsAlone(w)
      BY <2>1, <2>4, FollowingFits
    <2> QED BY <1>9, <2>2, <2>3, <2>4, RecallCases
  <1> QED BY <1>2, <1>3, <1>4, <1>5, <1>6, <1>7, <1>8, <1>9, QuietSteps DEF Alert, Remind

\* Without a lost session an execution under way holds the lock.
Alone == ~lost => \A w \in Workers : run[w].at # "idle" => lock = w

Ruled == Typed /\ PhasesFit /\ Alone

LEMMA StepKeepsLost ==
    ASSUME NEW w \in Workers, Step(w)
    PROVE  UNCHANGED <<world, lost>>
  BY DEF Step, Start, Check, Alert, Classify, ReadPending, Queue, Send, Clear, Remind, ReadPasses,
         Recall, Remember, Summarise, LookForMonths, Store, Look, Mail, Mark, MailFails, PhaseFails,
         RunDies

LEMMA WorldKeeps ==
    ASSUME World
    PROVE  UNCHANGED <<receipts, alerting, monthly, lock, run, runs, faults, lost>>
  BY DEF World, NextDay, LinkGap, RetireGap, Attest, Outside

\* In a step of w nobody else moves, and without a lost session nobody else is under way.
LEMMA OthersRest ==
    ASSUME Ruled, NEW w \in Workers, Step(w), NEW v \in Workers, v # w
    PROVE  /\ run'[v] = run[v]
           /\ ~lost => run[v].at = "idle"
  <1>1. PICK row : Alone1(w, row)
    BY StepsFit DEF Ruled, FitsAlone
  <1>2. run \in [Workers -> RunRow] /\ None \notin Workers
    BY DEF Ruled, Typed, RunTyped, EvidenceAssumption
  <1>3. run'[v] = run[v]
    BY <1>1, <1>2 DEF Alone1
  <1>4. ~lost => run[v].at = "idle"
    BY <1>1, <1>2 DEF Alone1, Ruled, Alone
  <1> QED BY <1>3, <1>4

LEMMA RuledNext ==
    ASSUME Ruled, [Next]_vars
    PROVE  Ruled'
  <1>1. Typed'
    BY TypedNext DEF Ruled
  <1>2. CASE UNCHANGED vars
    BY <1>1, <1>2 DEF Ruled, PhasesFit, PhaseFits, Alone, vars
  <1>3. CASE World
    BY <1>1, <1>3, WorldKeeps DEF Ruled, PhasesFit, PhaseFits, Alone
  <1>4. CASE SessionLost
    BY <1>1, <1>4 DEF Ruled, PhasesFit, PhaseFits, Alone, SessionLost
  <1>5. ASSUME NEW w \in Workers, Step(w) PROVE Ruled'
    <2>1. PICK row : Alone1(w, row) /\ PhaseFits(row)
      BY <1>5, StepsFit DEF Ruled, FitsAlone
    <2>2. run \in [Workers -> RunRow] /\ None \notin Workers
      BY DEF Ruled, Typed, RunTyped, EvidenceAssumption
    <2>3. run'[w] = row /\ \A v \in Workers : v # w => run'[v] = run[v]
      BY <2>1, <2>2 DEF Alone1
    <2>4. PhasesFit'
      BY <2>1, <2>3 DEF Ruled, PhasesFit, PhaseFits
    <2>5. Alone'
      BY <1>5, <2>1, <2>2, <2>3, StepKeepsLost, OthersRest DEF Alone, Alone1, Ruled, Released
    <2> QED BY <1>1, <2>4, <2>5 DEF Ruled
  <1> QED BY <1>2, <1>3, <1>4, <1>5 DEF Next

LEMMA RuledInit == Init => Ruled
  <1> SUFFICES ASSUME Init PROVE Ruled
    OBVIOUS
  <1>1. \A w \in Workers : run[w] = Idle /\ Idle.at = "idle"
    BY DEF Init, Idle
  <1> QED BY <1>1, TypedInit DEF Ruled, PhasesFit, PhaseFits, Alone

-------------------------------------------------------------------------------
(* The reminders: each due period once.                                     *)

LEMMA RangeOfBoth ==
    ASSUME NEW S, NEW s \in Seq(S), NEW t \in Seq(S)
    PROVE  Range(s \o t) = Range(s) \cup Range(t)
  <1>1. /\ Len(s) \in Nat /\ Len(t) \in Nat
        /\ DOMAIN s = 1..Len(s) /\ DOMAIN t = 1..Len(t)
        /\ DOMAIN (s \o t) = 1..(Len(s) + Len(t))
        /\ \A i \in 1..Len(s) : (s \o t)[i] = s[i]
        /\ \A i \in 1..Len(t) : (s \o t)[Len(s) + i] = t[i]
    OBVIOUS
  <1>2. ASSUME NEW i \in 1..(Len(s) + Len(t)) PROVE (s \o t)[i] \in Range(s) \cup Range(t)
    <2>1. CASE i <= Len(s)
      BY <1>1, <2>1 DEF Range
    <2>2. CASE i > Len(s)
      <3>1. i - Len(s) \in 1..Len(t) /\ i = Len(s) + (i - Len(s))
        BY <1>1, <2>2
      <3>2. (s \o t)[i] = t[i - Len(s)]
        BY <1>1, <3>1
      <3> QED BY <1>1, <3>1, <3>2 DEF Range
    <2> QED BY <1>1, <2>1, <2>2
  <1>3. ASSUME NEW i \in 1..Len(s) PROVE s[i] \in Range(s \o t)
    <2>1. i \in 1..(Len(s) + Len(t)) /\ (s \o t)[i] = s[i]
      BY <1>1
    <2> QED BY <1>1, <2>1 DEF Range
  <1>4. ASSUME NEW i \in 1..Len(t) PROVE t[i] \in Range(s \o t)
    <2>1. Len(s) + i \in 1..(Len(s) + Len(t)) /\ (s \o t)[Len(s) + i] = t[i]
      BY <1>1
    <2> QED BY <1>1, <2>1 DEF Range
  <1>5. Range(s \o t) \subseteq Range(s) \cup Range(t)
    BY <1>1, <1>2 DEF Range
  <1>6. Range(s) \subseteq Range(s \o t)
    BY <1>1, <1>3 DEF Range
  <1>7. Range(t) \subseteq Range(s \o t)
    BY <1>1, <1>4 DEF Range
  <1> QED BY <1>5, <1>6, <1>7

\* What a run adds is what it had before it read the pending lines.
LEMMA FreshAfterReading ==
    ASSUME Typed, NEW w \in Workers,
           run'[w].lines = pending \o run[w].lines, run'[w].old = Len(pending)
    PROVE  Fresh(w)' = run[w].lines
  <1> DEFINE s == pending
             t == run[w].lines
             f == SubSeq(s \o t, Len(s) + 1, Len(s \o t))
  <1>1. s \in Seq(Line) /\ t \in Seq(Line)
    BY Rows, Fields DEF Typed, AlertTyped
  <1>2. Fresh(w)' = f
    BY DEF Fresh
  <1> HIDE DEF s, t
  <1>3. Len(s) \in Nat /\ Len(t) \in Nat /\ s \o t \in Seq(Line) /\ Len(s \o t) = Len(s) + Len(t)
    BY <1>1
  <1>4. f \in Seq(Line) /\ Len(f) = Len(t) /\ \A i \in 1..Len(f) : f[i] = (s \o t)[Len(s) + i]
    <2>1. PICK both \in Seq(Line), n \in Nat : both = s \o t /\ n = Len(s)
      BY <1>3
    <2>2. /\ SubSeq(both, n + 1, Len(both)) \in Seq(Line)
          /\ Len(SubSeq(both, n + 1, Len(both))) = IF n <= Len(both) THEN Len(both) - n ELSE 0
          /\ \A i \in 1..Len(SubSeq(both, n + 1, Len(both))) :
                SubSeq(both, n + 1, Len(both))[i] = both[n + i]
      BY TailsAfter
    <2>3. f = SubSeq(both, n + 1, Len(both))
      BY <2>1 DEF f
    <2>4. n <= Len(both) /\ Len(both) - n = Len(t)
      BY <1>3, <2>1
    <2> HIDE DEF f
    <2> QED BY <2>1, <2>2, <2>3, <2>4
  <1> HIDE DEF f
  <1>5. \A i \in 1..Len(t) : f[i] = t[i]
    BY <1>1, <1>3, <1>4
  <1>6. f = t
    BY <1>1, <1>4, <1>5
  <1> QED BY <1>2, <1>6 DEF t

Queued(a, p) == Reminder(a, p) \in Range(queued)
Current(a, p) == a \in DOMAIN reminded /\ reminded[a] = p

LEMMA QueueAdds ==
    ASSUME Typed, NEW w \in Workers, Queue(w)
    PROVE  Range(queued') = Range(queued) \cup Range(Fresh(w))
  BY FreshOf, RangeOfBoth DEF Typed, AlertTyped, Queue

LEMMA OnlyQueueAdds ==
    ASSUME Typed, PhasesFit, [Next]_vars
    PROVE  Range(queued) \subseteq Range(queued')
  <1>1. CASE UNCHANGED vars
    BY <1>1 DEF vars, alerting
  <1>2. CASE World
    BY <1>2, WorldKeeps DEF alerting
  <1>3. CASE SessionLost
    BY <1>3 DEF SessionLost, alerting
  <1>4. ASSUME NEW w \in Workers, Step(w) PROVE Range(queued) \subseteq Range(queued')
    <2>1. CASE Queue(w)
      BY <2>1, QueueAdds
    <2>2. CASE ~Queue(w)
      BY <1>4, <2>2, QuietSteps DEF QuietStep, Alert, Remind, Classify, ReadPending, Send, Clear,
            ReadPasses, Recall, Remember, alerting
    <2> QED BY <2>1, <2>2
  <1> QED BY <1>1, <1>2, <1>3, <1>4 DEF Next

\* The due periods an execution is about to remember are queued, or among the
\* lines it is about to queue.
Backed(w) ==
    \A a \in DOMAIN run[w].due :
        /\ run[w].phase = "remind" /\ run[w].at = "reading" =>
              Queued(a, run[w].due[a]) \/ Reminder(a, run[w].due[a]) \in Range(run[w].lines)
        /\ run[w].phase = "remind" /\ run[w].at = "queueing" =>
              Queued(a, run[w].due[a]) \/ Reminder(a, run[w].due[a]) \in Range(Fresh(w))
        /\ run[w].at = "remembering" => Queued(a, run[w].due[a])

AllBacked ==
    /\ \A a \in DOMAIN reminded : Queued(a, reminded[a])
    /\ \A w \in Workers : Backed(w)

LEMMA BackedStays ==
    ASSUME Range(queued) \subseteq Range(queued'), NEW v \in Workers, run'[v] = run[v], Backed(v)
    PROVE  Backed(v)'
  <1>1. Fresh(v)' = Fresh(v)
    BY DEF Fresh
  <1> QED BY <1>1 DEF Backed, Queued

LEMMA NotAboutToRemember ==
    ASSUME NEW w \in Workers,
           run'[w].at # "remembering",
           run'[w].at \notin {"reading", "queueing"} \/ run'[w].phase # "remind"
    PROVE  Backed(w)'
  BY DEF Backed

\* What the row of w is after a step.
LEMMA NewRow ==
    ASSUME Typed, NEW w \in Workers, NEW row, Goes(w, row)
    PROVE  run'[w] = row
  BY DEF Goes, Typed, RunTyped

LEMMA QuietRowOf ==
    ASSUME Typed, NEW w \in Workers, QuietStep(w)
    PROVE  run'[w].at \notin AtAlert /\ UNCHANGED <<pending, reminded, queued, mailed>>
  <1>1. PICK row : Alone1(w, row) /\ row.at \notin AtAlert
    BY DEF QuietStep
  <1>2. run'[w] = row
    BY <1>1 DEF Alone1, Typed, RunTyped
  <1> QED BY <1>1, <1>2 DEF QuietStep

LEMMA FollowingRowOf ==
    ASSUME Typed, NEW w \in Workers, Goes(w, Following(w))
    PROVE  run'[w].at \notin AtAlert
  <1>1. run'[w] = Following(w)
    BY NewRow
  <1> QED BY <1>1, FollowingShape DEF FollowingRow, AtAlert

LEMMA ClassifyRowOf ==
    ASSUME Typed, NEW w \in Workers, Classify(w)
    PROVE  /\ run'[w].at = "reading" /\ run'[w].phase = run[w].phase
           /\ run'[w].lines \in Seq(Line)
           /\ \A k \in DOMAIN run'[w].lines : run'[w].lines[k].what # "reminder"
           /\ UNCHANGED alerting
  <1>1. PICK told \in InOrder(Noted(w, Attention)) : \E back \in InOrder(Noted(w, {"recovered"})) :
          Goes(w, [run[w] EXCEPT !.at = "reading", !.mine = {},
                                 !.lines = IF Noted(w, Attention) = {} THEN <<>>
                                           ELSE LinesOf(w, told) \o LinesOf(w, back)])
    BY DEF Classify
  <1>2. PICK back \in InOrder(Noted(w, {"recovered"})) :
          Goes(w, [run[w] EXCEPT !.at = "reading", !.mine = {},
                                 !.lines = IF Noted(w, Attention) = {} THEN <<>>
                                           ELSE LinesOf(w, told) \o LinesOf(w, back)])
    BY <1>1
  <1> DEFINE all == IF Noted(w, Attention) = {} THEN <<>>
                    ELSE LinesOf(w, told) \o LinesOf(w, back)
             row == [run[w] EXCEPT !.at = "reading", !.mine = {}, !.lines = all]
  <1>3. run[w] \in RunRow /\ run[w].at # "idle"
    BY Rows DEF Classify
  <1>4. all \in Seq(Line) /\ \A k \in DOMAIN all : all[k].what # "reminder"
    <2>1. /\ LinesOf(w, told) \in Seq(Line) /\ LinesOf(w, back) \in Seq(Line)
          /\ \A k \in DOMAIN LinesOf(w, told) : LinesOf(w, told)[k].what # "reminder"
          /\ \A k \in DOMAIN LinesOf(w, back) : LinesOf(w, back)[k].what # "reminder"
      BY <1>3, LinesAreLines
    <2> DEFINE s == LinesOf(w, told)
               t == LinesOf(w, back)
    <2>2. s \in Seq(Line) /\ t \in Seq(Line)
      BY <2>1
    <2>3. /\ \A k \in 1..Len(s) : s[k].what # "reminder"
          /\ \A k \in 1..Len(t) : t[k].what # "reminder"
      BY <2>1, <2>2
    <2> HIDE DEF s, t
    <2>4. s \o t \in Seq(Line) /\ \A k \in DOMAIN (s \o t) : (s \o t)[k].what # "reminder"
      BY <2>2, <2>3
    <2>5. CASE Noted(w, Attention) = {}
      BY <2>5
    <2>6. CASE Noted(w, Attention) # {}
      BY <2>4, <2>6 DEF s, t
    <2> QED BY <2>5, <2>6
  <1>5. Goes(w, row)
    BY <1>2
  <1> HIDE DEF all
  <1>6. row.at = "reading" /\ row.phase = run[w].phase /\ row.lines = all
    BY <1>3 DEF RunRow
  <1> HIDE DEF row
  <1>7. run'[w] = row
    BY <1>5, NewRow
  <1> QED BY <1>4, <1>6, <1>7 DEF Classify

LEMMA ReadPendingRowOf ==
    ASSUME Typed, NEW w \in Workers, ReadPending(w)
    PROVE  /\ UNCHANGED alerting
           /\ \/ run'[w].at \notin AtAlert
              \/ /\ run'[w].at \in {"queueing", "sending"} /\ run'[w].phase = run[w].phase
                 /\ run'[w].due = run[w].due /\ run'[w].to = Recipients
                 /\ run'[w].lines = pending \o run[w].lines /\ run'[w].old = Len(pending)
                 /\ run'[w].at = "sending" => run[w].lines = <<>>
                 /\ Fresh(w)' = run[w].lines
  <1> DEFINE all == pending \o run[w].lines
             row == [run[w] EXCEPT !.lines = all, !.old = Len(pending), !.to = Recipients,
                                   !.at = IF run[w].lines = <<>> THEN "sending" ELSE "queueing"]
  <1>1. Goes(w, IF all = <<>> THEN Following(w) ELSE row) /\ UNCHANGED alerting
    BY DEF ReadPending
  <1>2. run[w] \in RunRow
    BY Rows
  <1>3. row.at = (IF run[w].lines = <<>> THEN "sending" ELSE "queueing")
        /\ row.phase = run[w].phase /\ row.due = run[w].due /\ row.to = Recipients
        /\ row.lines = all /\ row.old = Len(pending)
    BY <1>2 DEF RunRow
  <1> HIDE DEF row
  <1>4. CASE all = <<>>
    BY <1>1, <1>4, FollowingRowOf
  <1>5. CASE all # <<>>
    <2>1. run'[w] = row
      BY <1>1, <1>5, NewRow
    <2>2. Fresh(w)' = run[w].lines
      BY <1>3, <2>1, FreshAfterReading
    <2> QED BY <1>1, <1>3, <2>1, <2>2
  <1> QED BY <1>4, <1>5

LEMMA QueueRowOf ==
    ASSUME Typed, NEW w \in Workers, Queue(w)
    PROVE  /\ run'[w].at = "sending" /\ run'[w].lines = run[w].lines /\ run'[w].to = run[w].to
           /\ run'[w].old = run[w].old
           /\ UNCHANGED mailed
  <1> DEFINE row == [run[w] EXCEPT !.at = "sending"]
  <1>1. run[w] \in RunRow /\ Goes(w, row)
    BY Rows DEF Queue
  <1>2. row.at = "sending" /\ row.lines = run[w].lines /\ row.to = run[w].to
        /\ row.old = run[w].old
    BY <1>1 DEF RunRow
  <1>3. run'[w] = row
    BY <1>1, NewRow
  <1> QED BY <1>2, <1>3 DEF Queue

LEMMA SendRowOf ==
    ASSUME Typed, NEW w \in Workers, Send(w)
    PROVE  /\ run'[w].at = "sending" /\ run'[w].lines = run[w].lines
           /\ \E x \in run[w].to : /\ run'[w].to = run[w].to \ {x}
                                   /\ mailed' = mailed \cup (Range(run[w].lines) \X {x})
           /\ UNCHANGED <<pending, reminded, queued>>
  <1>1. PICK x \in run[w].to :
          /\ mailed' = mailed \cup (Range(run[w].lines) \X {x})
          /\ Goes(w, [run[w] EXCEPT !.to = @ \ {x}])
    BY DEF Send
  <1> DEFINE row == [run[w] EXCEPT !.to = @ \ {x}]
  <1>2. run[w] \in RunRow /\ run[w].at = "sending" /\ Goes(w, row)
    BY <1>1, Rows DEF Send
  <1>3. row.at = "sending" /\ row.lines = run[w].lines /\ row.to = run[w].to \ {x}
    BY <1>2 DEF RunRow
  <1>4. run'[w] = row
    BY <1>2, NewRow
  <1> QED BY <1>1, <1>3, <1>4 DEF Send

LEMMA ReadPassesRowOf ==
    ASSUME Typed, NEW w \in Workers, ReadPasses(w)
    PROVE  /\ run'[w].at = "recalling" /\ run'[w].due = DueNow /\ UNCHANGED alerting
  <1> DEFINE row == [run[w] EXCEPT !.at = "recalling", !.due = DueNow]
  <1>1. run[w] \in RunRow /\ Goes(w, row)
    BY Rows DEF ReadPasses
  <1>2. row.at = "recalling" /\ row.due = DueNow
    BY <1>1 DEF RunRow
  <1>3. run'[w] = row
    BY <1>1, NewRow
  <1> QED BY <1>2, <1>3 DEF ReadPasses

LEMMA RecallRowOf ==
    ASSUME Typed, NEW w \in Workers, Recall(w)
    PROVE  /\ UNCHANGED alerting
           /\ \/ /\ run'[w].at = "reading" /\ run'[w].phase = run[w].phase
                 /\ run'[w].due = run[w].due
                 /\ \E order \in Listings(News(w)) : run'[w].lines = RemindersOf(w, order)
              \/ /\ News(w) = {} /\ run'[w].at = "remembering"
                 /\ run'[w].due = run[w].due
              \/ run'[w].at \notin AtAlert
  <1>1. run[w] \in RunRow /\ UNCHANGED alerting
    BY Rows DEF Recall
  <1>2. ASSUME NEW order \in Listings(News(w)),
               Goes(w, [run[w] EXCEPT !.at = "reading", !.lines = RemindersOf(w, order)])
        PROVE  /\ run'[w].at = "reading" /\ run'[w].phase = run[w].phase
               /\ run'[w].due = run[w].due /\ run'[w].lines = RemindersOf(w, order)
    <2> DEFINE row == [run[w] EXCEPT !.at = "reading", !.lines = RemindersOf(w, order)]
    <2>1. row.at = "reading" /\ row.phase = run[w].phase /\ row.due = run[w].due
          /\ row.lines = RemindersOf(w, order)
      BY <1>1 DEF RunRow
    <2>2. run'[w] = row
      BY <1>2, NewRow
    <2> QED BY <2>1, <2>2
  <1>3. ASSUME Goes(w, [run[w] EXCEPT !.at = "remembering"])
        PROVE  run'[w].at = "remembering" /\ run'[w].due = run[w].due
    <2> DEFINE row == [run[w] EXCEPT !.at = "remembering"]
    <2>1. row.at = "remembering" /\ row.due = run[w].due
      BY <1>1 DEF RunRow
    <2>2. run'[w] = row
      BY <1>3, NewRow
    <2> QED BY <2>1, <2>2
  <1>4. ASSUME Goes(w, Following(w)) PROVE run'[w].at \notin AtAlert
    BY <1>4, FollowingRowOf
  <1> QED BY <1>1, <1>2, <1>3, <1>4, RecallCases

LEMMA ListedAll ==
    ASSUME NEW w \in Workers, NEW order \in Listings(News(w)), NEW a \in News(w)
    PROVE  Reminder(a, run[w].due[a]) \in Range(RemindersOf(w, order))
  <1>1. PICK k \in DOMAIN order : order[k] = a
    BY DEF Listings, Range
  <1>2. k \in DOMAIN RemindersOf(w, order)
        /\ RemindersOf(w, order)[k] = Reminder(a, run[w].due[a])
    BY <1>1 DEF RemindersOf
  <1> QED BY <1>2 DEF Range

LEMMA BackedStep ==
    ASSUME Ruled, AllBacked, NEW w \in Workers, Step(w)
    PROVE  AllBacked'
  <1>0. Typed /\ PhasesFit /\ PhaseFits(run[w])
    BY DEF Ruled, PhasesFit
  <1>1. Range(queued) \subseteq Range(queued')
    BY <1>0, OnlyQueueAdds DEF Next
  <1>2. \A v \in Workers : v # w => Backed(v)'
    BY <1>1, OthersRest, BackedStays DEF AllBacked
  <1>3. ASSUME UNCHANGED reminded, Backed(w)' PROVE AllBacked'
    BY <1>1, <1>2, <1>3 DEF AllBacked, Queued
  <1>4. CASE QuietStep(w)
    <2>1. run'[w].at \notin AtAlert /\ UNCHANGED reminded
      BY <1>0, <1>4, QuietRowOf
    <2> QED BY <2>1, <1>3, NotAboutToRemember DEF AtAlert
  <1>5. CASE Classify(w)
    <2>1. run'[w].at = "reading" /\ run'[w].phase = "alert" /\ UNCHANGED reminded
      BY <1>0, <1>5, ClassifyRowOf DEF PhaseFits, Classify, alerting
    <2> QED BY <2>1, <1>3, NotAboutToRemember
  <1>6. CASE ReadPending(w)
    <2>1. CASE run'[w].at \notin AtAlert
      BY <1>0, <1>3, <1>6, <2>1, ReadPendingRowOf, NotAboutToRemember DEF AtAlert, alerting
    <2>2. CASE run'[w].at \in AtAlert
      <3>1. /\ run'[w].at \in {"queueing", "sending"} /\ run'[w].phase = run[w].phase
            /\ run'[w].due = run[w].due /\ Fresh(w)' = run[w].lines
            /\ UNCHANGED <<reminded, queued>> /\ run[w].at = "reading"
        BY <1>0, <1>6, <2>2, ReadPendingRowOf DEF alerting, ReadPending
      <3>2. Backed(w)'
        BY <3>1 DEF AllBacked, Backed, Queued
      <3> QED BY <1>3, <3>1, <3>2
    <2> QED BY <2>1, <2>2
  <1>7. CASE Queue(w)
    <2>1. Backed(w)'
      BY <1>0, <1>7, QueueRowOf, NotAboutToRemember
    <2>2. CASE run[w].phase = "remind"
      <3>1. reminded' = run[w].due /\ run[w].at = "queueing"
        BY <1>7, <2>2 DEF Queue
      <3>2. Range(queued') = Range(queued) \cup Range(Fresh(w))
        BY <1>0, <1>7, QueueAdds
      <3> QED BY <1>2, <2>1, <2>2, <3>1, <3>2 DEF AllBacked, Backed, Queued
    <2>3. CASE run[w].phase # "remind"
      BY <1>3, <1>7, <2>1, <2>3 DEF Queue
    <2> QED BY <2>2, <2>3
  <1>8. CASE Send(w)
    BY <1>0, <1>3, <1>8, SendRowOf, NotAboutToRemember
  <1>9. CASE Clear(w)
    BY <1>0, <1>3, <1>9, FollowingRowOf, NotAboutToRemember DEF Clear, AtAlert
  <1>10. CASE ReadPasses(w)
    BY <1>0, <1>3, <1>10, ReadPassesRowOf, NotAboutToRemember DEF alerting
  <1>11. CASE Recall(w)
    <2>1. UNCHANGED <<reminded, queued>> /\ run[w].phase = "remind"
      BY <1>0, <1>11, RecallRowOf DEF alerting, PhaseFits, Recall
    <2>2. \A a \in DOMAIN run[w].due : a \notin News(w) => Queued(a, run[w].due[a])
      BY DEF News, AllBacked
    <2>3. CASE /\ run'[w].at = "reading" /\ run'[w].phase = run[w].phase
               /\ run'[w].due = run[w].due
               /\ \E order \in Listings(News(w)) : run'[w].lines = RemindersOf(w, order)
      <3>1. PICK order \in Listings(News(w)) : run'[w].lines = RemindersOf(w, order)
        BY <2>3
      <3>2. \A a \in News(w) : Reminder(a, run[w].due[a]) \in Range(run'[w].lines)
        BY <3>1, ListedAll
      <3>3. Backed(w)'
        BY <2>1, <2>2, <2>3, <3>2 DEF Backed, Queued
      <3> QED BY <1>3, <2>1, <3>3
    <2>4. CASE /\ News(w) = {} /\ run'[w].at = "remembering"
               /\ run'[w].due = run[w].due
      <3>1. Backed(w)'
        BY <2>1, <2>2, <2>4 DEF Backed, Queued
      <3> QED BY <1>3, <2>1, <3>1
    <2>5. CASE run'[w].at \notin AtAlert
      BY <1>3, <2>1, <2>5, NotAboutToRemember DEF AtAlert
    <2> QED BY <1>0, <1>11, <2>3, <2>4, <2>5, RecallRowOf
  <1>12. CASE Remember(w)
    <2>1. reminded' = run[w].due /\ UNCHANGED queued /\ run[w].at = "remembering"
      BY <1>12 DEF Remember
    <2>2. Backed(w)'
      BY <1>0, <1>12, FollowingRowOf, NotAboutToRemember DEF Remember, AtAlert
    <2> QED BY <1>2, <2>1, <2>2 DEF AllBacked, Backed, Queued
  <1> QED BY <1>0, <1>4, <1>5, <1>6, <1>7, <1>8, <1>9, <1>10, <1>11, <1>12, QuietSteps
          DEF Alert, Remind

LEMMA BackedNext ==
    ASSUME Ruled, AllBacked, [Next]_vars
    PROVE  AllBacked'
  <1>1. CASE UNCHANGED <<run, queued, reminded>>
    <2>1. \A w \in Workers : Backed(w)'
      BY <1>1, BackedStays DEF AllBacked
    <2> QED BY <1>1, <2>1 DEF AllBacked, Queued
  <1>2. CASE World
    BY <1>1, <1>2, WorldKeeps DEF alerting
  <1>3. CASE SessionLost
    BY <1>1, <1>3 DEF SessionLost, alerting
  <1>4. CASE UNCHANGED vars
    BY <1>1, <1>4 DEF vars, alerting
  <1> QED BY <1>2, <1>3, <1>4, BackedStep DEF Next

-------------------------------------------------------------------------------
\* The due period p of a was passed by a later attestation.
Gone(a, p) == attested[a] # None /\ (p = None \/ p < attested[a] + Period)

\* It began, and no attestation brought a later one that still is to come.
Known(a, p) == p # None => attested[a] # None /\ p <= attested[a] + Period /\ p <= day

Holds(w) ==
    run[w].phase = "remind" /\ run[w].at \in {"recalling", "reading", "queueing", "remembering"}

\* New reminders: of due periods not queued yet, each once.
AreNew(w, s) ==
    /\ \A k \in DOMAIN s : \E a \in DOMAIN run[w].due :
          s[k] = Reminder(a, run[w].due[a]) /\ ~Queued(a, run[w].due[a])
    /\ \A j, k \in DOMAIN s : s[j] = s[k] => j = k

NoReminders(s) == \A k \in DOMAIN s : s[k].what # "reminder"

\* What an execution read of the passes stays true until it queued the lines.
Due1(w) ==
    /\ \A a \in DOMAIN run[w].due :
          /\ Known(a, run[w].due[a])
          /\ Queued(a, run[w].due[a]) => Current(a, run[w].due[a])
    /\ \A a \in Attestations : \A p \in Periods : Queued(a, p) =>
          (a \in DOMAIN run[w].due /\ run[w].due[a] = p) \/ Gone(a, p)

Lines1(w) ==
    /\ run[w].at = "reading" =>
          IF run[w].phase = "remind" THEN AreNew(w, run[w].lines) ELSE NoReminders(run[w].lines)
    /\ run[w].at = "queueing" =>
          IF run[w].phase = "remind" THEN AreNew(w, Fresh(w)) ELSE NoReminders(Fresh(w))

QueuedOnce ==
    \A i, j \in DOMAIN queued : queued[i] = queued[j] /\ queued[i].what = "reminder" => i = j

KeysKnown ==
    \A a \in Attestations : \A p \in Periods :
        Queued(a, p) => Known(a, p) /\ (Current(a, p) \/ Gone(a, p))

AttestedPast == \A a \in Attestations : attested[a] # None => attested[a] <= day

KeysInv ==
    /\ AttestedPast
    /\ ~lost => /\ QueuedOnce /\ KeysKnown
                /\ \A w \in Workers : (Holds(w) => Due1(w)) /\ Lines1(w)

\* Due periods stay known and gone as days pass and the owner attests.
LEMMA PeriodsStay ==
    ASSUME Typed, AttestedPast, World
    PROVE  /\ AttestedPast'
           /\ \A a \in Attestations : \A p \in Periods :
                 (Known(a, p) => Known(a, p)') /\ (Gone(a, p) => Gone(a, p)')
  <1>1. /\ day \in 0..LastDay /\ attested \in [Attestations -> 0..LastDay \cup {None}]
        /\ None \notin Nat /\ Period \in Nat /\ LastDay \in Nat /\ Period > 0
    BY DEF Typed, WorldTyped, EvidenceAssumption
  <1>2. day' \in Nat /\ day <= day'
    <2>1. day' = day \/ day' = day + 1
      BY DEF World, NextDay, LinkGap, RetireGap, Attest, Outside
    <2> QED BY <1>1, <2>1
  <1>3. \A a \in Attestations : attested'[a] = attested[a] \/ attested'[a] = day
    BY <1>1 DEF World, NextDay, LinkGap, RetireGap, Attest, Outside
  <1>4. ASSUME NEW a \in Attestations
        PROVE  /\ attested[a] # None => attested[a] \in Nat /\ attested[a] <= day
               /\ attested[a] # None => attested'[a] # None /\ attested'[a] \in Nat
                                        /\ attested[a] <= attested'[a]
               /\ attested'[a] # None => attested'[a] <= day'
    BY <1>1, <1>2, <1>3 DEF AttestedPast
  <1>5. AttestedPast'
    BY <1>4 DEF AttestedPast
  <1>6. ASSUME NEW a \in Attestations, NEW p \in Periods
        PROVE  (Known(a, p) => Known(a, p)') /\ (Gone(a, p) => Gone(a, p)')
    <2>1. p # None => p \in Nat
      BY DEF Periods
    <2> QED BY <1>1, <1>2, <1>4, <2>1 DEF Known, Gone
  <1> QED BY <1>5, <1>6

LEMMA HeldStays ==
    ASSUME UNCHANGED <<queued, reminded>>, NEW v \in Workers, run'[v] = run[v],
           \A a \in Attestations : \A p \in Periods :
                 (Known(a, p) => Known(a, p)') /\ (Gone(a, p) => Gone(a, p)'),
           run[v] \in RunRow
    PROVE  (Due1(v) => Due1(v)') /\ (Lines1(v) => Lines1(v)')
  <1>1. run[v].due \in Due
    BY Fields
  <1>2. Due1(v) => Due1(v)'
    BY <1>1, DueFields DEF Due1, Queued, Current
  <1>3. Lines1(v) => Lines1(v)'
    <2>1. Fresh(v)' = Fresh(v)
      BY DEF Fresh
    <2>2. AreNew(v, run[v].lines) => AreNew(v, run[v].lines)'
      BY DEF AreNew, Queued
    <2>3. AreNew(v, Fresh(v)) => AreNew(v, Fresh(v))'
      BY <2>1 DEF AreNew, Queued
    <2>4. /\ NoReminders(run[v].lines) => NoReminders(run[v].lines)'
          /\ NoReminders(Fresh(v)) => NoReminders(Fresh(v))'
      BY <2>1 DEF NoReminders
    <2> QED BY <2>2, <2>3, <2>4 DEF Lines1
  <1> QED BY <1>2, <1>3

LEMMA KeysWorld ==
    ASSUME Ruled, KeysInv, World
    PROVE  KeysInv'
  <1>1. UNCHANGED <<alerting, run, lost>> /\ Typed
    BY WorldKeeps DEF Ruled
  <1>2. /\ AttestedPast'
        /\ \A a \in Attestations : \A p \in Periods :
                 (Known(a, p) => Known(a, p)') /\ (Gone(a, p) => Gone(a, p)')
    BY <1>1, PeriodsStay DEF KeysInv
  <1>3. \A w \in Workers : (Due1(w) => Due1(w)') /\ (Lines1(w) => Lines1(w)')
    BY <1>1, <1>2, Rows, HeldStays DEF alerting
  <1>4. \A w \in Workers : Holds(w)' => Holds(w)
    BY <1>1 DEF Holds
  <1>5. QueuedOnce => QueuedOnce'
    BY <1>1 DEF QueuedOnce, alerting
  <1>6. KeysKnown => KeysKnown'
    BY <1>1, <1>2 DEF KeysKnown, Queued, Current, alerting
  <1> QED BY <1>1, <1>2, <1>3, <1>4, <1>5, <1>6 DEF KeysInv

LEMMA SamePeriods ==
    ASSUME UNCHANGED <<day, attested>>
    PROVE  \A a, p : (Known(a, p)' <=> Known(a, p)) /\ (Gone(a, p)' <=> Gone(a, p))
  BY DEF Known, Gone

\* A step of w that adds no line and remembers nothing.
LEMMA KeysStay ==
    ASSUME Ruled, KeysInv, NEW w \in Workers, Step(w), UNCHANGED <<queued, reminded>>,
           ~lost => (Holds(w)' => Due1(w)') /\ Lines1(w)'
    PROVE  KeysInv'
  <1>1. UNCHANGED <<day, attested, lost>>
    BY StepKeepsLost DEF world
  <1>2. AttestedPast'
    BY <1>1 DEF KeysInv, AttestedPast
  <1>3. ASSUME ~lost
        PROVE  /\ QueuedOnce' /\ KeysKnown'
               /\ \A v \in Workers : (Holds(v)' => Due1(v)') /\ Lines1(v)'
    <2>1. QueuedOnce'
      BY <1>3 DEF KeysInv, QueuedOnce
    <2>2. KeysKnown'
      BY <1>1, <1>3, SamePeriods DEF KeysInv, KeysKnown, Queued, Current
    <2>3. ASSUME NEW v \in Workers PROVE (Holds(v)' => Due1(v)') /\ Lines1(v)'
      <3>1. CASE v = w
        BY <1>3, <3>1
      <3>2. CASE v # w
        BY <1>3, <3>2, OthersRest DEF Holds, Lines1
      <3> QED BY <3>1, <3>2
    <2> QED BY <2>1, <2>2, <2>3
  <1> QED BY <1>1, <1>2, <1>3 DEF KeysInv

\* A step after which w holds no due periods and no lines.
LEMMA NothingHeld ==
    ASSUME NEW w \in Workers, run'[w].at \notin {"recalling", "reading", "queueing", "remembering"}
    PROVE  (Holds(w)' => Due1(w)') /\ Lines1(w)'
  <1>1. run'[w].at # "recalling" /\ run'[w].at # "reading" /\ run'[w].at # "queueing"
        /\ run'[w].at # "remembering"
    OBVIOUS
  <1> QED BY <1>1 DEF Holds, Lines1

LEMMA ReminderNames ==
    ASSUME NEW a, NEW b, NEW p, NEW q
    PROVE  /\ Reminder(a, p) = Reminder(b, q) <=> a = b /\ p = q
           /\ Reminder(a, p).what = "reminder"
  BY DEF Reminder

\* Two lists of lines, each with its reminders once and with none in common.
LEMMA OnceInBoth ==
    ASSUME NEW q \in Seq(Line), NEW f \in Seq(Line),
           \A i, j \in DOMAIN q : q[i] = q[j] /\ q[i].what = "reminder" => i = j,
           \A i, j \in DOMAIN f : f[i] = f[j] /\ f[i].what = "reminder" => i = j,
           \A k \in DOMAIN f : f[k].what = "reminder" => f[k] \notin Range(q)
    PROVE  \A i, j \in DOMAIN (q \o f) :
               (q \o f)[i] = (q \o f)[j] /\ (q \o f)[i].what = "reminder" => i = j
  <1>1. /\ Len(q) \in Nat /\ Len(f) \in Nat
        /\ DOMAIN q = 1..Len(q) /\ DOMAIN f = 1..Len(f)
        /\ DOMAIN (q \o f) = 1..(Len(q) + Len(f))
        /\ \A i \in 1..Len(q) : (q \o f)[i] = q[i]
        /\ \A i \in 1..Len(f) : (q \o f)[Len(q) + i] = f[i]
    OBVIOUS
  <1> DEFINE both == q \o f
  <1> SUFFICES ASSUME NEW i \in DOMAIN both, NEW j \in DOMAIN both,
                      both[i] = both[j], both[i].what = "reminder"
               PROVE  i = j
    OBVIOUS
  <1>2. ASSUME NEW k \in DOMAIN both, k > Len(q)
        PROVE  k - Len(q) \in DOMAIN f /\ both[k] = f[k - Len(q)]
    <2>1. k - Len(q) \in 1..Len(f) /\ k = Len(q) + (k - Len(q))
      BY <1>1, <1>2
    <2> QED BY <1>1, <2>1
  <1>3. ASSUME NEW k \in DOMAIN both, k <= Len(q)
        PROVE  k \in DOMAIN q /\ both[k] = q[k] /\ both[k] \in Range(q)
    <2>1. k \in 1..Len(q)
      BY <1>1, <1>3
    <2> QED BY <1>1, <2>1 DEF Range
  <1>4. i \in Nat /\ j \in Nat
    BY <1>1
  <1> HIDE DEF both
  <1>5. CASE i <= Len(q) /\ j <= Len(q)
    BY <1>3, <1>5
  <1>6. CASE i > Len(q) /\ j > Len(q)
    <2>1. i - Len(q) = j - Len(q)
      BY <1>2, <1>6
    <2> QED BY <1>1, <1>4, <2>1
  <1>7. CASE i <= Len(q) /\ j > Len(q)
    BY <1>2, <1>3, <1>7
  <1>8. CASE i > Len(q) /\ j <= Len(q)
    BY <1>2, <1>3, <1>8
  <1> QED BY <1>1, <1>4, <1>5, <1>6, <1>7, <1>8

\* What the execution w is about to queue, in either phase.
LEMMA ToQueue ==
    ASSUME Ruled, KeysInv, ~lost, NEW w \in Workers, run[w].at = "queueing"
    PROVE  /\ Fresh(w) \in Seq(Line)
           /\ \A k \in DOMAIN Fresh(w) : Fresh(w)[k].what = "reminder" =>
                 /\ run[w].phase = "remind" /\ Fresh(w)[k] \notin Range(queued)
                 /\ \E a \in DOMAIN run[w].due : Fresh(w)[k] = Reminder(a, run[w].due[a])
           /\ \A j, k \in DOMAIN Fresh(w) :
                 Fresh(w)[j] = Fresh(w)[k] /\ Fresh(w)[j].what = "reminder" => j = k
  <1>1. Fresh(w) \in Seq(Line)
    BY FreshOf DEF Ruled
  <1>2. IF run[w].phase = "remind" THEN AreNew(w, Fresh(w)) ELSE NoReminders(Fresh(w))
    BY DEF KeysInv, Lines1
  <1>3. CASE run[w].phase = "remind"
    BY <1>1, <1>2, <1>3 DEF AreNew, Queued
  <1>4. CASE run[w].phase # "remind"
    BY <1>1, <1>2, <1>4 DEF NoReminders
  <1> QED BY <1>3, <1>4

LEMMA KeysQueue ==
    ASSUME Ruled, KeysInv, NEW w \in Workers, Step(w), Queue(w)
    PROVE  KeysInv'
  <1>1. /\ UNCHANGED <<day, attested, lost>> /\ run'[w].at = "sending"
        /\ run[w].at = "queueing" /\ Typed
    BY StepKeepsLost, QueueRowOf DEF world, Ruled, Queue
  <1>2. AttestedPast'
    BY <1>1 DEF KeysInv, AttestedPast
  <1>3. ASSUME ~lost
        PROVE  /\ QueuedOnce' /\ KeysKnown'
               /\ \A v \in Workers : (Holds(v)' => Due1(v)') /\ Lines1(v)'
    <2>1. QueuedOnce'
      <3>1. queued \in Seq(Line) /\ queued' = queued \o Fresh(w)
        BY <1>1 DEF Typed, AlertTyped, Queue
      <3>2. \A i, j \in DOMAIN queued :
               queued[i] = queued[j] /\ queued[i].what = "reminder" => i = j
        BY <1>3 DEF KeysInv, QueuedOnce
      <3>3. \A i, j \in DOMAIN (queued \o Fresh(w)) :
               (queued \o Fresh(w))[i] = (queued \o Fresh(w))[j]
               /\ (queued \o Fresh(w))[i].what = "reminder" => i = j
        BY <1>1, <1>3, <3>1, <3>2, ToQueue, OnceInBoth
      <3> QED BY <3>1, <3>3 DEF QueuedOnce
    <2>2. KeysKnown'
      <3> SUFFICES ASSUME NEW a \in Attestations, NEW p \in Periods, Queued(a, p)'
                   PROVE  Known(a, p)' /\ (Current(a, p)' \/ Gone(a, p)')
        BY DEF KeysKnown
      <3>1. Queued(a, p) \/ Reminder(a, p) \in Range(Fresh(w))
        BY <1>1, QueueAdds DEF Ruled, Queued
      <3>2. ASSUME Reminder(a, p) \in Range(Fresh(w))
            PROVE  run[w].phase = "remind" /\ a \in DOMAIN run[w].due /\ run[w].due[a] = p
        <4>1. PICK k \in DOMAIN Fresh(w) : Fresh(w)[k] = Reminder(a, p)
          BY <3>2 DEF Range
        <4>2. PICK b \in DOMAIN run[w].due : Fresh(w)[k] = Reminder(b, run[w].due[b])
          BY <1>1, <1>3, <4>1, ToQueue, ReminderNames
        <4>3. run[w].phase = "remind"
          BY <1>1, <1>3, <4>1, ToQueue, ReminderNames
        <4>4. Reminder(a, p) = Reminder(b, run[w].due[b])
          BY <4>1, <4>2
        <4>5. a = b /\ p = run[w].due[b]
          BY <4>4 DEF Reminder
        <4> QED BY <4>2, <4>3, <4>5
      <3>3. CASE run[w].phase = "remind"
        <4>1. Holds(w) /\ Due1(w)
          BY <1>1, <1>3, <3>3 DEF Holds, KeysInv
        <4>2. reminded' = run[w].due
          BY <3>3 DEF Queue
        <4>3. Known(a, p)
          BY <1>3, <3>1, <3>2, <4>1 DEF KeysInv, KeysKnown, Due1
        <4>4. (a \in DOMAIN run[w].due /\ run[w].due[a] = p) \/ Gone(a, p)
          BY <3>1, <3>2, <4>1 DEF Due1
        <4> QED BY <1>1, <4>2, <4>3, <4>4, SamePeriods DEF Current
      <3>4. CASE run[w].phase # "remind"
        <4>1. Queued(a, p) /\ UNCHANGED reminded
          BY <3>1, <3>2, <3>4 DEF Queue
        <4> QED BY <1>1, <1>3, <4>1, SamePeriods DEF KeysInv, KeysKnown, Current
      <3> QED BY <3>3, <3>4
    <2>3. ASSUME NEW v \in Workers PROVE (Holds(v)' => Due1(v)') /\ Lines1(v)'
      <3>1. CASE v = w
        BY <1>1, <3>1, NothingHeld
      <3>2. CASE v # w
        BY <1>3, <3>2, OthersRest DEF Holds, Lines1
      <3> QED BY <3>1, <3>2
    <2> QED BY <2>1, <2>2, <2>3
  <1> QED BY <1>1, <1>2, <1>3 DEF KeysInv

LEMMA DueNowIs ==
    ASSUME Typed, NEW a
    PROVE  /\ a \in DOMAIN DueNow <=>
                 a \in Attestations /\ (attested[a] = None \/ day >= attested[a] + Period)
           /\ a \in DOMAIN DueNow =>
                 DueNow[a] = IF attested[a] = None THEN None ELSE attested[a] + Period
  BY DEF DueNow

LEMMA KeysReadPasses ==
    ASSUME Ruled, KeysInv, NEW w \in Workers, Step(w), ReadPasses(w)
    PROVE  KeysInv'
  <1>1. /\ run'[w].at = "recalling" /\ run'[w].due = DueNow
        /\ UNCHANGED <<queued, reminded, day, attested>> /\ Typed
    BY StepKeepsLost, ReadPassesRowOf DEF world, Ruled, alerting
  <1>2. /\ day \in Nat /\ \A a \in Attestations : attested[a] # None => attested[a] \in Nat
        /\ None \notin Nat /\ Period \in Nat
    BY <1>1 DEF Typed, WorldTyped, EvidenceAssumption
  <1>3. ASSUME ~lost PROVE Due1(w)'
    <2>1. ASSUME NEW a \in DOMAIN DueNow
          PROVE  /\ Known(a, DueNow[a])
                 /\ Queued(a, DueNow[a]) => Current(a, DueNow[a])
      <3>1. /\ a \in Attestations /\ (attested[a] = None \/ day >= attested[a] + Period)
            /\ DueNow[a] = IF attested[a] = None THEN None ELSE attested[a] + Period
        BY <1>1, DueNowIs
      <3>2. Known(a, DueNow[a]) /\ ~Gone(a, DueNow[a])
        BY <1>2, <3>1 DEF Known, Gone
      <3>3. DueNow[a] \in Periods
        BY <1>1, DueNowIsDue, DueFields
      <3> QED BY <1>3, <3>1, <3>2, <3>3 DEF KeysInv, KeysKnown
    <2>2. ASSUME NEW a \in Attestations, NEW p \in Periods, Queued(a, p)
          PROVE  (a \in DOMAIN DueNow /\ DueNow[a] = p) \/ Gone(a, p)
      <3>1. Known(a, p)
        BY <1>3, <2>2 DEF KeysInv, KeysKnown
      <3>2. p # None => p \in Nat
        BY DEF Periods
      <3> QED BY <1>1, <1>2, <3>1, <3>2, DueNowIs DEF Known, Gone
    <2> QED BY <1>1, <2>1, <2>2, SamePeriods DEF Due1, Queued, Current
  <1>4. Lines1(w)'
    BY <1>1 DEF Lines1
  <1> QED BY <1>1, <1>3, <1>4, KeysStay

LEMMA KeysRemember ==
    ASSUME Ruled, KeysInv, NEW w \in Workers, Step(w), Remember(w)
    PROVE  KeysInv'
  <1>1. /\ UNCHANGED <<queued, day, attested, lost>> /\ run'[w].at \notin AtAlert
        /\ reminded' = run[w].due /\ run[w].at = "remembering" /\ run[w].phase = "remind"
    BY StepKeepsLost, FollowingRowOf DEF world, Ruled, Remember, PhasesFit, PhaseFits
  <1>2. AttestedPast'
    BY <1>1 DEF KeysInv, AttestedPast
  <1>3. ASSUME ~lost
        PROVE  /\ QueuedOnce' /\ KeysKnown'
               /\ \A v \in Workers : (Holds(v)' => Due1(v)') /\ Lines1(v)'
    <2>1. Due1(w)
      BY <1>1, <1>3 DEF Holds, KeysInv
    <2>2. QueuedOnce'
      BY <1>1, <1>3 DEF KeysInv, QueuedOnce
    <2>3. KeysKnown'
      BY <1>1, <1>3, <2>1, SamePeriods DEF KeysInv, KeysKnown, Due1, Queued, Current
    <2>4. ASSUME NEW v \in Workers PROVE (Holds(v)' => Due1(v)') /\ Lines1(v)'
      <3>1. CASE v = w
        BY <1>1, <3>1, NothingHeld DEF AtAlert
      <3>2. CASE v # w
        BY <1>3, <3>2, OthersRest DEF Holds, Lines1
      <3> QED BY <3>1, <3>2
    <2> QED BY <2>2, <2>3, <2>4
  <1> QED BY <1>1, <1>2, <1>3 DEF KeysInv

LEMMA RemindersAreNew ==
    ASSUME NEW w \in Workers, NEW order \in Listings(News(w)), Due1(w)
    PROVE  AreNew(w, RemindersOf(w, order))
  <1>1. DOMAIN RemindersOf(w, order) = DOMAIN order
        /\ \A k \in DOMAIN order :
              RemindersOf(w, order)[k] = Reminder(order[k], run[w].due[order[k]])
    BY DEF RemindersOf
  <1>2. \A k \in DOMAIN order : order[k] \in News(w)
    BY DEF Listings
  <1>3. \A a \in News(w) : a \in DOMAIN run[w].due /\ ~Queued(a, run[w].due[a])
    BY DEF News, Due1, Current
  <1>4. ASSUME NEW j \in DOMAIN order, NEW k \in DOMAIN order,
               RemindersOf(w, order)[j] = RemindersOf(w, order)[k]
        PROVE  j = k
    <2>1. order[j] = order[k]
      BY <1>1, <1>4 DEF Reminder
    <2> QED BY <2>1 DEF Listings
  <1> HIDE DEF RemindersOf
  <1> QED BY <1>1, <1>2, <1>3, <1>4 DEF AreNew

LEMMA KeysRecall ==
    ASSUME Ruled, KeysInv, NEW w \in Workers, Step(w), Recall(w)
    PROVE  KeysInv'
  <1>1. /\ UNCHANGED <<queued, reminded, day, attested>> /\ Typed
        /\ run[w].at = "recalling" /\ run[w].phase = "remind"
    BY StepKeepsLost, RecallRowOf DEF world, Ruled, alerting, Recall, PhasesFit, PhaseFits
  <1>2. ASSUME ~lost PROVE (Holds(w)' => Due1(w)') /\ Lines1(w)'
    <2>1. Due1(w)
      BY <1>1, <1>2 DEF Holds, KeysInv
    <2>2. run'[w].due = run[w].due => Due1(w)'
      BY <1>1, <2>1, SamePeriods DEF Due1, Queued, Current
    <2>3. CASE /\ run'[w].at = "reading" /\ run'[w].phase = run[w].phase
               /\ run'[w].due = run[w].due
               /\ \E order \in Listings(News(w)) : run'[w].lines = RemindersOf(w, order)
      <3>1. AreNew(w, run'[w].lines)
        BY <2>1, <2>3, RemindersAreNew
      <3>2. AreNew(w, run[w].lines)'
        BY <1>1, <2>3, <3>1 DEF AreNew, Queued
      <3> QED BY <1>1, <2>2, <2>3, <3>2 DEF Lines1
    <2>4. CASE /\ News(w) = {} /\ run'[w].at = "remembering"
               /\ run'[w].due = run[w].due
      BY <2>2, <2>4 DEF Lines1
    <2>5. CASE run'[w].at \notin AtAlert
      BY <2>5, NothingHeld DEF AtAlert
    <2> QED BY <1>1, <2>3, <2>4, <2>5, RecallRowOf
  <1> QED BY <1>1, <1>2, KeysStay

LEMMA KeysReadPending ==
    ASSUME Ruled, KeysInv, NEW w \in Workers, Step(w), ReadPending(w)
    PROVE  KeysInv'
  <1>1. /\ UNCHANGED <<queued, reminded, day, attested>> /\ Typed /\ run[w].at = "reading"
    BY StepKeepsLost, ReadPendingRowOf DEF world, Ruled, alerting, ReadPending
  <1>2. ASSUME ~lost PROVE (Holds(w)' => Due1(w)') /\ Lines1(w)'
    <2>1. CASE run'[w].at \notin AtAlert
      BY <2>1, NothingHeld DEF AtAlert
    <2>2. CASE run'[w].at \in AtAlert
      <3>1. /\ run'[w].at \in {"queueing", "sending"} /\ run'[w].phase = run[w].phase
            /\ run'[w].due = run[w].due /\ Fresh(w)' = run[w].lines
        BY <1>1, <2>2, ReadPendingRowOf
      <3>2. Holds(w)' => Due1(w)'
        <4>1. Holds(w)' => Due1(w)
          BY <1>1, <1>2, <3>1 DEF Holds, KeysInv
        <4> QED BY <1>1, <3>1, <4>1, SamePeriods DEF Due1, Queued, Current
      <3>3. IF run[w].phase = "remind" THEN AreNew(w, run[w].lines) ELSE NoReminders(run[w].lines)
        BY <1>1, <1>2 DEF KeysInv, Lines1
      <3>4. AreNew(w, run[w].lines) => AreNew(w, Fresh(w))'
        BY <1>1, <3>1 DEF AreNew, Queued
      <3>5. NoReminders(run[w].lines) => NoReminders(Fresh(w))'
        BY <3>1 DEF NoReminders
      <3> QED BY <3>1, <3>2, <3>3, <3>4, <3>5 DEF Lines1
    <2> QED BY <2>1, <2>2
  <1> QED BY <1>1, <1>2, KeysStay

LEMMA KeysStep ==
    ASSUME Ruled, KeysInv, NEW w \in Workers, Step(w)
    PROVE  KeysInv'
  <1>0. Typed /\ PhasesFit /\ PhaseFits(run[w])
    BY DEF Ruled, PhasesFit
  <1>1. CASE QuietStep(w)
    <2>1. run'[w].at \notin AtAlert /\ UNCHANGED <<queued, reminded>>
      BY <1>0, <1>1, QuietRowOf
    <2> QED BY <2>1, NothingHeld, KeysStay DEF AtAlert
  <1>2. CASE Classify(w)
    <2>1. /\ run'[w].at = "reading" /\ run'[w].phase = "alert"
          /\ \A k \in DOMAIN run'[w].lines : run'[w].lines[k].what # "reminder"
          /\ UNCHANGED <<queued, reminded>>
      BY <1>0, <1>2, ClassifyRowOf DEF PhaseFits, Classify, alerting
    <2>2. (Holds(w)' => Due1(w)') /\ Lines1(w)'
      BY <2>1 DEF Holds, Lines1, NoReminders
    <2> QED BY <2>1, <2>2, KeysStay
  <1>3. CASE Send(w)
    BY <1>0, <1>3, SendRowOf, NothingHeld, KeysStay
  <1>4. CASE Clear(w)
    <2>1. run'[w].at \notin AtAlert /\ UNCHANGED <<queued, reminded>>
      BY <1>0, <1>4, FollowingRowOf DEF Clear
    <2> QED BY <2>1, NothingHeld, KeysStay DEF AtAlert
  <1> QED BY <1>0, <1>1, <1>2, <1>3, <1>4, QuietSteps, KeysReadPending, KeysQueue,
             KeysReadPasses, KeysRecall, KeysRemember DEF Alert, Remind

LEMMA KeysNext ==
    ASSUME Ruled, KeysInv, [Next]_vars
    PROVE  KeysInv'
  <1>1. CASE UNCHANGED <<world, alerting, run>> /\ (lost => lost')
    <2>1. \A w \in Workers : run[w] \in RunRow
      BY Rows DEF Ruled
    <2>2. \A a, p : (Known(a, p)' <=> Known(a, p)) /\ (Gone(a, p)' <=> Gone(a, p))
      BY <1>1, SamePeriods DEF world
    <2>3. \A w \in Workers : (Due1(w) => Due1(w)') /\ (Lines1(w) => Lines1(w)')
      BY <1>1, <2>1, <2>2, HeldStays DEF alerting
    <2>4. \A w \in Workers : Holds(w)' => Holds(w)
      BY <1>1 DEF Holds
    <2>5. (QueuedOnce => QueuedOnce') /\ (KeysKnown => KeysKnown')
          /\ (AttestedPast => AttestedPast')
      BY <1>1, <2>2 DEF QueuedOnce, KeysKnown, Queued, Current, AttestedPast, alerting, world
    <2> QED BY <1>1, <2>3, <2>4, <2>5 DEF KeysInv
  <1>2. CASE SessionLost
    BY <1>1, <1>2 DEF SessionLost
  <1>3. CASE UNCHANGED vars
    BY <1>1, <1>3 DEF vars
  <1> QED BY <1>2, <1>3, KeysStep, KeysWorld DEF Next

\* A due period counts as reminded only once its line was queued, and none is
\* reminded twice.
THEOREM EachPeriodOnce == Spec => []RemindedOnce
  <1>1. Init => Ruled /\ AllBacked /\ KeysInv
    <2> SUFFICES ASSUME Init PROVE Ruled /\ AllBacked /\ KeysInv
      OBVIOUS
    <2>1. \A w \in Workers : run[w] = Idle /\ Idle.at = "idle" /\ DOMAIN Idle.due = {}
      BY DEF Init, Idle, NoDue
    <2>2. DOMAIN queued = {} /\ Range(queued) = {} /\ DOMAIN reminded = {}
          /\ \A a \in Attestations : attested[a] = None
      BY DEF Init, NoDue, Range
    <2>3. AllBacked
      BY <2>1, <2>2 DEF AllBacked, Backed
    <2>4. KeysInv
      BY <2>1, <2>2 DEF KeysInv, AttestedPast, QueuedOnce, KeysKnown, Queued, Holds, Lines1
    <2> QED BY <2>3, <2>4, RuledInit
  <1>2. Ruled /\ AllBacked /\ KeysInv /\ [Next]_vars => (Ruled /\ AllBacked /\ KeysInv)'
    BY RuledNext, BackedNext, KeysNext
  <1>3. Ruled /\ AllBacked /\ KeysInv => RemindedOnce
    BY DEF AllBacked, KeysInv, QueuedOnce, Queued, RemindedOnce
  <1> QED BY <1>1, <1>2, <1>3, PTL DEF Spec

-------------------------------------------------------------------------------
(* The queued lines: each stays pending until it is delivered.              *)

\* s is the end of q.
IsEnd(s, q) ==
    /\ Len(s) <= Len(q)
    /\ \A i \in 1..Len(s) : s[i] = q[Len(q) - Len(s) + i]

Delivered(l) == \A x \in Recipients : <<l, x>> \in mailed

KeptOrDelivered ==
    \A i \in 1..Len(queued) :
        \/ i > Len(queued) - Len(pending)
        \/ Delivered(queued[i])
        \/ Len(queued) - i >= MaxPending

\* What w is about to queue begins with the pending lines.
Continues(w) ==
    run[w].at = "queueing" =>
        /\ run[w].to = Recipients
        /\ run[w].old = Len(pending) /\ run[w].old <= Len(run[w].lines)
        /\ \A i \in 1..run[w].old : run[w].lines[i] = pending[i]

\* Who is not in run[w].to anymore has all that w sends, with all that is pending.
Covers(w) ==
    run[w].at = "sending" =>
        /\ Range(pending) \subseteq Range(run[w].lines)
        /\ \A x \in Recipients \ run[w].to : \A l \in Range(run[w].lines) : <<l, x>> \in mailed

KeptInv ==
    ~lost => /\ IsEnd(pending, queued) /\ KeptOrDelivered
             /\ \A w \in Workers : Continues(w) /\ Covers(w)

LEMMA Joined ==
    ASSUME NEW S, NEW q \in Seq(S), NEW f \in Seq(S)
    PROVE  /\ q \o f \in Seq(S) /\ Len(q) \in Nat /\ Len(f) \in Nat
           /\ Len(q \o f) = Len(q) + Len(f)
           /\ \A i \in 1..Len(q) : (q \o f)[i] = q[i]
           /\ \A i \in 1..Len(f) : (q \o f)[Len(q) + i] = f[i]
  OBVIOUS

\* s is p with f behind it.
Splits(s, p, f) ==
    /\ Len(p) <= Len(s) /\ Len(f) = Len(s) - Len(p)
    /\ \A i \in 1..Len(p) : s[i] = p[i]
    /\ \A i \in 1..Len(f) : f[i] = s[Len(p) + i]

LEMMA PlacesMeet ==
    ASSUME NEW p \in Nat, NEW q \in Nat, NEW s \in Nat, NEW f \in Nat, NEW both \in Nat,
           p <= q, p <= s, f = s - p, both = q + f
    PROVE  /\ s <= both
           /\ \A i \in 1..s :
                 /\ i <= p => /\ i \in 1..p /\ q - p + i \in 1..q
                              /\ both - s + i = q - p + i
                 /\ i > p => /\ i - p \in 1..f /\ p + (i - p) = i
                             /\ q + (i - p) = both - s + i
  OBVIOUS

\* What was added behind the pending lines is added behind the queued ones.
LEMMA EndsMeet ==
    ASSUME NEW S, NEW p \in Seq(S), NEW q \in Seq(S), NEW s \in Seq(S), NEW f \in Seq(S),
           IsEnd(p, q), Splits(s, p, f)
    PROVE  IsEnd(s, q \o f)
  <1> DEFINE both == q \o f
  <1>1. Len(p) \in Nat /\ Len(q) \in Nat /\ Len(s) \in Nat /\ Len(f) \in Nat
    OBVIOUS
  <1>2. /\ Len(both) = Len(q) + Len(f) /\ Len(both) \in Nat
        /\ \A i \in 1..Len(q) : both[i] = q[i]
        /\ \A i \in 1..Len(f) : both[Len(q) + i] = f[i]
    BY Joined
  <1> HIDE DEF both
  <1>3. Len(p) <= Len(q) /\ Len(p) <= Len(s) /\ Len(f) = Len(s) - Len(p)
    BY DEF IsEnd, Splits
  <1>4. /\ Len(s) <= Len(both)
        /\ \A i \in 1..Len(s) :
              /\ i <= Len(p) => /\ i \in 1..Len(p) /\ Len(q) - Len(p) + i \in 1..Len(q)
                                /\ Len(both) - Len(s) + i = Len(q) - Len(p) + i
              /\ i > Len(p) => /\ i - Len(p) \in 1..Len(f) /\ Len(p) + (i - Len(p)) = i
                               /\ Len(q) + (i - Len(p)) = Len(both) - Len(s) + i
    BY <1>1, <1>2, <1>3, PlacesMeet
  <1>5. ASSUME NEW i \in 1..Len(s) PROVE s[i] = both[Len(both) - Len(s) + i]
    <2>1. CASE i <= Len(p)
      <3>1. s[i] = p[i] /\ p[i] = q[Len(q) - Len(p) + i]
        BY <1>4, <2>1 DEF IsEnd, Splits
      <3>2. both[Len(both) - Len(s) + i] = q[Len(q) - Len(p) + i]
        BY <1>2, <1>4, <2>1
      <3> QED BY <3>1, <3>2
    <2>2. CASE i > Len(p)
      <3>1. s[i] = f[i - Len(p)]
        BY <1>4, <2>2 DEF Splits
      <3>2. f[i - Len(p)] = both[Len(both) - Len(s) + i]
        BY <1>2, <1>4, <2>2
      <3> QED BY <3>1, <3>2
    <2> QED BY <1>1, <2>1, <2>2
  <1> QED BY <1>4, <1>5 DEF IsEnd, both

LEMMA YoungestEnds ==
    ASSUME NEW S, NEW s \in Seq(S), NEW q \in Seq(S), NEW n \in Nat, IsEnd(s, q)
    PROVE  IsEnd(Youngest(s, n), q)
  <1> DEFINE y == Youngest(s, n)
  <1>1. /\ y \in Seq(S) /\ Len(y) <= Len(s) /\ Len(s) <= Len(q)
        /\ \A i \in 1..Len(y) : y[i] = s[Len(s) - Len(y) + i]
        /\ \A i \in 1..Len(s) : s[i] = q[Len(q) - Len(s) + i]
    BY YoungestOf DEF IsEnd
  <1> HIDE DEF y
  <1>2. Len(y) \in Nat /\ Len(s) \in Nat /\ Len(q) \in Nat
    BY <1>1
  <1>3. ASSUME NEW i \in 1..Len(y) PROVE y[i] = q[Len(q) - Len(y) + i]
    <2>1. Len(s) - Len(y) + i \in 1..Len(s)
          /\ Len(q) - Len(s) + (Len(s) - Len(y) + i) = Len(q) - Len(y) + i
      BY <1>1, <1>2
    <2>2. y[i] = s[Len(s) - Len(y) + i]
      BY <1>1
    <2>3. s[Len(s) - Len(y) + i] = q[Len(q) - Len(s) + (Len(s) - Len(y) + i)]
      BY <1>1, <2>1
    <2> QED BY <2>1, <2>2, <2>3
  <1> QED BY <1>1, <1>3 DEF IsEnd, y

LEMMA YoungestWithin ==
    ASSUME NEW S, NEW s \in Seq(S), NEW n \in Nat
    PROVE  Range(Youngest(s, n)) \subseteq Range(s)
  <1> DEFINE y == Youngest(s, n)
  <1>1. /\ y \in Seq(S) /\ Len(y) <= Len(s)
        /\ \A i \in 1..Len(y) : y[i] = s[Len(s) - Len(y) + i]
    BY YoungestOf
  <1> HIDE DEF y
  <1>2. \A i \in 1..Len(y) : Len(s) - Len(y) + i \in 1..Len(s)
    BY <1>1
  <1>3. \A i \in DOMAIN y : y[i] \in Range(s)
    BY <1>1, <1>2 DEF Range
  <1> QED BY <1>3 DEF Range, y

LEMMA KeptQueue ==
    ASSUME Ruled, KeptInv, ~lost, NEW w \in Workers, Queue(w)
    PROVE  IsEnd(pending, queued)' /\ KeptOrDelivered' /\ Covers(w)'
  <1> DEFINE s == run[w].lines
             f == Fresh(w)
  <1>1. /\ Typed /\ pending \in Seq(Line) /\ queued \in Seq(Line)
        /\ s \in Seq(Line) /\ f \in Seq(Line) /\ MaxPending \in Nat
    BY Rows, Fields, FreshOf DEF Ruled, Typed, AlertTyped, EvidenceAssumption
  <1>2. /\ run[w].to = Recipients /\ run[w].old = Len(pending) /\ Len(pending) <= Len(s)
        /\ \A i \in 1..Len(pending) : s[i] = pending[i]
        /\ IsEnd(pending, queued) /\ KeptOrDelivered
    BY DEF KeptInv, Continues, Queue
  <1>3. /\ Len(f) = Len(s) - Len(pending)
        /\ \A i \in 1..Len(f) : f[i] = s[Len(pending) + i]
    BY <1>1, <1>2, FreshOf
  <1>4. /\ pending' = Youngest(s, MaxPending) /\ queued' = queued \o f
        /\ run'[w].lines = s /\ run'[w].to = Recipients /\ UNCHANGED mailed
    BY <1>1, <1>2, QueueRowOf DEF Queue
  <1> HIDE DEF s, f
  <1>5. IsEnd(s, queued')
    <2>1. Splits(s, pending, f)
      BY <1>2, <1>3 DEF Splits
    <2> QED BY <1>1, <1>2, <1>4, <2>1, EndsMeet
  <1>6. /\ Len(pending') = IF Len(s) <= MaxPending THEN Len(s) ELSE MaxPending
        /\ IsEnd(pending', queued')
    <2>1. queued' \in Seq(Line)
      BY <1>1, <1>4, Joined
    <2>2. IsEnd(Youngest(s, MaxPending), queued')
      BY <1>1, <1>5, <2>1, YoungestEnds
    <2>3. Len(Youngest(s, MaxPending)) = IF Len(s) <= MaxPending THEN Len(s) ELSE MaxPending
      BY <1>1, YoungestOf
    <2> QED BY <1>4, <2>2, <2>3
  <1>7. KeptOrDelivered'
    <2>1. /\ Len(pending) \in Nat /\ Len(queued) \in Nat /\ Len(s) \in Nat /\ Len(f) \in Nat
          /\ Len(queued') = Len(queued) + Len(f)
          /\ \A i \in 1..Len(queued) : queued'[i] = queued[i]
          /\ MaxPending \in Nat
      BY <1>1, <1>4, Joined
    <2>2. Len(pending') \in Nat
      BY <1>6, <2>1
    <2>3. ASSUME NEW i \in 1..Len(queued'), ~(i > Len(queued') - Len(pending')),
                 ~(Len(queued') - i >= MaxPending)
          PROVE  Delivered(queued[i])'
      <3>1. i <= Len(queued') - Len(s)
        <4>1. i \in Nat /\ Len(queued') \in Nat
          BY <2>1
        <4>2. CASE Len(s) <= MaxPending
          <5>1. Len(pending') = Len(s)
            BY <1>6, <4>2
          <5> QED BY <2>1, <2>3, <4>1, <5>1
        <4>3. CASE Len(s) > MaxPending
          <5>1. Len(pending') = MaxPending
            BY <1>6, <2>1, <4>3
          <5> QED BY <2>1, <2>3, <4>1, <5>1
        <4> QED BY <2>1, <4>2, <4>3
      <3>2. i \in 1..Len(queued) /\ ~(i > Len(queued) - Len(pending))
            /\ ~(Len(queued) - i >= MaxPending)
        BY <1>2, <1>3, <2>1, <2>3, <3>1
      <3>3. Delivered(queued[i])
        BY <1>2, <3>2 DEF KeptOrDelivered
      <3>4. queued'[i] = queued[i]
        BY <2>1, <3>2
      <3> QED BY <1>4, <3>3, <3>4 DEF Delivered
    <2> QED BY <2>3 DEF KeptOrDelivered
  <1>8. Covers(w)'
    <2>1. Range(pending') \subseteq Range(s)
      BY <1>1, <1>4, YoungestWithin
    <2> QED BY <1>4, <2>1 DEF Covers
  <1> QED BY <1>6, <1>7, <1>8

LEMMA KeptSend ==
    ASSUME Ruled, KeptInv, ~lost, NEW w \in Workers, Send(w)
    PROVE  IsEnd(pending, queued)' /\ KeptOrDelivered' /\ Covers(w)'
  <1>1. Typed /\ Covers(w) /\ run[w].at = "sending" /\ KeptOrDelivered /\ IsEnd(pending, queued)
    BY DEF Ruled, KeptInv, Send
  <1>2. /\ run'[w].lines = run[w].lines /\ UNCHANGED <<pending, queued>>
        /\ \E x \in run[w].to : /\ run'[w].to = run[w].to \ {x}
                                /\ mailed' = mailed \cup (Range(run[w].lines) \X {x})
    BY <1>1, SendRowOf
  <1>3. mailed \subseteq mailed'
    BY <1>2
  <1>4. KeptOrDelivered'
    BY <1>1, <1>2, <1>3 DEF KeptOrDelivered, Delivered
  <1>5. Covers(w)'
    BY <1>1, <1>2 DEF Covers
  <1> QED BY <1>1, <1>2, <1>4, <1>5 DEF IsEnd

LEMMA KeptClear ==
    ASSUME Ruled, KeptInv, ~lost, NEW w \in Workers, Clear(w)
    PROVE  IsEnd(pending, queued)' /\ KeptOrDelivered'
  <1>1. /\ Typed /\ Covers(w) /\ run[w].at = "sending" /\ run[w].to = {}
        /\ KeptOrDelivered /\ IsEnd(pending, queued)
        /\ pending' = <<>> /\ UNCHANGED <<queued, mailed>>
        /\ pending \in Seq(Line) /\ queued \in Seq(Line)
    BY DEF Ruled, KeptInv, Clear, Typed, AlertTyped
  <1>2. \A l \in Range(pending) : Delivered(l)
    BY <1>1 DEF Covers, Delivered
  <1>3. Len(pending) \in Nat /\ Len(queued) \in Nat /\ Len(pending) <= Len(queued)
    BY <1>1 DEF IsEnd
  <1>4. ASSUME NEW i \in 1..Len(queued), i > Len(queued) - Len(pending)
        PROVE  Delivered(queued[i])
    <2> DEFINE k == i - (Len(queued) - Len(pending))
    <2>1. k \in 1..Len(pending) /\ Len(queued) - Len(pending) + k = i
      BY <1>3, <1>4
    <2> HIDE DEF k
    <2>2. pending[k] = queued[i]
      BY <1>1, <2>1 DEF IsEnd
    <2>3. pending[k] \in Range(pending)
      BY <1>1, <2>1 DEF Range
    <2> QED BY <1>2, <2>2, <2>3
  <1>5. \A i \in 1..Len(queued) : Delivered(queued[i]) \/ Len(queued) - i >= MaxPending
    BY <1>1, <1>4 DEF KeptOrDelivered
  <1>6. KeptOrDelivered'
    BY <1>1, <1>5 DEF KeptOrDelivered, Delivered
  <1>7. IsEnd(pending, queued)'
    BY <1>1, <1>3 DEF IsEnd
  <1> QED BY <1>6, <1>7

LEMMA KeptReadPending ==
    ASSUME Ruled, NEW w \in Workers, ReadPending(w)
    PROVE  UNCHANGED <<pending, queued, mailed>> /\ Continues(w)' /\ Covers(w)'
  <1>1. /\ Typed /\ pending \in Seq(Line) /\ run[w].lines \in Seq(Line)
    BY Rows, Fields DEF Ruled, Typed, AlertTyped
  <1>2. UNCHANGED <<pending, queued, mailed>>
    BY <1>1, ReadPendingRowOf DEF alerting
  <1>3. CASE run'[w].at \notin AtAlert
    BY <1>2, <1>3 DEF AtAlert, Continues, Covers
  <1>4. CASE run'[w].at \in AtAlert
    <2> DEFINE p == pending
               t == run[w].lines
    <2>1. run'[w].to = Recipients /\ run'[w].lines = p \o t /\ run'[w].old = Len(p)
      BY <1>1, <1>4, ReadPendingRowOf
    <2>2. p \in Seq(Line) /\ t \in Seq(Line)
      BY <1>1
    <2> HIDE DEF t
    <2>3. Len(p) <= Len(p \o t) /\ \A i \in 1..Len(p) : (p \o t)[i] = p[i]
      BY <2>2
    <2>4. Range(p) \subseteq Range(p \o t)
      BY <2>2, RangeOfBoth
    <2> HIDE DEF p
    <2>5. Continues(w)'
      BY <1>2, <2>1, <2>3 DEF Continues, p
    <2>6. Covers(w)'
      BY <1>2, <2>1, <2>4 DEF Covers, p
    <2> QED BY <1>2, <2>5, <2>6
  <1> QED BY <1>3, <1>4

LEMMA KeptStep ==
    ASSUME Ruled, KeptInv, NEW w \in Workers, Step(w)
    PROVE  KeptInv'
  <1>0. Typed /\ PhasesFit /\ UNCHANGED lost
    BY StepKeepsLost DEF Ruled
  <1> SUFFICES ASSUME ~lost
               PROVE  /\ IsEnd(pending, queued)' /\ KeptOrDelivered'
                      /\ \A v \in Workers : Continues(v)' /\ Covers(v)'
    BY <1>0 DEF KeptInv
  <1>1. \A v \in Workers : v # w => Continues(v)' /\ Covers(v)'
    BY OthersRest DEF Continues, Covers
  <1>2. UNCHANGED <<pending, queued, mailed>> => IsEnd(pending, queued)' /\ KeptOrDelivered'
    BY DEF KeptInv, IsEnd, KeptOrDelivered, Delivered
  <1>3. run'[w].at \notin {"queueing", "sending"} => Continues(w)' /\ Covers(w)'
    BY DEF Continues, Covers
  <1>4. CASE QuietStep(w) \/ Remind(w)
    <2>1. UNCHANGED <<pending, queued, mailed>> /\ run'[w].at \notin {"queueing", "sending"}
      <3>1. CASE QuietStep(w)
        BY <1>0, <3>1, QuietRowOf DEF AtAlert
      <3>2. CASE ReadPasses(w)
        BY <1>0, <3>2, ReadPassesRowOf DEF alerting
      <3>3. CASE Recall(w)
        BY <1>0, <3>3, RecallRowOf DEF alerting, AtAlert
      <3>4. CASE Remember(w)
        BY <1>0, <3>4, FollowingRowOf DEF Remember, AtAlert
      <3> QED BY <1>4, <3>1, <3>2, <3>3, <3>4 DEF Remind
    <2> QED BY <1>1, <1>2, <1>3, <2>1
  <1>5. CASE Classify(w)
    <2>1. UNCHANGED <<pending, queued, mailed>> /\ run'[w].at \notin {"queueing", "sending"}
      BY <1>0, <1>5, ClassifyRowOf DEF alerting
    <2> QED BY <1>1, <1>2, <1>3, <2>1
  <1>6. CASE ReadPending(w)
    BY <1>1, <1>2, <1>6, KeptReadPending
  <1>7. CASE Queue(w)
    <2>1. Continues(w)'
      BY <1>0, <1>7, QueueRowOf DEF Continues
    <2> QED BY <1>1, <1>7, <2>1, KeptQueue
  <1>8. CASE Send(w)
    <2>1. Continues(w)'
      BY <1>0, <1>8, SendRowOf DEF Continues
    <2> QED BY <1>1, <1>8, <2>1, KeptSend
  <1>9. CASE Clear(w)
    <2>1. run'[w].at \notin {"queueing", "sending"}
      BY <1>0, <1>9, FollowingRowOf DEF Clear, AtAlert
    <2> QED BY <1>1, <1>3, <1>9, <2>1, KeptClear
  <1> QED BY <1>0, <1>4, <1>5, <1>6, <1>7, <1>8, <1>9, QuietSteps DEF Alert

LEMMA KeptNext ==
    ASSUME Ruled, KeptInv, [Next]_vars
    PROVE  KeptInv'
  <1>1. CASE UNCHANGED <<alerting, run>> /\ (lost => lost')
    BY <1>1 DEF KeptInv, IsEnd, KeptOrDelivered, Delivered, Continues, Covers, alerting
  <1>2. CASE SessionLost
    BY <1>1, <1>2 DEF SessionLost
  <1>3. CASE UNCHANGED vars
    BY <1>1, <1>3 DEF vars
  <1>4. CASE World
    BY <1>1, <1>4, WorldKeeps
  <1> QED BY <1>2, <1>3, <1>4, KeptStep DEF Next

\* No queued line is lost before it is delivered, short of MaxPending younger ones.
THEOREM QueuedStays == Spec => []QueuedIsKept
  <1>1. Init => Ruled /\ KeptInv
    <2> SUFFICES ASSUME Init PROVE KeptInv
      BY RuledInit
    <2>1. \A w \in Workers : run[w].at = "idle"
      BY DEF Init, Idle
    <2>2. pending = <<>> /\ queued = <<>> /\ Len(queued) = 0 /\ Len(pending) = 0
      BY DEF Init
    <2> QED BY <2>1, <2>2 DEF KeptInv, IsEnd, KeptOrDelivered, Continues, Covers
  <1>2. Ruled /\ KeptInv /\ [Next]_vars => (Ruled /\ KeptInv)'
    BY RuledNext, KeptNext
  <1>3. Ruled /\ KeptInv => QueuedIsKept
    <2> SUFFICES ASSUME Ruled, KeptInv, ~lost, NEW i \in DOMAIN queued
                 PROVE  \/ queued[i] \in Range(pending)
                        \/ \A x \in Recipients : <<queued[i], x>> \in mailed
                        \/ Len(queued) - i >= MaxPending
      BY DEF QueuedIsKept
    <2>1. /\ queued \in Seq(Line) /\ pending \in Seq(Line) /\ i \in 1..Len(queued)
          /\ Len(queued) \in Nat /\ Len(pending) \in Nat
      BY DEF Ruled, Typed, AlertTyped
    <2>2. CASE i > Len(queued) - Len(pending)
      <3> DEFINE k == i - (Len(queued) - Len(pending))
      <3>1. IsEnd(pending, queued)
        BY DEF KeptInv
      <3>2. k \in 1..Len(pending) /\ Len(queued) - Len(pending) + k = i
        BY <2>1, <2>2, <3>1 DEF IsEnd
      <3> HIDE DEF k
      <3>3. queued[i] = pending[k] /\ k \in DOMAIN pending
        BY <2>1, <3>1, <3>2 DEF IsEnd
      <3> QED BY <3>3 DEF Range
    <2>3. CASE i <= Len(queued) - Len(pending)
      BY <2>1, <2>3 DEF KeptInv, KeptOrDelivered, Delivered
    <2> QED BY <2>1, <2>2, <2>3
  <1> QED BY <1>1, <1>2, <1>3, PTL DEF Spec

-------------------------------------------------------------------------------
(* The steps of the monthly summaries.                                      *)

AtSummary == {"storing", "looking", "mailing", "marking"}

SummaryStep(w) ==
    LookForMonths(w) \/ Store(w) \/ Look(w) \/ Mail(w) \/ Mark(w) \/ MailFails(w) \/ RunDies(w)

LEMMA FollowingLands ==
    ASSUME Typed, NEW w \in Workers, Goes(w, Following(w))
    PROVE  run'[w].at \notin AtSummary
  <1>1. run'[w] = Following(w)
    BY NewRow
  <1> QED BY <1>1, FollowingShape DEF FollowingRow, AtSummary

LEMMA ReturnsLands ==
    ASSUME Typed, NEW w \in Workers, Returns(w)
    PROVE  run'[w].at = "idle"
  <1>1. run'[w] = Idle
    BY NewRow DEF Returns
  <1> QED BY <1>1 DEF Idle

LEMMA OnwardLands ==
    ASSUME Typed, NEW w \in Workers, Onward(w)
    PROVE  run'[w].at \in {"idle", "looking"}
  <1>1. CASE run[w].month = run[w].last
    BY <1>1, ReturnsLands DEF Onward
  <1>2. CASE run[w].month # run[w].last
    <2> DEFINE row == [run[w] EXCEPT !.month = @ + 1, !.to = {}, !.at = "looking"]
    <2>1. row.at = "looking"
      BY Rows DEF RunRow
    <2>2. Goes(w, row)
      BY <1>2 DEF Onward
    <2> HIDE DEF row
    <2> QED BY <2>1, <2>2, NewRow
  <1> QED BY <1>1, <1>2

LEMMA PastLands ==
    ASSUME Typed, NEW w \in Workers, NEW x, Past(w, x)
    PROVE  \/ run'[w].at \in {"idle", "looking"}
           \/ /\ run'[w].at = "mailing" /\ run'[w].to = run[w].to \ {x}
              /\ run'[w].month = run[w].month
  <1>1. CASE run[w].to = {x}
    BY <1>1, OnwardLands DEF Past
  <1>2. CASE run[w].to # {x}
    <2> DEFINE row == [run[w] EXCEPT !.to = @ \ {x}, !.at = "mailing"]
    <2>1. row.at = "mailing" /\ row.to = run[w].to \ {x} /\ row.month = run[w].month
      BY Rows DEF RunRow
    <2>2. Goes(w, row)
      BY <1>2 DEF Past
    <2> HIDE DEF row
    <2> QED BY <2>1, <2>2, NewRow
  <1> QED BY <1>1, <1>2

\* Every other step leaves the summaries and their emails alone.
LEMMA OtherSteps ==
    ASSUME Typed, NEW w \in Workers, Step(w)
    PROVE  \/ SummaryStep(w)
           \/ /\ UNCHANGED monthly /\ run[w].at \notin AtSummary \ {"storing", "looking"}
              /\ run'[w].at \notin AtSummary
  <1> DEFINE Other == /\ UNCHANGED monthly /\ run[w].at \notin AtSummary \ {"storing", "looking"}
                      /\ run'[w].at \notin AtSummary
  <1>0. run[w] \in RunRow
    BY Rows
  <1>1. ASSUME NEW ids \in Lists, Start(w, ids) PROVE Other
    <2> DEFINE at == IF ids = <<>> THEN "classifying" ELSE "checking"
               row == [Idle EXCEPT !.at = at, !.no = runs + 1, !.left = ids]
    <2>1. row.at \in {"checking", "classifying"}
      BY DEF Idle
    <2>2. Goes(w, row)
      BY <1>1 DEF Start
    <2> HIDE DEF row
    <2> QED BY <1>1, <2>1, <2>2, NewRow DEF Start, AtSummary
  <1>2. ASSUME NEW result \in {"pass", "fail", "error"}, Check(w, result) PROVE Other
    <2> DEFINE row == [run[w] EXCEPT !.left = Tail(@),
                              !.mine = @ \cup {Len(receipts) + 1},
                              !.at = IF Len(run[w].left) = 1 THEN "classifying" ELSE "checking"]
    <2>1. row.at \in {"checking", "classifying"}
      BY <1>0 DEF RunRow
    <2>2. Goes(w, row)
      BY <1>2 DEF Check
    <2> HIDE DEF row
    <2> QED BY <1>2, <2>1, <2>2, NewRow DEF Check, AtSummary
  <1>3. ASSUME Classify(w) PROVE Other
    BY <1>3, ClassifyRowOf DEF Classify, AtSummary
  <1>4. ASSUME ReadPending(w) PROVE Other
    <2> DEFINE all == pending \o run[w].lines
               row == [run[w] EXCEPT !.lines = all, !.old = Len(pending), !.to = Recipients,
                                   !.at = IF run[w].lines = <<>> THEN "sending" ELSE "queueing"]
    <2>1. row.at \in {"sending", "queueing"}
      BY <1>0 DEF RunRow
    <2>2. Goes(w, row) \/ Goes(w, Following(w))
      BY <1>4 DEF ReadPending
    <2> HIDE DEF row
    <2>3. run'[w].at \notin AtSummary
      BY <2>1, <2>2, NewRow, FollowingLands DEF AtSummary
    <2> QED BY <1>4, <2>3 DEF ReadPending, AtSummary
  <1>5. ASSUME Queue(w) PROVE Other
    BY <1>5, QueueRowOf DEF Queue, AtSummary
  <1>6. ASSUME Send(w) PROVE Other
    BY <1>6, SendRowOf DEF Send, AtSummary
  <1>7. ASSUME Clear(w) PROVE Other
    BY <1>7, FollowingLands DEF Clear, AtSummary
  <1>8. ASSUME ReadPasses(w) PROVE Other
    BY <1>8, ReadPassesRowOf DEF ReadPasses, AtSummary
  <1>9. ASSUME Recall(w) PROVE Other
    <2>1. run'[w].at \notin AtSummary
      <3>1. ASSUME NEW order \in Listings(News(w)),
                   Goes(w, [run[w] EXCEPT !.at = "reading", !.lines = RemindersOf(w, order)])
            PROVE  run'[w].at \notin AtSummary
        <4> DEFINE row == [run[w] EXCEPT !.at = "reading", !.lines = RemindersOf(w, order)]
        <4>1. row.at = "reading" /\ run'[w] = row
          BY <1>0, <3>1, NewRow DEF RunRow
        <4> QED BY <4>1 DEF AtSummary
      <3>2. ASSUME Goes(w, [run[w] EXCEPT !.at = "remembering"]) PROVE run'[w].at \notin AtSummary
        <4> DEFINE row == [run[w] EXCEPT !.at = "remembering"]
        <4>1. row.at = "remembering" /\ run'[w] = row
          BY <1>0, <3>2, NewRow DEF RunRow
        <4> QED BY <4>1 DEF AtSummary
      <3> QED BY <1>9, <3>1, <3>2, FollowingLands, RecallCases
    <2> QED BY <1>9, <2>1 DEF Recall, AtSummary
  <1>10. ASSUME Remember(w) PROVE Other
    BY <1>10, FollowingLands DEF Remember, AtSummary
  <1>11. ASSUME PhaseFails(w) PROVE Other
    BY <1>11, FollowingLands, ReturnsLands DEF PhaseFails, AtSummary
  <1> HIDE DEF Other
  <1>12. Alert(w) \/ Remind(w) => Other
    BY <1>3, <1>4, <1>5, <1>6, <1>7, <1>8, <1>9, <1>10 DEF Alert, Remind
  <1>13. (\E ids \in Lists : Start(w, ids)) => Other
    BY <1>1
  <1>14. (\E result \in {"pass", "fail", "error"} : Check(w, result)) => Other
    BY <1>2
  <1>15. SummaryStep(w) \/ Other
    BY <1>11, <1>12, <1>13, <1>14 DEF Step, Summarise, SummaryStep
  <1> QED BY <1>15 DEF Other

LEMMA LookForMonthsRowOf ==
    ASSUME Typed, NEW w \in Workers, LookForMonths(w)
    PROVE  /\ run'[w].at \in {"looking", "storing"} /\ UNCHANGED monthly
           /\ run'[w].toMake = MonthsToCreate(Month(day) - 1)
  <1> DEFINE last == Month(day) - 1
             toMake == MonthsToCreate(last)
             row == [run[w] EXCEPT !.last = last, !.month = last - EmailMonths + 1,
                                  !.toMake = toMake,
                                  !.at = IF toMake = {} THEN "looking" ELSE "storing"]
  <1>1. Goes(w, row) /\ UNCHANGED monthly
    BY DEF LookForMonths
  <1>2. row.at \in {"looking", "storing"} /\ row.toMake = toMake
    BY Rows DEF RunRow
  <1> HIDE DEF row
  <1> QED BY <1>1, <1>2, NewRow

LEMMA StoreRowOf ==
    ASSUME Typed, NEW w \in Workers, Store(w)
    PROVE  /\ run'[w].at \in {"looking", "storing"} /\ UNCHANGED <<sent, letters>>
           /\ \E m \in run[w].toMake :
                 /\ First(m, run[w].toMake)
                 /\ run'[w].toMake = run[w].toMake \ {m}
                 /\ summaries' = IF m \in Summarised THEN summaries
                                 ELSE Append(summaries, [month |-> m, at |-> Month(day)])
  <1>1. PICK m \in run[w].toMake :
          /\ First(m, run[w].toMake)
          /\ summaries' = IF m \in Summarised THEN summaries
                          ELSE Append(summaries, [month |-> m, at |-> Month(day)])
          /\ Goes(w, [run[w] EXCEPT !.toMake = @ \ {m},
                                    !.at = IF run[w].toMake = {m} THEN "looking" ELSE "storing"])
    BY DEF Store
  <1> DEFINE row == [run[w] EXCEPT !.toMake = @ \ {m},
                                    !.at = IF run[w].toMake = {m} THEN "looking" ELSE "storing"]
  <1>2. row.at \in {"looking", "storing"} /\ row.toMake = run[w].toMake \ {m}
    BY Rows DEF RunRow
  <1>3. Goes(w, row)
    BY <1>1
  <1> HIDE DEF row
  <1>4. run'[w] = row
    BY <1>3, NewRow
  <1> QED BY <1>1, <1>2, <1>4 DEF Store

LEMMA LookRowOf ==
    ASSUME Typed, NEW w \in Workers, Look(w)
    PROVE  /\ UNCHANGED monthly
           /\ \/ run'[w].at \in {"idle", "looking"}
              \/ /\ run'[w].at = "mailing" /\ run'[w].month = run[w].month
                 /\ run'[w].to = Recipients \ sent[run[w].month]
                 /\ run[w].month \in Summarised
  <1>1. CASE Unserved(run[w].month) = {}
    BY <1>1, OnwardLands DEF Look
  <1>2. CASE Unserved(run[w].month) # {}
    <2> DEFINE row == [run[w] EXCEPT !.to = Unserved(run[w].month), !.at = "mailing"]
    <2>1. row.at = "mailing" /\ row.month = run[w].month /\ row.to = Unserved(run[w].month)
      BY Rows DEF RunRow
    <2>2. Goes(w, row) /\ UNCHANGED monthly
      BY <1>2 DEF Look
    <2> HIDE DEF row
    <2>3. run'[w] = row
      BY <2>2, NewRow
    <2> QED BY <1>2, <2>1, <2>2, <2>3 DEF Unserved
  <1> QED BY <1>1, <1>2

LEMMA MailRowOf ==
    ASSUME Typed, NEW w \in Workers, Mail(w)
    PROVE  /\ UNCHANGED <<summaries, sent>>
           /\ run'[w].at = "marking" /\ run'[w].to = run[w].to /\ run'[w].month = run[w].month
  <1> DEFINE row == [run[w] EXCEPT !.at = "marking"]
  <1>1. row.at = "marking" /\ row.to = run[w].to /\ row.month = run[w].month
    BY Rows DEF RunRow
  <1>2. Goes(w, row) /\ UNCHANGED <<summaries, sent>>
    BY DEF Mail
  <1> HIDE DEF row
  <1> QED BY <1>1, <1>2, NewRow

-------------------------------------------------------------------------------
(* The summaries: each month once and in its turn.                          *)

OncePerMonth ==
    \A i, j \in 1..Len(summaries) : summaries[i].month = summaries[j].month => i = j

NewestMonth == summaries[Len(summaries)].month

\* b follows a, being made in the month now.
Follows(b, a, now) == b = a + 1 \/ (b > a /\ now >= b + CatchUp)

InTurn ==
    /\ \A i \in 1..Len(summaries) : summaries[i].month <= NewestMonth
    /\ \A i \in 1..(Len(summaries) - 1) :
          Follows(summaries[i + 1].month, summaries[i].month, summaries[i + 1].at)

\* The months w still makes follow the newest summary, or one another.
MakesInTurn(w) ==
    run[w].at = "storing" =>
        IF summaries = <<>> THEN \E m \in Months : run[w].toMake = {m}
        ELSE \A m \in run[w].toMake :
                /\ m > NewestMonth
                /\ \/ m = NewestMonth + 1 \/ m - 1 \in run[w].toMake
                   \/ Month(day) >= m + CatchUp

MonthsInv ==
    /\ OncePerMonth
    /\ ~lost => InTurn /\ \A w \in Workers : MakesInTurn(w)

LEMMA SummaryMonths ==
    ASSUME Typed
    PROVE  /\ Len(summaries) \in Nat /\ DOMAIN summaries = 1..Len(summaries)
           /\ \A i \in 1..Len(summaries) : summaries[i].month \in Months
           /\ summaries # <<>> => Len(summaries) \in 1..Len(summaries)
           /\ Summarised = {summaries[i].month : i \in 1..Len(summaries)}
           /\ Summarised \subseteq Months /\ Months \subseteq Nat
  <1> DEFINE S == [month : Months, at : Months]
  <1>1. summaries \in Seq(S) /\ \A r \in S : r.month \in Months
    BY DEF Typed, MonthlyTyped
  <1> HIDE DEF S
  <1>2. /\ Len(summaries) \in Nat /\ DOMAIN summaries = 1..Len(summaries)
        /\ \A i \in 1..Len(summaries) : summaries[i] \in S
        /\ summaries # <<>> => Len(summaries) \in 1..Len(summaries)
    BY <1>1
  <1>3. \A i \in 1..Len(summaries) : summaries[i].month \in Months
    BY <1>1, <1>2
  <1>4. Summarised = {summaries[i].month : i \in 1..Len(summaries)}
    BY <1>2 DEF Summarised
  <1>5. Months \subseteq Nat
    BY MonthNow
  <1> QED BY <1>2, <1>3, <1>4, <1>5

LEMMA Appended ==
    ASSUME Typed, NEW m \in Months, summaries' = Append(summaries, [month |-> m, at |-> Month(day)])
    PROVE  /\ Len(summaries') = Len(summaries) + 1
           /\ \A i \in 1..Len(summaries) : summaries'[i] = summaries[i]
           /\ summaries'[Len(summaries) + 1].month = m
           /\ summaries'[Len(summaries) + 1].at = Month(day)
           /\ NewestMonth' = m /\ summaries' # <<>>
  <1> DEFINE S == [month : Months, at : Months]
             new == [month |-> m, at |-> Month(day)]
  <1>1. summaries \in Seq(S) /\ new \in S
    BY MonthNow DEF Typed, MonthlyTyped
  <1>2. summaries' = Append(summaries, new) /\ new.month = m /\ new.at = Month(day)
    OBVIOUS
  <1> HIDE DEF S, new
  <1>3. /\ Len(summaries') = Len(summaries) + 1
        /\ \A i \in 1..Len(summaries) : summaries'[i] = summaries[i]
        /\ summaries'[Len(summaries) + 1] = new
        /\ summaries' # <<>>
    BY <1>1, <1>2
  <1> QED BY <1>2, <1>3 DEF NewestMonth

LEMMA MonthsStore ==
    ASSUME Ruled, MonthsInv, NEW w \in Workers, Store(w)
    PROVE  OncePerMonth' /\ (~lost => InTurn' /\ MakesInTurn(w)')
  <1>1. Typed /\ run[w].toMake \subseteq Months /\ run[w].at = "storing" /\ UNCHANGED day
    BY Rows, Fields DEF Ruled, Store, world
  <1>2. PICK m \in run[w].toMake :
                 /\ First(m, run[w].toMake)
                 /\ run'[w].toMake = run[w].toMake \ {m}
                 /\ summaries' = IF m \in Summarised THEN summaries
                                 ELSE Append(summaries, [month |-> m, at |-> Month(day)])
    BY <1>1, StoreRowOf
  <1>3. /\ m \in Months /\ m \in Nat
        /\ Len(summaries) \in Nat
        /\ \A i \in 1..Len(summaries) : summaries[i].month \in Nat
        /\ Summarised = {summaries[i].month : i \in 1..Len(summaries)}
        /\ summaries = <<>> => Summarised = {}
        /\ summaries # <<>> => Len(summaries) \in 1..Len(summaries)
        /\ \A n \in run[w].toMake : n \in Nat
        /\ Month(day) \in Nat /\ CatchUp \in Nat
    <2>1. Len(summaries) = 0 => 1..Len(summaries) = {}
      OBVIOUS
    <2>2. summaries = <<>> => Len(summaries) = 0
      OBVIOUS
    <2> QED BY <1>1, <2>1, <2>2, SummaryMonths, MonthNow DEF EvidenceAssumption
  <1>4. OncePerMonth
    BY DEF MonthsInv
  <1>5. CASE m \in Summarised
    <2>1. summaries' = summaries
      BY <1>2, <1>5
    <2>2. ASSUME ~lost PROVE FALSE
      <3>1. summaries # <<>> /\ InTurn /\ MakesInTurn(w)
        BY <1>3, <1>5, <2>2 DEF MonthsInv
      <3>2. m > NewestMonth /\ \A i \in 1..Len(summaries) : summaries[i].month <= NewestMonth
            /\ NewestMonth \in Nat
        BY <1>1, <1>3, <3>1 DEF MakesInTurn, InTurn, NewestMonth
      <3> QED BY <1>3, <1>5, <3>2
    <2> QED BY <1>4, <2>1, <2>2 DEF OncePerMonth
  <1>6. CASE m \notin Summarised
    <2> DEFINE n == Len(summaries)
    <2>1. /\ Len(summaries') = n + 1
          /\ \A i \in 1..n : summaries'[i] = summaries[i] /\ summaries'[i].month # m
          /\ summaries'[n + 1].month = m /\ summaries'[n + 1].at = Month(day)
          /\ NewestMonth' = m /\ summaries' # <<>>
      <3>1. summaries' = Append(summaries, [month |-> m, at |-> Month(day)])
        BY <1>2, <1>6
      <3> QED BY <1>1, <1>3, <1>6, <3>1, Appended
    <2>2. n \in Nat /\ n + 1 \in Nat
      BY <1>3
    <2>3. \A i \in 1..(n + 1) : i \in 1..n \/ i = n + 1
      BY <2>2
    <2> HIDE DEF n
    <2>4. OncePerMonth'
      <3>1. \A i, j \in 1..n : summaries[i].month = summaries[j].month => i = j
        BY <1>4 DEF OncePerMonth, n
      <3> QED BY <2>1, <2>3, <3>1 DEF OncePerMonth
    <2>5. ASSUME ~lost PROVE InTurn' /\ MakesInTurn(w)'
      <3>0. InTurn /\ MakesInTurn(w)
        BY <2>5 DEF MonthsInv
      <3>1. CASE summaries = <<>>
        <4>1. n = 0 /\ run'[w].toMake = {}
          BY <1>1, <1>2, <3>0, <3>1 DEF MakesInTurn, n
        <4>2. 1..n = {} /\ 1..(n + 1 - 1) = {}
          BY <4>1
        <4>3. InTurn'
          BY <1>3, <2>1, <2>3, <4>1, <4>2 DEF InTurn
        <4> QED BY <2>1, <4>1, <4>3 DEF MakesInTurn
      <3>2. CASE summaries # <<>>
        <4> DEFINE s == NewestMonth
        <4>1. /\ \A k \in run[w].toMake :
                    k > s /\ (k = s + 1 \/ k - 1 \in run[w].toMake \/ Month(day) >= k + CatchUp)
              /\ \A i \in 1..n : summaries[i].month <= s
              /\ \A i \in 1..(n - 1) :
                    Follows(summaries[i + 1].month, summaries[i].month, summaries[i + 1].at)
              /\ s = summaries[n].month /\ n \in 1..n
          BY <1>1, <1>3, <3>0, <3>2 DEF MakesInTurn, InTurn, NewestMonth, n
        <4>2. s \in Nat
          BY <1>3, <4>1 DEF n
        <4> HIDE DEF s
        <4>3. \A k \in run[w].toMake : m <= k
          BY <1>2 DEF First
        <4>4. m - 1 \notin run[w].toMake
          BY <1>3, <4>3
        <4>5. Follows(m, s, Month(day)) /\ m > s
          BY <1>2, <1>3, <4>1, <4>2, <4>4 DEF Follows
        <4>6. \A i \in 1..(n + 1) : summaries'[i].month <= m
          <5>1. ASSUME NEW i \in 1..n PROVE summaries'[i].month <= m
            <6>1. summaries'[i].month = summaries[i].month /\ summaries[i].month \in Nat
              BY <1>3, <2>1, <2>3 DEF n
            <6>2. summaries[i].month <= s /\ s < m /\ m \in Nat
              BY <1>3, <4>1, <4>5
            <6> QED BY <4>2, <6>1, <6>2
          <5>2. summaries'[n + 1].month <= m
            BY <1>3, <2>1, <2>3
          <5>3. \A i \in 1..(n + 1) : i \in 1..n \/ i = n + 1
            BY <1>3 DEF n
          <5> QED BY <5>1, <5>2, <5>3
        <4>7. ASSUME NEW i \in 1..n
              PROVE  Follows(summaries'[i + 1].month, summaries'[i].month, summaries'[i + 1].at)
          <5>1. CASE i = n
            BY <2>1, <4>1, <4>5, <5>1
          <5>2. CASE i # n
            <6>1. i \in 1..(n - 1) /\ i + 1 \in 1..n
              BY <2>2, <5>2
            <6> QED BY <2>1, <4>1, <6>1
          <5> QED BY <5>1, <5>2
        <4>8. InTurn'
          <5>1. Len(summaries') - 1 = n
            BY <2>1, <2>2
          <5>2. \A i \in 1..Len(summaries') : summaries'[i].month <= NewestMonth'
            BY <2>1, <4>6
          <5>3. \A i \in 1..(Len(summaries') - 1) :
                   Follows(summaries'[i + 1].month, summaries'[i].month, summaries'[i + 1].at)
            BY <4>7, <5>1
          <5> QED BY <5>2, <5>3 DEF InTurn, Follows
        <4>9. ASSUME NEW k \in run[w].toMake, k # m
              PROVE  k > m /\ (k = m + 1 \/ k - 1 \in run[w].toMake \ {m}
                               \/ Month(day) >= k + CatchUp)
          <5>1. k > m /\ k \in Nat
            BY <1>3, <4>3, <4>9
          <5>2. k # s + 1
            BY <1>3, <4>2, <4>5, <5>1
          <5>3. k - 1 = m => k = m + 1
            BY <1>3, <5>1
          <5>4. k - 1 \in run[w].toMake \/ Month(day) >= k + CatchUp
            BY <4>1, <5>2
          <5> QED BY <5>1, <5>3, <5>4
        <4>10. MakesInTurn(w)'
          <5>1. Month(day)' = Month(day)
            BY <1>1 DEF Month
          <5> QED BY <1>2, <2>1, <4>9, <5>1 DEF MakesInTurn
        <4> QED BY <4>8, <4>10
      <3> QED BY <3>1, <3>2
    <2> QED BY <2>4, <2>5
  <1> QED BY <1>5, <1>6

LEMMA MonthsLook ==
    ASSUME Ruled, MonthsInv, ~lost, NEW w \in Workers, LookForMonths(w)
    PROVE  MakesInTurn(w)'
  <1>1. /\ Typed /\ UNCHANGED <<summaries, day>>
        /\ run'[w].toMake = MonthsToCreate(Month(day) - 1)
    BY LookForMonthsRowOf DEF Ruled, monthly, LookForMonths, world
  <1>2. /\ Month(day) \in Nat /\ Month(day) - 1 \in Months /\ Months \subseteq Nat
        /\ \A m \in Nat, n \in Months : m < n => m \in Months
        /\ CatchUp \in Nat /\ Month(day)' = Month(day)
    BY <1>1, MonthNow, MonthsGrow DEF EvidenceAssumption, Months, Month
  <1>3. CASE summaries = <<>>
    <2>1. Summarised = {}
      BY <1>3 DEF Summarised
    <2> QED BY <1>1, <1>2, <1>3, <2>1, Fixed DEF MonthsToCreate, MakesInTurn
  <1>4. CASE summaries # <<>>
    <2> DEFINE s == NewestMonth
               last == Month(day) - 1
    <2>1. /\ s \in Summarised /\ s \in Nat /\ \A n \in Summarised : n \in Nat /\ n <= s
          /\ Summarised # {}
      <3>1. InTurn
        BY DEF MonthsInv
      <3>2. s \in Summarised /\ \A n \in Summarised : n <= s
        BY <1>1, <1>4, <3>1, SummaryMonths DEF InTurn, NewestMonth
      <3> QED BY <1>1, <3>2, SummaryMonths
    <2>2. \A m : m \in run'[w].toMake <=>
                    /\ m \in Months /\ \A n \in Summarised : m > n
                    /\ m <= last /\ m > last - CatchUp
      BY <1>1, <2>1 DEF MonthsToCreate
    <2> HIDE DEF s
    <2>3. \A m \in Nat : m > s => \A n \in Summarised : m > n
      BY <2>1
    <2>4. ASSUME NEW m \in run'[w].toMake
          PROVE  m > s /\ (m = s + 1 \/ m - 1 \in run'[w].toMake \/ Month(day) >= m + CatchUp)
      <3>1. m \in Months /\ m \in Nat /\ m > s /\ m <= last
        BY <1>2, <2>1, <2>2
      <3>2. CASE m # s + 1 /\ ~(Month(day) >= m + CatchUp)
        <4>1. m - 1 \in Nat /\ m - 1 > s /\ m - 1 < m
          BY <2>1, <3>1, <3>2
        <4>2. m - 1 \in Months /\ m - 1 <= last /\ m - 1 > last - CatchUp
          BY <1>2, <3>1, <3>2, <4>1
        <4> QED BY <2>2, <2>3, <3>1, <4>1, <4>2
      <3> QED BY <3>1, <3>2
    <2>5. NewestMonth' = s
      BY <1>1 DEF NewestMonth, s
    <2> QED BY <1>1, <1>2, <1>4, <2>4, <2>5 DEF MakesInTurn
  <1> QED BY <1>3, <1>4

LEMMA MonthsStep ==
    ASSUME Ruled, MonthsInv, NEW w \in Workers, Step(w)
    PROVE  MonthsInv'
  <1>1. Typed /\ UNCHANGED <<day, lost>> /\ Month(day)' = Month(day)
    BY StepKeepsLost DEF Ruled, world, Month
  <1>2. UNCHANGED summaries =>
           /\ OncePerMonth' /\ (~lost => InTurn')
           /\ run'[w].at # "storing" => MakesInTurn(w)'
    BY DEF MonthsInv, OncePerMonth, InTurn, NewestMonth, MakesInTurn
  <1>3. OncePerMonth' /\ (~lost => InTurn' /\ MakesInTurn(w)')
    <2>1. CASE UNCHANGED summaries /\ run'[w].at # "storing"
      BY <1>2, <2>1
    <2>2. CASE LookForMonths(w)
      BY <1>1, <1>2, <2>2, MonthsLook, LookForMonthsRowOf DEF monthly
    <2>3. CASE Store(w)
      BY <2>3, MonthsStore
    <2>4. CASE Look(w) \/ Mail(w)
      BY <1>1, <2>1, <2>4, LookRowOf, MailRowOf DEF monthly
    <2>5. CASE Mark(w) \/ MailFails(w)
      <3>1. UNCHANGED summaries /\ \E x : Past(w, x)
        BY <2>5 DEF Mark, MailFails
      <3> QED BY <1>1, <2>1, <3>1, PastLands
    <2>6. CASE RunDies(w)
      BY <1>1, <2>1, <2>6, ReturnsLands DEF RunDies
    <2> QED BY <1>1, <2>1, <2>2, <2>3, <2>4, <2>5, <2>6, OtherSteps DEF SummaryStep, AtSummary,
               monthly
  <1>4. ASSUME ~lost, NEW v \in Workers, v # w PROVE MakesInTurn(v)'
    BY <1>4, OthersRest DEF MakesInTurn
  <1> QED BY <1>1, <1>3, <1>4 DEF MonthsInv

LEMMA MonthsNext ==
    ASSUME Ruled, MonthsInv, [Next]_vars
    PROVE  MonthsInv'
  <1>1. CASE UNCHANGED <<monthly, run, day>> /\ (lost => lost')
    <2>1. Month(day)' = Month(day)
      BY <1>1 DEF Month
    <2> QED BY <1>1, <2>1, Fixed DEF MonthsInv, OncePerMonth, InTurn, NewestMonth, MakesInTurn,
               monthly
  <1>2. CASE SessionLost
    BY <1>1, <1>2 DEF SessionLost, world
  <1>3. CASE UNCHANGED vars
    BY <1>1, <1>3 DEF vars, world
  <1>4. CASE World
    <2>1. UNCHANGED <<monthly, run, lost>>
      BY <1>4, WorldKeeps
    <2>2. /\ Month(day)' >= Month(day) /\ Month(day)' \in Nat /\ Month(day) \in Nat
          /\ CatchUp \in Nat
      <3>0. day \in 0..LastDay /\ day' \in 0..LastDay
        <4>1. Typed /\ Typed'
          BY <1>4, TypedWorld DEF Ruled
        <4> QED BY <4>1 DEF Typed, WorldTyped
      <3>a. day' = day + 1 \/ day' = day
        BY <1>4 DEF World, NextDay, LinkGap, RetireGap, Attest, Outside
      <3>1. day \in 0..LastDay /\ day' \in 0..LastDay /\ day <= day'
        BY <3>0, <3>a
      <3> QED BY <3>1, MonthsGrow DEF Months, EvidenceAssumption
    <2>3. ASSUME NEW w \in Workers, MakesInTurn(w) PROVE MakesInTurn(w)'
      <3>1. run[w].toMake \subseteq Nat
        BY Rows, Fields, MonthNow DEF Ruled
      <3>2. \A m \in Nat : Month(day) >= m + CatchUp => Month(day)' >= m + CatchUp
        BY <2>2
      <3>3. NewestMonth' = NewestMonth
        BY <2>1 DEF NewestMonth, monthly
      <3> QED BY <2>1, <2>3, <3>1, <3>2, <3>3, Fixed DEF MakesInTurn, monthly
    <2> QED BY <2>1, <2>3 DEF MonthsInv, OncePerMonth, InTurn, NewestMonth, monthly
  <1> QED BY <1>2, <1>3, <1>4, MonthsStep DEF Next

\* A month has at most one summary, and none is left out but old ones.
THEOREM SummariesInOrder == Spec => []MonthsInOrder
  <1>1. Init => Ruled /\ MonthsInv
    <2> SUFFICES ASSUME Init PROVE MonthsInv
      BY RuledInit
    <2>1. \A w \in Workers : run[w].at = "idle"
      BY DEF Init, Idle
    <2>2. Len(summaries) = 0 /\ 1..Len(summaries) = {} /\ 1..(Len(summaries) - 1) = {}
      BY DEF Init
    <2> QED BY <2>1, <2>2 DEF MonthsInv, OncePerMonth, InTurn, MakesInTurn
  <1>2. Ruled /\ MonthsInv /\ [Next]_vars => (Ruled /\ MonthsInv)'
    BY RuledNext, MonthsNext
  <1>3. Ruled /\ MonthsInv => MonthsInOrder
    <2> SUFFICES ASSUME Ruled, MonthsInv PROVE MonthsInOrder
      OBVIOUS
    <2>1. DOMAIN summaries = 1..Len(summaries)
      BY SummaryMonths DEF Ruled
    <2> QED BY <2>1 DEF MonthsInv, OncePerMonth, InTurn, Follows, MonthsInOrder
  <1> QED BY <1>1, <1>2, <1>3, PTL DEF Spec

-------------------------------------------------------------------------------
(* The summary emails: to each recipient once.                              *)

Out(l, m, x) == l[m][x].mailed
Unnoted(l, m, x) == l[m][x].unrecorded

Mailing(r) == r.at \in {"mailing", "marking"}

\* Who is about to get a send record.
Marked(r, m, x) == r.at = "marking" /\ r.month = m /\ First(x, r.to)

\* A send record follows an email, and whom w mails in turn has no record yet.
Recorded ==
    /\ \A m \in Months : \A x \in sent[m] : Out(letters, m, x) > 0
    /\ \A w \in Workers :
          /\ Mailing(run[w]) => run[w].month \in Months
          /\ \A m \in Months : \A x \in Recipients : Marked(run[w], m, x) => Out(letters, m, x) > 0

NoneTwice ==
    /\ \A w \in Workers : Mailing(run[w]) => run[w].to \cap sent[run[w].month] = {}
    /\ \A m \in Months : \A x \in Recipients :
          \/ Out(letters, m, x) <= Unnoted(letters, m, x)
          \/ /\ Out(letters, m, x) <= Unnoted(letters, m, x) + 1
             /\ x \in sent[m] \/ \E w \in Workers : Marked(run[w], m, x)

MailedInv == Recorded /\ (~lost => NoneTwice)

LEMMA CountsAre ==
    ASSUME Typed, NEW m \in Months, NEW x \in Recipients
    PROVE  /\ Out(letters, m, x) \in Nat /\ Unnoted(letters, m, x) \in Nat
           /\ sent[m] \subseteq Recipients /\ x \in Nat
  <1>1. letters[m][x] \in [mailed : Nat, unrecorded : Nat] /\ sent[m] \subseteq Recipients
    BY DEF Typed, MonthlyTyped
  <1> QED BY <1>1 DEF Out, Unnoted, EvidenceAssumption

\* An email to x, or its missing record, or both, are counted, and nothing else.
CountsMove(n, x, a, b) ==
    /\ Out(letters', n, x) = Out(letters, n, x) + a
    /\ Unnoted(letters', n, x) = Unnoted(letters, n, x) + b
    /\ \A m \in Months : \A y \in Recipients :
          m # n \/ y # x => /\ Out(letters', m, y) = Out(letters, m, y)
                           /\ Unnoted(letters', m, y) = Unnoted(letters, m, y)

LEMMA CountedAt ==
    ASSUME Typed, NEW w \in Workers, NEW x \in Recipients, NEW a \in {0, 1}, NEW b \in {0, 1},
           letters' = Counted(w, x, a, b), NEW n \in Months, run[w].month = n
    PROVE  CountsMove(n, x, a, b)
  <1> DEFINE L == [mailed : Nat, unrecorded : Nat]
             new == [mailed |-> letters[n][x].mailed + a,
                     unrecorded |-> letters[n][x].unrecorded + b]
  <1>1. letters \in [Months -> [Recipients -> L]]
    BY DEF Typed, MonthlyTyped
  <1>2. letters' = [letters EXCEPT ![n][x] = new]
    BY DEF Counted
  <1>3. new.mailed = letters[n][x].mailed + a /\ new.unrecorded = letters[n][x].unrecorded + b
    OBVIOUS
  <1> HIDE DEF new, L
  <1>4. letters'[n][x] = new
    BY <1>1, <1>2
  <1>5. \A m \in Months : \A y \in Recipients : m # n \/ y # x => letters'[m][y] = letters[m][y]
    BY <1>1, <1>2
  <1> QED BY <1>3, <1>4, <1>5 DEF CountsMove, Out, Unnoted

\* No count goes down.
LEMMA CountsGrow ==
    ASSUME Typed, NEW n \in Months, NEW x \in Recipients, NEW a \in {0, 1}, NEW b \in {0, 1},
           CountsMove(n, x, a, b), NEW m \in Months, NEW y \in Recipients
    PROVE  /\ Out(letters', m, y) \in Nat /\ Unnoted(letters', m, y) \in Nat
           /\ Out(letters', m, y) >= Out(letters, m, y)
  <1>1. Out(letters, m, y) \in Nat /\ Unnoted(letters, m, y) \in Nat
    BY CountsAre
  <1>2. CASE m = n /\ y = x
    <2>1. /\ Out(letters', m, y) = Out(letters, m, y) + a
          /\ Unnoted(letters', m, y) = Unnoted(letters, m, y) + b
      BY <1>2 DEF CountsMove
    <2> QED BY <1>1, <2>1
  <1>3. CASE m # n \/ y # x
    <2>1. /\ Out(letters', m, y) = Out(letters, m, y)
          /\ Unnoted(letters', m, y) = Unnoted(letters, m, y)
      BY <1>3 DEF CountsMove
    <2> QED BY <1>1, <2>1
  <1> QED BY <1>2, <1>3

LEMMA OneFirst ==
    ASSUME NEW S, S \subseteq Recipients, NEW x \in S, NEW y, First(x, S), First(y, S)
    PROVE  x = y
  BY DEF First, EvidenceAssumption

\* Who does not mail after the step is not about to mark.
LEMMA NotMarked == ASSUME NEW w \in Workers, run[w].at # "marking", NEW m, NEW x
    PROVE  ~Marked(run[w], m, x)
  BY DEF Marked

LEMMA MailedMail ==
    ASSUME Ruled, MailedInv, NEW w \in Workers, Step(w), Mail(w)
    PROVE  MailedInv'
  <1>m. PICK n \in Months : run[w].month = n
    BY DEF MailedInv, Recorded, Mailing, Mail, Mark
  <1>1. /\ Typed /\ run[w].at = "mailing" /\ run[w].to \subseteq Recipients
        /\ UNCHANGED <<sent, lost>>
        /\ run'[w].at = "marking" /\ run'[w].to = run[w].to /\ run'[w].month = n
        /\ Recorded
    BY <1>m, Rows, Fields, MailRowOf, StepKeepsLost DEF Ruled, Mail, MailedInv, Recorded, Mailing
  <1>2. PICK x \in run[w].to : First(x, run[w].to) /\ letters' = Counted(w, x, 1, 0)
    BY DEF Mail
  <1>3. x \in Recipients /\ CountsMove(n, x, 1, 0)
    BY <1>m, <1>1, <1>2, CountedAt
  <1>4. \A m \in Months : \A y \in Recipients :
           /\ Out(letters, m, y) \in Nat /\ Unnoted(letters, m, y) \in Nat
           /\ sent[m] \subseteq Recipients
    BY <1>m, <1>1, CountsAre
  <1>5. \A v \in Workers : v # w => run'[v] = run[v]
    BY <1>m, OthersRest
  <1>6. \A m \in Months : \A y \in Recipients : Marked(run'[w], m, y) <=> m = n /\ y = x
    BY <1>m, <1>1, <1>2, OneFirst DEF Marked
  <1>7. \A v \in Workers : v # w => \A m, y : Marked(run'[v], m, y) <=> Marked(run[v], m, y)
    BY <1>m, <1>5 DEF Marked
  <1>8. \A m \in Months : \A y \in Recipients :
           /\ Out(letters', m, y) \in Nat /\ Out(letters', m, y) >= Out(letters, m, y)
    BY <1>m, <1>1, <1>3, CountsGrow
  <1>9. Out(letters', n, x) > 0
    <2>1. Out(letters', n, x) = Out(letters, n, x) + 1
      BY <1>3 DEF CountsMove
    <2>2. Out(letters, n, x) \in Nat
      BY <1>3, <1>4
    <2> QED BY <2>1, <2>2
  <1>10. Recorded'
    <2>1. \A m \in Months : \A y \in sent[m] : Out(letters', m, y) > 0
      <3> SUFFICES ASSUME NEW m \in Months, NEW y \in sent[m] PROVE Out(letters', m, y) > 0
        OBVIOUS
      <3>1. y \in Recipients /\ Out(letters, m, y) > 0
        BY <1>1, <1>4 DEF Recorded
      <3>2. Out(letters, m, y) \in Nat /\ Out(letters', m, y) \in Nat
            /\ Out(letters', m, y) >= Out(letters, m, y)
        BY <1>4, <1>8, <3>1
      <3> QED BY <3>1, <3>2
    <2>2. \A v \in Workers : Mailing(run'[v]) => run'[v].month \in Months
      BY <1>m, <1>1, <1>5 DEF Recorded, Mailing
    <2>3. \A v \in Workers : \A m \in Months : \A y \in Recipients :
             Marked(run'[v], m, y) => Out(letters', m, y) > 0
      <3> SUFFICES ASSUME NEW v \in Workers, NEW m \in Months, NEW y \in Recipients,
                          Marked(run'[v], m, y)
                   PROVE  Out(letters', m, y) > 0
        OBVIOUS
      <3>1. CASE v = w
        BY <1>6, <1>9, <3>1
      <3>2. CASE v # w
        <4>1. Out(letters, m, y) > 0
          BY <1>1, <1>7, <3>2 DEF Recorded
        <4> QED BY <1>4, <1>8, <4>1
      <3> QED BY <3>1, <3>2
    <2> QED BY <1>m, <1>1, <2>1, <2>2, <2>3, Fixed DEF Recorded
  <1>11. ASSUME ~lost PROVE NoneTwice'
    <2>1. NoneTwice
      BY <1>m, <1>11 DEF MailedInv
    <2>2. \A v \in Workers : Mailing(run'[v]) => run'[v].to \cap sent[run'[v].month] = {}
      BY <1>m, <1>1, <1>5, <2>1 DEF NoneTwice, Mailing
    <2>3. x \notin sent[n] /\ \A v \in Workers : ~Marked(run[v], n, x)
      <3>1. x \notin sent[n]
        BY <1>m, <1>1, <1>2, <2>1 DEF NoneTwice, Mailing
      <3>2. \A v \in Workers : ~Marked(run[v], n, x)
        BY <1>m, <1>1, <1>11, OthersRest DEF Marked
      <3> QED BY <1>m, <3>1, <3>2
    <2>4. Out(letters, n, x) <= Unnoted(letters, n, x)
      BY <1>m, <1>3, <2>1, <2>3 DEF NoneTwice
    <2>5. ASSUME NEW m \in Months, NEW y \in Recipients
          PROVE  \/ Out(letters', m, y) <= Unnoted(letters', m, y)
                 \/ /\ Out(letters', m, y) <= Unnoted(letters', m, y) + 1
                    /\ y \in sent[m] \/ \E v \in Workers : Marked(run'[v], m, y)
      <3>1. CASE m = n /\ y = x
        <4>1. /\ Out(letters', m, y) = Out(letters, m, y) + 1
              /\ Unnoted(letters', m, y) = Unnoted(letters, m, y) + 0
          BY <1>3, <3>1 DEF CountsMove
        <4>2. Out(letters', m, y) <= Unnoted(letters', m, y) + 1
          BY <1>4, <2>4, <3>1, <4>1
        <4> QED BY <1>6, <3>1, <4>2
      <3>2. CASE m # n \/ y # x
        <4>1. \A v \in Workers : ~Marked(run[v], m, y) \/ v # w
          BY <1>m, <1>1 DEF Marked
        <4> QED BY <1>m, <1>3, <1>7, <2>1, <3>2, <4>1 DEF NoneTwice, CountsMove
      <3> QED BY <1>m, <3>1, <3>2
    <2> QED BY <1>m, <1>1, <2>2, <2>5, Fixed DEF NoneTwice
  <1> QED BY <1>m, <1>1, <1>10, <1>11 DEF MailedInv

LEMMA MailedMark ==
    ASSUME Ruled, MailedInv, NEW w \in Workers, Step(w), Mark(w)
    PROVE  MailedInv'
  <1>m. PICK n \in Months : run[w].month = n
    BY DEF MailedInv, Recorded, Mailing, Mail, Mark
  <1>1. /\ Typed /\ run[w].at = "marking" /\ run[w].to \subseteq Recipients
        /\ UNCHANGED <<letters, lost>> /\ Recorded
    BY <1>m, Rows, Fields, StepKeepsLost DEF Ruled, Mark, MailedInv, Recorded, Mailing
  <1>2. PICK x \in run[w].to : /\ First(x, run[w].to) /\ Past(w, x)
                               /\ sent' = [sent EXCEPT ![n] = @ \cup {x}]
    BY <1>m DEF Mark
  <1>3. /\ run'[w].at # "marking"
        /\ Mailing(run'[w]) => run'[w].to = run[w].to \ {x} /\ run'[w].month = n
    BY <1>m, <1>1, <1>2, PastLands DEF Mailing
  <1>4. /\ sent'[n] = sent[n] \cup {x}
        /\ \A m \in Months : m # n => sent'[m] = sent[m]
    BY <1>m, <1>1, <1>2 DEF Typed, MonthlyTyped
  <1>5. \A v \in Workers : v # w => run'[v] = run[v]
    BY <1>m, OthersRest
  <1>6. \A v \in Workers : \A m, y :
           /\ v # w => (Marked(run'[v], m, y) <=> Marked(run[v], m, y))
           /\ ~Marked(run'[w], m, y)
    BY <1>m, <1>3, <1>5 DEF Marked
  <1>7. \A m, y : /\ Out(letters', m, y) = Out(letters, m, y)
                  /\ Unnoted(letters', m, y) = Unnoted(letters, m, y)
    BY <1>m, <1>1 DEF Out, Unnoted
  <1>8. x \in Recipients /\ Marked(run[w], n, x)
    BY <1>m, <1>1, <1>2 DEF Marked
  <1>9. \A m \in Months : \A y \in Recipients : Marked(run[w], m, y) => m = n /\ y = x
    BY <1>m, <1>1, <1>2, OneFirst DEF Marked
  <1>a. \A m \in Months : sent[m] \subseteq sent'[m]
    BY <1>m, <1>4
  <1>10. Recorded'
    <2>1. \A m \in Months : \A y \in sent'[m] : Out(letters, m, y) > 0
      BY <1>m, <1>1, <1>4, <1>8 DEF Recorded
    <2>2. \A v \in Workers : Mailing(run'[v]) => run'[v].month \in Months
      BY <1>m, <1>1, <1>3, <1>5 DEF Recorded, Mailing
    <2>3. \A v \in Workers : \A m \in Months : \A y \in Recipients :
             Marked(run'[v], m, y) => Out(letters, m, y) > 0
      BY <1>m, <1>1, <1>6 DEF Recorded
    <2> QED BY <1>m, <1>7, <2>1, <2>2, <2>3, Fixed DEF Recorded
  <1>11. ASSUME ~lost PROVE NoneTwice'
    <2>1. NoneTwice
      BY <1>m, <1>11 DEF MailedInv
    <2>2. ASSUME NEW v \in Workers, Mailing(run'[v]) PROVE run'[v].to \cap sent'[run'[v].month] = {}
      <3>1. v = w
        BY <1>m, <1>11, <2>2, OthersRest DEF Mailing
      <3>2. run[w].to \cap sent[n] = {}
        BY <1>m, <1>1, <2>1 DEF NoneTwice, Mailing
      <3> QED BY <1>m, <1>3, <1>4, <2>2, <3>1, <3>2
    <2>3. ASSUME NEW m \in Months, NEW y \in Recipients
          PROVE  \/ Out(letters, m, y) <= Unnoted(letters, m, y)
                 \/ /\ Out(letters, m, y) <= Unnoted(letters, m, y) + 1
                    /\ y \in sent'[m] \/ \E v \in Workers : Marked(run'[v], m, y)
      <3>1. \/ Out(letters, m, y) <= Unnoted(letters, m, y)
            \/ /\ Out(letters, m, y) <= Unnoted(letters, m, y) + 1
               /\ y \in sent[m] \/ \E v \in Workers : Marked(run[v], m, y)
        BY <1>m, <2>1 DEF NoneTwice
      <3>2. (\E v \in Workers : Marked(run[v], m, y)) =>
               y \in sent'[m] \/ \E v \in Workers : Marked(run'[v], m, y)
        BY <1>m, <1>4, <1>6, <1>9
      <3> QED BY <1>m, <1>a, <3>1, <3>2
    <2> QED BY <1>m, <1>7, <2>2, <2>3, Fixed DEF NoneTwice
  <1> QED BY <1>m, <1>1, <1>10, <1>11 DEF MailedInv

\* The run stops mailing x, at best with an email and no record: what is counted
\* as unrecorded covers it.
LEMMA MailedStops ==
    ASSUME Ruled, MailedInv, NEW w \in Workers, Step(w), Mailing(run[w]), UNCHANGED sent,
           NEW x \in run[w].to, First(x, run[w].to),
           \/ run[w].at = "mailing" /\ UNCHANGED letters
           \/ run[w].at = "mailing" /\ letters' = Counted(w, x, 1, 1)
           \/ run[w].at = "marking" /\ letters' = Counted(w, x, 0, 1),
           run'[w].at # "marking",
           Mailing(run'[w]) => run'[w].to \subseteq run[w].to /\ run'[w].month = run[w].month
    PROVE  MailedInv'
  <1>m. PICK n \in Months : run[w].month = n
    BY DEF MailedInv, Recorded, Mailing, Mail, Mark
  <1>1. /\ Typed /\ run[w].to \subseteq Recipients /\ UNCHANGED lost /\ Recorded
        /\ x \in Recipients
    BY <1>m, Rows, Fields, StepKeepsLost DEF Ruled, MailedInv, Recorded
  <1>2. \A m \in Months : \A y \in Recipients :
           /\ Out(letters, m, y) \in Nat /\ Unnoted(letters, m, y) \in Nat
           /\ sent[m] \subseteq Recipients
    BY <1>m, <1>1, CountsAre
  <1>3. PICK a \in {0, 1}, b \in {0, 1} :
           CountsMove(n, x, a, b) /\ a <= b /\ (run[w].at = "marking" => a = 0 /\ b = 1)
    <2>1. CASE run[w].at = "mailing" /\ UNCHANGED letters
      <3>0. Out(letters, n, x) \in Nat /\ Unnoted(letters, n, x) \in Nat
        BY <1>1, <1>2
      <3>1. Out(letters, n, x) + 0 = Out(letters, n, x)
            /\ Unnoted(letters, n, x) + 0 = Unnoted(letters, n, x)
        BY <3>0
      <3>2. CountsMove(n, x, 0, 0)
        BY <2>1, <3>1 DEF CountsMove
      <3> QED BY <2>1, <3>2
    <2>2. CASE run[w].at = "mailing" /\ letters' = Counted(w, x, 1, 1)
      <3>1. CountsMove(n, x, 1, 1)
        BY <1>m, <1>1, <2>2, CountedAt
      <3> QED BY <2>2, <3>1
    <2>3. CASE run[w].at = "marking" /\ letters' = Counted(w, x, 0, 1)
      <3>1. CountsMove(n, x, 0, 1)
        BY <1>m, <1>1, <2>3, CountedAt
      <3> QED BY <3>1
    <2> QED BY <2>1, <2>2, <2>3
  <1>4. \A v \in Workers : v # w => run'[v] = run[v]
    BY <1>m, OthersRest
  <1>5. \A v \in Workers : \A m, y :
           /\ v # w => (Marked(run'[v], m, y) <=> Marked(run[v], m, y))
           /\ ~Marked(run'[w], m, y)
    BY <1>m, <1>4 DEF Marked
  <1>6. \A m \in Months : \A y \in Recipients : Marked(run[w], m, y) => m = n /\ y = x
    BY <1>m, <1>1, OneFirst DEF Marked
  <1>7. \A m \in Months : \A y \in Recipients :
           /\ Out(letters', m, y) \in Nat /\ Out(letters', m, y) >= Out(letters, m, y)
           /\ Out(letters, m, y) > 0 => Out(letters', m, y) > 0
    <2> SUFFICES ASSUME NEW m \in Months, NEW y \in Recipients
                 PROVE  /\ Out(letters', m, y) \in Nat
                        /\ Out(letters', m, y) >= Out(letters, m, y)
                        /\ Out(letters, m, y) > 0 => Out(letters', m, y) > 0
      OBVIOUS
    <2>1. Out(letters', m, y) \in Nat /\ Out(letters', m, y) >= Out(letters, m, y)
      BY <1>1, <1>3, CountsGrow
    <2> QED BY <1>2, <2>1
  <1>8. Recorded'
    <2>1. \A m \in Months : \A y \in sent[m] : Out(letters', m, y) > 0
      BY <1>1, <1>2, <1>7 DEF Recorded
    <2>2. \A v \in Workers : Mailing(run'[v]) => run'[v].month \in Months
      BY <1>m, <1>1, <1>4 DEF Recorded, Mailing
    <2>3. \A v \in Workers : \A m \in Months : \A y \in Recipients :
             Marked(run'[v], m, y) => Out(letters', m, y) > 0
      BY <1>1, <1>5, <1>7 DEF Recorded
    <2> QED BY <1>m, <2>1, <2>2, <2>3, Fixed DEF Recorded
  <1>9. ASSUME ~lost PROVE NoneTwice'
    <2>1. NoneTwice
      BY <1>m, <1>9 DEF MailedInv
    <2>2. ASSUME NEW v \in Workers, Mailing(run'[v]) PROVE run'[v].to \cap sent[run'[v].month] = {}
      <3>1. v = w
        BY <1>m, <1>9, <2>2, OthersRest DEF Mailing
      <3>2. run[w].to \cap sent[n] = {}
        BY <1>m, <2>1 DEF NoneTwice
      <3> QED BY <1>m, <2>2, <3>1, <3>2
    <2>3. ASSUME NEW m \in Months, NEW y \in Recipients
          PROVE  \/ Out(letters', m, y) <= Unnoted(letters', m, y)
                 \/ /\ Out(letters', m, y) <= Unnoted(letters', m, y) + 1
                    /\ y \in sent[m] \/ \E v \in Workers : Marked(run'[v], m, y)
      <3>1. \/ Out(letters, m, y) <= Unnoted(letters, m, y)
            \/ /\ Out(letters, m, y) <= Unnoted(letters, m, y) + 1
               /\ y \in sent[m] \/ \E v \in Workers : Marked(run[v], m, y)
        BY <1>m, <2>1 DEF NoneTwice
      <3>2. CASE m # n \/ y # x
        BY <1>3, <1>5, <1>6, <3>1, <3>2 DEF CountsMove
      <3>3. CASE m = n /\ y = x
        <4>1. CASE run[w].at = "mailing"
          <5>1. \A v \in Workers : ~Marked(run[v], m, y)
            BY <1>m, <1>9, <4>1, OthersRest DEF Marked
          <5>2. x \notin sent[n]
            BY <1>m, <2>1 DEF NoneTwice
          <5>3. Out(letters, n, x) <= Unnoted(letters, n, x)
            BY <1>m, <3>1, <3>3, <5>1, <5>2
          <5>4. Out(letters', n, x) <= Unnoted(letters', n, x)
            BY <1>1, <1>2, <1>3, <5>3 DEF CountsMove
          <5> QED BY <3>3, <5>4
        <4>2. CASE run[w].at # "mailing"
          <5>1. run[w].at = "marking"
            BY <4>2 DEF Mailing
          <5>2. Out(letters, n, x) <= Unnoted(letters, n, x) + 1
            BY <1>1, <1>2, <3>1, <3>3
          <5>3. /\ Out(letters', n, x) = Out(letters, n, x) + 0
                /\ Unnoted(letters', n, x) = Unnoted(letters, n, x) + 1
            BY <1>3, <5>1 DEF CountsMove
          <5>4. Out(letters', n, x) <= Unnoted(letters', n, x)
            BY <1>1, <1>2, <5>2, <5>3
          <5> QED BY <3>3, <5>4
        <4> QED BY <1>m, <4>1, <4>2
      <3> QED BY <1>m, <3>2, <3>3
    <2> QED BY <1>m, <2>2, <2>3, Fixed DEF NoneTwice
  <1> QED BY <1>m, <1>1, <1>8, <1>9 DEF MailedInv

\* A step of w that writes no email and no record.
LEMMA MailedRests ==
    ASSUME Ruled, MailedInv, NEW w \in Workers, Step(w), UNCHANGED <<sent, letters>>,
           ~Mailing(run[w]), run'[w].at # "marking",
           Mailing(run'[w]) => /\ run'[w].month \in Months
                          /\ run'[w].to \cap sent[run'[w].month] = {}
    PROVE  MailedInv'
  <1>1. UNCHANGED lost /\ Recorded
    BY StepKeepsLost DEF MailedInv
  <1>2. \A v \in Workers : v # w => run'[v] = run[v]
    BY OthersRest
  <1>3. \A v \in Workers : \A m, y : Marked(run'[v], m, y) <=> Marked(run[v], m, y)
    BY <1>2 DEF Marked, Mailing
  <1>4. \A m, y : /\ Out(letters', m, y) = Out(letters, m, y)
                  /\ Unnoted(letters', m, y) = Unnoted(letters, m, y)
    BY DEF Out, Unnoted
  <1>5. \A v \in Workers : v # w => (Mailing(run'[v]) <=> Mailing(run[v]))
    BY <1>2 DEF Mailing
  <1>6. Recorded'
    BY <1>1, <1>2, <1>3, <1>4, <1>5, Fixed DEF Recorded
  <1>7. ASSUME ~lost PROVE NoneTwice'
    BY <1>2, <1>3, <1>4, <1>5, <1>7, Fixed DEF NoneTwice, MailedInv
  <1> QED BY <1>1, <1>6, <1>7 DEF MailedInv

LEMMA MailedStep ==
    ASSUME Ruled, MailedInv, NEW w \in Workers, Step(w)
    PROVE  MailedInv'
  <1>0. Typed
    BY DEF Ruled
  <1>1. CASE Mail(w)
    BY <1>1, MailedMail
  <1>2. CASE Mark(w)
    BY <1>2, MailedMark
  <1>3. CASE MailFails(w)
    <2>1. PICK x \in run[w].to :
            /\ First(x, run[w].to) /\ Past(w, x)
            /\ \/ run[w].at = "mailing" /\ UNCHANGED letters
               \/ run[w].at = "mailing" /\ letters' = Counted(w, x, 1, 1)
               \/ run[w].at = "marking" /\ letters' = Counted(w, x, 0, 1)
      BY <1>3 DEF MailFails
    <2>2. Mailing(run[w]) /\ UNCHANGED sent
      BY <1>3 DEF MailFails, Mailing
    <2>3. /\ run'[w].at # "marking"
          /\ Mailing(run'[w]) => run'[w].to \subseteq run[w].to /\ run'[w].month = run[w].month
      BY <1>0, <2>1, PastLands DEF Mailing
    <2> QED BY <2>1, <2>2, <2>3, MailedStops
  <1>4. CASE RunDies(w)
    <2>1. run'[w].at = "idle" /\ UNCHANGED sent /\ ~Mailing(run'[w])
      BY <1>0, <1>4, ReturnsLands DEF RunDies, Mailing
    <2>2. CASE run[w].at = "marking"
      <3>1. PICK x \in run[w].to : First(x, run[w].to) /\ letters' = Counted(w, x, 0, 1)
        BY <1>4, <2>2 DEF RunDies
      <3>2. Mailing(run[w])
        BY <2>2 DEF Mailing
      <3> QED BY <2>1, <2>2, <3>1, <3>2, MailedStops
    <2>3. CASE run[w].at # "marking"
      <3>1. UNCHANGED letters
        BY <1>4, <2>3 DEF RunDies
      <3>2. UNCHANGED lost /\ Recorded
        BY StepKeepsLost DEF MailedInv
      <3>3. \A v \in Workers : v # w => run'[v] = run[v]
        BY OthersRest
      <3>4. \A v \in Workers : \A m, y : Marked(run'[v], m, y) <=> Marked(run[v], m, y)
        BY <2>1, <2>3, <3>3 DEF Marked
      <3>5. \A m, y : /\ Out(letters', m, y) = Out(letters, m, y)
                      /\ Unnoted(letters', m, y) = Unnoted(letters, m, y)
        BY <3>1 DEF Out, Unnoted
      <3>6. \A v \in Workers : Mailing(run'[v]) => v # w /\ Mailing(run[v])
        BY <2>1, <3>3 DEF Mailing
      <3>7. Recorded'
        BY <2>1, <3>2, <3>3, <3>4, <3>5, <3>6, Fixed DEF Recorded
      <3>8. ASSUME ~lost PROVE NoneTwice'
        BY <2>1, <3>3, <3>4, <3>5, <3>6, <3>8, Fixed DEF NoneTwice, MailedInv
      <3> QED BY <3>2, <3>7, <3>8 DEF MailedInv
    <2> QED BY <2>2, <2>3
  <1>5. CASE Look(w)
    <2>1. ~Mailing(run[w]) /\ UNCHANGED <<sent, letters>>
      BY <1>5 DEF Look, Mailing, monthly
    <2>2. CASE run'[w].at \in {"idle", "looking"}
      BY <2>1, <2>2, MailedRests DEF Mailing
    <2>3. CASE /\ run'[w].at = "mailing" /\ run'[w].month = run[w].month
               /\ run'[w].to = Recipients \ sent[run[w].month]
               /\ run[w].month \in Summarised
      <3>1. run'[w].month \in Months
        BY <1>0, <2>3, SummaryMonths
      <3>2. run'[w].to \cap sent[run'[w].month] = {}
        BY <2>3
      <3> QED BY <2>1, <2>3, <3>1, <3>2, MailedRests
    <2> QED BY <1>0, <1>5, <2>2, <2>3, LookRowOf
  <1>6. CASE LookForMonths(w) \/ Store(w)
    <2>1. ~Mailing(run[w]) /\ ~Mailing(run'[w]) /\ run'[w].at # "marking"
          /\ UNCHANGED <<sent, letters>>
      BY <1>0, <1>6, LookForMonthsRowOf, StoreRowOf DEF Mailing, LookForMonths, Store, monthly
    <2> QED BY <2>1, MailedRests
  <1>7. CASE /\ UNCHANGED monthly /\ run[w].at \notin AtSummary \ {"storing", "looking"}
             /\ run'[w].at \notin AtSummary
    <2>1. ~Mailing(run[w]) /\ ~Mailing(run'[w]) /\ run'[w].at # "marking"
          /\ UNCHANGED <<sent, letters>>
      BY <1>7 DEF Mailing, AtSummary, monthly
    <2> QED BY <2>1, MailedRests
  <1> QED BY <1>0, <1>1, <1>2, <1>3, <1>4, <1>5, <1>6, <1>7, OtherSteps DEF SummaryStep

LEMMA MailedNext ==
    ASSUME Ruled, MailedInv, [Next]_vars
    PROVE  MailedInv'
  <1>1. CASE UNCHANGED <<monthly, run>> /\ (lost => lost')
    <2>1. UNCHANGED <<sent, letters, run>>
      BY <1>1 DEF monthly
    <2>2. \A v \in Workers : /\ Mailing(run'[v]) <=> Mailing(run[v])
                             /\ \A m, y : Marked(run'[v], m, y) <=> Marked(run[v], m, y)
      BY <2>1 DEF Mailing, Marked
    <2>3. \A m, y : /\ Out(letters', m, y) = Out(letters, m, y)
                    /\ Unnoted(letters', m, y) = Unnoted(letters, m, y)
      BY <2>1 DEF Out, Unnoted
    <2>4. (Recorded => Recorded') /\ (NoneTwice => NoneTwice')
      BY <2>1, <2>2, <2>3, Fixed DEF Recorded, NoneTwice
    <2> QED BY <1>1, <2>4 DEF MailedInv
  <1>2. CASE SessionLost
    BY <1>1, <1>2 DEF SessionLost
  <1>3. CASE UNCHANGED vars
    BY <1>1, <1>3 DEF vars
  <1>4. CASE World
    BY <1>1, <1>4, WorldKeeps
  <1> QED BY <1>2, <1>3, <1>4, MailedStep DEF Next

\* A send record stands for an email, and nobody gets a summary again but for
\* each time its record could not be kept.
THEOREM SummariesMailedOnce == Spec => []MailedOnce
  <1>1. Init => Ruled /\ MailedInv
    <2> SUFFICES ASSUME Init PROVE MailedInv
      BY RuledInit
    <2>1. \A w \in Workers : run[w].at = "idle"
      BY DEF Init, Idle
    <2>2. \A m \in Months : \A x \in Recipients :
             Out(letters, m, x) = 0 /\ Unnoted(letters, m, x) = 0
      BY DEF Init, Out, Unnoted
    <2>3. \A m \in Months : sent[m] = {}
      BY DEF Init
    <2> QED BY <2>1, <2>2, <2>3 DEF MailedInv, Recorded, NoneTwice, Mailing, Marked
  <1>2. Ruled /\ MailedInv /\ [Next]_vars => (Ruled /\ MailedInv)'
    BY RuledNext, MailedNext
  <1>3. Ruled /\ MailedInv => MailedOnce
    <2> SUFFICES ASSUME Ruled, MailedInv, NEW m \in Months, NEW x \in Recipients
                 PROVE  /\ x \in sent[m] => letters[m][x].mailed > 0
                        /\ ~lost => letters[m][x].mailed <= 1 + letters[m][x].unrecorded
      BY DEF MailedOnce
    <2>1. Out(letters, m, x) \in Nat /\ Unnoted(letters, m, x) \in Nat
      BY CountsAre DEF Ruled
    <2>2. x \in sent[m] => Out(letters, m, x) > 0
      BY DEF MailedInv, Recorded
    <2>3. ASSUME ~lost PROVE Out(letters, m, x) <= 1 + Unnoted(letters, m, x)
      <3>1. \/ Out(letters, m, x) <= Unnoted(letters, m, x)
            \/ Out(letters, m, x) <= Unnoted(letters, m, x) + 1
        BY <2>3 DEF MailedInv, NoneTwice
      <3> QED BY <2>1, <3>1
    <2> QED BY <2>2, <2>3 DEF Out, Unnoted
  <1> QED BY <1>1, <1>2, <1>3, PTL DEF Spec

-------------------------------------------------------------------------------
(* Least and greatest elements of sets of numbers.                          *)

LEMMA HasLeast ==
    ASSUME NEW S \in SUBSET Nat, S # {}
    PROVE  \E x \in S : First(x, S)
  <1> DEFINE R == {p \in Nat \X Nat : p[1] < p[2]}
  <1>1. IsWellFoundedOn(R, Nat)
    BY NatLessThanWellFounded DEF OpToRel
  <1>2. \E x \in S : \A y \in S : ~(<<y, x>> \in R)
    <2> HIDE DEF R
    <2> QED BY <1>1, WFMin
  <1>3. \A x \in S, y \in S : ~(<<y, x>> \in R) => x <= y
    OBVIOUS
  <1> HIDE DEF R
  <1> QED BY <1>2, <1>3 DEF First

LEMMA GreatestIs ==
    ASSUME NEW S \in SUBSET Int, NEW x \in S, \A y \in S : x >= y
    PROVE  Greatest(S) = x
  <1>1. \A z \in S : (\A y \in S : z >= y) => z = x
    OBVIOUS
  <1> QED BY <1>1 DEF Greatest

LEMMA HasGreatest ==
    ASSUME NEW S \in SUBSET Nat, S # {}, NEW m \in Nat, \A x \in S : x <= m
    PROVE  Greatest(S) \in S /\ \A y \in S : Greatest(S) >= y
  <1> DEFINE T == {k \in Nat : m - k \in S}
  <1>1. \A x \in S : m - x \in Nat /\ m - (m - x) = x
    OBVIOUS
  <1>2. T # {} /\ T \in SUBSET Nat
    BY <1>1
  <1>3. PICK k \in T : First(k, T)
    <2> HIDE DEF T
    <2> QED BY <1>2, HasLeast
  <1>4. m - k \in S
    OBVIOUS
  <1>5. \A y \in S : m - y \in T
    BY <1>1
  <1>6. \A y \in S : k <= m - y
    BY <1>3, <1>5 DEF First
  <1>7. k \in Nat
    OBVIOUS
  <1> HIDE DEF T
  <1>8. \A y \in S : m - k >= y
    BY <1>6, <1>7
  <1>9. S \in SUBSET Int
    OBVIOUS
  <1> QED BY <1>4, <1>8, <1>9, GreatestIs

\* An increasing listing of as many elements as the set has lists them all.
LEMMA InOrderListsAll ==
    ASSUME NEW S \in SUBSET Nat, IsFiniteSet(S), NEW s \in InOrder(S), NEW x \in S
    PROVE  \E k \in DOMAIN s : s[k] = x
  <1> DEFINE n == Cardinality(S)
  <1>1. n \in Nat
    BY FS_CardinalityType
  <1>2. s \in [1..n -> S] /\ \A i, j \in 1..n : i < j => s[i] < s[j]
    BY DEF InOrder
  <1>3. IsFiniteSet(1..n) /\ Cardinality(1..n) = n
    BY <1>1, FS_Interval
  <1> HIDE DEF n
  <1>4. \A i, j \in 1..n : s[i] = s[j] => i = j
    <2> SUFFICES ASSUME NEW i \in 1..n, NEW j \in 1..n, s[i] = s[j], i # j PROVE FALSE
      OBVIOUS
    <2>1. s[i] \in Nat /\ s[j] \in Nat
      BY <1>2
    <2>2. i < j => s[i] < s[j]
      BY <1>2
    <2>3. j < i => s[j] < s[i]
      BY <1>2
    <2>4. i < j \/ j < i
      OBVIOUS
    <2> QED BY <2>1, <2>2, <2>3, <2>4
  <1>5. s \in Injection(1..n, S)
    BY <1>2, <1>4 DEF Injection, IsInjective
  <1>6. s \in Surjection(1..n, S)
    BY <1>3, <1>5, FS_Injection DEF n
  <1> QED BY <1>2, <1>6 DEF Surjection

-------------------------------------------------------------------------------
(* What is known of a check after its receipts up to place n: rs are the    *)
(* receipts, ks the links, ls the lines and us the runs that ended unheard. *)

PriorIn(rs, c, n) == {i \in 1..n : rs[i].check = c}

ClosingIn(rs, c, n) ==
    {i \in 1..n : /\ rs[i].check = c
                  /\ \A j \in 1..n : rs[j].check = c /\ rs[j].run = rs[i].run => j <= i}

StreakIn(rs, c, result, n) ==
    {i \in ClosingIn(rs, c, n) : \A j \in ClosingIn(rs, c, n) : j >= i => rs[j].result = result}

FailureKinds == {"new-failure", "gap-expired"}
ErrorKinds == {"repeated-error"}

Tells(rs, ls, c, kinds, streak) ==
    \E l \in ls : /\ l.of = c /\ l.what \in kinds
                  /\ \E i \in streak : First(i, streak) /\ l.at >= rs[i].run

Silent(rs, us, streak) == \E i \in streak : rs[i].run \in us

Excused(rs, ks, c, i) ==
    \E l \in ks : l.check = c /\ (l.retired \/ l.expires >= rs[i].day)

\* Already the first run of the streak had an error before its last.
ErredTwice(rs, c, streak) ==
    \E i \in streak : /\ First(i, streak)
                      /\ PriorIn(rs, c, i - 1) # {}
                      /\ rs[Greatest(PriorIn(rs, c, i - 1))].result = "error"

FailureKnown(rs, ks, ls, us, c, n) ==
    LET failing == StreakIn(rs, c, "fail", n)
    IN  \/ failing = {} \/ Silent(rs, us, failing) \/ Tells(rs, ls, c, FailureKinds, failing)
        \/ Excused(rs, ks, c, Greatest(failing))

ErrorsKnown(rs, ls, us, c, n) ==
    LET erring == StreakIn(rs, c, "error", n)
    IN  (\E i, j \in erring : i # j) =>
           \/ Silent(rs, us, erring) \/ Tells(rs, ls, c, ErrorKinds, erring)
           \/ ErredTwice(rs, c, erring)

Fine(rs, ks, ls, us, c, n) == FailureKnown(rs, ks, ls, us, c, n) /\ ErrorsKnown(rs, ls, us, c, n)

\* Links are retired, never removed.
LinksStay(ks, now) ==
    \A l \in ks : \E k \in now :
        k.check = l.check /\ k.expires = l.expires /\ (l.retired => k.retired)

LEMMA PriorLatest ==
    ASSUME NEW rs, NEW n \in Nat, NEW c, NEW S, S \subseteq PriorIn(rs, c, n), S # {}
    PROVE  Greatest(S) \in S /\ Greatest(S) \in 1..n /\ \A y \in S : Greatest(S) >= y
  <1>1. S \in SUBSET Nat /\ S \subseteq 1..n /\ \A x \in S : x <= n
    BY DEF PriorIn
  <1>2. Greatest(S) \in S /\ \A y \in S : Greatest(S) >= y
    BY <1>1, HasGreatest
  <1> QED BY <1>1, <1>2

\* The first i receipts decide what precedes the receipt at i.
LEMMA PriorStays ==
    ASSUME NEW rs, NEW qs, NEW n \in Nat, \A i \in 1..n : qs[i] = rs[i], NEW c, NEW i \in 1..n
    PROVE  /\ PriorIn(qs, c, i - 1) = PriorIn(rs, c, i - 1)
           /\ PriorIn(rs, c, i - 1) # {} =>
                 qs[Greatest(PriorIn(rs, c, i - 1))] = rs[Greatest(PriorIn(rs, c, i - 1))]
  <1>1. PICK k \in Nat : k = i - 1 /\ 1..k \subseteq 1..n
    OBVIOUS
  <1>2. PriorIn(qs, c, k) = PriorIn(rs, c, k)
    BY <1>1 DEF PriorIn
  <1>3. PriorIn(rs, c, k) # {} => Greatest(PriorIn(rs, c, k)) \in 1..k
    BY PriorLatest
  <1> QED BY <1>1, <1>2, <1>3

LEMMA StreakStays ==
    ASSUME NEW rs, NEW qs, NEW n \in Nat, \A i \in 1..n : qs[i] = rs[i], NEW c, NEW result
    PROVE  StreakIn(qs, c, result, n) = StreakIn(rs, c, result, n)
  <1>1. ClosingIn(qs, c, n) = ClosingIn(rs, c, n)
    BY DEF ClosingIn
  <1>2. \A i \in ClosingIn(rs, c, n) : qs[i] = rs[i]
    BY DEF ClosingIn
  <1> QED BY <1>1, <1>2 DEF StreakIn

LEMMA TellsStays ==
    ASSUME NEW rs, NEW qs, NEW n \in Nat, \A i \in 1..n : qs[i] = rs[i],
           NEW ls, NEW ms, ls \subseteq ms, NEW c, NEW kinds, NEW streak, streak \subseteq 1..n,
           Tells(rs, ls, c, kinds, streak)
    PROVE  Tells(qs, ms, c, kinds, streak)
  BY DEF Tells

LEMMA FineStays ==
    ASSUME NEW rs, NEW qs, NEW n \in Nat, \A i \in 1..n : qs[i] = rs[i],
           NEW ks, NEW now, LinksStay(ks, now), NEW ls, NEW ms, ls \subseteq ms,
           NEW us, NEW vs, us \subseteq vs, NEW c, Fine(rs, ks, ls, us, c, n)
    PROVE  Fine(qs, now, ms, vs, c, n)
  <1> DEFINE F == StreakIn(rs, c, "fail", n)
             E == StreakIn(rs, c, "error", n)
  <1>1. StreakIn(qs, c, "fail", n) = F /\ StreakIn(qs, c, "error", n) = E
    BY StreakStays
  <1>2. F \subseteq 1..n /\ E \subseteq 1..n
    BY DEF StreakIn, ClosingIn
  <1>3. \/ F = {} \/ Silent(rs, us, F) \/ Tells(rs, ls, c, FailureKinds, F)
        \/ Excused(rs, ks, c, Greatest(F))
    BY DEF Fine, FailureKnown
  <1>4. (\E i, j \in E : i # j) =>
           Silent(rs, us, E) \/ Tells(rs, ls, c, ErrorKinds, E) \/ ErredTwice(rs, c, E)
    BY DEF Fine, ErrorsKnown
  <1> HIDE DEF F, E
  <1>5. ASSUME F # {}, Excused(rs, ks, c, Greatest(F)) PROVE Excused(qs, now, c, Greatest(F))
    <2>1. Greatest(F) \in 1..n
      <3>1. F \in SUBSET Nat /\ \A x \in F : x <= n
        BY <1>2
      <3> QED BY <1>2, <1>5, <3>1, HasGreatest
    <2>2. qs[Greatest(F)] = rs[Greatest(F)]
      BY <2>1
    <2>3. PICK l \in ks : l.check = c /\ (l.retired \/ l.expires >= rs[Greatest(F)].day)
      BY <1>5 DEF Excused
    <2>4. PICK k \in now : k.check = l.check /\ k.expires = l.expires /\ (l.retired => k.retired)
      BY DEF LinksStay
    <2> QED BY <2>2, <2>3, <2>4 DEF Excused
  <1>6. \A S : S \subseteq 1..n /\ Silent(rs, us, S) => Silent(qs, vs, S)
    BY DEF Silent
  <1>7. ASSUME ErredTwice(rs, c, E) PROVE ErredTwice(qs, c, E)
    <2>1. PICK i \in E : /\ First(i, E) /\ PriorIn(rs, c, i - 1) # {}
                         /\ rs[Greatest(PriorIn(rs, c, i - 1))].result = "error"
      BY <1>7 DEF ErredTwice
    <2>2. i \in 1..n
      BY <1>2
    <2>3. PriorIn(qs, c, i - 1) = PriorIn(rs, c, i - 1)
          /\ qs[Greatest(PriorIn(rs, c, i - 1))] = rs[Greatest(PriorIn(rs, c, i - 1))]
      BY <2>1, <2>2, PriorStays
    <2> QED BY <2>1, <2>3 DEF ErredTwice
  <1>8. FailureKnown(qs, now, ms, vs, c, n)
    <2>1. \/ F = {} \/ Silent(qs, vs, F) \/ Tells(qs, ms, c, FailureKinds, F)
          \/ Excused(qs, now, c, Greatest(F))
      BY <1>2, <1>3, <1>5, <1>6, TellsStays
    <2> QED BY <1>1, <2>1 DEF FailureKnown
  <1>9. ErrorsKnown(qs, ms, vs, c, n)
    <2>1. (\E i, j \in E : i # j) =>
             Silent(qs, vs, E) \/ Tells(qs, ms, c, ErrorKinds, E) \/ ErredTwice(qs, c, E)
      BY <1>2, <1>4, <1>6, <1>7, TellsStays
    <2> QED BY <1>1, <2>1 DEF ErrorsKnown
  <1> QED BY <1>8, <1>9 DEF Fine

-------------------------------------------------------------------------------
(* The receipts of one more run of a check.                                 *)

LEMMA StreakRests ==
    ASSUME NEW rs, NEW n \in Nat, NEW m \in Nat, n <= m, NEW c, NEW result,
           \A j \in (n + 1)..m : rs[j].check # c
    PROVE  StreakIn(rs, c, result, m) = StreakIn(rs, c, result, n)
  <1>1. \A i \in 1..m : rs[i].check = c => i \in 1..n
    OBVIOUS
  <1>2. 1..n \subseteq 1..m
    OBVIOUS
  <1>3. ClosingIn(rs, c, m) = ClosingIn(rs, c, n)
    BY <1>1, <1>2 DEF ClosingIn
  <1> QED BY <1>3 DEF StreakIn

\* The receipts of c after n and up to m are those of one run; i is the last.
Closes(rs, c, i, n, m) ==
    /\ i \in (n + 1)..m /\ rs[i].check = c
    /\ \A j \in (n + 1)..m : rs[j].check = c => j <= i /\ rs[j].run = rs[i].run
    /\ \A j \in 1..n : rs[j].run # rs[i].run

LEMMA ClosingGoesOn ==
    ASSUME NEW rs, NEW n \in Nat, NEW m \in Nat, NEW i, NEW c, Closes(rs, c, i, n, m)
    PROVE  ClosingIn(rs, c, m) = ClosingIn(rs, c, n) \cup {i}
  <1>0. /\ i \in (n + 1)..m /\ rs[i].check = c
        /\ \A j \in (n + 1)..m : rs[j].check = c => j <= i /\ rs[j].run = rs[i].run
        /\ \A j \in 1..n : rs[j].run # rs[i].run
    BY DEF Closes
  <1>1. \A j \in 1..m : j \in 1..n \/ j \in (n + 1)..m
    OBVIOUS
  <1>2. 1..n \subseteq 1..m /\ i \in 1..m /\ \A j \in 1..n : j <= i
    BY <1>0
  <1>3. ASSUME NEW k \in ClosingIn(rs, c, m) PROVE k \in ClosingIn(rs, c, n) \cup {i}
    <2>1. /\ k \in 1..m /\ rs[k].check = c
          /\ \A j \in 1..m : rs[j].check = c /\ rs[j].run = rs[k].run => j <= k
      BY <1>3 DEF ClosingIn
    <2>2. CASE k \in 1..n
      BY <1>2, <2>1, <2>2 DEF ClosingIn
    <2>3. CASE k \in (n + 1)..m
      <3>1. k <= i /\ i <= k
        BY <1>0, <1>2, <2>1, <2>3
      <3>2. k \in Nat /\ i \in Nat
        BY <1>2, <2>1
      <3> QED BY <3>1, <3>2
    <2> QED BY <1>1, <2>1, <2>2, <2>3
  <1>4. ASSUME NEW k \in ClosingIn(rs, c, n) PROVE k \in ClosingIn(rs, c, m)
    <2>1. /\ k \in 1..n /\ rs[k].check = c
          /\ \A j \in 1..n : rs[j].check = c /\ rs[j].run = rs[k].run => j <= k
      BY <1>4 DEF ClosingIn
    <2>2. \A j \in (n + 1)..m : rs[j].check = c => rs[j].run # rs[k].run
      BY <1>0, <2>1
    <2> QED BY <1>1, <1>2, <2>1, <2>2 DEF ClosingIn
  <1>5. i \in ClosingIn(rs, c, m)
    BY <1>0, <1>1, <1>2 DEF ClosingIn
  <1> QED BY <1>3, <1>4, <1>5

LEMMA StreakGoesOn ==
    ASSUME NEW rs, NEW n \in Nat, NEW m \in Nat, NEW i, NEW c, Closes(rs, c, i, n, m)
    PROVE  /\ StreakIn(rs, c, rs[i].result, m) = StreakIn(rs, c, rs[i].result, n) \cup {i}
           /\ \A result : result # rs[i].result => StreakIn(rs, c, result, m) = {}
  <1>1. ClosingIn(rs, c, m) = ClosingIn(rs, c, n) \cup {i}
    BY ClosingGoesOn
  <1>2. i \in Nat /\ i > n
    BY DEF Closes
  <1>3. \A k \in ClosingIn(rs, c, n) : k \in Nat /\ k <= n /\ i >= k /\ ~(k >= i)
    BY <1>2 DEF ClosingIn
  <1>4. i >= i
    BY <1>2
  <1> QED BY <1>1, <1>3, <1>4 DEF StreakIn

\* The latest receipt closes its run, and a streak ends with it.
LEMMA StreakEnds ==
    ASSUME NEW rs, NEW n \in Nat, NEW c, NEW result
    PROVE  LET prior == PriorIn(rs, c, n)
               streak == StreakIn(rs, c, result, n)
           IN  /\ prior # {} /\ rs[Greatest(prior)].result = result => Greatest(prior) \in streak
               /\ streak # {} => /\ prior # {} /\ rs[Greatest(prior)].result = result
                                 /\ Greatest(streak) = Greatest(prior)
  <1> DEFINE prior == PriorIn(rs, c, n)
             streak == StreakIn(rs, c, result, n)
             closing == ClosingIn(rs, c, n)
             p == Greatest(prior)
  <1>1. streak \subseteq closing /\ closing \subseteq prior /\ closing \subseteq 1..n
    BY DEF StreakIn, ClosingIn, PriorIn
  <1>2. prior # {} => p \in closing /\ p \in 1..n /\ \A j \in closing : p >= j
    <2> SUFFICES ASSUME prior # {} PROVE p \in closing /\ p \in 1..n /\ \A j \in closing : p >= j
      OBVIOUS
    <2>1. p \in prior /\ p \in 1..n /\ \A y \in prior : p >= y
      BY PriorLatest
    <2> HIDE DEF p
    <2>2. \A j \in 1..n : rs[j].check = c => j <= p
      BY <2>1 DEF PriorIn
    <2>3. rs[p].check = c
      BY <2>1 DEF PriorIn
    <2>4. p \in closing
      BY <2>1, <2>2, <2>3 DEF ClosingIn
    <2> QED BY <1>1, <2>1, <2>4
  <1> HIDE DEF p, closing
  <1>3. prior # {} /\ rs[p].result = result => p \in streak
    <2>1. \A j \in closing : prior # {} /\ j >= p => j = p
      BY <1>1, <1>2
    <2> QED BY <1>2, <2>1 DEF StreakIn, closing
  <1>4. ASSUME streak # {}
        PROVE  prior # {} /\ rs[p].result = result /\ Greatest(streak) = p
    <2>1. prior # {}
      BY <1>1, <1>4
    <2>2. PICK i \in streak : i \in closing
      BY <1>1, <1>4
    <2>3. p >= i /\ p \in closing
      BY <1>2, <2>1, <2>2
    <2>4. rs[p].result = result
      BY <2>2, <2>3 DEF StreakIn, closing
    <2>5. p \in streak
      BY <1>3, <2>1, <2>4
    <2>6. \A y \in streak : p >= y
      BY <1>1, <1>2, <2>1
    <2> HIDE DEF streak, prior
    <2>7. streak \in SUBSET Int
      <3>1. 1..n \subseteq Int
        OBVIOUS
      <3> QED BY <1>1, <3>1
    <2> QED BY <2>1, <2>4, <2>5, <2>6, <2>7, GreatestIs
  <1> QED BY <1>3, <1>4 DEF p

\* What held of a streak still holds of it with a later receipt.
LEMMA KnownMore ==
    ASSUME NEW rs, NEW ls, NEW ms, ls \subseteq ms, NEW us, NEW c, NEW kinds, NEW n \in Nat,
           NEW S, S \subseteq 1..n, NEW i \in Nat, i > n
    PROVE  /\ Silent(rs, us, S) => Silent(rs, us, S \cup {i})
           /\ Tells(rs, ls, c, kinds, S) => Tells(rs, ms, c, kinds, S \cup {i})
           /\ ErredTwice(rs, c, S) => ErredTwice(rs, c, S \cup {i})
  <1>1. \A k \in S : First(k, S) => First(k, S \cup {i})
    BY DEF First
  <1>2. Silent(rs, us, S) => Silent(rs, us, S \cup {i})
    BY DEF Silent
  <1>3. Tells(rs, ls, c, kinds, S) => Tells(rs, ms, c, kinds, S \cup {i})
    BY <1>1 DEF Tells
  <1>4. ErredTwice(rs, c, S) => ErredTwice(rs, c, S \cup {i})
    BY <1>1 DEF ErredTwice
  <1> QED BY <1>2, <1>3, <1>4

LEMMA LineTells ==
    ASSUME NEW rs, NEW ls, NEW c, NEW kinds, NEW m \in Nat, NEW S, S \subseteq 1..m, S # {},
           NEW l \in ls, l.of = c, l.what \in kinds, \A i \in 1..m : rs[i].run <= l.at,
           l.at \in Nat, \A i \in 1..m : rs[i].run \in Nat
    PROVE  Tells(rs, ls, c, kinds, S)
  <1>1. S \in SUBSET Nat
    OBVIOUS
  <1>2. PICK i \in S : First(i, S)
    BY <1>1, HasLeast
  <1>3. l.at >= rs[i].run
    OBVIOUS
  <1> QED BY <1>2, <1>3 DEF Tells

-------------------------------------------------------------------------------
(* Between its receipts and its lines a run knows which failures are old.   *)

Dated == \A i \in 1..Len(receipts) : receipts[i].day <= day /\ receipts[i].run <= runs

\* The receipts of a run are those it knows as its own.
OwnReceipts(w) ==
    run[w].at \in {"checking", "classifying"} =>
        /\ run[w].no = runs
        /\ \A i \in 1..Len(receipts) : receipts[i].run = run[w].no <=> i \in run[w].mine

KnownUpTo(n) == \A c \in Checks : Fine(receipts, links, Range(queued), unheard, c, n)

\* All but its own receipts is known.
ElseKnown(w) ==
    run[w].at \in {"checking", "classifying"} =>
        \E n \in 0..Len(receipts) : run[w].mine = (n + 1)..Len(receipts) /\ KnownUpTo(n)

KnownWith(s) ==
    \A c \in Checks :
        Fine(receipts, links, Range(queued) \cup Range(s), unheard, c, Len(receipts))

KnownIf(no) ==
    \A c \in Checks :
        Fine(receipts, links, Range(queued), unheard \cup {no}, c, Len(receipts))

\* All is known with the lines it is about to queue, or if the run is silenced.
AboutToTell(w) ==
    run[w].phase = "alert" =>
        /\ run[w].at = "reading" => KnownWith(run[w].lines) /\ KnownIf(run[w].no)
        /\ run[w].at = "queueing" => KnownWith(Fresh(w)) /\ KnownIf(run[w].no)

ToldInv ==
    ~lost =>
        /\ Dated
        /\ \A w \in Workers : OwnReceipts(w) /\ ElseKnown(w) /\ AboutToTell(w)
        /\ (\A w \in Workers : ~Telling(w)) => KnownUpTo(Len(receipts))

LEMMA ReceiptsCount ==
    ASSUME Typed
    PROVE  Len(receipts) \in Nat /\ DOMAIN receipts = 1..Len(receipts)
  BY DEF Typed, RunTyped

LEMMA ReceiptFields ==
    ASSUME Typed, NEW i \in 1..Len(receipts)
    PROVE  /\ receipts[i].check \in Checks /\ receipts[i].result \in {"pass", "fail", "error"}
           /\ receipts[i].day \in 0..LastDay /\ receipts[i].run \in 1..MaxRuns
           /\ i \in DOMAIN receipts
  <1>1. receipts \in Seq(Receipt) /\ i \in DOMAIN receipts
    BY DEF Typed, RunTyped
  <1>2. receipts[i] \in Receipt
    BY <1>1
  <1> QED BY <1>1, <1>2 DEF Receipt

LEMMA ExpiriesAre ==
    ASSUME Typed, NEW c, Expiries(c) # {}
    PROVE  /\ Greatest(Expiries(c)) \in Expiries(c)
           /\ \A e \in Expiries(c) : Greatest(Expiries(c)) >= e /\ e \in Nat
  <1>1. \A l \in links : l.expires \in 0..NoExpiry
    BY DEF Typed, WorldTyped
  <1>2. NoExpiry \in Nat
    BY DEF NoExpiry, EvidenceAssumption
  <1>3. Expiries(c) \in SUBSET Nat /\ \A e \in Expiries(c) : e <= NoExpiry
    BY <1>1, <1>2 DEF Expiries
  <1> HIDE DEF Expiries
  <1> QED BY <1>2, <1>3, HasGreatest

LEMMA GapExcuses ==
    ASSUME Typed, NEW c, NEW i, Expiries(c) # {}, Greatest(Expiries(c)) >= receipts[i].day
    PROVE  Excused(receipts, links, c, i)
  <1>1. Greatest(Expiries(c)) \in Expiries(c)
    BY ExpiriesAre
  <1>2. PICK l \in links : l.check = c /\ ~l.retired /\ l.expires = Greatest(Expiries(c))
    BY <1>1 DEF Expiries
  <1> QED BY <1>2 DEF Excused

\* A failure that is not announced now was known before, or is covered now.
LEMMA FailureStaysKnown ==
    ASSUME Typed, Dated, NEW c \in Checks, NEW n \in Nat, NEW i \in Nat,
           Closes(receipts, c, i, n, Len(receipts)), receipts[i].result = "fail",
           NEW ls, NEW ms, ls \subseteq ms, NEW us, FailureKnown(receipts, links, ls, us, c, n),
           Notice(receipts[i], PriorIn(receipts, c, n)) \notin Attention
    PROVE  FailureKnown(receipts, links, ms, us, c, Len(receipts))
  <1> DEFINE m == Len(receipts)
             prior == PriorIn(receipts, c, n)
             F == StreakIn(receipts, c, "fail", n)
             p == Greatest(prior)
  <1>0. /\ m \in Nat /\ n < m /\ i > n /\ i \in 1..m /\ Closes(receipts, c, i, n, m)
        /\ receipts[i].check = c
    BY DEF Typed, RunTyped, Closes
  <1>1. StreakIn(receipts, c, "fail", m) = F \cup {i}
    BY <1>0, StreakGoesOn
  <1>2. Greatest(F \cup {i}) = i
    <2>1. F \cup {i} \in SUBSET Int /\ \A y \in F \cup {i} : i >= y
      BY <1>0 DEF StreakIn, ClosingIn
    <2> HIDE DEF F
    <2> QED BY <2>1, GreatestIs
  <1>3. ~Expired(c, prior) /\ (WasResult(prior, "fail") \/ KnownGap(c))
    BY <1>0 DEF Notice, Attention
  <1>4. receipts[i].day \in Nat /\ receipts[i].day <= day /\ day \in Nat
    BY <1>0, ReceiptFields DEF Dated, Typed, WorldTyped
  <1>5. CASE KnownGap(c)
    <2>1. Expiries(c) # {} /\ Greatest(Expiries(c)) >= day /\ Greatest(Expiries(c)) \in Nat
      BY <1>5, ExpiriesAre DEF KnownGap
    <2>2. Greatest(Expiries(c)) >= receipts[i].day
      BY <1>4, <2>1
    <2>3. Excused(receipts, links, c, i)
      BY <2>1, <2>2, GapExcuses
    <2> QED BY <1>1, <1>2, <2>3 DEF FailureKnown
  <1>6. CASE ~KnownGap(c)
    <2>1. prior # {} /\ receipts[p].result = "fail"
      BY <1>3, <1>6 DEF WasResult
    <2>2. F # {} /\ Greatest(F) = p
      BY <2>1, StreakEnds
    <2>3. CASE Silent(receipts, us, F) \/ Tells(receipts, ls, c, FailureKinds, F)
      <3>1. F \subseteq 1..n
        BY DEF StreakIn, ClosingIn
      <3>2. Silent(receipts, us, F \cup {i}) \/ Tells(receipts, ms, c, FailureKinds, F \cup {i})
        <4> HIDE DEF F
        <4> QED BY <1>0, <2>3, <3>1, KnownMore
      <3> QED BY <1>1, <3>2 DEF FailureKnown
    <2>4. CASE Excused(receipts, links, c, p)
      <3>1. PICK l \in links : l.check = c /\ (l.retired \/ l.expires >= receipts[p].day)
        BY <2>4 DEF Excused
      <3>2. CASE l.retired
        <4>1. Excused(receipts, links, c, i)
          BY <3>1, <3>2 DEF Excused
        <4> QED BY <1>1, <1>2, <4>1 DEF FailureKnown
      <3>3. CASE ~l.retired
        <4> DEFINE e == Greatest(Expiries(c))
        <4>1. l.expires \in Expiries(c)
          BY <3>1, <3>3 DEF Expiries
        <4>2. e >= l.expires /\ e \in Nat /\ l.expires \in Nat
          BY <4>1, ExpiriesAre
        <4>3. p \in 1..n /\ receipts[p].day \in Nat
          <5>1. p \in 1..n
            BY <2>1, PriorLatest
          <5>2. p \in 1..m
            BY <1>0, <5>1
          <5> QED BY <5>1, <5>2, ReceiptFields
        <4>4. e < day
          BY <1>4, <1>6, <4>1, <4>2 DEF KnownGap
        <4>5. receipts[p].day <= e
          BY <3>1, <3>3, <4>2, <4>3
        <4>6. Expired(c, prior)
          BY <2>1, <4>1, <4>4, <4>5 DEF Expired
        <4> QED BY <1>3, <4>6
      <3> QED BY <3>2, <3>3
    <2> QED BY <2>2, <2>3, <2>4 DEF FailureKnown
  <1> QED BY <1>5, <1>6

LEMMA ErrorsStayKnown ==
    ASSUME Typed, NEW c \in Checks, NEW n \in Nat, NEW i \in Nat,
           Closes(receipts, c, i, n, Len(receipts)), receipts[i].result = "error",
           NEW ls, NEW ms, ls \subseteq ms, NEW us, ErrorsKnown(receipts, ls, us, c, n),
           Notice(receipts[i], PriorIn(receipts, c, n)) \notin Attention
    PROVE  ErrorsKnown(receipts, ms, us, c, Len(receipts))
  <1> DEFINE m == Len(receipts)
             prior == PriorIn(receipts, c, n)
             E == StreakIn(receipts, c, "error", n)
             p == Greatest(prior)
  <1>0. /\ m \in Nat /\ n < m /\ i > n /\ i \in 1..m /\ Closes(receipts, c, i, n, m)
        /\ receipts[i].check = c
    BY DEF Typed, RunTyped, Closes
  <1>1. StreakIn(receipts, c, "error", m) = E \cup {i}
    BY <1>0, StreakGoesOn
  <1>2. ~ErrsAgain(prior)
    BY <1>0 DEF Notice, Attention
  <1>3. E \subseteq 1..n
    BY DEF StreakIn, ClosingIn
  <1>4. CASE E = {}
    BY <1>1, <1>4 DEF ErrorsKnown
  <1>5. CASE E # {}
    <2>1. prior # {} /\ receipts[p].result = "error" /\ p \in E
      BY <1>5, StreakEnds
    <2>2. \/ Silent(receipts, us, E) \/ Tells(receipts, ls, c, ErrorKinds, E)
          \/ ErredTwice(receipts, c, E)
      <3>1. CASE \E k, j \in E : k # j
        BY <3>1 DEF ErrorsKnown
      <3>2. CASE E = {p}
        <4>1. Earlier(prior) # {} /\ receipts[Greatest(Earlier(prior))].result = "error"
          BY <1>2, <2>1 DEF ErrsAgain, WasResult
        <4>2. p \in 1..n /\ \A y \in prior : p >= y
          BY <2>1, PriorLatest
        <4>3. Earlier(prior) = PriorIn(receipts, c, p - 1)
          <5>1. \A y : y \in prior /\ y # p <=> y \in 1..(p - 1) /\ receipts[y].check = c
            <6> HIDE DEF p
            <6>1. \A y \in 1..(p - 1) : y \in 1..n /\ y # p
              BY <4>2
            <6>2. \A y \in prior : y \in 1..n /\ receipts[y].check = c
              BY DEF PriorIn
            <6>3. \A y \in prior : y # p => y \in 1..(p - 1)
              <7> HIDE DEF prior
              <7> QED BY <4>2, <6>2
            <6> QED BY <6>1, <6>2, <6>3 DEF PriorIn
          <5> QED BY <5>1 DEF Earlier, PriorIn
        <4>4. First(p, E)
          <5> HIDE DEF p, E
          <5> QED BY <3>2, <4>2 DEF First
        <4> QED BY <2>1, <4>1, <4>3, <4>4 DEF ErredTwice
      <3> HIDE DEF E, p
      <3> QED BY <2>1, <3>1, <3>2
    <2>3. \/ Silent(receipts, us, E \cup {i}) \/ Tells(receipts, ms, c, ErrorKinds, E \cup {i})
          \/ ErredTwice(receipts, c, E \cup {i})
      <3> HIDE DEF E
      <3> QED BY <1>0, <1>3, <2>2, KnownMore
    <2> QED BY <1>1, <2>3 DEF ErrorsKnown
  <1> QED BY <1>4, <1>5

LEMMA NoticeIs ==
    ASSUME NEW w \in Workers, NEW n \in Nat, NEW m \in Nat, n < m, run[w].mine = (n + 1)..m, NEW i
    PROVE  NoticeOf(w, i) = Notice(receipts[i], PriorIn(receipts, receipts[i].check, n))
  <1> DEFINE first == CHOOSE j \in run[w].mine : First(j, run[w].mine)
  <1>1. First(n + 1, run[w].mine) /\ n + 1 \in run[w].mine
        /\ \A j \in run[w].mine : First(j, run[w].mine) => j = n + 1
    BY DEF First
  <1>2. first = n + 1
    BY <1>1
  <1>3. n + 1 - 1 = n
    OBVIOUS
  <1> HIDE DEF first
  <1>4. Prior(receipts[i].check, first) = PriorIn(receipts, receipts[i].check, n)
    BY <1>2, <1>3 DEF Prior, PriorIn
  <1> QED BY <1>4 DEF NoticeOf, first

LEMMA NoticeHasLine ==
    ASSUME Typed, NEW w \in Workers, NEW told \in InOrder(Noted(w, Attention)),
           NEW i \in Noted(w, Attention)
    PROVE  \E l \in Range(LinesOf(w, told)) :
              l.of = receipts[i].check /\ l.what = NoticeOf(w, i) /\ l.at = run[w].no
  <1>1. IsFiniteSet(Noted(w, Attention)) /\ Noted(w, Attention) \in SUBSET Nat
    <2>1. DOMAIN receipts = 1..Len(receipts)
      BY DEF Typed, RunTyped
    <2> QED BY <2>1, NotedFinite DEF Noted
  <1>2. PICK k \in DOMAIN told : told[k] = i
    <2> DEFINE S == Noted(w, Attention)
    <2> HIDE DEF S
    <2>1. IsFiniteSet(S) /\ S \in SUBSET Nat /\ i \in S /\ told \in InOrder(S)
      BY <1>1 DEF S
    <2> QED BY <2>1, InOrderListsAll
  <1> DEFINE l == [what |-> NoticeOf(w, i), of |-> receipts[i].check, at |-> run[w].no]
  <1>3. k \in DOMAIN LinesOf(w, told) /\ LinesOf(w, told)[k] = l
    BY <1>2 DEF LinesOf
  <1>4. l \in Range(LinesOf(w, told))
    BY <1>3 DEF Range
  <1> QED BY <1>4

\* Of the receipts that a run has of a check, one is the last.
LEMMA OneCloses ==
    ASSUME Typed, NEW w \in Workers, OwnReceipts(w), run[w].at \in {"checking", "classifying"},
           NEW n \in 0..Len(receipts), run[w].mine = (n + 1)..Len(receipts),
           NEW c, NEW some \in (n + 1)..Len(receipts), receipts[some].check = c
    PROVE  \E i \in (n + 1)..Len(receipts) :
              Closes(receipts, c, i, n, Len(receipts)) /\ receipts[i].run = run[w].no
  <1>0. PICK m \in Nat : m = Len(receipts)
    BY ReceiptsCount
  <1> DEFINE S == {j \in (n + 1)..m : receipts[j].check = c}
             i == Greatest(S)
  <1>1. S \in SUBSET Nat /\ S # {} /\ \A j \in S : j <= m
    BY <1>0
  <1> HIDE DEF S
  <1>2. i \in S /\ \A j \in S : i >= j
    BY <1>0, <1>1, HasGreatest
  <1> HIDE DEF i
  <1>3. i \in (n + 1)..m /\ receipts[i].check = c
        /\ \A j \in (n + 1)..m : receipts[j].check = c => i >= j
    BY <1>2 DEF S
  <1>4. \A j \in 1..m : receipts[j].run = run[w].no <=> j \in (n + 1)..m
    BY <1>0 DEF OwnReceipts
  <1>5. /\ (n + 1)..m \subseteq 1..m /\ 1..n \subseteq 1..m
        /\ \A j \in 1..n : j \notin (n + 1)..m
    BY <1>0
  <1>6. \A j \in (n + 1)..m : j <= i <=> i >= j
    BY <1>0, <1>3
  <1>7. Closes(receipts, c, i, n, m) /\ receipts[i].run = run[w].no
    BY <1>3, <1>4, <1>5, <1>6 DEF Closes
  <1> QED BY <1>0, <1>3, <1>7

\* A check without a receipt of the run is where it was.
LEMMA RestsFine ==
    ASSUME NEW rs, NEW n \in Nat, NEW m \in Nat, n <= m, NEW c,
           \A j \in (n + 1)..m : rs[j].check # c,
           NEW ks, NEW ls, NEW ms, ls \subseteq ms, NEW us, NEW vs, us \subseteq vs,
           Fine(rs, ks, ls, us, c, n)
    PROVE  Fine(rs, ks, ms, vs, c, m)
  <1>1. /\ StreakIn(rs, c, "fail", m) = StreakIn(rs, c, "fail", n)
        /\ StreakIn(rs, c, "error", m) = StreakIn(rs, c, "error", n)
    BY StreakRests
  <1>2. LinksStay(ks, ks)
    BY DEF LinksStay
  <1>3. Fine(rs, ks, ms, vs, c, n)
    BY <1>2, FineStays
  <1> QED BY <1>1, <1>3 DEF Fine, FailureKnown, ErrorsKnown

\* Should the run end now, it takes the blame for the streaks it is part of.
LEMMA KnownIfSilenced ==
    ASSUME Typed, NEW w \in Workers, OwnReceipts(w), run[w].at \in {"checking", "classifying"},
           NEW n \in 0..Len(receipts), run[w].mine = (n + 1)..Len(receipts), KnownUpTo(n)
    PROVE  KnownIf(run[w].no)
  <1>0. PICK m \in Nat : m = Len(receipts) /\ n \in Nat /\ n <= m
    BY ReceiptsCount
  <1> DEFINE us == unheard \cup {run[w].no}
             ls == Range(queued)
  <1> SUFFICES ASSUME NEW c \in Checks PROVE Fine(receipts, links, ls, us, c, m)
    BY <1>0 DEF KnownIf
  <1>1. Fine(receipts, links, ls, unheard, c, n) /\ unheard \subseteq us
    BY DEF KnownUpTo
  <1>2. CASE \A j \in (n + 1)..m : receipts[j].check # c
    <2> HIDE DEF us, ls
    <2> QED BY <1>0, <1>1, <1>2, RestsFine
  <1>3. ASSUME NEW j \in (n + 1)..m, receipts[j].check = c PROVE Fine(receipts, links, ls, us, c, m)
    <2>1. PICK i \in (n + 1)..m : Closes(receipts, c, i, n, m) /\ receipts[i].run = run[w].no
      BY <1>0, <1>3, OneCloses
    <2>2. /\ StreakIn(receipts, c, receipts[i].result, m)
                = StreakIn(receipts, c, receipts[i].result, n) \cup {i}
          /\ \A result : result # receipts[i].result => StreakIn(receipts, c, result, m) = {}
      BY <1>0, <2>1, StreakGoesOn
    <2>3. \A result : \/ StreakIn(receipts, c, result, m) = {}
                      \/ Silent(receipts, us, StreakIn(receipts, c, result, m))
      BY <2>1, <2>2 DEF Silent
    <2> QED BY <2>3 DEF Fine, FailureKnown, ErrorsKnown
  <1> QED BY <1>2, <1>3

\* What the run finds itself is old, excused, or has a line.
LEMMA ClassifyKnows ==
    ASSUME Typed, Dated, NEW w \in Workers, OwnReceipts(w), run[w].at = "classifying",
           NEW n \in 0..Len(receipts), run[w].mine = (n + 1)..Len(receipts), KnownUpTo(n),
           NEW told \in InOrder(Noted(w, Attention)),
           NEW s, Range(LinesOf(w, told)) \subseteq Range(s)
    PROVE  KnownWith(s)
  <1> DEFINE m == Len(receipts)
             ls == Range(queued)
             ms == Range(queued) \cup Range(s)
  <1>0. /\ m \in Nat /\ n \in Nat /\ n <= m /\ ls \subseteq ms
        /\ \A i \in 1..m : receipts[i].run \in Nat /\ receipts[i].run <= run[w].no
        /\ run[w].no \in Nat
    <2>1. m \in Nat /\ n \in Nat /\ run[w].no = runs /\ run[w].no \in 1..MaxRuns
      BY Rows DEF Typed, RunTyped, OwnReceipts
    <2> QED BY <2>1, ReceiptFields DEF Dated
  <1> SUFFICES ASSUME NEW c \in Checks PROVE Fine(receipts, links, ms, unheard, c, m)
    BY DEF KnownWith
  <1>1. Fine(receipts, links, ls, unheard, c, n)
    BY DEF KnownUpTo
  <1> HIDE DEF ls
  <1>2. CASE \A j \in (n + 1)..m : receipts[j].check # c
    <2> HIDE DEF m, ms
    <2> QED BY <1>0, <1>1, <1>2, RestsFine
  <1>3. ASSUME NEW some \in (n + 1)..m, receipts[some].check = c
        PROVE  Fine(receipts, links, ms, unheard, c, m)
    <2>0. PICK i \in (n + 1)..m : Closes(receipts, c, i, n, m)
      BY <1>3, OneCloses
    <2> HIDE DEF m
    <2>1. i \in Nat /\ i \in 1..m /\ i \in run[w].mine /\ receipts[i].check = c /\ n < m
      BY <1>0, <2>0 DEF m, Closes
    <2>2. /\ StreakIn(receipts, c, receipts[i].result, m)
                = StreakIn(receipts, c, receipts[i].result, n) \cup {i}
          /\ \A result : result # receipts[i].result => StreakIn(receipts, c, result, m) = {}
      BY <1>0, <2>0, <2>1, StreakGoesOn
    <2>3. receipts[i].result \in {"pass", "fail", "error"}
      BY <2>1, ReceiptFields DEF m
    <2>4. NoticeOf(w, i) = Notice(receipts[i], PriorIn(receipts, c, n))
      BY <1>0, <2>1, NoticeIs DEF m
    <2>5. ASSUME NEW kinds, NoticeOf(w, i) \in Attention, NoticeOf(w, i) \in kinds
          PROVE  Tells(receipts, ms, c, kinds, StreakIn(receipts, c, receipts[i].result, m))
      <3> DEFINE S == StreakIn(receipts, c, receipts[i].result, m)
      <3>1. i \in Noted(w, Attention)
        BY <2>1, <2>5 DEF Noted
      <3>2. PICK l \in Range(LinesOf(w, told)) :
                    l.of = c /\ l.what \in kinds /\ l.at = run[w].no
        BY <2>1, <2>5, <3>1, NoticeHasLine
      <3>3. l \in ms
        BY <3>2
      <3>4. S \subseteq 1..m /\ S # {}
        BY <2>2 DEF StreakIn, ClosingIn
      <3> HIDE DEF S, ms
      <3>5. Tells(receipts, ms, c, kinds, S)
        BY <1>0, <3>2, <3>3, <3>4, LineTells
      <3> QED BY <3>5 DEF S
    <2> HIDE DEF ms
    <2>6. FailureKnown(receipts, links, ms, unheard, c, m)
      <3>1. CASE receipts[i].result # "fail"
        BY <2>2, <3>1 DEF FailureKnown
      <3>2. CASE receipts[i].result = "fail" /\ NoticeOf(w, i) \in Attention
        <4>1. NoticeOf(w, i) \in FailureKinds
          BY <2>4, <3>2 DEF Notice, Attention, FailureKinds
        <4> QED BY <2>5, <3>2, <4>1 DEF FailureKnown
      <3>3. CASE receipts[i].result = "fail" /\ NoticeOf(w, i) \notin Attention
        BY <1>0, <1>1, <2>0, <2>1, <2>4, <3>3, FailureStaysKnown DEF Fine, m
      <3> QED BY <3>1, <3>2, <3>3
    <2>7. ErrorsKnown(receipts, ms, unheard, c, m)
      <3>1. CASE receipts[i].result # "error"
        BY <2>2, <3>1 DEF ErrorsKnown
      <3>2. CASE receipts[i].result = "error" /\ NoticeOf(w, i) \in Attention
        <4>1. NoticeOf(w, i) \in ErrorKinds
          BY <2>4, <3>2 DEF Notice, Attention, ErrorKinds
        <4> QED BY <2>5, <3>2, <4>1 DEF ErrorsKnown
      <3>3. CASE receipts[i].result = "error" /\ NoticeOf(w, i) \notin Attention
        BY <1>0, <1>1, <2>0, <2>1, <2>4, <3>3, ErrorsStayKnown DEF Fine, m
      <3> QED BY <3>1, <3>2, <3>3
    <2> QED BY <2>6, <2>7 DEF Fine
  <1>4. Fine(receipts, links, ms, unheard, c, m)
    <2> HIDE DEF ms
    <2> QED BY <1>2, <1>3
  <1> QED BY <1>4 DEF m, ms

-------------------------------------------------------------------------------
(* The steps of a run, as far as its receipts and lines go.                 *)

AtTelling == {"checking", "classifying", "reading", "queueing"}

LEMMA FollowingAt ==
    ASSUME Typed, NEW w \in Workers, Goes(w, Following(w))
    PROVE  run'[w].at \in {"passes", "catching up"}
  <1>1. run'[w] = Following(w)
    BY NewRow
  <1> QED BY <1>1, FollowingShape DEF FollowingRow

\* The phase of w is not the alert email's, or this is over.
Quits(w) ==
    /\ UNCHANGED <<receipts, links, runs>> /\ Range(queued) \subseteq Range(queued')
    /\ unheard \subseteq unheard'
    /\ run'[w].at \notin {"checking", "classifying"} /\ ~Telling(w)'
    /\ Telling(w) => unheard' = unheard \cup {run[w].no}

LEMMA QuitsElsewhere ==
    ASSUME Typed, NEW w \in Workers, run[w].at \notin AtTelling, run'[w].at \notin AtTelling,
           UNCHANGED <<receipts, links, runs, queued, unheard>>
    PROVE  Quits(w)
  BY DEF Quits, Telling, AtTelling

LEMMA RemindQuits ==
    ASSUME Ruled, NEW w \in Workers, Remind(w) \/ Send(w) \/ Clear(w)
    PROVE  Quits(w)
  <1>0. Typed /\ PhaseFits(run[w])
    BY DEF Ruled, PhasesFit
  <1>1. CASE Send(w)
    BY <1>0, <1>1, SendRowOf, QuitsElsewhere DEF Send, world, AtTelling
  <1>2. CASE Clear(w)
    BY <1>0, <1>2, FollowingAt, QuitsElsewhere DEF Clear, world, AtTelling
  <1>3. CASE ReadPasses(w)
    BY <1>0, <1>3, ReadPassesRowOf, QuitsElsewhere DEF ReadPasses, world, alerting, AtTelling
  <1>4. CASE Remember(w)
    BY <1>0, <1>4, FollowingAt, QuitsElsewhere DEF Remember, world, AtTelling
  <1>5. CASE Recall(w)
    <2>1. run[w].at = "recalling" /\ run[w].phase = "remind"
          /\ UNCHANGED <<receipts, links, runs, queued, unheard>>
      BY <1>0, <1>5 DEF Recall, PhaseFits, world, alerting
    <2>2. ASSUME NEW order \in Listings(News(w)),
                 Goes(w, [run[w] EXCEPT !.at = "reading", !.lines = RemindersOf(w, order)])
          PROVE  Quits(w)
      <3> DEFINE row == [run[w] EXCEPT !.at = "reading", !.lines = RemindersOf(w, order)]
      <3>1. row.at = "reading" /\ row.phase = "remind"
        BY <1>0, <2>1, Rows DEF RunRow
      <3>2. run'[w] = row
        BY <1>0, <2>2, NewRow
      <3> HIDE DEF row
      <3> QED BY <2>1, <3>1, <3>2 DEF Quits, Telling
    <2>3. ASSUME Goes(w, [run[w] EXCEPT !.at = "remembering"]) PROVE Quits(w)
      <3> DEFINE row == [run[w] EXCEPT !.at = "remembering"]
      <3>1. row.at = "remembering"
        BY <1>0, <2>1, Rows DEF RunRow
      <3>2. run'[w] = row
        BY <1>0, <2>3, NewRow
      <3> HIDE DEF row
      <3> QED BY <2>1, <3>1, <3>2 DEF Quits, Telling
    <2>4. ASSUME Goes(w, Following(w)) PROVE Quits(w)
      BY <1>0, <2>1, <2>4, FollowingAt, QuitsElsewhere DEF AtTelling
    <2> QED BY <1>0, <1>5, <2>2, <2>3, <2>4, RecallCases
  <1> QED BY <1>1, <1>2, <1>3, <1>4, <1>5 DEF Remind

LEMMA SummariseQuits ==
    ASSUME Typed, NEW w \in Workers, Summarise(w) \/ MailFails(w)
    PROVE  Quits(w)
  <1>1. CASE LookForMonths(w)
    BY <1>1, LookForMonthsRowOf, QuitsElsewhere DEF LookForMonths, world, alerting, AtTelling
  <1>2. CASE Store(w)
    BY <1>2, StoreRowOf, QuitsElsewhere DEF Store, world, alerting, AtTelling
  <1>3. CASE Look(w)
    <2> DEFINE row == [run[w] EXCEPT !.to = Unserved(run[w].month), !.at = "mailing"]
    <2>1. row.at = "mailing"
      BY Rows DEF RunRow
    <2>2. Onward(w) \/ Goes(w, row)
      BY <1>3 DEF Look
    <2> HIDE DEF row
    <2>3. run'[w].at \in {"idle", "looking", "mailing"}
      BY <2>1, <2>2, OnwardLands, NewRow
    <2> QED BY <1>3, <2>3, QuitsElsewhere DEF Look, world, alerting, AtTelling
  <1>4. CASE Mail(w)
    <2> DEFINE row == [run[w] EXCEPT !.at = "marking"]
    <2>1. row.at = "marking"
      BY Rows DEF RunRow
    <2>2. Goes(w, row)
      BY <1>4 DEF Mail
    <2> HIDE DEF row
    <2>3. run'[w].at = "marking"
      BY <2>1, <2>2, NewRow
    <2> QED BY <1>4, <2>3, QuitsElsewhere DEF Mail, world, alerting, AtTelling
  <1>5. CASE Mark(w) \/ MailFails(w)
    <2>1. \E x : Past(w, x)
      BY <1>5 DEF Mark, MailFails
    <2>2. run'[w].at \in {"idle", "looking", "mailing"}
      BY <2>1, PastLands
    <2> QED BY <1>5, <2>2, QuitsElsewhere DEF Mark, MailFails, world, alerting, AtTelling
  <1> QED BY <1>1, <1>2, <1>3, <1>4, <1>5 DEF Summarise

\* A run that stops with something to tell is noted as unheard.
LEMMA StopsQuit ==
    ASSUME Ruled, NEW w \in Workers, PhaseFails(w) \/ RunDies(w)
    PROVE  Quits(w)
  <1>0. Typed
    BY DEF Ruled
  <1>1. run'[w].at \in {"idle", "passes", "catching up"}
    BY <1>0, ReturnsLands, FollowingAt DEF PhaseFails, RunDies
  <1>2. UNCHANGED <<receipts, links, runs, queued>> /\ unheard' = unheard \cup Silenced(w)
    BY DEF PhaseFails, RunDies, world
  <1>3. ~Telling(w)' /\ run'[w].at \notin {"checking", "classifying"}
    BY <1>1 DEF Telling
  <1> QED BY <1>2, <1>3 DEF Quits, Silenced

LEMMA ReadPendingAt ==
    ASSUME Typed, NEW w \in Workers, ReadPending(w)
    PROVE  /\ UNCHANGED <<receipts, links, runs, queued, unheard>> /\ run[w].at = "reading"
           /\ \/ run'[w].at \in {"passes", "catching up"} /\ run[w].lines = <<>>
              \/ run'[w].at = "sending" /\ run[w].lines = <<>>
              \/ /\ run'[w].at = "queueing" /\ Fresh(w)' = run[w].lines
                 /\ run'[w].phase = run[w].phase /\ run'[w].no = run[w].no
  <1> DEFINE all == pending \o run[w].lines
             row == [run[w] EXCEPT !.lines = all, !.old = Len(pending), !.to = Recipients,
                                   !.at = IF run[w].lines = <<>> THEN "sending" ELSE "queueing"]
  <1>1. Goes(w, IF all = <<>> THEN Following(w) ELSE row) /\ run[w].at = "reading"
        /\ UNCHANGED <<receipts, links, runs, queued, unheard>>
    BY DEF ReadPending, world, alerting
  <1>2. run[w] \in RunRow /\ run[w].lines \in Seq(Line) /\ pending \in Seq(Line)
    BY Rows, Fields DEF Typed, AlertTyped
  <1>3. row.at = (IF run[w].lines = <<>> THEN "sending" ELSE "queueing")
        /\ row.phase = run[w].phase /\ row.no = run[w].no
    BY <1>2 DEF RunRow
  <1>4. CASE all = <<>>
    <2>1. run[w].lines = <<>>
      BY <1>2, <1>4
    <2> QED BY <1>1, <1>4, <2>1, FollowingAt
  <1>5. CASE all # <<>>
    <2> HIDE DEF row
    <2>1. run'[w] = row
      BY <1>1, <1>5, NewRow
    <2>2. run'[w].at = "queueing" => Fresh(w)' = run[w].lines
      BY <2>1, <1>3, ReadPendingRowOf DEF AtAlert
    <2> QED BY <1>1, <1>3, <2>1, <2>2
  <1> QED BY <1>4, <1>5

LEMMA CheckRowOf ==
    ASSUME Typed, NEW w \in Workers, NEW result, Check(w, result)
    PROVE  /\ run'[w].at \in {"checking", "classifying"} /\ run'[w].no = run[w].no
           /\ run'[w].mine = run[w].mine \cup {Len(receipts) + 1}
           /\ run'[w].phase = run[w].phase
  <1> DEFINE row == [run[w] EXCEPT !.left = Tail(@),
                              !.mine = @ \cup {Len(receipts) + 1},
                              !.at = IF Len(run[w].left) = 1 THEN "classifying" ELSE "checking"]
  <1>1. /\ row.at \in {"checking", "classifying"} /\ row.no = run[w].no
        /\ row.mine = run[w].mine \cup {Len(receipts) + 1} /\ row.phase = run[w].phase
    BY Rows DEF RunRow
  <1>2. Goes(w, row)
    BY DEF Check
  <1> HIDE DEF row
  <1> QED BY <1>1, <1>2, NewRow

LEMMA StartRowOf ==
    ASSUME Typed, NEW w \in Workers, NEW ids, Start(w, ids)
    PROVE  /\ run'[w].at \in {"checking", "classifying"} /\ run'[w].no = runs + 1
           /\ run'[w].mine = {} /\ run'[w].phase = "alert"
  <1> DEFINE at == IF ids = <<>> THEN "classifying" ELSE "checking"
             row == [Idle EXCEPT !.at = at, !.no = runs + 1, !.left = ids]
  <1>1. /\ row.at \in {"checking", "classifying"} /\ row.no = runs + 1 /\ row.mine = {}
        /\ row.phase = "alert"
    BY DEF Idle
  <1>2. Goes(w, row)
    BY DEF Start
  <1> HIDE DEF row
  <1> QED BY <1>1, <1>2, NewRow

LEMMA ClassifyLines ==
    ASSUME Typed, NEW w \in Workers, Classify(w)
    PROVE  /\ run'[w].no = run[w].no
           /\ \E told \in InOrder(Noted(w, Attention)) :
                 Range(LinesOf(w, told)) \subseteq Range(run'[w].lines)
  <1>1. PICK told \in InOrder(Noted(w, Attention)) : \E back \in InOrder(Noted(w, {"recovered"})) :
          Goes(w, [run[w] EXCEPT !.at = "reading", !.mine = {},
                                 !.lines = IF Noted(w, Attention) = {} THEN <<>>
                                           ELSE LinesOf(w, told) \o LinesOf(w, back)])
    BY DEF Classify
  <1>2. PICK back \in InOrder(Noted(w, {"recovered"})) :
          Goes(w, [run[w] EXCEPT !.at = "reading", !.mine = {},
                                 !.lines = IF Noted(w, Attention) = {} THEN <<>>
                                           ELSE LinesOf(w, told) \o LinesOf(w, back)])
    BY <1>1
  <1> DEFINE all == IF Noted(w, Attention) = {} THEN <<>>
                    ELSE LinesOf(w, told) \o LinesOf(w, back)
             row == [run[w] EXCEPT !.at = "reading", !.mine = {}, !.lines = all]
  <1>3. run'[w] = row
    BY <1>2, NewRow
  <1> HIDE DEF all
  <1>4. run'[w].lines = all /\ run'[w].no = run[w].no
    BY <1>3, Rows DEF RunRow
  <1>5. CASE Noted(w, Attention) = {}
    <2>1. Cardinality(Noted(w, Attention)) = 0
      BY <1>5, FS_EmptySet
    <2>2. DOMAIN told = {}
      BY <2>1 DEF InOrder
    <2>3. Range(LinesOf(w, told)) = {}
      BY <2>2 DEF LinesOf, Range
    <2> QED BY <1>4, <2>3
  <1>6. CASE Noted(w, Attention) # {}
    <2>1. LinesOf(w, told) \in Seq(Line) /\ LinesOf(w, back) \in Seq(Line)
      BY LinesAreLines DEF Classify
    <2>2. Range(all) = Range(LinesOf(w, told)) \cup Range(LinesOf(w, back))
      BY <1>6, <2>1, RangeOfBoth DEF all
    <2> QED BY <1>4, <2>2
  <1> QED BY <1>5, <1>6

LEMMA KnownStays ==
    ASSUME NEW n \in Nat, KnownUpTo(n), \A i \in 1..n : receipts'[i] = receipts[i],
           LinksStay(links, links'), Range(queued) \subseteq Range(queued'),
           unheard \subseteq unheard'
    PROVE  KnownUpTo(n)'
  <1> SUFFICES ASSUME NEW c \in Checks
               PROVE  Fine(receipts', links', Range(queued'), unheard', c, n)
    BY DEF KnownUpTo
  <1>1. Fine(receipts, links, Range(queued), unheard, c, n)
    BY DEF KnownUpTo
  <1> QED BY <1>1, FineStays

LEMMA KnownWithStays ==
    ASSUME UNCHANGED <<receipts, links, queued, unheard>>
    PROVE  /\ \A s : KnownWith(s) => KnownWith(s)'
           /\ \A no : KnownIf(no) => KnownIf(no)'
  BY DEF KnownWith, KnownIf

LEMMA LinksRest == LinksStay(links, links)
  BY DEF LinksStay

\* Nobody who is idle has anything to tell.
OwnTold(w) ==
    /\ OwnReceipts(w) /\ ElseKnown(w) /\ AboutToTell(w)
    /\ ~Telling(w) => KnownUpTo(Len(receipts))

\* Before a step of w it is w alone that may have something to tell.
LEMMA OwnBefore ==
    ASSUME Ruled, ToldInv, ~lost, NEW w \in Workers, Step(w)
    PROVE  OwnTold(w)
  <1>1. \A v \in Workers : v # w => ~Telling(v)
    BY OthersRest DEF Telling
  <1> QED BY <1>1 DEF ToldInv, OwnTold

LEMMA ToldAfter ==
    ASSUME Ruled, NEW w \in Workers, Step(w), ~lost => Dated' /\ OwnTold(w)'
    PROVE  ToldInv'
  <1>1. UNCHANGED lost
    BY StepKeepsLost
  <1>2. ASSUME ~lost, NEW v \in Workers, v # w PROVE run'[v].at = "idle"
    BY <1>2, OthersRest
  <1>3. \A v \in Workers : run'[v].at = "idle" =>
           OwnReceipts(v)' /\ ElseKnown(v)' /\ AboutToTell(v)'
    BY DEF OwnReceipts, ElseKnown, AboutToTell
  <1> QED BY <1>1, <1>2, <1>3 DEF ToldInv, OwnTold

LEMMA KnownWhileTelling ==
    ASSUME Typed, NEW w \in Workers, OwnTold(w), Telling(w)
    PROVE  KnownIf(run[w].no)
  <1>1. CASE run[w].at \in {"checking", "classifying"}
    <2>1. OwnReceipts(w)
      BY DEF OwnTold
    <2>2. PICK n \in 0..Len(receipts) : run[w].mine = (n + 1)..Len(receipts) /\ KnownUpTo(n)
      BY <1>1 DEF OwnTold, ElseKnown
    <2> QED BY <1>1, <2>1, <2>2, KnownIfSilenced
  <1>2. CASE run[w].at \in {"reading", "queueing"}
    BY <1>2 DEF OwnTold, AboutToTell, Telling
  <1> QED BY <1>1, <1>2 DEF Telling

LEMMA ToldQuits ==
    ASSUME Typed, NEW w \in Workers, OwnTold(w), Quits(w)
    PROVE  OwnTold(w)'
  <1>1. OwnReceipts(w)' /\ ElseKnown(w)' /\ AboutToTell(w)'
    BY DEF Quits, OwnReceipts, ElseKnown, AboutToTell, Telling
  <1>2. PICK n \in Nat : n = Len(receipts)
    BY ReceiptsCount
  <1>3. KnownUpTo(n)'
    <2>1. CASE ~Telling(w)
      <3>1. KnownUpTo(n)
        BY <1>2, <2>1 DEF OwnTold
      <3> QED BY <3>1, LinksRest, KnownStays DEF Quits
    <2>2. CASE Telling(w)
      <3> SUFFICES ASSUME NEW c \in Checks
                   PROVE  Fine(receipts', links', Range(queued'), unheard', c, n)
        BY DEF KnownUpTo
      <3>1. Fine(receipts, links, Range(queued), unheard', c, n)
        BY <1>2, <2>2, KnownWhileTelling DEF KnownIf, Quits
      <3> QED BY <3>1, LinksRest, FineStays DEF Quits
    <2> QED BY <2>1, <2>2
  <1> QED BY <1>1, <1>2, <1>3 DEF OwnTold, Quits

LEMMA ToldStart ==
    ASSUME Ruled, ToldInv, ~lost, NEW w \in Workers, NEW ids, Start(w, ids)
    PROVE  OwnTold(w)'
  <1>0. Typed /\ runs \in Nat
    BY DEF Ruled, Typed, RunTyped
  <1>1. /\ run'[w].at \in {"checking", "classifying"} /\ run'[w].no = runs + 1
        /\ run'[w].mine = {} /\ run'[w].phase = "alert"
    BY <1>0, StartRowOf
  <1>2. /\ lock = None /\ runs' = runs + 1
        /\ UNCHANGED <<receipts, links, queued, unheard>>
    BY DEF Start, world, alerting
  <1>3. \A v \in Workers : ~Telling(v)
    BY <1>2 DEF Ruled, Alone, Telling, EvidenceAssumption
  <1>4. PICK n \in Nat : n = Len(receipts)
    BY <1>0, ReceiptsCount
  <1>5. KnownUpTo(n)
    BY <1>3, <1>4 DEF ToldInv
  <1>6. KnownUpTo(n)'
    BY <1>2, <1>5, LinksRest, KnownStays
  <1>7. n \in 0..Len(receipts)' /\ run'[w].mine = (n + 1)..Len(receipts)'
    BY <1>1, <1>2, <1>4
  <1>8. OwnReceipts(w)'
    <2>1. \A i \in 1..Len(receipts) : receipts[i].run # runs + 1
      BY <1>0, ReceiptFields DEF ToldInv, Dated
    <2> QED BY <1>1, <1>2, <2>1 DEF OwnReceipts
  <1>9. ElseKnown(w)'
    BY <1>6, <1>7 DEF ElseKnown
  <1>10. AboutToTell(w)' /\ Telling(w)'
    BY <1>1 DEF AboutToTell, Telling
  <1> QED BY <1>8, <1>9, <1>10 DEF OwnTold

LEMMA ToldCheck ==
    ASSUME Ruled, NEW w \in Workers, OwnTold(w), NEW result, Check(w, result)
    PROVE  OwnTold(w)'
  <1> DEFINE new == [check |-> Head(run[w].left), result |-> result, day |-> day,
                     run |-> run[w].no]
  <1>0. Typed /\ receipts \in Seq(Receipt)
    BY DEF Ruled, Typed, RunTyped
  <1>m. PICK m \in Nat : m = Len(receipts)
    BY <1>0, ReceiptsCount
  <1>1. /\ run'[w].at \in {"checking", "classifying"} /\ run'[w].no = run[w].no
        /\ run'[w].mine = run[w].mine \cup {m + 1}
        /\ run'[w].phase = run[w].phase
    BY <1>0, <1>m, CheckRowOf
  <1>2. /\ run[w].at = "checking" /\ receipts' = Append(receipts, new)
        /\ UNCHANGED <<links, queued, unheard, runs>> /\ run[w].phase = "alert"
    BY DEF Check, world, alerting, Ruled, PhasesFit, PhaseFits
  <1>3. /\ Len(receipts') = m + 1 /\ receipts'[m + 1] = new
        /\ \A i \in 1..m : receipts'[i] = receipts[i]
    BY <1>0, <1>m, <1>2
  <1>4. \A i \in 1..(m + 1) : i \in 1..m \/ i = m + 1
    OBVIOUS
  <1>5. OwnReceipts(w)'
    <2>1. /\ run[w].no = runs
          /\ \A i \in 1..m : receipts[i].run = run[w].no <=> i \in run[w].mine
      BY <1>2, <1>m DEF OwnTold, OwnReceipts
    <2>2. ASSUME NEW i \in 1..(m + 1)
          PROVE  receipts'[i].run = run'[w].no <=> i \in run'[w].mine
      <3>1. CASE i \in 1..m
        <4>1. i # m + 1
          BY <3>1
        <4> QED BY <1>1, <1>3, <2>1, <3>1, <4>1
      <3>2. CASE i = m + 1
        BY <1>1, <1>3, <3>2
      <3> QED BY <1>4, <3>1, <3>2
    <2> QED BY <1>1, <1>2, <1>3, <2>1, <2>2 DEF OwnReceipts
  <1>6. ElseKnown(w)'
    <2>1. PICK n \in 0..m : run[w].mine = (n + 1)..m /\ KnownUpTo(n)
      BY <1>2, <1>m DEF OwnTold, ElseKnown
    <2>2. n \in 0..(m + 1) /\ (n + 1)..m \cup {m + 1} = (n + 1)..(m + 1) /\ 1..n \subseteq 1..m
      BY <2>1
    <2>3. KnownUpTo(n)'
      BY <1>2, <1>3, <2>1, <2>2, LinksRest, KnownStays
    <2>4. n \in 0..Len(receipts)' /\ run'[w].mine = (n + 1)..Len(receipts)'
      BY <1>1, <1>3, <2>1, <2>2
    <2> QED BY <2>3, <2>4 DEF ElseKnown
  <1>7. AboutToTell(w)' /\ Telling(w)'
    BY <1>1, <1>2 DEF AboutToTell, Telling
  <1> QED BY <1>5, <1>6, <1>7 DEF OwnTold

LEMMA ToldClassify ==
    ASSUME Ruled, Dated, NEW w \in Workers, OwnTold(w), Classify(w)
    PROVE  OwnTold(w)'
  <1>1. /\ Typed /\ run[w].at = "classifying" /\ run[w].phase = "alert"
        /\ UNCHANGED <<receipts, links, queued, unheard>>
    BY DEF Ruled, PhasesFit, PhaseFits, Classify, world, alerting
  <1>2. run'[w].at = "reading" /\ run'[w].phase = "alert" /\ run'[w].no = run[w].no
    BY <1>1, ClassifyRowOf, ClassifyLines
  <1>3. PICK told \in InOrder(Noted(w, Attention)) :
           Range(LinesOf(w, told)) \subseteq Range(run'[w].lines)
    BY <1>1, ClassifyLines
  <1>4. PICK s, no : s = run'[w].lines /\ no = run[w].no
    OBVIOUS
  <1>5. KnownWith(s) /\ KnownIf(no)
    <2>1. PICK n \in 0..Len(receipts) : run[w].mine = (n + 1)..Len(receipts) /\ KnownUpTo(n)
      BY <1>1 DEF OwnTold, ElseKnown
    <2>2. OwnReceipts(w)
      BY DEF OwnTold
    <2>3. KnownWith(s)
      BY <1>1, <1>3, <1>4, <2>1, <2>2, ClassifyKnows
    <2>4. KnownIf(no)
      BY <1>1, <1>4, <2>1, <2>2, KnownIfSilenced
    <2> QED BY <2>3, <2>4
  <1>6. KnownWith(s)' /\ KnownIf(no)'
    BY <1>1, <1>5, KnownWithStays
  <1>7. AboutToTell(w)'
    BY <1>2, <1>4, <1>6 DEF AboutToTell
  <1>8. OwnReceipts(w)' /\ ElseKnown(w)' /\ Telling(w)'
    BY <1>2 DEF OwnReceipts, ElseKnown, Telling
  <1> QED BY <1>7, <1>8 DEF OwnTold

LEMMA ToldReadPending ==
    ASSUME Ruled, NEW w \in Workers, OwnTold(w), ReadPending(w)
    PROVE  OwnTold(w)'
  <1>1. /\ UNCHANGED <<receipts, links, queued, unheard>> /\ run[w].at = "reading"
        /\ run'[w].at \in {"passes", "catching up", "sending", "queueing"}
        /\ run'[w].at = "queueing" =>
              Fresh(w)' = run[w].lines /\ run'[w].phase = run[w].phase /\ run'[w].no = run[w].no
        /\ run'[w].at # "queueing" => run[w].lines = <<>>
    BY ReadPendingAt DEF Ruled
  <1>2. OwnReceipts(w)' /\ ElseKnown(w)'
    BY <1>1 DEF OwnReceipts, ElseKnown
  <1>3. PICK s, no : s = run[w].lines /\ no = run[w].no
    OBVIOUS
  <1>4. ASSUME run[w].phase = "alert" PROVE KnownWith(s)' /\ KnownIf(no)'
    <2>1. KnownWith(s) /\ KnownIf(no)
      BY <1>1, <1>3, <1>4 DEF OwnTold, AboutToTell
    <2> QED BY <1>1, <2>1, KnownWithStays
  <1>5. AboutToTell(w)'
    BY <1>1, <1>3, <1>4 DEF AboutToTell
  <1>6. ASSUME ~Telling(w)' PROVE KnownUpTo(Len(receipts))'
    <2>1. CASE run[w].phase = "alert"
      <3>1. s = <<>>
        BY <1>1, <1>3, <1>6, <2>1 DEF Telling
      <3>2. KnownWith(<<>>)'
        BY <1>4, <2>1, <3>1
      <3>3. Range(queued') \cup Range(<<>>) = Range(queued')
        BY DEF Range
      <3> QED BY <3>2, <3>3 DEF KnownWith, KnownUpTo
    <2>2. CASE run[w].phase # "alert"
      <3>1. KnownUpTo(Len(receipts))
        BY <2>2 DEF OwnTold, Telling
      <3> QED BY <1>1, <3>1 DEF KnownUpTo
    <2> QED BY <2>1, <2>2
  <1> QED BY <1>2, <1>5, <1>6 DEF OwnTold

LEMMA ToldQueue ==
    ASSUME Ruled, NEW w \in Workers, OwnTold(w), Queue(w)
    PROVE  OwnTold(w)'
  <1>1. /\ Typed /\ UNCHANGED <<receipts, links, unheard>> /\ run[w].at = "queueing"
        /\ run'[w].at = "sending" /\ Range(queued') = Range(queued) \cup Range(Fresh(w))
    BY QueueRowOf, QueueAdds DEF Ruled, Queue, world
  <1>2. OwnReceipts(w)' /\ ElseKnown(w)' /\ AboutToTell(w)'
    BY <1>1 DEF OwnReceipts, ElseKnown, AboutToTell
  <1>3. KnownUpTo(Len(receipts))'
    <2>1. CASE run[w].phase = "alert"
      <3>1. KnownWith(Fresh(w))
        BY <1>1, <2>1 DEF OwnTold, AboutToTell
      <3> QED BY <1>1, <3>1 DEF KnownWith, KnownUpTo
    <2>2. CASE run[w].phase # "alert"
      <3>1. PICK n \in Nat : n = Len(receipts)
        BY <1>1, ReceiptsCount
      <3>2. KnownUpTo(n)
        BY <2>2, <3>1 DEF OwnTold, Telling
      <3>3. KnownUpTo(n)'
        BY <1>1, <3>2, LinksRest, KnownStays
      <3> QED BY <1>1, <3>1, <3>3
    <2> QED BY <2>1, <2>2
  <1> QED BY <1>2, <1>3 DEF OwnTold

LEMMA DatedStep ==
    ASSUME Typed, Dated, NEW w \in Workers, OwnReceipts(w), Step(w)
    PROVE  Dated'
  <1>0. /\ day \in Nat /\ runs \in Nat /\ receipts \in Seq(Receipt) /\ UNCHANGED day
        /\ \A i \in 1..Len(receipts) : receipts[i].day \in Nat /\ receipts[i].run \in Nat
    <2>1. UNCHANGED day
      BY DEF Step, Start, Check, Alert, Remind, Summarise, Classify, ReadPending, Queue, Send,
             Clear, ReadPasses, Recall, Remember, LookForMonths, Store, Look, Mail, Mark, MailFails,
             PhaseFails, RunDies, world
    <2> QED BY <2>1, ReceiptFields DEF Typed, WorldTyped, RunTyped
  <1>1. CASE \E result \in {"pass", "fail", "error"} : Check(w, result)
    <2>1. PICK result \in {"pass", "fail", "error"} : Check(w, result)
      BY <1>1
    <2> DEFINE new == [check |-> Head(run[w].left), result |-> result, day |-> day,
                       run |-> run[w].no]
    <2>2. run[w].at = "checking" /\ receipts' = Append(receipts, new) /\ UNCHANGED runs
      BY <2>1 DEF Check
    <2>3. new.day = day /\ new.run = runs
      BY <2>2 DEF OwnReceipts
    <2> HIDE DEF new
    <2>4. Len(receipts') = Len(receipts) + 1 /\ receipts'[Len(receipts) + 1] = new
          /\ \A i \in 1..Len(receipts) : receipts'[i] = receipts[i]
      BY <1>0, <2>2
    <2>5. \A i \in 1..Len(receipts') : i \in 1..Len(receipts) \/ i = Len(receipts) + 1
      BY <1>0, <2>4
    <2> QED BY <1>0, <2>2, <2>3, <2>4, <2>5 DEF Dated
  <1>2. CASE \E ids \in Lists : Start(w, ids)
    BY <1>0, <1>2 DEF Start, Dated
  <1>3. CASE UNCHANGED <<receipts, runs>>
    BY <1>0, <1>3 DEF Dated
  <1>4. CASE Alert(w) \/ Remind(w) \/ Summarise(w) \/ MailFails(w) \/ PhaseFails(w) \/ RunDies(w)
    BY <1>3, <1>4 DEF Alert, Remind, Summarise, Classify, ReadPending, Queue, Send, Clear,
             ReadPasses, Recall, Remember, LookForMonths, Store, Look, Mail, Mark, MailFails,
             PhaseFails, RunDies
  <1> QED BY <1>1, <1>2, <1>4 DEF Step

LEMMA ToldStep ==
    ASSUME Ruled, ToldInv, NEW w \in Workers, Step(w)
    PROVE  ToldInv'
  <1> SUFFICES ASSUME ~lost PROVE Dated' /\ OwnTold(w)'
    BY ToldAfter
  <1>0. Typed /\ Dated /\ OwnReceipts(w) /\ OwnTold(w)
    BY OwnBefore DEF Ruled, ToldInv
  <1>1. Dated'
    BY <1>0, DatedStep
  <1>2. ASSUME NEW ids, Start(w, ids) PROVE OwnTold(w)'
    BY <1>2, ToldStart
  <1>3. ASSUME NEW result, Check(w, result) PROVE OwnTold(w)'
    BY <1>0, <1>3, ToldCheck
  <1>4. ASSUME Quits(w) PROVE OwnTold(w)'
    BY <1>0, <1>4, ToldQuits
  <1>5. CASE Classify(w)
    BY <1>0, <1>1, <1>5, ToldClassify
  <1>6. CASE ReadPending(w)
    BY <1>0, <1>1, <1>6, ToldReadPending
  <1>7. CASE Queue(w)
    BY <1>0, <1>1, <1>7, ToldQueue
  <1>8. CASE Remind(w) \/ Send(w) \/ Clear(w)
    BY <1>1, <1>4, <1>8, RemindQuits
  <1>9. CASE Summarise(w) \/ MailFails(w)
    BY <1>0, <1>1, <1>4, <1>9, SummariseQuits
  <1>10. CASE PhaseFails(w) \/ RunDies(w)
    BY <1>1, <1>4, <1>10, StopsQuit
  <1> QED BY <1>1, <1>2, <1>3, <1>5, <1>6, <1>7, <1>8, <1>9, <1>10 DEF Step, Alert

LEMMA WorldLinks ==
    ASSUME Typed, World
    PROVE  LinksStay(links, links')
  <1>1. CASE UNCHANGED links
    BY <1>1, LinksRest
  <1>2. ASSUME NEW c, NEW e, LinkGap(c, e) PROVE LinksStay(links, links')
    BY <1>2 DEF LinkGap, LinksStay
  <1>3. ASSUME NEW l \in links, RetireGap(l) PROVE LinksStay(links, links')
    <2> DEFINE new == [l EXCEPT !.retired = TRUE]
    <2>1. new.check = l.check /\ new.expires = l.expires /\ new.retired
      BY DEF Typed, WorldTyped
    <2>2. links' = (links \ {l}) \cup {new}
      BY <1>3 DEF RetireGap
    <2> HIDE DEF new
    <2> QED BY <2>1, <2>2 DEF LinksStay
  <1> QED BY <1>1, <1>2, <1>3 DEF World, NextDay, Attest

LEMMA ToldRests ==
    ASSUME Typed, ToldInv, UNCHANGED <<receipts, queued, unheard, run, runs>>, lost => lost',
           LinksStay(links, links'), day' >= day, day' \in Nat
    PROVE  ToldInv'
  <1>n. PICK n \in Nat : n = Len(receipts)
    BY ReceiptsCount
  <1> SUFFICES ASSUME ~lost, Dated,
                      \A w \in Workers : OwnReceipts(w) /\ ElseKnown(w) /\ AboutToTell(w),
                      (\A w \in Workers : ~Telling(w)) => KnownUpTo(n)
               PROVE  /\ Dated'
                      /\ \A w \in Workers : OwnReceipts(w)' /\ ElseKnown(w)' /\ AboutToTell(w)'
                      /\ (\A w \in Workers : ~Telling(w)') => KnownUpTo(n)'
    BY <1>n DEF ToldInv
  <1>1. Dated'
    <2>1. \A i \in 1..Len(receipts) : receipts[i].day \in Nat
      BY ReceiptFields
    <2>2. day \in Nat
      BY DEF Typed, WorldTyped
    <2> QED BY <2>1, <2>2 DEF Dated
  <1>2. \A w \in Workers : OwnReceipts(w)'
    BY DEF OwnReceipts
  <1>3. ASSUME NEW k \in Nat, KnownUpTo(k) PROVE KnownUpTo(k)'
    BY <1>3, KnownStays
  <1>4. ASSUME NEW s, KnownWith(s) PROVE KnownWith(s)'
    <2> SUFFICES ASSUME NEW c \in Checks
                 PROVE  Fine(receipts, links', Range(queued) \cup Range(s), unheard, c, n)
      BY <1>n DEF KnownWith
    <2>1. Fine(receipts, links, Range(queued) \cup Range(s), unheard, c, n)
      BY <1>n, <1>4 DEF KnownWith
    <2> QED BY <2>1, FineStays
  <1>5. ASSUME NEW no, KnownIf(no) PROVE KnownIf(no)'
    <2> SUFFICES ASSUME NEW c \in Checks
                 PROVE  Fine(receipts, links', Range(queued), unheard \cup {no}, c, n)
      BY <1>n DEF KnownIf
    <2>1. Fine(receipts, links, Range(queued), unheard \cup {no}, c, n)
      BY <1>n, <1>5 DEF KnownIf
    <2> QED BY <2>1, FineStays
  <1>6. ASSUME NEW w \in Workers PROVE ElseKnown(w)'
    <2> SUFFICES ASSUME run[w].at \in {"checking", "classifying"}
                 PROVE  \E k \in 0..Len(receipts) :
                           run[w].mine = (k + 1)..Len(receipts) /\ KnownUpTo(k)'
      BY DEF ElseKnown
    <2>1. PICK k \in 0..Len(receipts) : run[w].mine = (k + 1)..Len(receipts) /\ KnownUpTo(k)
      BY DEF ElseKnown
    <2>2. k \in Nat
      OBVIOUS
    <2> QED BY <1>3, <2>1, <2>2
  <1>7. ASSUME NEW w \in Workers PROVE AboutToTell(w)'
    <2>1. PICK s, f, no : s = run[w].lines /\ f = Fresh(w) /\ no = run[w].no
      OBVIOUS
    <2>2. /\ KnownWith(s) => KnownWith(s)'
          /\ KnownWith(f) => KnownWith(f)'
          /\ KnownIf(no) => KnownIf(no)'
      BY <1>4, <1>5
    <2>3. s = run'[w].lines /\ f = Fresh(w)' /\ no = run'[w].no
      BY <2>1 DEF Fresh
    <2> QED BY <2>1, <2>2, <2>3 DEF AboutToTell
  <1>8. \A w \in Workers : Telling(w)' <=> Telling(w)
    BY DEF Telling
  <1> QED BY <1>1, <1>2, <1>3, <1>6, <1>7, <1>8

LEMMA ToldNext ==
    ASSUME Ruled, ToldInv, [Next]_vars
    PROVE  ToldInv'
  <1>0. Typed /\ day \in Nat
    BY DEF Ruled, Typed, WorldTyped
  <1>1. CASE World
    <2>1. UNCHANGED <<receipts, queued, unheard, run, runs, lost>>
      BY <1>1 DEF World, NextDay, LinkGap, RetireGap, Attest, Outside, alerting
    <2>2. day' = day \/ day' = day + 1
      BY <1>1 DEF World, NextDay, LinkGap, RetireGap, Attest, Outside
    <2>3. day' >= day /\ day' \in Nat
      BY <1>0, <2>2
    <2> QED BY <1>0, <1>1, <2>1, <2>3, WorldLinks, ToldRests
  <1>2. CASE SessionLost
    BY <1>2 DEF SessionLost, ToldInv
  <1>3. CASE UNCHANGED vars
    BY <1>0, <1>3, LinksRest, ToldRests DEF vars, world, alerting
  <1> QED BY <1>1, <1>2, <1>3, ToldStep DEF Next

\* Between runs, a check that fails was announced since it began to, unless a
\* link covered its latest receipt or one was retired, and a check that could
\* not run in two runs in a row was announced, unless it could not run twice in
\* the first of them already.  A run that ends between its receipts and its
\* lines takes the announcement from the failures it saw itself only, and no
\* other failure of anything takes one: for every list of checks a run is
\* started with, one that repeats an id included.
THEOREM ChangesAlwaysAnnounced == Spec => []ChangesAreAnnounced
  <1>1. Init => Ruled /\ ToldInv
    <2> SUFFICES ASSUME Init PROVE ToldInv
      BY RuledInit
    <2>1. \A w \in Workers : run[w].at = "idle"
      BY DEF Init, Idle
    <2>2. receipts = <<>> /\ Len(receipts) = 0 /\ 1..0 = {}
      BY DEF Init
    <2>3. Dated
      BY <2>2 DEF Dated
    <2>4. KnownUpTo(Len(receipts))
      <3>1. \A c, result : StreakIn(receipts, c, result, Len(receipts)) = {}
        BY <2>2 DEF StreakIn, ClosingIn
      <3> QED BY <3>1 DEF KnownUpTo, Fine, FailureKnown, ErrorsKnown
    <2> QED BY <2>1, <2>3, <2>4 DEF ToldInv, OwnReceipts, ElseKnown, AboutToTell
  <1>2. Ruled /\ ToldInv /\ [Next]_vars => (Ruled /\ ToldInv)'
    BY RuledNext, ToldNext
  <1>3. Ruled /\ ToldInv => ChangesAreAnnounced
    <2> SUFFICES ASSUME Ruled, ToldInv, lock = None, ~lost, NEW c \in Checks
                 PROVE  /\ LET failing == Streak(c, "fail")
                            IN  \/ failing = {} \/ Unheard(failing)
                                \/ Announced(c, {"new-failure", "gap-expired"}, failing)
                                \/ \E l \in links :
                                      /\ l.check = c
                                      /\ l.retired \/ l.expires >= receipts[Greatest(failing)].day
                        /\ LET erring == Streak(c, "error")
                            IN  Cardinality(erring) > 1 =>
                                   \/ Unheard(erring) \/ Announced(c, {"repeated-error"}, erring)
                                   \/ \E i \in erring :
                                         First(i, erring) /\ WasResult(Prior(c, i), "error")
      BY DEF ChangesAreAnnounced
    <2>1. \A w \in Workers : ~Telling(w)
      BY DEF Ruled, Alone, Telling, EvidenceAssumption
    <2>2. Fine(receipts, links, Range(queued), unheard, c, Len(receipts))
      BY <2>1 DEF ToldInv, KnownUpTo
    <2>3. \A result : Streak(c, result) = StreakIn(receipts, c, result, Len(receipts))
      BY ReceiptsCount DEF Streak, Closing, StreakIn, ClosingIn, Ruled
    <2>4. \A kinds, S : Announced(c, kinds, S) <=> Tells(receipts, Range(queued), c, kinds, S)
      BY DEF Announced, Tells
    <2>5. \A S : Unheard(S) <=> Silent(receipts, unheard, S)
      BY DEF Unheard, Silent
    <2>6. \A S : ErredTwice(receipts, c, S) =>
                    \E i \in S : First(i, S) /\ WasResult(Prior(c, i), "error")
      BY DEF ErredTwice, WasResult, Prior, PriorIn
    <2> DEFINE F == Streak(c, "fail")
               E == Streak(c, "error")
    <2>7. \/ F = {} \/ Unheard(F) \/ Announced(c, {"new-failure", "gap-expired"}, F)
          \/ Excused(receipts, links, c, Greatest(F))
      BY <2>2, <2>3, <2>4, <2>5 DEF Fine, FailureKnown, FailureKinds
    <2>8. ASSUME Cardinality(E) > 1 PROVE \E i, j \in E : i # j
      <3>1. E # {}
        BY <2>8, FS_EmptySet
      <3>2. PICK i \in E : TRUE
        BY <3>1
      <3>3. E # {i}
        BY <2>8, FS_Singleton
      <3> HIDE DEF E
      <3> QED BY <3>2, <3>3
    <2>9. Cardinality(E) > 1 =>
             \/ Unheard(E) \/ Announced(c, {"repeated-error"}, E)
             \/ \E i \in E : First(i, E) /\ WasResult(Prior(c, i), "error")
      <3>1. (\E i, j \in E : i # j) =>
               \/ Silent(receipts, unheard, E) \/ Tells(receipts, Range(queued), c, ErrorKinds, E)
               \/ ErredTwice(receipts, c, E)
        BY <2>2, <2>3 DEF Fine, ErrorsKnown
      <3> HIDE DEF E
      <3> QED BY <2>4, <2>5, <2>6, <2>8, <3>1 DEF ErrorKinds
    <2>10. Excused(receipts, links, c, Greatest(F)) =>
             \E l \in links : /\ l.check = c
                              /\ l.retired \/ l.expires >= receipts[Greatest(F)].day
      BY DEF Excused
    <2> QED BY <2>7, <2>9, <2>10
  <1> QED BY <1>1, <1>2, <1>3, PTL DEF Spec

================================================================================
