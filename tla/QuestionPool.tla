----------------------------- MODULE QuestionPool -----------------------------
(***************************************************************************)
(* mapWithConcurrency: lanes take questions from a shared counter, and the *)
(* progress of each finished question is reported through a promise chain. *)
(* The code between two awaits is one step, as JavaScript runs it.         *)
(*                                                                         *)
(* The callback appended for the c-th finished question carries count c,   *)
(* so the chain is the set of counts whose callbacks have not settled.     *)
(***************************************************************************)
EXTENDS Naturals, FiniteSets

CONSTANTS Lanes, Questions

ASSUME PoolAssumption == Questions \in Nat /\ Lanes # {}

VARIABLES
    next,       \* index of the first question nobody has taken
    completed,  \* questions whose worker has returned
    stopped,    \* a worker or onDone threw: take nothing, report nothing
    lane,       \* where each lane is, with its question or the count it awaits
    chain,      \* doneChain: counts whose callbacks have not settled
    calls,      \* counts that are inside onDone
    results,    \* questions with a result
    reported,   \* the last count onDone returned from
    threw,      \* onDone has thrown
    outcome     \* of the promise the caller awaits

vars == <<next, completed, stopped, lane, chain, calls, results, reported, threw, outcome>>

Lane == [at : {"free", "working", "waiting", "left"}, n : 0..Questions]

TypeOK ==
    /\ next \in 0..Questions
    /\ completed \in 0..Questions
    /\ stopped \in BOOLEAN
    /\ lane \in [Lanes -> Lane]
    /\ chain \in SUBSET (1..Questions)
    /\ calls \in SUBSET chain
    /\ results \in SUBSET (0..(Questions - 1))
    /\ reported \in 0..Questions
    /\ threw \in BOOLEAN
    /\ outcome \in {"none", "resolved", "rejected"}

Init ==
    /\ next = 0
    /\ completed = 0
    /\ stopped = FALSE
    /\ lane = [l \in Lanes |-> [at |-> "free", n |-> 0]]
    /\ chain = {}
    /\ calls = {}
    /\ results = {}
    /\ reported = 0
    /\ threw = FALSE
    /\ outcome = "none"

Moves(l, at, n) == lane' = [lane EXCEPT ![l] = [at |-> at, n |-> n]]

\* Mutants: the index is advanced after the await; the loop runs once too often.
TakeUncounted(l) ==
    /\ lane[l].at = "free"
    /\ ~stopped /\ next < Questions
    /\ Moves(l, "working", next)
    /\ UNCHANGED <<next, completed, stopped, chain, calls, results, reported, threw, outcome>>
TakeOneMore(l) ==
    /\ lane[l].at = "free"
    /\ ~stopped /\ next <= Questions
    /\ Moves(l, "working", next)
    /\ next' = next + 1
    /\ UNCHANGED <<completed, stopped, chain, calls, results, reported, threw, outcome>>

\* The head of the loop: the next question, or the end of the lane.
Take(l) ==
    /\ lane[l].at = "free"
    /\ ~stopped /\ next < Questions
    /\ Moves(l, "working", next)
    /\ next' = next + 1
    /\ UNCHANGED <<completed, stopped, chain, calls, results, reported, threw, outcome>>

\* Mutant: a stopped pool does not end its lanes.
LeaveExhausted(l) ==
    /\ lane[l].at = "free"
    /\ next = Questions
    /\ Moves(l, "left", 0)
    /\ UNCHANGED <<next, completed, stopped, chain, calls, results, reported, threw, outcome>>

Leave(l) ==
    /\ lane[l].at = "free"
    /\ stopped \/ next = Questions
    /\ Moves(l, "left", 0)
    /\ UNCHANGED <<next, completed, stopped, chain, calls, results, reported, threw, outcome>>

\* The worker returns: the result is kept and the lane awaits its report.
Answer(l) ==
    /\ lane[l].at = "working"
    /\ results' = results \cup {lane[l].n}
    /\ completed' = completed + 1
    /\ chain' = chain \cup {completed + 1}
    /\ Moves(l, "waiting", completed + 1)
    /\ UNCHANGED <<next, stopped, calls, reported, threw, outcome>>

\* The worker throws: the pool stops and the lane returns.
WorkerThrows(l) ==
    /\ lane[l].at = "working"
    /\ stopped' = TRUE
    /\ Moves(l, "left", 0)
    /\ UNCHANGED <<next, completed, chain, calls, results, reported, threw, outcome>>

\* Mutant: the callbacks are not chained.
AnyCallback(c) == c \in chain \ calls

\* The callback whose predecessors in the chain have settled.
Turn(c) == c \in chain \ calls /\ \A d \in chain : c <= d

\* A callback begins: onDone is called, unless the pool has stopped.
Call(c) ==
    /\ Turn(c)
    /\ ~stopped
    /\ calls' = calls \cup {c}
    /\ UNCHANGED <<next, completed, stopped, lane, chain, results, reported, threw, outcome>>

\* The callback of count c settles, and the lane that awaits it goes on.
Settle(c) ==
    /\ chain' = chain \ {c}
    /\ calls' = calls \ {c}
    /\ lane' = [l \in Lanes |-> IF lane[l] = [at |-> "waiting", n |-> c]
                                  THEN [at |-> "free", n |-> 0] ELSE lane[l]]

Skip(c) ==
    /\ Turn(c)
    /\ stopped
    /\ Settle(c)
    /\ UNCHANGED <<next, completed, stopped, results, reported, threw, outcome>>

Return(c) ==
    /\ c \in calls
    /\ Settle(c)
    /\ reported' = c
    /\ UNCHANGED <<next, completed, stopped, results, threw, outcome>>

Throw(c) ==
    /\ c \in calls
    /\ Settle(c)
    /\ stopped' = TRUE
    /\ threw' = TRUE
    /\ UNCHANGED <<next, completed, results, reported, outcome>>

\* Promise.all resolves: the first failure is thrown, or the results returned.
End ==
    /\ outcome = "none"
    /\ \A l \in Lanes : lane[l].at = "left"
    /\ outcome' = IF stopped THEN "rejected" ELSE "resolved"
    /\ UNCHANGED <<next, completed, stopped, lane, chain, calls, results, reported, threw>>

LaneStep(l) == Take(l) \/ Leave(l) \/ Answer(l) \/ WorkerThrows(l)
ChainStep(c) == Call(c) \/ Skip(c) \/ Return(c) \/ Throw(c)

Next ==
    \/ \E l \in Lanes : LaneStep(l)
    \/ \E c \in 1..Questions : ChainStep(c)
    \/ End

Spec == Init /\ [][Next]_vars

\* Workers and onDone settle (they have timeouts), and the event loop goes on.
FairSpec == Spec /\ WF_vars(Next)

----------------------------------------------------------------------------
(* Properties *)

\* What the callers get: every question was answered and reported, or an error.
ResolvedIsComplete ==
    outcome = "resolved" => results = 0..(Questions - 1) /\ reported = Questions /\ ~threw

Working == {l \in Lanes : lane[l].at = "working"}

\* Questions are not answered twice, and none is lost between two lanes.
EveryQuestionOnce ==
    /\ \A k, l \in Working : k # l => lane[k].n # lane[l].n
    /\ \A l \in Working : lane[l].n \notin results
    /\ ~stopped => 0..(next - 1) = results \cup {lane[l].n : l \in Working}

\* What makes them inductive: the chain holds the counts after the last report,
\* each awaited by a lane, and a lane leaves for a reason.
ChainIsInOrder ==
    /\ ~stopped => chain = (reported + 1)..completed /\ reported <= completed
    /\ calls \subseteq {reported + 1}
    /\ threw => stopped /\ calls = {}
    /\ \A c \in chain : \E l \in Lanes : lane[l] = [at |-> "waiting", n |-> c]

LanesLeaveForAReason ==
    /\ \A l \in Lanes : lane[l].at = "left" => stopped \/ next = Questions
    /\ \A l \in Working : lane[l].n < next
    /\ results \subseteq 0..(next - 1)
    /\ outcome # "none" => \A l \in Lanes : lane[l].at = "left"
    /\ outcome = "resolved" => ~stopped

CompletedAreCounted == Cardinality(results) = completed

IndInv ==
    /\ TypeOK
    /\ EveryQuestionOnce
    /\ ChainIsInOrder
    /\ LanesLeaveForAReason
    /\ CompletedAreCounted

\* No question starts once a worker or a report has thrown.
StoppedTakesNothing == [][stopped => next' = next]_vars

\* The pool ends.
PoolEnds == <>(outcome # "none")

\* The reports arrive as the handler of the run expects them.
Promise == INSTANCE Reports
KeepsPromise == Promise!Spec
=============================================================================
