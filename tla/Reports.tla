------------------------------- MODULE Reports --------------------------------
(***************************************************************************)
(* What a run's handler may assume of the pool that answers its questions: *)
(* progress is reported one question at a time, in order, never again once *)
(* a report has thrown, and the pool resolves only after the last report.  *)
(* EvalRuns!Progress, Complete and WorkFails are written to this promise.  *)
(***************************************************************************)
EXTENDS Naturals

CONSTANT Questions

VARIABLES reported, threw, outcome
reportVars == <<reported, threw, outcome>>

Init == reported = 0 /\ threw = FALSE /\ outcome = "none"

\* onProgress(reported + 1) returns.
Report ==
    /\ outcome = "none" /\ ~threw
    /\ reported < Questions
    /\ reported' = reported + 1
    /\ UNCHANGED <<threw, outcome>>

\* onProgress throws: the lease was replaced.
Throw ==
    /\ outcome = "none"
    /\ threw' = TRUE
    /\ UNCHANGED <<reported, outcome>>

Resolve ==
    /\ outcome = "none" /\ ~threw
    /\ reported = Questions
    /\ outcome' = "resolved"
    /\ UNCHANGED <<reported, threw>>

Reject ==
    /\ outcome = "none"
    /\ outcome' = "rejected"
    /\ UNCHANGED <<reported, threw>>

Next == Report \/ Throw \/ Resolve \/ Reject

Spec == Init /\ [][Next]_reportVars
=============================================================================
