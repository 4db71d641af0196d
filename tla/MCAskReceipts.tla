----------------------------- MODULE MCAskReceipts -----------------------------
(* The instance of AskReceipts that TLC checks, with the bounds that make   *)
(* it one: they limit what happens at the same time, never the order.       *)
EXTENDS AskReceipts, FiniteSets, TLC

CONSTANTS
    MaxBusy,    \* bound: activities under way at once
    MaxStopped  \* bound: requests that meet an abort, a spent fault counted with them

Started == {a \in Asks : ask[a].at # "asked" \/ Aborted(a)}
Asking == {a \in Started : ask[a].at # "done"}
Named == {a \in Asks : namer[a] # "off"}
Stopped == {a \in Asks : Aborted(a) \/ ask[a].late}

Busy ==
    Cardinality(Asking) + Cardinality(Named) + Cardinality(purging)
      + (IF script.at = "idle" THEN 0 ELSE 1) + (IF reader.at = "idle" THEN 0 ELSE 1)

\* A spent fault counts as an activity except beside the script.  The script
\* and the reader run one after the other; two documents and a fault, an abort
\* or a second question are not combined.
Bounds ==
    /\ Busy + (IF script.at = "idle" THEN faults ELSE 0) <= MaxBusy
    /\ Cardinality(Stopped) + faults <= MaxStopped
    /\ script.at # "idle" => reader.at = "idle" /\ Named = {}
    /\ Cardinality({docOf[v] : v \in Versions}) > 1 =>
          Cardinality(Started) <= 1 /\ Stopped = {} /\ faults = 0 /\ Named = {} /\ title = None

Interchangeable == Permutations(Asks) \cup Permutations(Docs) \cup Permutations(Versions)
================================================================================
