----------------------------- MODULE MCEvidenceRuns -----------------------------
(* The instance of EvidenceRuns that TLC checks. *)
EXTENDS EvidenceRuns, TLC

CONSTANT MaxEvents  \* bound: runs, repeated checks, faults and pairs of outside changes together

Repeats == Len(receipts) - Cardinality({receipts[i].run : i \in DOMAIN receipts})

Bounds == runs + Repeats + (outside + 1) \div 2 + faults <= MaxEvents

Interchangeable == Permutations(Workers)
=================================================================================
