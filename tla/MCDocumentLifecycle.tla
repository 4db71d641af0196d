------------------------ MODULE MCDocumentLifecycle ------------------------
(* Instances of DocumentLifecycle for TLC. *)
EXTENDS DocumentLifecycle, TLC

Interchangeable ==
    Permutations(Versions) \cup Permutations(Handlers) \cup Permutations(Jobs)
=============================================================================
