---------------------------- MODULE Publication ----------------------------
(***************************************************************************)
(* What the document lifecycle promises to retrieval: a document serves at *)
(* most one version at a time, and a version that stopped being served is  *)
(* never served again, whoever withdrew it and for whatever reason.        *)
(***************************************************************************)
CONSTANTS Documents, Versions, None

VARIABLES live,   \* the version each document serves, or None
          spent   \* the versions that will not be served (again)

vars == <<live, spent>>

Init == live = [d \in Documents |-> None] /\ spent = {}

Served == {live[d] : d \in Documents} \ {None}
Leaving(d) == {live[d]} \ {None}

\* Version v takes over from whatever the document served.
Publish(d, v) ==
    /\ v \notin spent \cup Served
    /\ live' = [live EXCEPT ![d] = v]
    /\ spent' = spent \cup Leaving(d)

\* The document stops serving, and versions that are not served are given up.
Withdraw(d, given) ==
    /\ given \cap Served \subseteq Leaving(d)
    /\ live' = [live EXCEPT ![d] = None]
    /\ spent' = spent \cup given \cup Leaving(d)

\* Versions that are not served are given up.
Discard(given) ==
    /\ given \cap Served = {}
    /\ spent' = spent \cup given
    /\ UNCHANGED live

Next ==
    \/ \E d \in Documents, v \in Versions : Publish(d, v)
    \/ \E d \in Documents, given \in SUBSET Versions : Withdraw(d, given)
    \/ \E given \in SUBSET Versions : Discard(given)

Spec == Init /\ [][Next]_vars
=============================================================================
