---------------------------- MODULE SecurityEvents ----------------------------
(***************************************************************************)
(* append_security_event: transactions append rows to a hash chain under   *)
(* an advisory lock that they keep until they end.                         *)
(*                                                                         *)
(* A row's hash covers its content and the hash before it, so it is named  *)
(* here by the row's sequence number, 0 standing for the empty hash.       *)
(***************************************************************************)
EXTENDS Naturals

CONSTANTS
    Txs,        \* database transactions that append events
    MaxSeq,     \* bound on the identity column
    MaxClock,   \* bound on the clock
    None

ASSUME EventsAssumption == MaxSeq \in Nat /\ MaxClock \in Nat /\ None \notin Txs \cup Nat

VARIABLES
    events,     \* committed rows of security_events
    sequence,   \* last number of the identity column, which no rollback takes back
    chainLock,  \* transaction that holds the advisory lock
    tx,
    clock

eventVars == <<events, sequence, chainLock, tx>>

Row == [seq : 1..MaxSeq, prev : 0..MaxSeq, at : 0..MaxClock]

\* A transaction: where it is in append_security_event, its uncommitted rows, and
\* v_occurred_at and v_previous_hash of the call.
Tx == [pc  : {"out", "waiting", "locked", "linked"},
       own : SUBSET Row,
       at  : 0..MaxClock,
       tip : 0..MaxSeq]
NoTx == [pc |-> "out", own |-> {}, at |-> 0, tip |-> 0]

EventsTypeOK ==
    /\ events \in SUBSET Row
    /\ sequence \in 0..MaxSeq
    /\ chainLock \in Txs \cup {None}
    /\ tx \in [Txs -> Tx]
    /\ clock \in 0..MaxClock

EventsInit ==
    /\ events = {}
    /\ sequence = 0
    /\ chainLock = None
    /\ tx = [t \in Txs |-> NoTx]
    /\ clock = 0

\* n is the highest sequence number of the rows, 0 if there is none.
IsTip(n, rows) ==
    /\ \A e \in rows : e.seq <= n
    /\ n = 0 \/ \E e \in rows : e.seq = n

\* The function is called: v_occurred_at is the clock before the lock is waited for.
AppendEvent(t) ==
    /\ tx[t].pc = "out"
    /\ sequence < MaxSeq
    /\ tx' = [tx EXCEPT ![t].pc = "waiting", ![t].at = clock]
    /\ UNCHANGED <<events, sequence, chainLock, clock>>

\* Mutant: nobody waits for the lock.
GetNoLock(t) ==
    /\ tx[t].pc = "waiting"
    /\ tx' = [tx EXCEPT ![t].pc = "locked"]
    /\ UNCHANGED <<events, sequence, chainLock, clock>>

\* pg_advisory_xact_lock waits; a transaction that has it gets it again.
GetLock(t) ==
    /\ tx[t].pc = "waiting"
    /\ chainLock \in {None, t}
    /\ chainLock' = t
    /\ tx' = [tx EXCEPT ![t].pc = "locked"]
    /\ UNCHANGED <<events, sequence, clock>>

\* Mutant: the newest row is looked up among the committed ones.
LinkCommitted(t) ==
    /\ tx[t].pc = "locked"
    /\ \E n \in 0..MaxSeq :
         /\ IsTip(n, events)
         /\ tx' = [tx EXCEPT ![t].pc = "linked", ![t].tip = n]
    /\ UNCHANGED <<events, sequence, chainLock, clock>>

\* The newest row that the transaction sees: committed, or its own.
Link(t) ==
    /\ tx[t].pc = "locked"
    /\ \E n \in 0..MaxSeq :
         /\ IsTip(n, events \cup tx[t].own)
         /\ tx' = [tx EXCEPT ![t].pc = "linked", ![t].tip = n]
    /\ UNCHANGED <<events, sequence, chainLock, clock>>

Insert(t) ==
    /\ tx[t].pc = "linked"
    /\ sequence < MaxSeq
    /\ sequence' = sequence + 1
    /\ tx' = [tx EXCEPT
         ![t] = [NoTx EXCEPT
            !.own = tx[t].own \cup
                      {[seq |-> sequence + 1, prev |-> tx[t].tip, at |-> tx[t].at]}]]
    /\ UNCHANGED <<events, chainLock, clock>>

\* The transaction ends, and its lock with it.
Unlocked(t) == IF chainLock = t THEN None ELSE chainLock

Commit(t) ==
    /\ tx[t].pc = "out" /\ tx[t].own # {}
    /\ events' = events \cup tx[t].own
    /\ tx' = [tx EXCEPT ![t] = NoTx]
    /\ chainLock' = Unlocked(t)
    /\ UNCHANGED <<sequence, clock>>

\* An error, a lost connection, or a deadlock that PostgreSQL resolves.
Abort(t) ==
    /\ tx[t] # NoTx
    /\ tx' = [tx EXCEPT ![t] = NoTx]
    /\ chainLock' = Unlocked(t)
    /\ UNCHANGED <<events, sequence, clock>>

TxStep(t) == AppendEvent(t) \/ GetLock(t) \/ Link(t) \/ Insert(t) \/ Commit(t) \/ Abort(t)

----------------------------------------------------------------------------
(* Properties *)

\* Every row names the one before it: no fork and no missing link, although
\* transactions overlap and numbers are lost to rollbacks.
ChainUnbroken ==
    \A e \in events : IsTip(e.prev, {f \in events : f.seq < e.seq})

\* "events commit in sequence order": no row appears below one that readers have
\* seen.
CommitInSequence ==
    [][\A e \in events' \ events, f \in events : f.seq < e.seq]_eventVars

\* What makes them inductive: who has rows or is past the lock holds the lock, and
\* its rows lie above the committed ones and are linked to them.
ChainHolder(t) ==
    /\ tx[t].own # {} \/ tx[t].pc \in {"locked", "linked"} => chainLock = t
    /\ \A e \in tx[t].own, f \in events : f.seq < e.seq
    /\ \A e \in tx[t].own : IsTip(e.prev, {f \in events \cup tx[t].own : f.seq < e.seq})
    /\ \A e \in tx[t].own : e.seq <= sequence
    /\ tx[t].pc = "linked" => IsTip(tx[t].tip, events \cup tx[t].own)

ChainInv ==
    /\ EventsTypeOK
    /\ ChainUnbroken
    /\ \A t \in Txs : ChainHolder(t)
    /\ \A e \in events : e.seq <= sequence
=============================================================================
