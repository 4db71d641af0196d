------------------------- MODULE SecurityMonitorProofs -------------------------
(* Theorems about SecurityEvents and SecurityMonitor, for every number of      *)
(* transactions, passes and workers and every bound.                           *)
EXTENDS SecurityMonitor, TLAPS

LEMMA RowTypes ==
    ASSUME NEW e \in Row
    PROVE  e.seq \in Nat /\ e.prev \in Nat /\ e.at \in Nat /\ e.seq > 0 /\ e.seq \in 1..MaxSeq
  BY EventsAssumption DEF Row

LEMMA TxTypes ==
    ASSUME EventsTypeOK, NEW t \in Txs
    PROVE  /\ tx[t].pc \in {"out", "waiting", "locked", "linked"}
           /\ tx[t].own \in SUBSET Row /\ tx[t].at \in 0..MaxClock /\ tx[t].tip \in 0..MaxSeq
           /\ tx[t] \in Tx
  <1>1. tx[t] \in Tx
    BY DEF EventsTypeOK
  <1> QED BY <1>1 DEF Tx

LEMMA NoTxTypes ==
    /\ NoTx \in Tx /\ NoTx.pc = "out" /\ NoTx.own = {} /\ NoTx.at = 0 /\ NoTx.tip = 0
  BY EventsAssumption DEF NoTx, Tx

----------------------------------------------------------------------------
(* The chain *)

LEMMA ChainInit == Init => ChainInv
  <1> SUFFICES ASSUME Init PROVE ChainInv
    OBVIOUS
  <1>1. EventsTypeOK
    BY NoTxTypes, EventsAssumption DEF Init, EventsInit, EventsTypeOK
  <1>2. \A t \in Txs : tx[t] = NoTx
    BY DEF Init, EventsInit
  <1>3. events = {}
    BY DEF Init, EventsInit
  <1>4. \A t \in Txs : ChainHolder(t)
    BY <1>2, <1>3, NoTxTypes DEF ChainHolder
  <1> QED BY <1>1, <1>3, <1>4 DEF ChainInv, ChainUnbroken

\* Somebody with rows or past the lock is the only one.
LEMMA OneHolder ==
    ASSUME ChainInv, NEW t \in Txs, NEW s \in Txs, s # t, chainLock \in {None, t}
    PROVE  tx[s].own = {} /\ tx[s].pc \notin {"locked", "linked"}
  BY EventsAssumption DEF ChainInv, ChainHolder

\* A transaction that neither has rows nor is past the lock is no part of the chain.
LEMMA IdleHolder ==
    ASSUME NEW t \in Txs, tx[t].own = {}, tx[t].pc \notin {"locked", "linked"}
    PROVE  ChainHolder(t)
  BY DEF ChainHolder

LEMMA AppendChain ==
    ASSUME ChainInv, NEW t \in Txs, AppendEvent(t) PROVE ChainInv'
  <1> DEFINE new == [tx[t] EXCEPT !.pc = "waiting", !.at = clock]
  <1>1. /\ tx' = [tx EXCEPT ![t] = new] /\ new \in Tx /\ new.own = tx[t].own
        /\ new.pc = "waiting" /\ tx[t].pc = "out"
    BY TxTypes DEF AppendEvent, ChainInv, EventsTypeOK, Tx
  <1>2. EventsTypeOK'
    BY <1>1 DEF ChainInv, EventsTypeOK, AppendEvent
  <1>3. UNCHANGED <<events, sequence, chainLock>>
    BY DEF AppendEvent
  <1>4. ASSUME NEW s \in Txs PROVE ChainHolder(s)'
    <2>1. tx'[s].own = tx[s].own /\ (tx'[s].pc = tx[s].pc \/ tx'[s].pc = "waiting")
          /\ (s # t => tx'[s] = tx[s])
      BY <1>1 DEF ChainInv, EventsTypeOK
    <2>2. CASE s = t
      BY <2>1, <2>2, <1>1, <1>3 DEF ChainInv, ChainHolder, EventsTypeOK
    <2>3. CASE s # t
      BY <2>1, <2>3, <1>3 DEF ChainInv, ChainHolder
    <2> QED BY <2>2, <2>3
  <1> QED BY <1>2, <1>3, <1>4 DEF ChainInv, ChainUnbroken

LEMMA GetLockChain ==
    ASSUME ChainInv, NEW t \in Txs, GetLock(t) PROVE ChainInv'
  <1> DEFINE new == [tx[t] EXCEPT !.pc = "locked"]
  <1>1. /\ tx' = [tx EXCEPT ![t] = new] /\ new \in Tx /\ new.own = tx[t].own
        /\ new.pc = "locked" /\ chainLock' = t /\ chainLock \in {None, t}
    BY TxTypes DEF GetLock, ChainInv, EventsTypeOK, Tx
  <1>2. EventsTypeOK'
    BY <1>1 DEF ChainInv, EventsTypeOK, GetLock
  <1>3. UNCHANGED <<events, sequence>>
    BY DEF GetLock
  <1>4. ASSUME NEW s \in Txs PROVE ChainHolder(s)'
    <2>1. CASE s = t
      <3>1. tx'[s].own = tx[s].own /\ tx'[s].pc = "locked"
        BY <2>1, <1>1 DEF ChainInv, EventsTypeOK
      <3> QED BY <2>1, <3>1, <1>1, <1>3 DEF ChainInv, ChainHolder
    <2>2. CASE s # t
      <3>1. tx'[s] = tx[s] /\ tx[s].own = {} /\ tx[s].pc \notin {"locked", "linked"}
        BY <2>2, <1>1, OneHolder DEF ChainInv, EventsTypeOK
      <3> QED BY <3>1 DEF ChainHolder
    <2> QED BY <2>1, <2>2
  <1> QED BY <1>2, <1>3, <1>4 DEF ChainInv, ChainUnbroken

LEMMA LinkChain ==
    ASSUME ChainInv, NEW t \in Txs, Link(t) PROVE ChainInv'
  <1>1. PICK n \in 0..MaxSeq :
           /\ IsTip(n, events \cup tx[t].own)
           /\ tx' = [tx EXCEPT ![t].pc = "linked", ![t].tip = n]
    BY DEF Link
  <1> DEFINE new == [tx[t] EXCEPT !.pc = "linked", !.tip = n]
  <1>2. /\ tx' = [tx EXCEPT ![t] = new] /\ new \in Tx /\ new.own = tx[t].own
        /\ new.pc = "linked" /\ new.tip = n /\ tx[t].pc = "locked"
    BY <1>1, TxTypes DEF Link, ChainInv, EventsTypeOK, Tx
  <1>3. UNCHANGED <<events, sequence, chainLock, clock>>
    BY DEF Link
  <1>4. EventsTypeOK'
    BY <1>2, <1>3 DEF ChainInv, EventsTypeOK
  <1>5. ASSUME NEW s \in Txs PROVE ChainHolder(s)'
    <2>1. CASE s = t
      <3>1. tx'[s].own = tx[s].own /\ tx'[s].pc = "linked" /\ tx'[s].tip = n
        BY <2>1, <1>2 DEF ChainInv, EventsTypeOK
      <3> QED BY <2>1, <3>1, <1>1, <1>2, <1>3 DEF ChainInv, ChainHolder
    <2>2. CASE s # t
      <3>1. tx'[s] = tx[s]
        BY <2>2, <1>2 DEF ChainInv, EventsTypeOK
      <3> QED BY <3>1, <1>3 DEF ChainInv, ChainHolder
    <2> QED BY <2>1, <2>2
  <1> QED BY <1>3, <1>4, <1>5 DEF ChainInv, ChainUnbroken

LEMMA InsertChain ==
    ASSUME ChainInv, NEW t \in Txs, Insert(t) PROVE ChainInv'
  <1> DEFINE row == [seq |-> sequence + 1, prev |-> tx[t].tip, at |-> tx[t].at]
             new == [NoTx EXCEPT !.own = tx[t].own \cup {row}]
  <1>1. sequence \in Nat /\ sequence + 1 \in 1..MaxSeq /\ sequence' = sequence + 1
    BY EventsAssumption DEF Insert, ChainInv, EventsTypeOK
  <1>2. row \in Row /\ row.seq = sequence + 1 /\ row.prev = tx[t].tip
    BY <1>1, TxTypes DEF ChainInv, Row
  <1>3. /\ tx' = [tx EXCEPT ![t] = new] /\ new \in Tx /\ new.pc = "out"
        /\ new.own = tx[t].own \cup {row} /\ tx[t].pc = "linked"
    <2>1. new = [pc |-> "out", own |-> tx[t].own \cup {row}, at |-> 0, tip |-> 0]
      BY DEF NoTx
    <2>2. tx[t].own \cup {row} \in SUBSET Row
      BY <1>2, TxTypes DEF ChainInv
    <2>3. new \in Tx
      BY <2>1, <2>2, EventsAssumption DEF Tx
    <2> QED BY <2>1, <2>3 DEF Insert
  <1>4. UNCHANGED <<events, chainLock, clock>>
    BY DEF Insert
  <1>5. EventsTypeOK'
    BY <1>1, <1>3, <1>4, EventsAssumption DEF ChainInv, EventsTypeOK
  <1>6. /\ IsTip(tx[t].tip, events \cup tx[t].own) /\ chainLock = t
        /\ \A f \in events \cup tx[t].own : f.seq \in Nat /\ f.seq <= sequence
    <2>1. \A f \in events \cup tx[t].own : f \in Row
      BY TxTypes DEF ChainInv, EventsTypeOK
    <2> QED BY <2>1, <1>3, RowTypes DEF ChainInv, ChainHolder
  <1>7. ASSUME NEW s \in Txs PROVE ChainHolder(s)'
    <2>1. CASE s = t
      <3>1. tx'[s].own = tx[t].own \cup {row} /\ tx'[s].pc = "out"
        BY <2>1, <1>3 DEF ChainInv, EventsTypeOK
      <3>2. \A e \in tx'[s].own, f \in events' : f.seq < e.seq
        <4>1. \A f \in events : f.seq < row.seq
          BY <1>1, <1>2, <1>6
        <4>2. \A e \in tx[t].own, f \in events : f.seq < e.seq
          BY DEF ChainInv, ChainHolder
        <4> QED BY <4>1, <4>2, <3>1, <1>4
      <3>3. \A e \in tx'[s].own : e.seq <= sequence'
        BY <3>1, <1>1, <1>2, <1>6
      <3>4. ASSUME NEW e \in tx'[s].own
            PROVE  IsTip(e.prev, {f \in events' \cup tx'[s].own : f.seq < e.seq})
        <4>1. CASE e = row
          <5>1. {f \in events' \cup tx'[s].own : f.seq < e.seq} = events \cup tx[t].own
            BY <4>1, <3>1, <1>1, <1>2, <1>4, <1>6
          <5> QED BY <5>1, <4>1, <1>2, <1>6
        <4>2. CASE e \in tx[t].own
          <5>1. {f \in events' \cup tx'[s].own : f.seq < e.seq}
                  = {f \in events \cup tx[t].own : f.seq < e.seq}
            BY <4>2, <3>1, <1>1, <1>2, <1>4, <1>6
          <5> QED BY <5>1, <4>2 DEF ChainInv, ChainHolder
        <4> QED BY <4>1, <4>2, <3>1
      <3> QED BY <2>1, <3>1, <3>2, <3>3, <3>4, <1>4, <1>6 DEF ChainHolder
    <2>2. CASE s # t
      <3>1. tx'[s] = tx[s] /\ tx[s].own = {} /\ tx[s].pc \notin {"locked", "linked"}
        BY <2>2, <1>3, <1>6, OneHolder DEF ChainInv, EventsTypeOK
      <3> QED BY <3>1 DEF ChainHolder
    <2> QED BY <2>1, <2>2
  <1>8. \A e \in events' : e.seq <= sequence'
    BY <1>1, <1>4, <1>6
  <1> QED BY <1>4, <1>5, <1>7, <1>8 DEF ChainInv, ChainUnbroken

LEMMA CommitChain ==
    ASSUME ChainInv, NEW t \in Txs, Commit(t)
    PROVE  ChainInv' /\ \A e \in events' \ events, f \in events : f.seq < e.seq
  <1>1. /\ events' = events \cup tx[t].own /\ tx' = [tx EXCEPT ![t] = NoTx]
        /\ chainLock = t /\ chainLock' = None /\ UNCHANGED <<sequence, clock>>
    BY DEF Commit, Unlocked, ChainInv, ChainHolder
  <1>2. tx[t].own \in SUBSET Row /\ events \in SUBSET Row
    BY TxTypes DEF ChainInv, EventsTypeOK
  <1>3. EventsTypeOK'
    BY <1>1, <1>2, NoTxTypes DEF ChainInv, EventsTypeOK
  <1>4. \A e \in tx[t].own, f \in events : f.seq < e.seq
    BY DEF ChainInv, ChainHolder
  <1>5. \A f \in events' : f.seq \in Nat
    BY <1>1, <1>2, RowTypes
  <1>6. ASSUME NEW e \in events' PROVE IsTip(e.prev, {f \in events' : f.seq < e.seq})
    <2>1. CASE e \in events
      <3>1. {f \in events' : f.seq < e.seq} = {f \in events : f.seq < e.seq}
        BY <2>1, <1>1, <1>4, <1>5
      <3> QED BY <2>1, <3>1 DEF ChainInv, ChainUnbroken
    <2>2. CASE e \in tx[t].own
      BY <2>2, <1>1 DEF ChainInv, ChainHolder
    <2> QED BY <2>1, <2>2, <1>1
  <1>7. ASSUME NEW s \in Txs PROVE ChainHolder(s)'
    <2>1. tx'[s].own = {} /\ tx'[s].pc \notin {"locked", "linked"}
      BY <1>1, OneHolder, NoTxTypes DEF ChainInv, EventsTypeOK
    <2> QED BY <2>1 DEF ChainHolder
  <1>8. \A e \in events' : e.seq <= sequence'
    BY <1>1 DEF ChainInv, ChainHolder
  <1>9. ChainUnbroken'
    BY <1>6 DEF ChainUnbroken
  <1> QED BY <1>1, <1>3, <1>4, <1>7, <1>8, <1>9 DEF ChainInv

LEMMA AbortChain ==
    ASSUME ChainInv, NEW t \in Txs, Abort(t) PROVE ChainInv'
  <1>1. /\ tx' = [tx EXCEPT ![t] = NoTx] /\ UNCHANGED <<events, sequence, clock>>
        /\ chainLock' = IF chainLock = t THEN None ELSE chainLock
    BY DEF Abort, Unlocked
  <1>2. EventsTypeOK'
    BY <1>1, NoTxTypes DEF ChainInv, EventsTypeOK
  <1>3. ASSUME NEW s \in Txs PROVE ChainHolder(s)'
    <2>1. CASE s = t
      <3>1. tx'[s] = NoTx
        BY <2>1, <1>1 DEF ChainInv, EventsTypeOK
      <3> QED BY <3>1, NoTxTypes DEF ChainHolder
    <2>2. CASE s # t
      <3>1. tx'[s] = tx[s] /\ (chainLock = s => chainLock' = s)
        BY <2>2, <1>1 DEF ChainInv, EventsTypeOK
      <3> QED BY <3>1, <1>1 DEF ChainInv, ChainHolder
    <2> QED BY <2>1, <2>2
  <1> QED BY <1>1, <1>2, <1>3 DEF ChainInv, ChainUnbroken

\* A step of a transaction keeps the chain, and rows appear above those that are there.
LEMMA TxStepChain ==
    ASSUME ChainInv, NEW t \in Txs, TxStep(t)
    PROVE  /\ ChainInv'
           /\ \A e \in events' \ events, f \in events : f.seq < e.seq
           /\ events \subseteq events' /\ clock' = clock
  <1>1. CASE AppendEvent(t)
    BY <1>1, AppendChain DEF AppendEvent
  <1>2. CASE GetLock(t)
    BY <1>2, GetLockChain DEF GetLock
  <1>3. CASE Link(t)
    BY <1>3, LinkChain DEF Link
  <1>4. CASE Insert(t)
    BY <1>4, InsertChain DEF Insert
  <1>5. CASE Commit(t)
    BY <1>5, CommitChain DEF Commit
  <1>6. CASE Abort(t)
    BY <1>6, AbortChain DEF Abort
  <1> QED BY <1>1, <1>2, <1>3, <1>4, <1>5, <1>6 DEF TxStep

\* The clock and the monitor leave the chain alone.
LEMMA OthersChain ==
    ASSUME ChainInv, UNCHANGED eventVars, clock' \in 0..MaxClock
    PROVE  ChainInv'
  <1>1. UNCHANGED <<events, sequence, chainLock, tx>>
    BY DEF eventVars
  <1>2. EventsTypeOK'
    BY <1>1 DEF ChainInv, EventsTypeOK
  <1>3. ASSUME NEW t \in Txs PROVE ChainHolder(t)'
    BY <1>1 DEF ChainInv, ChainHolder
  <1> QED BY <1>1, <1>2, <1>3 DEF ChainInv, ChainUnbroken

----------------------------------------------------------------------------
(* The monitor *)

LEMMA PassTypes ==
    ASSUME TypeOK, NEW p \in Passes
    PROVE  /\ pass[p] \in Pass
           /\ pass[p].last \in 0..MaxSeq /\ pass[p].newest \in 0..MaxSeq
           /\ pass[p].anchor \in 0..MaxClock /\ pass[p].batch \in SUBSET Row
           /\ pass[p].last \in Nat /\ pass[p].newest \in Nat /\ pass[p].anchor \in Nat
  <1>1. pass[p] \in Pass
    BY DEF TypeOK
  <1> QED BY <1>1, EventsAssumption DEF Pass

LEMMA NoPassTypes == NoPass \in Pass /\ NoPass.pc = "off" /\ NoPass.by = None
  BY EventsAssumption DEF NoPass, Pass

LEMMA FreshTypes == Fresh \in Worker
  BY MonitorAssumption DEF Fresh, Worker

LEMMA NumberTypes ==
    ASSUME TypeOK
    PROVE  /\ clock \in Nat /\ clock \in 0..MaxClock /\ MaxClock \in Nat /\ MaxSeq \in Nat
           /\ state.last \in Nat /\ state.last \in 0..MaxSeq
           /\ state.advanced = None \/ state.advanced \in Nat
           /\ Anchor \in Nat /\ Anchor \in 0..MaxClock
           /\ faults \in Nat /\ MaxFaults \in Nat
           /\ \A e \in events : e \in Row /\ e.seq \in Nat /\ e.at \in Nat /\ e.seq \in 1..MaxSeq
  <1>1. clock \in 0..MaxClock /\ MaxClock \in Nat /\ MaxSeq \in Nat /\ faults \in 0..MaxFaults
        /\ MaxFaults \in Nat /\ events \in SUBSET Row
    BY EventsAssumption, MonitorAssumption DEF TypeOK, EventsTypeOK
  <1>2. state.last \in 0..MaxSeq /\ state.advanced \in (0..MaxClock) \cup {None}
    BY DEF TypeOK
  <1> QED BY <1>1, <1>2, RowTypes DEF Anchor

LEMMA FailureTypes ==
    ASSUME TypeOK, NEW w \in Workers, NEW cost \in {0, 1}, faults + cost <= MaxFaults,
           CountFailure(w, cost)
    PROVE  worker' \in [Workers -> Worker] /\ faults' \in 0..MaxFaults
  <1> DEFINE failed == IF worker[w].failed < PassesBeforeAlert THEN worker[w].failed + 1
                                                              ELSE PassesBeforeAlert
  <1>1. failed \in 0..PassesBeforeAlert /\ worker[w].told \in BOOLEAN
    <2>1. worker[w] \in Worker
      BY DEF TypeOK
    <2> QED BY <2>1, MonitorAssumption DEF Worker
  <1>2. \A told \in BOOLEAN : [running |-> None, failed |-> failed, told |-> told] \in Worker
    BY <1>1 DEF Worker
  <1>3. \E told \in BOOLEAN :
           worker' = [worker EXCEPT ![w] = [running |-> None, failed |-> failed, told |-> told]]
    BY <1>1 DEF CountFailure
  <1>4. worker' \in [Workers -> Worker]
    BY <1>2, <1>3 DEF TypeOK
  <1>5. faults' = faults + cost \/ (faults' = faults + cost + 1 /\ faults + cost < MaxFaults)
    BY DEF CountFailure
  <1>6. faults' \in 0..MaxFaults
    BY <1>5, NumberTypes
  <1> QED BY <1>4, <1>6

LEMMA FailsTypes ==
    ASSUME TypeOK, NEW p \in Passes, NEW cost \in {0, 1}, faults + cost <= MaxFaults,
           Fails(p, cost)
    PROVE  worker' \in [Workers -> Worker] /\ faults' \in 0..MaxFaults
  <1>1. CASE \E w \in Workers : CountFailure(w, cost)
    BY <1>1, FailureTypes
  <1>2. CASE UNCHANGED worker /\ faults' = faults + cost
    BY <1>2, NumberTypes DEF TypeOK
  <1> QED BY <1>1, <1>2 DEF Fails

LEMMA SucceedsTypes ==
    ASSUME TypeOK, NEW p \in Passes, Succeeds(p)
    PROVE  worker' \in [Workers -> Worker] /\ faults' \in 0..MaxFaults
  BY FreshTypes DEF Succeeds, TypeOK

\* What a pass knows stays true while it waits.
LEMMA BatchStays ==
    ASSUME IndInv, NEW q \in Passes, pass'[q] = pass[q],
           UNCHANGED events, printed \subseteq printed', announced \subseteq announced',
           TypeOK', state.last <= state'.last, Anchor <= Anchor'
    PROVE  BatchIsWhole(q)'
  <1>1. Above(pass[q].last, pass[q].newest)' = Above(pass[q].last, pass[q].newest)
    BY DEF Above
  <1>2. Alerts(q)' = Alerts(q)
    BY DEF Alerts
  <1>3. Anchor \in Nat /\ Anchor' \in Nat /\ state.last \in Nat /\ state'.last \in Nat
    <2>1. Anchor \in Nat /\ state.last \in Nat
      BY NumberTypes DEF IndInv
    <2>2. clock' \in Nat /\ state'.last \in Nat /\ (state'.advanced = None \/ state'.advanced \in Nat)
      BY EventsAssumption DEF TypeOK, EventsTypeOK
    <2>3. Anchor' \in Nat
      BY <2>2 DEF Anchor
    <2> QED BY <2>1, <2>2, <2>3
  <1>4. (q \in Reading)' <=> q \in Reading
    BY DEF Reading
  <1>5. pass[q].last \in Nat /\ pass[q].anchor \in Nat
    BY PassTypes DEF IndInv
  <1>6. BatchIsWhole(q)
    BY DEF IndInv
  <1>7. q \in Reading => pass[q].last <= state'.last /\ pass[q].anchor <= Anchor'
    BY <1>3, <1>5, <1>6 DEF BatchIsWhole
  <1> QED BY <1>1, <1>2, <1>4, <1>6, <1>7 DEF BatchIsWhole

\* A step of one pass keeps the invariant if it keeps what is said of that pass and
\* of the cursor, takes no lock away and leaves the cursor to the lock's holder.
LEMMA OnePass ==
    ASSUME IndInv, NEW p \in Passes, NEW r \in Pass,
           pass' = [pass EXCEPT ![p] = r], UNCHANGED <<eventVars, clock, sessionLost>>,
           printed \subseteq printed', announced \subseteq announced', TypeOK',
           state.last <= state'.last, Anchor <= Anchor',
           \A q \in Passes : q # p /\ monitorLock = q => monitorLock' = q,
           state' = state \/ sessionLost \/ monitorLock = p,
           r.pc \in Held => sessionLost \/ monitorLock' = p,
           r.pc \in {"reading", "mailing", "advancing"} => sessionLost \/ r.last = state'.last,
           NothingSkipped', CursorIsCommitted', BatchIsWhole(p)'
    PROVE  IndInv'
  <1>1. pass \in [Passes -> Pass] /\ pass'[p] = r /\ \A q \in Passes : q # p => pass'[q] = pass[q]
    BY DEF IndInv, TypeOK
  <1>2. UNCHANGED events /\ UNCHANGED eventVars /\ clock' \in 0..MaxClock
    BY DEF eventVars, TypeOK, EventsTypeOK
  <1>3. ChainInv'
    BY <1>2, OthersChain DEF IndInv
  <1>4. \A q \in Passes : BatchIsWhole(q)'
    BY <1>1, <1>2, BatchStays
  <1>5. OneHolds'
    <2> SUFFICES ASSUME ~sessionLost, NEW q \in Passes, pass'[q].pc \in Held
                 PROVE  monitorLock' = q
      BY DEF OneHolds, Held
    <2>1. CASE q = p
      BY <2>1, <1>1
    <2>2. CASE q # p
      <3>1. monitorLock = q
        BY <2>2, <1>1 DEF IndInv, OneHolds, Held
      <3> QED BY <3>1, <2>2
    <2> QED BY <2>1, <2>2
  <1>6. OnePassReads'
    <2> SUFFICES ASSUME ~sessionLost, NEW q \in Reading'
                 PROVE  monitorLock' = q /\ pass'[q].last = state'.last
      BY DEF OnePassReads
    <2>1. CASE q = p
      BY <2>1, <1>1 DEF Reading, Held
    <2>2. CASE q # p
      <3>1. q \in Reading /\ q \in Passes /\ pass'[q] = pass[q]
        BY <2>2, <1>1 DEF Reading
      <3>2. monitorLock = q /\ pass[q].last = state.last
        BY <3>1 DEF IndInv, OnePassReads
      <3> QED BY <3>1, <3>2, <2>2
    <2> QED BY <2>1, <2>2 DEF Reading
  <1> QED BY <1>3, <1>4, <1>5, <1>6 DEF IndInv

LEMMA InitInv == Init => IndInv
  <1> SUFFICES ASSUME Init PROVE IndInv
    OBVIOUS
  <1>1. ChainInv
    BY ChainInit
  <1>2. TypeOK
    <2>1. EventsTypeOK
      BY <1>1 DEF ChainInv
    <2>2. state \in [last : 0..MaxSeq, advanced : (0..MaxClock) \cup {None}]
      BY EventsAssumption DEF Init
    <2>3. pass \in [Passes -> Pass] /\ worker \in [Workers -> Worker]
      BY NoPassTypes, FreshTypes DEF Init
    <2>4. printed \in SUBSET (1..MaxSeq) /\ announced \in SUBSET printed
          /\ installed \in (0..MaxClock) \cup {None} /\ monitorLock \in Passes \cup {None}
      BY DEF Init
    <2>5. faults \in 0..MaxFaults
      BY MonitorAssumption DEF Init
    <2>6. sessionLost \in BOOLEAN
      BY DEF Init
    <2> QED BY <2>1, <2>2, <2>3, <2>4, <2>5, <2>6 DEF TypeOK
  <1>3. \A p \in Passes : pass[p].pc = "off"
    BY NoPassTypes DEF Init
  <1>4. Reading = {}
    BY <1>3 DEF Reading
  <1>5. \A p \in Passes : BatchIsWhole(p)
    BY <1>3, <1>4 DEF BatchIsWhole
  <1>6. NothingSkipped /\ OnePassReads /\ CursorIsCommitted /\ OneHolds
    BY <1>3, <1>4
    DEF Init, EventsInit, NothingSkipped, OnePassReads, CursorIsCommitted, OneHolds, Held
  <1> QED BY <1>1, <1>2, <1>5, <1>6 DEF IndInv

\* A pass that starts, takes the lock, reads the cursor or ends leaves the cursor,
\* the rows and the mails alone; what is left to show of it is a few facts.
LEMMA QuietPass ==
    ASSUME IndInv, NEW p \in Passes, NEW r \in Pass,
           pass' = [pass EXCEPT ![p] = r],
           UNCHANGED <<eventVars, clock, state, installed, sessionLost, printed, announced>>,
           r.pc \notin {"mailing", "advancing"},
           worker' \in [Workers -> Worker], faults' \in 0..MaxFaults,
           monitorLock' \in Passes \cup {None},
           \A q \in Passes : q # p /\ monitorLock = q => monitorLock' = q,
           r.pc \in Held => sessionLost \/ monitorLock' = p,
           r.pc = "reading" => r.last = state.last /\ r.anchor <= Anchor
    PROVE  IndInv'
  <1>1. TypeOK'
    BY DEF IndInv, TypeOK, EventsTypeOK, eventVars
  <1>2. state.last <= state'.last /\ Anchor <= Anchor' /\ Anchor' = Anchor
    BY NumberTypes DEF IndInv, Anchor
  <1>3. NothingSkipped' /\ CursorIsCommitted'
    BY DEF IndInv, NothingSkipped, CursorIsCommitted, eventVars
  <1>4. pass'[p] = r
    BY DEF IndInv, TypeOK
  <1>5. BatchIsWhole(p)'
    BY <1>2, <1>4, NumberTypes DEF IndInv, BatchIsWhole, Reading
  <1>6. r.pc \in {"reading", "mailing", "advancing"} => r.last = state'.last
    OBVIOUS
  <1> QED BY <1>1, <1>2, <1>3, <1>5, <1>6, OnePass

LEMMA TickInv ==
    ASSUME IndInv, NEW w \in Workers, NEW p \in Passes, Tick(w, p), UNCHANGED <<eventVars, clock>>
    PROVE  IndInv'
  <1> DEFINE r == [NoPass EXCEPT !.pc = "starting", !.by = w]
  <1>1. r \in Pass /\ r.pc = "starting"
    BY NoPassTypes DEF Pass
  <1>2. worker' \in [Workers -> Worker]
    <2>1. worker[w] \in Worker /\ worker \in [Workers -> Worker]
      BY DEF IndInv, TypeOK
    <2>2. [worker[w] EXCEPT !.running = p] \in Worker
      BY <2>1 DEF Worker
    <2> QED BY <2>1, <2>2 DEF Tick
  <1>3. faults' \in 0..MaxFaults /\ monitorLock' \in Passes \cup {None}
        /\ UNCHANGED <<monitorLock, state, installed, sessionLost, printed, announced>>
    BY DEF IndInv, TypeOK, Tick
  <1>4. pass' = [pass EXCEPT ![p] = r]
    BY DEF Tick
  <1> QED BY <1>1, <1>2, <1>3, <1>4, QuietPass DEF Held

LEMMA LockInv ==
    ASSUME IndInv, NEW p \in Passes, Lock(p), UNCHANGED <<eventVars, clock>>
    PROVE  IndInv'
  <1> DEFINE r == [pass[p] EXCEPT !.pc = "locked"]
  <1>1. r \in Pass /\ r.pc = "locked"
    BY PassTypes DEF IndInv, Pass
  <1>2. /\ pass' = [pass EXCEPT ![p] = r] /\ monitorLock = None /\ monitorLock' = p
        /\ UNCHANGED <<worker, faults, state, installed, sessionLost, printed, announced>>
    BY DEF Lock, Goes, rowFrame, mailFrame
  <1>3. worker' \in [Workers -> Worker] /\ faults' \in 0..MaxFaults
    BY <1>2 DEF IndInv, TypeOK
  <1> QED BY <1>1, <1>2, <1>3, QuietPass, MonitorAssumption

\* A pass that is over lets go of the lock, if it has it.
LEMMA EndInv ==
    ASSUME IndInv, NEW p \in Passes, Ends(p), UNCHANGED <<eventVars, clock, rowFrame, mailFrame>>,
           worker' \in [Workers -> Worker], faults' \in 0..MaxFaults,
           monitorLock' = Released(p)
    PROVE  IndInv'
  <1>1. pass' = [pass EXCEPT ![p] = NoPass]
        /\ UNCHANGED <<state, installed, sessionLost, printed, announced>>
    BY DEF Ends, rowFrame, mailFrame
  <1>2. monitorLock' \in Passes \cup {None}
        /\ \A q \in Passes : q # p /\ monitorLock = q => monitorLock' = q
    BY DEF IndInv, TypeOK, Released
  <1> QED BY <1>1, <1>2, NoPassTypes, QuietPass DEF Held

LEMMA BusyInv ==
    ASSUME IndInv, NEW p \in Passes, Busy(p), UNCHANGED <<eventVars, clock>>
    PROVE  IndInv'
  <1>1. worker' \in [Workers -> Worker] /\ faults' \in 0..MaxFaults
    <2>1. faults + 0 <= MaxFaults
      BY NumberTypes DEF IndInv, TypeOK
    <2> QED BY <2>1, FailsTypes DEF Busy, IndInv
  <1>2. pass' = [pass EXCEPT ![p] = NoPass]
        /\ UNCHANGED <<monitorLock, state, installed, sessionLost, printed, announced>>
    BY DEF Busy, Ends, rowFrame, mailFrame
  <1>3. monitorLock' \in Passes \cup {None}
    BY <1>2 DEF IndInv, TypeOK
  <1> QED BY <1>1, <1>2, <1>3, NoPassTypes, QuietPass DEF Held

LEMMA ReadCursorInv ==
    ASSUME IndInv, NEW p \in Passes, ReadCursor(p), UNCHANGED <<eventVars, clock>>
    PROVE  IndInv'
  <1> DEFINE r == [pass[p] EXCEPT !.pc = "reading", !.last = state.last, !.anchor = Anchor]
  <1>1. r \in Pass /\ r.pc = "reading" /\ r.last = state.last /\ r.anchor = Anchor
        /\ Anchor <= Anchor
    <2>1. pass[p] \in Pass /\ state.last \in 0..MaxSeq /\ Anchor \in 0..MaxClock
          /\ Anchor <= Anchor
      BY PassTypes, NumberTypes DEF IndInv
    <2>2. r \in Pass
      BY <2>1 DEF Pass
    <2> QED BY <2>1, <2>2 DEF Pass
  <1>2. /\ pass' = [pass EXCEPT ![p] = r] /\ pass[p].pc = "locked"
        /\ UNCHANGED <<monitorLock, worker, faults, state, installed, sessionLost, printed,
                       announced>>
    BY DEF ReadCursor, At, rowFrame, mailFrame
  <1>3. worker' \in [Workers -> Worker] /\ faults' \in 0..MaxFaults
        /\ monitorLock' \in Passes \cup {None}
    BY <1>2 DEF IndInv, TypeOK
  <1>4. sessionLost \/ monitorLock' = p
    BY <1>2 DEF IndInv, OneHolds, Held, TypeOK
  <1> QED BY <1>1, <1>2, <1>3, <1>4, QuietPass

LEMMA ReadBatchInv ==
    ASSUME IndInv, NEW p \in Passes, ReadBatch(p), UNCHANGED <<eventVars, clock>>
    PROVE  IndInv'
  <1>1. PICK n \in {pass[p].last} \cup {e.seq : e \in events} :
          /\ pass[p].last <= n
          /\ pass' = [pass EXCEPT ![p].pc = "mailing", ![p].newest = n,
                                 ![p].batch = Above(pass[p].last, n)]
          /\ printed' = printed \cup {e.seq : e \in Above(pass[p].last, n)}
    BY DEF ReadBatch
  <1> DEFINE r == [pass[p] EXCEPT !.pc = "mailing", !.newest = n,
                                  !.batch = Above(pass[p].last, n)]
  <1>2. /\ pass[p].pc = "reading" /\ p \in Reading
        /\ UNCHANGED <<monitorLock, worker, announced, faults, state, installed, sessionLost>>
    BY DEF ReadBatch, At, rowFrame, Reading
  <1>3. n \in 0..MaxSeq /\ Above(pass[p].last, n) \in SUBSET Row
        /\ \A e \in Above(pass[p].last, n) : e \in events /\ e.seq \in 1..MaxSeq
    BY PassTypes, NumberTypes DEF IndInv, Above
  <1>4. r \in Pass /\ r.pc = "mailing" /\ r.last = pass[p].last /\ r.newest = n
        /\ r.batch = Above(pass[p].last, n) /\ r.anchor = pass[p].anchor
    <2>1. pass[p] \in Pass
      BY PassTypes DEF IndInv
    <2> QED BY <2>1, <1>3 DEF Pass
  <1>5. pass' = [pass EXCEPT ![p] = r] /\ pass'[p] = r
    BY <1>1 DEF IndInv, TypeOK
  <1>6. printed \subseteq printed' /\ announced \subseteq announced'
        /\ printed' \in SUBSET (1..MaxSeq)
    BY <1>1, <1>2, <1>3 DEF IndInv, TypeOK
  <1>7. TypeOK'
    BY <1>2, <1>4, <1>5, <1>6 DEF IndInv, TypeOK, EventsTypeOK, eventVars
  <1>8. Anchor' = Anchor /\ state.last <= state'.last /\ Anchor <= Anchor'
    BY <1>2, NumberTypes DEF IndInv, Anchor
  <1>9. NothingSkipped' /\ CursorIsCommitted'
    BY <1>2, <1>6 DEF IndInv, NothingSkipped, CursorIsCommitted, eventVars
  <1>10. sessionLost \/ (monitorLock' = p /\ r.last = state'.last)
    BY <1>2, <1>4 DEF IndInv, OnePassReads
  <1>11. BatchIsWhole(p)'
    <2>1. Above(pass[p].last, pass[p].newest)' = Above(pass[p].last, n)
      <3>1. pass'[p].last = pass[p].last /\ pass'[p].newest = n /\ events' = events
        BY <1>4, <1>5 DEF eventVars
      <3> QED BY <3>1 DEF Above
    <2>2. \A e \in r.batch : e.seq \in printed'
      BY <1>1, <1>4
    <2>3. r.newest = r.last \/ \E e \in events' : e.seq = r.newest
      BY <1>4 DEF eventVars
    <2>4. r.last <= state'.last /\ r.anchor <= Anchor'
      BY <1>2, <1>4, <1>8 DEF IndInv, BatchIsWhole
    <2> QED BY <2>1, <2>2, <2>3, <2>4, <1>1, <1>4, <1>5 DEF BatchIsWhole
  <1> QED BY <1>2, <1>4, <1>5, <1>6, <1>7, <1>8, <1>9, <1>10, <1>11, OnePass DEF Held

LEMMA MailInv ==
    ASSUME IndInv, NEW p \in Passes, Mail(p), UNCHANGED <<eventVars, clock>>
    PROVE  IndInv'
  <1> DEFINE r == [pass[p] EXCEPT !.pc = "advancing"]
  <1>1. /\ pass[p].pc = "mailing" /\ p \in Reading
        /\ announced' = announced \cup {e.seq : e \in Alerts(p)}
        /\ pass' = [pass EXCEPT ![p] = r]
        /\ UNCHANGED <<monitorLock, worker, printed, faults, state, installed, sessionLost>>
    BY DEF Mail, At, Goes, rowFrame, Reading
  <1>2. r \in Pass /\ r.pc = "advancing" /\ r.last = pass[p].last /\ r.newest = pass[p].newest
        /\ r.batch = pass[p].batch /\ r.anchor = pass[p].anchor
    <2>1. pass[p] \in Pass
      BY PassTypes DEF IndInv
    <2> QED BY <2>1 DEF Pass
  <1>3. pass'[p] = r
    BY <1>1 DEF IndInv, TypeOK
  <1>4. BatchIsWhole(p)
    BY DEF IndInv
  <1>5. \A e \in Alerts(p) : e.seq \in printed
    BY <1>1, <1>4 DEF BatchIsWhole, Alerts
  <1>6. announced \subseteq announced' /\ announced' \in SUBSET printed'
    BY <1>1, <1>5 DEF IndInv, TypeOK
  <1>7. TypeOK'
    BY <1>1, <1>2, <1>6 DEF IndInv, TypeOK, EventsTypeOK, eventVars
  <1>8. Anchor' = Anchor /\ state.last <= state'.last /\ Anchor <= Anchor'
    BY <1>1, NumberTypes DEF IndInv, Anchor
  <1>9. NothingSkipped' /\ CursorIsCommitted'
    BY <1>1 DEF IndInv, NothingSkipped, CursorIsCommitted, eventVars
  <1>10. sessionLost \/ (monitorLock' = p /\ r.last = state'.last)
    BY <1>1, <1>2 DEF IndInv, OnePassReads
  <1>11. BatchIsWhole(p)'
    <2>1. Above(pass[p].last, pass[p].newest)' = Above(pass[p].last, pass[p].newest)
      BY <1>2, <1>3 DEF Above, eventVars
    <2>2. Alerts(p)' = Alerts(p)
      BY <1>2, <1>3 DEF Alerts
    <2>3. \A e \in Alerts(p)' : e.seq \in announced'
      BY <2>2, <1>1
    <2>4. r.last <= state'.last /\ r.anchor <= Anchor'
      BY <1>1, <1>2, <1>4, <1>8 DEF BatchIsWhole
    <2>5. /\ r.last <= r.newest /\ r.batch = Above(r.last, r.newest)
          /\ \A e \in r.batch : e.seq \in printed'
          /\ r.newest = r.last \/ \E e \in events' : e.seq = r.newest
      BY <1>1, <1>2, <1>4 DEF BatchIsWhole, eventVars
    <2> QED BY <2>1, <2>3, <2>4, <2>5, <1>3 DEF BatchIsWhole
  <1> QED BY <1>1, <1>2, <1>6, <1>7, <1>8, <1>9, <1>10, <1>11, OnePass DEF Held

\* Where the pass that writes the cursor puts it.
LEMMA CursorMoves ==
    ASSUME IndInv, NEW p \in Passes, Advance(p), UNCHANGED <<eventVars, clock>>
    PROVE  /\ state'.last \in 0..MaxSeq /\ state.last <= state'.last
           /\ state' = state \/ (state'.advanced = clock /\ state' = [last |-> state'.last, advanced |-> clock])
           /\ state'.last = state.last
                \/ (state'.last = pass[p].newest /\ pass[p].newest > state.last)
           /\ installed' \in (0..MaxClock) \cup {None}
           /\ pass' = [pass EXCEPT ![p] = [pass[p] EXCEPT !.pc = "unlocking"]]
           /\ pass[p].pc = "advancing" /\ p \in Reading
           /\ UNCHANGED <<monitorLock, worker, faults, sessionLost, printed, announced>>
  <1> DEFINE n == IF pass[p].newest > state.last THEN pass[p].newest ELSE state.last
  <1>1. AdvanceTo(p, n)
    BY DEF Advance
  <1>2. state.last \in 0..MaxSeq /\ pass[p].newest \in 0..MaxSeq /\ clock \in 0..MaxClock
        /\ MaxSeq \in Nat /\ installed \in (0..MaxClock) \cup {None}
    BY NumberTypes, PassTypes DEF IndInv, TypeOK
  <1>3. n \in 0..MaxSeq /\ state.last <= n
    BY <1>2
  <1>4. /\ pass' = [pass EXCEPT ![p] = [pass[p] EXCEPT !.pc = "unlocking"]]
        /\ pass[p].pc = "advancing" /\ p \in Reading
        /\ UNCHANGED <<monitorLock, worker, faults, sessionLost, printed, announced>>
    BY <1>1 DEF AdvanceTo, At, Goes, mailFrame, Reading
  <1>5. CASE pass[p].batch = {}
    BY <1>1, <1>2, <1>4, <1>5 DEF AdvanceTo
  <1>6. CASE pass[p].batch # {}
    <2>1. state' = [last |-> n, advanced |-> clock]
          /\ installed' = IF state.advanced = None THEN clock ELSE installed
      BY <1>1, <1>6 DEF AdvanceTo
    <2> QED BY <2>1, <1>2, <1>3, <1>4
  <1> QED BY <1>5, <1>6

LEMMA AdvanceInv ==
    ASSUME IndInv, NEW p \in Passes, Advance(p), UNCHANGED <<eventVars, clock>>
    PROVE  IndInv'
  <1> DEFINE r == [pass[p] EXCEPT !.pc = "unlocking"]
  <1>1. r \in Pass /\ r.pc = "unlocking"
    BY PassTypes DEF IndInv, Pass
  <1>2. BatchIsWhole(p) /\ pass[p].pc = "advancing" /\ p \in Reading
    BY CursorMoves DEF IndInv
  <1>3. TypeOK'
    <2>1. state' \in [last : 0..MaxSeq, advanced : (0..MaxClock) \cup {None}]
      BY CursorMoves, NumberTypes DEF IndInv, TypeOK
    <2> QED BY <2>1, <1>1, CursorMoves DEF IndInv, TypeOK, EventsTypeOK, eventVars
  <1>4. Anchor <= Anchor'
    BY CursorMoves, NumberTypes DEF IndInv, CursorIsCommitted, Anchor
  <1>5. NothingSkipped'
    <2> SUFFICES ASSUME NEW e \in events, e.seq <= state'.last PROVE e.seq \in printed
      BY CursorMoves DEF NothingSkipped, eventVars
    <2>1. CASE e.seq <= state.last
      BY <2>1 DEF IndInv, NothingSkipped
    <2>2. CASE ~(e.seq <= state.last)
      <3>1. e.seq \in Nat /\ state.last \in Nat /\ pass[p].last \in Nat
        BY NumberTypes, PassTypes DEF IndInv
      <3>2. e.seq <= pass[p].newest /\ pass[p].last < e.seq
        BY <2>2, <3>1, <1>2, CursorMoves DEF BatchIsWhole
      <3>3. e \in pass[p].batch
        BY <3>2, <1>2 DEF BatchIsWhole, Above
      <3> QED BY <3>3, <1>2 DEF BatchIsWhole
    <2> QED BY <2>1, <2>2
  <1>6. CursorIsCommitted'
    <2>1. state'.last = 0 \/ \E e \in events : e.seq = state'.last
      <3>1. pass[p].newest > state.last => \E e \in events : e.seq = pass[p].newest
        BY <1>2, PassTypes, NumberTypes DEF IndInv, BatchIsWhole
      <3> QED BY <3>1, CursorMoves DEF IndInv, CursorIsCommitted
    <2>2. state' = state \/ (state'.advanced = clock /\ clock \in Nat /\ clock # None)
      BY CursorMoves, NumberTypes, EventsAssumption DEF IndInv
    <2> QED BY <2>1, <2>2 DEF IndInv, CursorIsCommitted, eventVars
  <1>7. sessionLost \/ (monitorLock = p /\ monitorLock' = p)
    BY <1>2, CursorMoves DEF IndInv, OnePassReads
  <1>8. pass'[p] = r
    BY CursorMoves DEF IndInv, TypeOK
  <1>9. BatchIsWhole(p)'
    BY <1>1, <1>8 DEF BatchIsWhole, Reading
  <1> QED BY <1>1, <1>3, <1>4, <1>5, <1>6, <1>7, <1>9, CursorMoves, OnePass DEF Held

LEMMA UnlockInv ==
    ASSUME IndInv, NEW p \in Passes, Unlock(p), UNCHANGED <<eventVars, clock>>
    PROVE  IndInv'
  BY EndInv, SucceedsTypes DEF Unlock, IndInv

LEMMA ThrowsInv ==
    ASSUME IndInv, NEW p \in Passes, Throws(p), UNCHANGED <<eventVars, clock>>
    PROVE  IndInv'
  <1>1. faults + 1 <= MaxFaults
    BY NumberTypes DEF IndInv, Throws
  <1>2. worker' \in [Workers -> Worker] /\ faults' \in 0..MaxFaults
    BY <1>1, FailsTypes DEF Throws, IndInv
  <1> QED BY <1>2, EndInv DEF Throws

LEMMA HangInv ==
    ASSUME IndInv, NEW p \in Passes, Hang(p), UNCHANGED <<eventVars, clock>>
    PROVE  IndInv'
  <1> DEFINE r == [pass[p] EXCEPT !.pc = "hung"]
  <1>1. r \in Pass /\ r.pc = "hung"
    BY PassTypes DEF IndInv, Pass
  <1>2. /\ pass' = [pass EXCEPT ![p] = r] /\ faults' = faults + 1 /\ faults < MaxFaults
        /\ UNCHANGED <<monitorLock, worker, state, installed, sessionLost, printed, announced>>
    BY DEF Hang, Goes, rowFrame, mailFrame
  <1>3. faults' \in 0..MaxFaults
    BY <1>2, NumberTypes DEF IndInv
  <1>4. worker' \in [Workers -> Worker] /\ monitorLock' \in Passes \cup {None}
    BY <1>2 DEF IndInv, TypeOK
  <1> QED BY <1>1, <1>2, <1>3, <1>4, QuietPass DEF Held

\* The passes that a step leaves are where they were, and the rows, the cursor and
\* the mails too: the steps of the worker and of the sessions.
LEMMA FewerPasses ==
    ASSUME IndInv, UNCHANGED <<eventVars, clock, state, installed, printed, announced>>,
           pass' \in [Passes -> Pass],
           \A q \in Passes : pass'[q] = pass[q] \/ pass'[q].pc = "off",
           worker' \in [Workers -> Worker], faults' \in 0..MaxFaults,
           sessionLost' \in BOOLEAN, sessionLost => sessionLost',
           monitorLock' \in Passes \cup {None},
           \A q \in Passes : monitorLock = q /\ pass'[q].pc # "off" => sessionLost' \/ monitorLock' = q
    PROVE  IndInv'
  <1>1. TypeOK'
    BY DEF IndInv, TypeOK, EventsTypeOK, eventVars
  <1>2. ChainInv'
    BY <1>1, OthersChain DEF IndInv, TypeOK, EventsTypeOK
  <1>3. NothingSkipped' /\ CursorIsCommitted'
    BY DEF IndInv, NothingSkipped, CursorIsCommitted, eventVars
  <1>4. Anchor <= Anchor' /\ state.last <= state'.last
    BY NumberTypes DEF IndInv, Anchor
  <1>5. ASSUME NEW q \in Passes PROVE BatchIsWhole(q)'
    <2>1. CASE pass'[q] = pass[q]
      BY <2>1, <1>1, <1>4, BatchStays DEF eventVars
    <2>2. CASE pass'[q].pc = "off"
      BY <2>2 DEF BatchIsWhole, Reading
    <2> QED BY <2>1, <2>2
  <1>6. OneHolds'
    <2> SUFFICES ASSUME ~sessionLost', NEW q \in Passes, pass'[q].pc \in Held
                 PROVE  monitorLock' = q
      BY DEF OneHolds, Held
    <2>1. pass'[q] = pass[q] /\ pass'[q].pc # "off"
      BY DEF Held
    <2>2. monitorLock = q
      BY <2>1 DEF IndInv, OneHolds
    <2> QED BY <2>1, <2>2
  <1>7. OnePassReads'
    <2> SUFFICES ASSUME ~sessionLost', NEW q \in Reading'
                 PROVE  monitorLock' = q /\ pass'[q].last = state'.last
      BY DEF OnePassReads
    <2>1. q \in Reading /\ q \in Passes /\ pass'[q] = pass[q] /\ pass'[q].pc # "off"
      BY DEF Reading
    <2>2. monitorLock = q /\ pass[q].last = state.last
      BY <2>1 DEF IndInv, OnePassReads
    <2> QED BY <2>1, <2>2
  <1> QED BY <1>1, <1>2, <1>3, <1>5, <1>6, <1>7 DEF IndInv

LEMMA DeadlineInv ==
    ASSUME IndInv, NEW w \in Workers, Deadline(w), UNCHANGED <<eventVars, clock>>
    PROVE  IndInv'
  <1>1. faults + 0 <= MaxFaults
    BY NumberTypes DEF IndInv, TypeOK
  <1>2. worker' \in [Workers -> Worker] /\ faults' \in 0..MaxFaults
    BY <1>1, FailureTypes DEF Deadline, IndInv
  <1>3. UNCHANGED <<state, monitorLock, pass, printed, announced, sessionLost, installed>>
    BY DEF Deadline
  <1>4. /\ pass' \in [Passes -> Pass] /\ monitorLock' \in Passes \cup {None}
        /\ sessionLost' \in BOOLEAN
    BY <1>3 DEF IndInv, TypeOK
  <1> QED BY <1>2, <1>3, <1>4, FewerPasses

LEMMA CrashInv ==
    ASSUME IndInv, NEW w \in Workers, Crash(w), UNCHANGED <<eventVars, clock>>
    PROVE  IndInv'
  <1>1. UNCHANGED <<state, printed, announced, sessionLost, installed>>
    BY DEF Crash, rowFrame, mailFrame
  <1>2. faults' \in 0..MaxFaults
    BY NumberTypes DEF IndInv, Crash
  <1>3. worker' \in [Workers -> Worker]
    BY FreshTypes DEF IndInv, TypeOK, Crash
  <1>4. /\ pass' \in [Passes -> Pass]
        /\ \A q \in Passes : pass'[q] = IF pass[q].by = w THEN NoPass ELSE pass[q]
    BY NoPassTypes DEF IndInv, TypeOK, Crash
  <1>5. \A q \in Passes : pass'[q] = pass[q] \/ pass'[q].pc = "off"
    BY <1>4, NoPassTypes
  <1>6. monitorLock' \in Passes \cup {None} /\ sessionLost' \in BOOLEAN
    BY <1>1 DEF IndInv, TypeOK, Crash
  <1>7. ASSUME NEW q \in Passes, monitorLock = q, pass'[q].pc # "off" PROVE monitorLock' = q
    <2>1. pass[q].by # w
      BY <1>4, <1>7, NoPassTypes
    <2> QED BY <2>1, <1>7 DEF Crash
  <1> QED BY <1>1, <1>2, <1>3, <1>4, <1>5, <1>6, <1>7, FewerPasses

LEMMA SessionLostInv ==
    ASSUME IndInv, SessionLost, UNCHANGED <<eventVars, clock>>
    PROVE  IndInv'
  <1>1. faults' \in 0..MaxFaults
    BY NumberTypes DEF IndInv, SessionLost
  <1>2. /\ sessionLost' = TRUE /\ monitorLock' = None
        /\ UNCHANGED <<state, installed, pass, worker, printed, announced>>
    BY DEF SessionLost, mailFrame
  <1>3. pass' \in [Passes -> Pass] /\ worker' \in [Workers -> Worker]
    BY <1>2 DEF IndInv, TypeOK
  <1> QED BY <1>1, <1>2, <1>3, FewerPasses

\* Rows appear above the end of every batch that a pass holds.
LEMMA EventStepInv ==
    ASSUME IndInv, NEW t \in Txs, TxStep(t), UNCHANGED monitorVars
    PROVE  IndInv'
  <1>1. /\ ChainInv' /\ events \subseteq events' /\ clock' = clock
        /\ \A e \in events' \ events, f \in events : f.seq < e.seq
    BY TxStepChain DEF IndInv
  <1>2. UNCHANGED <<state, monitorLock, pass, worker, printed, announced, faults, sessionLost,
                    installed>>
    BY DEF monitorVars
  <1>3. TypeOK'
    BY <1>1, <1>2 DEF IndInv, TypeOK, ChainInv
  <1>4. \A e \in events' : e.seq \in Nat /\ e.seq > 0
    BY <1>3, RowTypes DEF TypeOK, EventsTypeOK
  <1>5. NothingSkipped'
    <2>1. ASSUME NEW e \in events', e.seq <= state.last PROVE e \in events
      <3>1. e \notin events => \A f \in events : f.seq < e.seq
        BY <1>1
      <3> QED BY <2>1, <3>1, <1>4, NumberTypes DEF IndInv, CursorIsCommitted
    <2> QED BY <2>1, <1>2 DEF IndInv, NothingSkipped
  <1>6. CursorIsCommitted'
    BY <1>1, <1>2 DEF IndInv, CursorIsCommitted
  <1>7. ASSUME NEW q \in Passes PROVE BatchIsWhole(q)'
    <2>1. /\ BatchIsWhole(q) /\ pass[q].last \in Nat /\ pass[q].newest \in Nat
          /\ Alerts(q)' = Alerts(q) /\ Anchor' = Anchor /\ (q \in Reading)' = (q \in Reading)
      BY <1>1, <1>2, PassTypes DEF IndInv, Alerts, Anchor, Reading
    <2>2. pass[q].pc \in {"mailing", "advancing"} =>
            Above(pass[q].last, pass[q].newest)' = Above(pass[q].last, pass[q].newest)
      <3> SUFFICES ASSUME pass[q].pc \in {"mailing", "advancing"}, NEW e \in events' \ events
                   PROVE  ~(pass[q].last < e.seq /\ e.seq <= pass[q].newest)
        BY <1>1, <1>2 DEF Above
      <3>1. \A f \in events : f.seq < e.seq /\ f.seq \in Nat /\ e.seq \in Nat
        BY <1>1, <1>4
      <3>2. pass[q].newest = pass[q].last \/ \E f \in events : f.seq = pass[q].newest
        BY <2>1 DEF BatchIsWhole
      <3> QED BY <3>1, <3>2, <2>1, <1>4
    <2> QED BY <2>1, <2>2, <1>1, <1>2 DEF BatchIsWhole
  <1>8. OneHolds' /\ OnePassReads'
    BY <1>2 DEF IndInv, OneHolds, OnePassReads, Reading
  <1> QED BY <1>1, <1>3, <1>5, <1>6, <1>7, <1>8 DEF IndInv

LEMMA ClockInv ==
    ASSUME IndInv, ClockTick
    PROVE  IndInv'
  <1>1. /\ clock' = clock + 1 /\ clock' \in 0..MaxClock /\ UNCHANGED eventVars
        /\ UNCHANGED <<state, monitorLock, pass, worker, printed, announced, faults, sessionLost,
                       installed, events>>
    BY NumberTypes DEF IndInv, ClockTick, monitorVars, eventVars
  <1>2. ChainInv'
    BY <1>1, OthersChain DEF IndInv
  <1>3. TypeOK'
    BY <1>1, <1>2 DEF IndInv, TypeOK, ChainInv
  <1>4. Anchor <= Anchor' /\ state.last <= state'.last
    BY <1>1, NumberTypes DEF IndInv, Anchor
  <1>5. \A q \in Passes : BatchIsWhole(q)'
    BY <1>1, <1>3, <1>4, BatchStays
  <1>6. CursorIsCommitted'
    BY <1>1, NumberTypes DEF IndInv, CursorIsCommitted
  <1>7. NothingSkipped' /\ OneHolds' /\ OnePassReads'
    BY <1>1 DEF IndInv, NothingSkipped, OneHolds, OnePassReads, Reading
  <1> QED BY <1>2, <1>3, <1>5, <1>6, <1>7 DEF IndInv

LEMMA PassStepInv ==
    ASSUME IndInv, NEW p \in Passes, PassStep(p), UNCHANGED <<eventVars, clock>>
    PROVE  IndInv'
  BY LockInv, BusyInv, ReadCursorInv, ReadBatchInv, MailInv, AdvanceInv, UnlockInv DEF PassStep

LEMMA NextInv == IndInv /\ [Next]_vars => IndInv'
  <1> SUFFICES ASSUME IndInv, [Next]_vars PROVE IndInv'
    OBVIOUS
  <1>1. ASSUME NEW t \in Txs, TxStep(t), UNCHANGED monitorVars PROVE IndInv'
    BY <1>1, EventStepInv
  <1>2. ASSUME MonitorStep, UNCHANGED <<eventVars, clock>> PROVE IndInv'
    <2>1. ASSUME NEW w \in Workers, NEW p \in Passes, Tick(w, p) PROVE IndInv'
      BY <1>2, <2>1, TickInv
    <2>2. ASSUME NEW w \in Workers, Deadline(w) \/ Crash(w) PROVE IndInv'
      BY <1>2, <2>2, DeadlineInv, CrashInv
    <2>3. ASSUME NEW p \in Passes, PassStep(p) \/ Throws(p) \/ Hang(p) PROVE IndInv'
      BY <1>2, <2>3, PassStepInv, ThrowsInv, HangInv
    <2>4. ASSUME SessionLost PROVE IndInv'
      BY <1>2, <2>4, SessionLostInv
    <2> QED BY <1>2, <2>1, <2>2, <2>3, <2>4 DEF MonitorStep
  <1>3. CASE ClockTick
    BY <1>3, ClockInv
  <1>4. CASE UNCHANGED vars
    <2>1. UNCHANGED <<eventVars, clock, state, monitorLock, pass, worker, printed, announced,
                      faults, sessionLost, installed>>
      BY <1>4 DEF vars, monitorVars
    <2>2. /\ pass' \in [Passes -> Pass] /\ worker' \in [Workers -> Worker]
          /\ faults' \in 0..MaxFaults /\ sessionLost' \in BOOLEAN
          /\ monitorLock' \in Passes \cup {None}
      BY <2>1 DEF IndInv, TypeOK
    <2> QED BY <2>1, <2>2, FewerPasses
  <1> QED BY <1>1, <1>2, <1>3, <1>4 DEF Next, Step

----------------------------------------------------------------------------
\* The chain, the cursor, the batches and the lock agree after every step of the
\* transactions, the workers and their passes, whatever is lost on the way.
THEOREM Invariance == Spec => []IndInv
  BY InitInv, NextInv, PTL DEF Spec

\* append_security_event never forks the chain or leaves a link out, for every
\* number of concurrent transactions.
THEOREM ChainAlwaysUnbroken == Spec => []ChainUnbroken
  <1>1. IndInv => ChainUnbroken
    BY DEF IndInv, ChainInv
  <1> QED BY <1>1, Invariance, PTL

\* The monitor's cursor passes no committed event that it has not printed.
THEOREM NothingEverSkipped == Spec => []NothingSkipped
  <1>1. IndInv => NothingSkipped
    BY DEF IndInv
  <1> QED BY <1>1, Invariance, PTL

\* While no session is lost, abandoned passes and other workers' passes stay out of
\* the way of the pass that reads.
THEOREM OnePassAlwaysReads == Spec => []OnePassReads
  <1>1. IndInv => OnePassReads
    BY DEF IndInv
  <1> QED BY <1>1, Invariance, PTL

\* A step that is no step of a transaction and no write of the cursor.
LEMMA StepKinds ==
    ASSUME [Next]_vars
    PROVE  \/ \E t \in Txs : TxStep(t) /\ UNCHANGED monitorVars
           \/ \E p \in Passes : Advance(p) /\ UNCHANGED <<eventVars, clock>>
           \/ UNCHANGED <<eventVars, state>>
  <1> USE DEF vars, monitorVars, rowFrame
  <1>1. ASSUME MonitorStep, UNCHANGED <<eventVars, clock>>
        PROVE  (\E p \in Passes : Advance(p)) \/ UNCHANGED state
    <2>1. ASSUME NEW p \in Passes, PassStep(p) PROVE Advance(p) \/ UNCHANGED state
      BY <2>1 DEF PassStep, Lock, Busy, ReadCursor, ReadBatch, Mail, Unlock
    <2>2. ASSUME NEW p \in Passes, Throws(p) \/ Hang(p) PROVE UNCHANGED state
      BY <2>2 DEF Throws, Hang
    <2>3. ASSUME NEW w \in Workers, Deadline(w) \/ Crash(w) \/ \E p \in Passes : Tick(w, p)
          PROVE  UNCHANGED state
      BY <2>3 DEF Deadline, Crash, Tick
    <2>4. SessionLost => UNCHANGED state
      BY DEF SessionLost
    <2> QED BY <1>1, <2>1, <2>2, <2>3, <2>4 DEF MonitorStep
  <1>2. ClockTick => UNCHANGED <<eventVars, state>>
    BY DEF ClockTick
  <1> QED BY <1>1, <1>2 DEF Next, Step

\* Rows appear in the order of their numbers, so a reader that has seen one has
\* seen all below it.
THEOREM CommitsInSequence == Spec => CommitInSequence
  <1>1. ASSUME IndInv, [Next]_vars
        PROVE  [\A e \in events' \ events, f \in events : f.seq < e.seq]_eventVars
    <2>1. ASSUME NEW t \in Txs, TxStep(t)
          PROVE  \A e \in events' \ events, f \in events : f.seq < e.seq
      BY <1>1, <2>1, TxStepChain DEF IndInv
    <2> QED BY <1>1, <2>1, StepKinds
  <1> QED BY <1>1, Invariance, PTL DEF Spec, CommitInSequence

\* The cursor never goes back, also under a pass whose session has lost the lock.
THEOREM CursorAlwaysStays == Spec => CursorStays
  <1>1. ASSUME IndInv, [Next]_vars PROVE [state.last <= state'.last]_vars
    <2>1. state.last \in Nat
      BY <1>1, NumberTypes DEF IndInv
    <2>2. CASE UNCHANGED state
      BY <2>1, <2>2
    <2>3. ASSUME NEW p \in Passes, Advance(p), UNCHANGED <<eventVars, clock>>
          PROVE  state.last <= state'.last
      BY <1>1, <2>3, CursorMoves
    <2> QED BY <1>1, <2>2, <2>3, StepKinds DEF monitorVars
  <1> QED BY <1>1, Invariance, PTL DEF Spec, CursorStays

\* The cursor passes no alerting event that is fresh against it before a mail has
\* announced it.
THEOREM FreshAlwaysAnnounced == Spec => FreshIsAnnounced
  <1>1. ASSUME IndInv, [Next]_vars
        PROVE  [\A e \in events :
                  state.last < e.seq /\ e.seq <= state'.last
                    /\ e.seq \in Alerting /\ Anchor <= e.at + Freshness
                  => e.seq \in announced]_vars
    <2> SUFFICES ASSUME NEW e \in events, state.last < e.seq, e.seq <= state'.last,
                        e.seq \in Alerting, Anchor <= e.at + Freshness
                 PROVE  e.seq \in announced
      OBVIOUS
    <2>1. state.last \in Nat /\ e.seq \in Nat /\ e.at \in Nat /\ Anchor \in Nat
          /\ Freshness \in Nat
      BY <1>1, NumberTypes, MonitorAssumption DEF IndInv
    <2>2. ~UNCHANGED state
      BY <2>1
    <2>3. PICK p \in Passes : Advance(p) /\ UNCHANGED <<eventVars, clock>>
      BY <1>1, <2>2, StepKinds DEF monitorVars
    <2>4. /\ BatchIsWhole(p) /\ pass[p].pc = "advancing" /\ p \in Reading
          /\ state'.last = pass[p].newest
          /\ pass[p].last \in Nat /\ pass[p].anchor \in Nat
      BY <1>1, <2>1, <2>3, CursorMoves, PassTypes DEF IndInv
    <2>5. e \in pass[p].batch /\ pass[p].anchor <= e.at + Freshness
      BY <2>1, <2>4 DEF BatchIsWhole, Above
    <2> QED BY <2>4, <2>5 DEF BatchIsWhole, Alerts
  <1> QED BY <1>1, Invariance, PTL DEF Spec, FreshIsAnnounced
=============================================================================
