---------------------------- MODULE AccountsProofs ----------------------------
(* Theorems about Accounts, for any number of requests, sessions, challenges *)
(* and factors, and any number of password writes.                           *)
EXTENDS Accounts, FiniteSetTheorems, TLAPS

\* A step that changes nothing but the requests.
Reads == UNCHANGED <<site, users, sessions, logins, regs, factors, tokens, used>>

LEMMA RequestFields ==
    ASSUME TypeOK, NEW r \in Reqs
    PROVE  /\ req[r] \in Requests
           /\ req[r].ver \in 0..MaxWrites /\ req[r].sid \in Sids \cup {None}
           /\ req[r].ch \in Chs \cup {None} /\ req[r].count \in 0..MaxCount
           /\ req[r].with \in Keys \cup Codes \cup Tokens \cup {None}
  <1>1. req[r] \in Requests
    BY DEF TypeOK
  <1> QED BY <1>1 DEF Requests

LEMMA IdleIsARequest == Idle \in Requests /\ Idle.at = "idle" /\ 0 \in 0..MaxWrites
  BY AccountsAssumption DEF Idle, Holds, Requests

LEMMA RequestShape ==
    ASSUME NEW at \in {"verified", "counting", "completing", "changing", "resetting", "loaded",
                       "options", "adding", "removing", "renewing"},
           NEW v \in 0..MaxWrites, NEW s \in Sids \cup {None}, NEW c \in Chs \cup {None},
           NEW w \in Keys \cup Codes \cup Tokens \cup {None}
    PROVE  /\ Holds(at, v, s, c, w) \in Requests
           /\ Holds(at, v, s, c, w).at = at /\ Holds(at, v, s, c, w).ver = v
           /\ Holds(at, v, s, c, w).sid = s /\ Holds(at, v, s, c, w).with = w
  <1>1. 0 \in 0..MaxCount
    BY AccountsAssumption
  <1> QED BY <1>1 DEF Holds, Requests

\* A request that becomes q leaves the others as they are.
LEMMA OneRequest ==
    ASSUME TypeOK, NEW r \in Reqs, NEW q \in Requests, Becomes(r, q)
    PROVE  /\ req' \in [Reqs -> Requests] /\ req'[r] = q
           /\ \A k \in Reqs : k # r => req'[k] = req[k]
  BY DEF TypeOK, Becomes

LEMMA EndsIsIdle ==
    ASSUME TypeOK, NEW r \in Reqs, Ends(r)
    PROVE  /\ req' \in [Reqs -> Requests] /\ req'[r].at = "idle" /\ req'[r] = Idle
           /\ \A k \in Reqs : k # r => req'[k] = req[k]
  BY OneRequest, IdleIsARequest DEF Ends

\* What a request may rely on after a step that only changes what it waits for.
LEMMA ReadsKeepInv ==
    ASSUME IndInv, NEW r \in Reqs, NEW q \in Requests, Becomes(r, q), Reads,
           req[r].at # "created", q.at # "created",
           q.at = "adding" => q.with \in Keys,
           q.at = "completing" /\ IsLogin(q.ch) => q.ver = ver,
           q.at = "changing" /\ (\E s \in sessions : s.sid = q.sid) =>
             /\ q.ver = ver
             /\ \A k \in Reqs : req[k].at = "created" => req[k].sid # q.sid,
           q.at = "consumed" =>
             /\ q.with \in tokens
             /\ \A k \in Reqs \ {r} : req[k].at = "consumed" => req[k].with # q.with
    PROVE  IndInv'
  <1>1. /\ req' \in [Reqs -> Requests] /\ req'[r] = q
        /\ \A k \in Reqs : k # r => req'[k] = req[k]
    BY OneRequest DEF IndInv
  <1>2. TypeOK'
    BY <1>1 DEF IndInv, TypeOK, Reads, users, factors
  <1>3. AddsKeys'
    BY <1>1 DEF IndInv, AddsKeys
  <1>4. OnPresentPassword' /\ HonouredOnce' /\ PendingIsUnused' /\ OneCountPerKey'
    BY DEF IndInv, Reads, users, factors, OnPresentPassword, HonouredOnce, PendingIsUnused,
           OneCountPerKey
  <1>5. PendingIsPresent'
    BY <1>1 DEF IndInv, PendingIsPresent, IsLogin, Reads, users
  <1>6. NamedIsPresent'
    BY <1>1 DEF IndInv, NamedIsPresent, Reads, users
  <1>7. LinksAreHeld'
    BY <1>1 DEF IndInv, LinksAreHeld, Reads
  <1>8. UnstampedIsInFlight'
    BY <1>1 DEF IndInv, UnstampedIsInFlight, Reads
  <1> QED BY <1>2, <1>3, <1>4, <1>5, <1>6, <1>7, <1>8 DEF IndInv

LEMMA InitInv == Init => IndInv
  <1> SUFFICES ASSUME Init PROVE IndInv
    OBVIOUS
  <1>1. 0 \in 0..MaxWrites /\ 0 \in 0..(Threshold - 1) /\ 0 \in 0..MaxCount
    BY AccountsAssumption
  <1>2. req = [r \in Reqs |-> Idle] /\ \A r \in Reqs : req[r].at = "idle"
    BY DEF Init, Idle, Holds
  <1>3. TypeOK
    <2>1. passkeys \in SUBSET [key : Keys, count : 0..MaxCount]
      BY <1>1 DEF Init
    <2> QED BY <1>1, <1>2, <2>1, IdleIsARequest DEF Init, TypeOK
  <1>4. OnPresentPassword /\ HonouredOnce /\ PendingIsUnused /\ UnstampedIsInFlight
    BY DEF Init, OnPresentPassword, HonouredOnce, PendingIsUnused, UnstampedIsInFlight
  <1>5. AddsKeys /\ PendingIsPresent /\ NamedIsPresent /\ LinksAreHeld
    BY <1>2 DEF AddsKeys, PendingIsPresent, NamedIsPresent, LinksAreHeld
  <1>6. OneCountPerKey
    BY DEF Init, OneCountPerKey
  <1> QED BY <1>3, <1>4, <1>5, <1>6 DEF IndInv

\* The steps that only read: each keeps what the request will rely on.
LEMMA ReadingInv ==
    ASSUME IndInv, NEW r \in Reqs,
           \/ LoginRead(r) \/ LoginFactors(r) \/ MfaPasskey(r) \/ MfaCode(r) \/ MfaRefused(r)
           \/ ChangeRead(r) \/ ResetLookup(r) \/ ResetConsume(r) \/ OidcLoad(r) \/ ManageRead(r)
    PROVE  IndInv'
  <1> TypeOK
    BY DEF IndInv
  <1> USE IdleIsARequest
  <1>0. ver \in 0..MaxWrites /\ 0 \in 0..MaxWrites /\ 0 \in 0..MaxCount
    BY AccountsAssumption DEF TypeOK
  <1>1. CASE LoginRead(r)
    <2>1. CASE Becomes(r, Holds("verified", ver, None, None, None))
      BY <1>0, <1>1, <2>1, RequestShape, ReadsKeepInv DEF LoginRead, Reads
    <2>2. CASE Becomes(r, Holds("counting", 0, None, None, None))
      BY <1>0, <1>1, <2>2, RequestShape, ReadsKeepInv DEF LoginRead, Reads
    <2> QED BY <1>1, <2>1, <2>2 DEF LoginRead
  <1>2. CASE LoginFactors(r)
    <2>1. PICK q \in Requests : Becomes(r, q) /\ q.at \in {"challenging", "opening", "idle"}
      BY <1>2, RequestFields DEF LoginFactors, Ends, Requests
    <2> QED BY <1>2, <2>1, ReadsKeepInv DEF LoginFactors, Reads
  <1>3. CASE MfaPasskey(r) \/ MfaCode(r)
    <2>1. CASE Becomes(r, Holds("counting", 0, None, None, None))
      BY <1>0, <1>3, <2>1, RequestShape, ReadsKeepInv DEF MfaPasskey, MfaCode, Reads
    <2>2. CASE \E l \in logins, w \in Keys \cup Codes, n \in 0..MaxCount :
                 Becomes(r, [at |-> "completing", ver |-> l.ver, sid |-> None, ch |-> l.ch,
                             with |-> w, count |-> n])
      <3>1. PICK l \in logins, w \in Keys \cup Codes, n \in 0..MaxCount :
                 Becomes(r, [at |-> "completing", ver |-> l.ver, sid |-> None, ch |-> l.ch,
                             with |-> w, count |-> n])
        BY <2>2
      <3>2. l.ver = ver /\ l.ch \in Chs /\ l.ver \in 0..MaxWrites
        BY DEF TypeOK, IndInv, OnPresentPassword
      <3> DEFINE q == [at |-> "completing", ver |-> l.ver, sid |-> None, ch |-> l.ch,
                       with |-> w, count |-> n]
      <3>3. q \in Requests /\ q.at = "completing" /\ q.ver = ver
        BY <3>2 DEF Requests
      <3> QED BY <1>3, <3>1, <3>3, ReadsKeepInv DEF MfaPasskey, MfaCode, Reads
    <2>3. \A p \in passkeys : p.key \in Keys
      BY DEF TypeOK
    <2> QED BY <1>0, <1>3, <2>1, <2>2, <2>3 DEF MfaPasskey, MfaCode, Holds
  <1>4. CASE MfaRefused(r)
    <2>1. PICK q \in Requests : Becomes(r, q) /\ q.at \in {"counting", "idle"}
      BY <1>0, <1>4, RequestShape DEF MfaRefused, Ends
    <2> QED BY <1>4, <2>1, ReadsKeepInv DEF MfaRefused, Reads
  <1>5. CASE ChangeRead(r)
    <2>1. PICK s \in sessions : Served(s) /\ Becomes(r, Holds("changing", ver, s.sid, None, None))
      BY <1>5 DEF ChangeRead
    <2> DEFINE q == Holds("changing", ver, s.sid, None, None)
    <2>2. s.sid \in Sids
      BY DEF TypeOK, Sessions
    <2>3. q \in Requests /\ q.at = "changing" /\ q.ver = ver /\ q.sid = s.sid /\ Becomes(r, q)
      BY <1>0, <2>1, <2>2, RequestShape
    <2> HIDE DEF q
    <2>4. \A k \in Reqs : req[k].at = "created" => req[k].sid # q.sid
      BY <2>1, <2>3 DEF Served
    <2> QED BY <1>5, <2>3, <2>4, ReadsKeepInv DEF ChangeRead, Reads
  <1>6. CASE ResetLookup(r)
    <2>1. PICK t \in tokens : Becomes(r, Holds("resetting", 0, None, None, t))
      BY <1>6 DEF ResetLookup
    <2>2. t \in Tokens
      BY DEF TypeOK
    <2> QED BY <1>0, <1>6, <2>1, <2>2, RequestShape, ReadsKeepInv DEF ResetLookup, Reads
  <1>7. CASE ResetConsume(r)
    <2>1. CASE Ends(r)
      BY <1>7, <2>1, ReadsKeepInv DEF ResetConsume, Reads, Ends
    <2>2. CASE req[r].with \in tokens /\ Becomes(r, [req[r] EXCEPT !.at = "consumed"])
      <3> DEFINE q == [req[r] EXCEPT !.at = "consumed"]
      <3>1. q \in Requests /\ q.at = "consumed" /\ q.with = req[r].with
        BY RequestFields DEF Requests
      <3> QED BY <1>7, <2>2, <3>1, ReadsKeepInv DEF ResetConsume, Reads
    <2> QED BY <1>7, <2>1, <2>2 DEF ResetConsume
  <1>8. CASE OidcLoad(r)
    BY <1>0, <1>8, RequestShape, ReadsKeepInv DEF OidcLoad, Reads
  <1>9. CASE ManageRead(r)
    <2>1. PICK q \in Requests :
             /\ Becomes(r, q) /\ q.at \in {"counting", "options", "renewing", "adding", "removing"}
             /\ q.at = "adding" => q.with \in Keys
      <3>1. CASE \E at \in {"counting", "options"} : Becomes(r, Holds(at, 0, None, None, None))
        BY <1>0, <3>1, RequestShape
      <3>2. CASE Becomes(r, Holds("renewing", ver, None, None, None))
        BY <1>0, <3>2, RequestShape
      <3>3. CASE \E k \in Keys, c \in regs : Becomes(r, Holds("adding", ver, None, c, k))
        <4>1. PICK k \in Keys, c \in regs : Becomes(r, Holds("adding", ver, None, c, k))
          BY <3>3
        <4>2. c \in Chs
          BY DEF TypeOK
        <4> QED BY <1>0, <4>1, <4>2, RequestShape
      <3>4. CASE \E k \in Keys : Becomes(r, Holds("removing", ver, None, None, k))
        BY <1>0, <3>4, RequestShape
      <3> QED BY <1>9, <3>1, <3>2, <3>3, <3>4 DEF ManageRead
    <2> QED BY <1>9, <2>1, ReadsKeepInv DEF ManageRead, Reads
  <1> QED BY <1>1, <1>2, <1>3, <1>4, <1>5, <1>6, <1>7, <1>8, <1>9

LEMMA SessionShape ==
    ASSUME NEW n \in Sids, NEW m \in {"local", "oidc"}, NEW b \in {"password", "factor", "sso"},
           NEW v \in 0..MaxWrites
    PROVE  /\ Session(n, m, b, v) \in Sessions
           /\ Session(n, m, b, v).sid = n /\ Session(n, m, b, v).method = m
           /\ Session(n, m, b, v).by = b /\ Session(n, m, b, v).ver = v
  BY DEF Session, Sessions

\* The writing steps, one lemma for each.
\* The challenge is new to every request that is waiting.
LEMMA LoginChallengeInv ==
    ASSUME IndInv, NEW r \in Reqs, LoginChallenge(r)
    PROVE  IndInv'
  <1>0. /\ req' \in [Reqs -> Requests] /\ req'[r].at = "idle"
        /\ \A k \in Reqs : k # r => req'[k] = req[k]
    BY EndsIsIdle DEF IndInv, LoginChallenge
  <1>1. TypeOK'
    BY AccountsAssumption, <1>0, RequestFields
      DEF IndInv, TypeOK, LoginChallenge, Issued, FreshChs, Named, Requests, Sessions, users,
          factors
  <1>2. AddsKeys'
    BY <1>0, AccountsAssumption
      DEF IndInv, TypeOK, AddsKeys, LoginChallenge, Issued, FreshChs, Named, users, factors
  <1>3. OnPresentPassword'
    BY <1>0, AccountsAssumption
      DEF IndInv, TypeOK, OnPresentPassword, LoginChallenge, Issued, FreshChs, Named, users,
          factors
  <1>4. HonouredOnce'
    BY <1>0, AccountsAssumption
      DEF IndInv, TypeOK, HonouredOnce, LoginChallenge, Issued, FreshChs, Named, users, factors
  <1>5. PendingIsPresent'
    BY <1>0, AccountsAssumption
      DEF IndInv, TypeOK, PendingIsPresent, LoginChallenge, Issued, FreshChs, Named, IsLogin,
          users, factors
  <1>6. NamedIsPresent'
    BY <1>0, AccountsAssumption
      DEF IndInv, TypeOK, NamedIsPresent, LoginChallenge, Issued, FreshChs, Named, users,
          factors
  <1>7. PendingIsUnused'
    BY <1>0, AccountsAssumption
      DEF IndInv, TypeOK, PendingIsUnused, LoginChallenge, Issued, FreshChs, Named, users,
          factors
  <1>8. LinksAreHeld'
    BY <1>0, AccountsAssumption
      DEF IndInv, TypeOK, LinksAreHeld, LoginChallenge, Issued, FreshChs, Named, users, factors
  <1>9. UnstampedIsInFlight'
    BY <1>0, AccountsAssumption
      DEF IndInv, TypeOK, UnstampedIsInFlight, LoginChallenge, Issued, FreshChs, Named, users,
          factors
  <1>10. OneCountPerKey'
    BY DEF IndInv, LoginChallenge, users, factors, OneCountPerKey
  <1> QED BY <1>1, <1>2, <1>3, <1>4, <1>5, <1>6, <1>7, <1>8, <1>9, <1>10 DEF IndInv

\* The session is new, and rests on the hash read again.
LEMMA LoginSessionInv ==
    ASSUME IndInv, NEW r \in Reqs, LoginSession(r)
    PROVE  IndInv'
  <1>0. /\ req' \in [Reqs -> Requests] /\ req'[r].at = "idle"
        /\ \A k \in Reqs : k # r => req'[k] = req[k]
    BY EndsIsIdle DEF IndInv, LoginSession
  <1>1. TypeOK'
    <2>1. sessions' \in SUBSET Sessions
      BY RequestFields, SessionShape DEF IndInv, TypeOK, LoginSession, FreshSids
    <2>2. failed' \in {0, failed}
      BY DEF LoginSession, ClearFailures
    <2>3. failed' \in 0..(Threshold - 1)
      BY <2>2, AccountsAssumption DEF IndInv, TypeOK
    <2>4. locked' \in BOOLEAN
      BY Zenon DEF LoginSession, ClearFailures, IndInv, TypeOK
    <2> QED BY <1>0, <2>1, <2>3, <2>4 DEF IndInv, TypeOK, LoginSession, factors
  <1>2. AddsKeys'
    BY <1>0, AccountsAssumption
      DEF IndInv, TypeOK, AddsKeys, LoginSession, ClearFailures, FreshSids, Named, Session,
          users, factors
  <1>3. OnPresentPassword'
    BY <1>0, AccountsAssumption
      DEF IndInv, TypeOK, OnPresentPassword, LoginSession, ClearFailures, FreshSids, Named,
          Session, users, factors
  <1>4. PendingIsPresent'
    BY <1>0, AccountsAssumption
      DEF IndInv, TypeOK, PendingIsPresent, LoginSession, ClearFailures, FreshSids, Named,
          Session, IsLogin, users, factors
  <1>5. NamedIsPresent'
    BY <1>0, AccountsAssumption
      DEF IndInv, TypeOK, NamedIsPresent, LoginSession, ClearFailures, FreshSids, Named, Session,
          users, factors
  <1>6. LinksAreHeld'
    BY <1>0, AccountsAssumption
      DEF IndInv, TypeOK, LinksAreHeld, LoginSession, ClearFailures, FreshSids, Named, Session,
          users, factors
  <1>7. UnstampedIsInFlight'
    BY <1>0, AccountsAssumption
      DEF IndInv, TypeOK, UnstampedIsInFlight, LoginSession, ClearFailures, FreshSids, Named,
          Session, users, factors
  <1>8. HonouredOnce' /\ PendingIsUnused' /\ OneCountPerKey'
    BY DEF IndInv, LoginSession, users, factors, HonouredOnce, PendingIsUnused, OneCountPerKey
  <1> QED BY <1>1, <1>2, <1>3, <1>4, <1>5, <1>6, <1>7, <1>8 DEF IndInv

\* Only the counter and the lock change.
LEMMA CountFailureInv ==
    ASSUME IndInv, NEW r \in Reqs, CountFailure(r)
    PROVE  IndInv'
  <1>0. /\ req' \in [Reqs -> Requests] /\ req'[r].at = "idle"
        /\ \A k \in Reqs : k # r => req'[k] = req[k]
    BY EndsIsIdle DEF IndInv, CountFailure
  <1>1. TypeOK'
    <2>1. failed' \in 0..(Threshold - 1)
      <3>1. failed' \in {failed, IF failed + 1 >= Threshold THEN 0 ELSE failed + 1}
        BY DEF CountFailure
      <3>2. failed \in 0..(Threshold - 1)
        BY DEF IndInv, TypeOK
      <3> QED BY <3>1, <3>2, AccountsAssumption
    <2>2. locked' \in BOOLEAN
      <3>1. (failed + 1 >= Threshold) \in BOOLEAN
        OBVIOUS
      <3> QED BY Zenon, <3>1 DEF IndInv, TypeOK, CountFailure
    <2> QED BY <1>0, <2>1, <2>2 DEF IndInv, TypeOK, CountFailure, factors
  <1>2. AddsKeys'
    BY <1>0, AccountsAssumption DEF IndInv, TypeOK, AddsKeys, CountFailure, users, factors
  <1>3. PendingIsPresent'
    BY <1>0, AccountsAssumption
      DEF IndInv, TypeOK, PendingIsPresent, CountFailure, IsLogin, users, factors
  <1>4. NamedIsPresent'
    BY <1>0, AccountsAssumption DEF IndInv, TypeOK, NamedIsPresent, CountFailure, users, factors
  <1>5. LinksAreHeld'
    BY <1>0, AccountsAssumption DEF IndInv, TypeOK, LinksAreHeld, CountFailure, users, factors
  <1>6. UnstampedIsInFlight'
    BY <1>0, AccountsAssumption
      DEF IndInv, TypeOK, UnstampedIsInFlight, CountFailure, users, factors
  <1>7. OnPresentPassword' /\ HonouredOnce' /\ PendingIsUnused' /\ OneCountPerKey'
    BY
      DEF IndInv, CountFailure, users, factors, OnPresentPassword, HonouredOnce, PendingIsUnused,
          OneCountPerKey
  <1> QED BY <1>1, <1>2, <1>3, <1>4, <1>5, <1>6, <1>7 DEF IndInv

\* The challenge and the code leave with the step that honours them.
LEMMA MfaCompleteInv ==
    ASSUME IndInv, NEW r \in Reqs, MfaComplete(r)
    PROVE  IndInv'
  <1>0. /\ req' \in [Reqs -> Requests] /\ req'[r].at = "idle"
        /\ \A k \in Reqs : k # r => req'[k] = req[k]
    BY EndsIsIdle DEF IndInv, MfaComplete
  <1>a. PICK n \in FreshSids : sessions' = sessions \cup {Session(n, "local", "factor", req[r].ver)}
    BY DEF MfaComplete
  <1>b. /\ req[r].ch \in Chs /\ IsLogin(req[r].ch) /\ used[req[r].ch] = 0 /\ req[r].ver = ver
        /\ req[r].at = "completing" /\ ver \in 0..MaxWrites /\ n \in Sids
    BY DEF MfaComplete, IndInv, TypeOK, IsLogin, PendingIsUnused, PendingIsPresent, FreshSids
  <1>c. \/ /\ used' = [used EXCEPT ![req[r].ch] = @ + 1] /\ codes' = codes
           /\ \E p \in passkeys :
                 passkeys' = (passkeys \ {p}) \cup {[p EXCEPT !.count = req[r].count]}
        \/ /\ req[r].with \in codes /\ codes' = codes \ {req[r].with} /\ passkeys' = passkeys
           /\ used' = [used EXCEPT ![req[r].ch] = @ + 1, ![req[r].with] = @ + 1]
    BY DEF MfaComplete, PasskeyWrite, CodeWrite
  <1>d. /\ used' \in [Chs \cup Codes \cup Tokens -> Nat]
        /\ used'[req[r].ch] = 1
        /\ req[r].with \in codes => used[req[r].with] = 0
        /\ \A x \in DOMAIN used : x # req[r].ch => used'[x] = used[x] \/ used'[x] = 1
    BY <1>b, <1>c, AccountsAssumption DEF IndInv, TypeOK, PendingIsUnused
  <1>1. TypeOK'
    <2>1. sessions' \in SUBSET Sessions
      BY <1>a, <1>b, SessionShape DEF IndInv, TypeOK
    <2>2. passkeys' \in SUBSET [key : Keys, count : 0..MaxCount]
      BY <1>c, RequestFields DEF IndInv, TypeOK
    <2>3. codes' \in SUBSET Codes
      BY <1>c DEF IndInv, TypeOK
    <2>4. failed' = 0 /\ locked' = FALSE
      BY DEF MfaComplete, ClearFailures
    <2>5. failed' \in 0..(Threshold - 1)
      BY <2>4, AccountsAssumption
    <2> QED BY <1>0, <1>d, <2>1, <2>2, <2>3, <2>4, <2>5 DEF IndInv, TypeOK, MfaComplete
  <1>2. AddsKeys'
    BY <1>0, AccountsAssumption
      DEF IndInv, TypeOK, AddsKeys, MfaComplete, PasskeyWrite, CodeWrite, IsLogin, ClearFailures,
          FreshSids, Named, Session, users, factors
  <1>3. OnPresentPassword'
    BY <1>a, <1>b, SessionShape DEF IndInv, OnPresentPassword, MfaComplete
  <1>4. HonouredOnce'
    BY <1>d DEF IndInv, TypeOK, HonouredOnce
  <1>5. PendingIsPresent'
    BY <1>0, AccountsAssumption
      DEF IndInv, TypeOK, PendingIsPresent, MfaComplete, PasskeyWrite, CodeWrite, IsLogin,
          ClearFailures, FreshSids, Named, Session, users, factors
  <1>6. NamedIsPresent'
    BY <1>0, AccountsAssumption
      DEF IndInv, TypeOK, NamedIsPresent, MfaComplete, PasskeyWrite, CodeWrite, IsLogin,
          ClearFailures, FreshSids, Named, Session, users, factors
  <1>7. PendingIsUnused'
    BY <1>0, AccountsAssumption
      DEF IndInv, TypeOK, PendingIsUnused, MfaComplete, PasskeyWrite, CodeWrite, IsLogin,
          ClearFailures, FreshSids, Named, Session, users, factors
  <1>8. LinksAreHeld'
    BY <1>0, AccountsAssumption
      DEF IndInv, TypeOK, LinksAreHeld, MfaComplete, PasskeyWrite, CodeWrite, IsLogin,
          ClearFailures, FreshSids, Named, Session, users, factors
  <1>9. OneCountPerKey'
    BY <1>0, AccountsAssumption
      DEF IndInv, TypeOK, OneCountPerKey, MfaComplete, PasskeyWrite, CodeWrite, IsLogin,
          ClearFailures, FreshSids, Named, Session, users, factors
  <1>10. UnstampedIsInFlight'
    BY <1>0, AccountsAssumption
      DEF IndInv, TypeOK, UnstampedIsInFlight, MfaComplete, PasskeyWrite, CodeWrite, IsLogin,
          ClearFailures, FreshSids, Named, Session, users, factors
  <1> QED BY <1>1, <1>2, <1>3, <1>4, <1>5, <1>6, <1>7, <1>8, <1>9, <1>10 DEF IndInv

\* One session, one hash, no pending challenge.
LEMMA ChangePasswordInv ==
    ASSUME IndInv, NEW r \in Reqs, ChangePassword(r)
    PROVE  IndInv'
  <1>0. /\ req' \in [Reqs -> Requests] /\ req'[r].at = "idle"
        /\ \A k \in Reqs : k # r => req'[k] = req[k]
    BY EndsIsIdle DEF IndInv, ChangePassword
  <1>a. CASE UNCHANGED <<ver, mustReset, sessions, logins, regs>>
    <2>1. TypeOK'
      BY <1>0, <1>a DEF IndInv, TypeOK, ChangePassword, factors
    <2>2. AddsKeys' /\ OnPresentPassword' /\ HonouredOnce' /\ PendingIsUnused' /\ OneCountPerKey'
      BY <1>0, <1>a DEF IndInv, ChangePassword, AddsKeys, OnPresentPassword, HonouredOnce,
                        PendingIsUnused, OneCountPerKey, factors
    <2>3. PendingIsPresent' /\ NamedIsPresent' /\ LinksAreHeld' /\ UnstampedIsInFlight'
      BY <1>0, <1>a DEF IndInv, ChangePassword, PendingIsPresent, NamedIsPresent, LinksAreHeld,
                        UnstampedIsInFlight, IsLogin
    <2> QED BY <2>1, <2>2, <2>3 DEF IndInv
  <1>b. CASE ~ UNCHANGED <<ver, mustReset, sessions, logins, regs>>
    <2>1. PICK s \in sessions, n \in FreshSids :
             /\ s.sid = req[r].sid /\ ver < MaxWrites
             /\ WritesPassword(ver + 1, FALSE)
             /\ sessions' = {Session(n, s.method, s.by, ver + 1)}
      BY <1>b DEF ChangePassword
    <2>2. s \in Sessions /\ n \in Sids /\ ver + 1 \in 0..MaxWrites /\ req[r].at = "changing"
      BY <2>1, AccountsAssumption DEF IndInv, TypeOK, FreshSids, ChangePassword
    <2> DEFINE new == Session(n, s.method, s.by, ver + 1)
    <2>3. /\ new \in Sessions /\ new.sid = n /\ new.method = s.method /\ new.by = s.by
          /\ new.ver = ver + 1
      BY <2>2, SessionShape DEF Sessions
    <2> HIDE DEF new
    <2>4. /\ sessions' = {new} /\ ver' = ver + 1 /\ mustReset' = FALSE /\ logins' = {} /\ regs' = {}
          /\ UNCHANGED <<site, active, failed, locked, factors, tokens, used>>
      BY <2>1 DEF new, WritesPassword, ChangePassword
    <2>5. \A k \in Reqs : req[k].sid # n
      BY <2>1 DEF FreshSids, Named
    <2>6. TypeOK'
      BY <1>0, <2>2, <2>3, <2>4 DEF IndInv, TypeOK, factors
    <2>7. AddsKeys' /\ OnPresentPassword' /\ HonouredOnce' /\ OneCountPerKey'
      BY <1>0, <2>3, <2>4 DEF IndInv, AddsKeys, OnPresentPassword, HonouredOnce, OneCountPerKey,
                              factors
    <2>8. PendingIsPresent' /\ NamedIsPresent' /\ LinksAreHeld'
      BY <1>0, <2>3, <2>4, <2>5
        DEF IndInv, PendingIsPresent, NamedIsPresent, LinksAreHeld, IsLogin
    <2>9. PendingIsUnused'
      BY <2>4 DEF IndInv, PendingIsUnused, factors
    <2>10. ~(s.by = "sso" /\ s.method = "local")
      BY <2>1, <2>2 DEF IndInv, UnstampedIsInFlight, NamedIsPresent
    <2>11. UnstampedIsInFlight'
      BY <2>3, <2>4, <2>10 DEF UnstampedIsInFlight
    <2> QED BY <2>6, <2>7, <2>8, <2>9, <2>11 DEF IndInv
  <1> QED BY <1>a, <1>b

\* The link was held by this request alone.
LEMMA ResetPasswordInv ==
    ASSUME IndInv, NEW r \in Reqs, ResetPassword(r)
    PROVE  IndInv'
  <1>0. /\ req' \in [Reqs -> Requests] /\ req'[r].at = "idle"
        /\ \A k \in Reqs : k # r => req'[k] = req[k]
    BY EndsIsIdle DEF IndInv, ResetPassword
  <1>a. PICK S \in {{}} \cup {{Session(n, "local", "password", ver + 1)} : n \in FreshSids} :
             sessions' = S
    BY DEF ResetPassword
  <1>b. /\ req[r].at = "consumed" /\ req[r].with \in tokens /\ req[r].with \in Tokens
        /\ used[req[r].with] = 0 /\ ver + 1 \in 0..MaxWrites
        /\ FreshSids \subseteq Sids /\ ver' = ver + 1
    BY AccountsAssumption
       DEF ResetPassword, WritesPassword, IndInv, TypeOK, LinksAreHeld, PendingIsUnused, FreshSids
  <1>c. /\ used' \in [Chs \cup Codes \cup Tokens -> Nat] /\ used'[req[r].with] = 1
        /\ \A x \in DOMAIN used : x # req[r].with => used'[x] = used[x]
    BY <1>b DEF ResetPassword, Honoured, IndInv, TypeOK
  <1>d. \A s \in sessions' : /\ s \in Sessions /\ s.ver = ver' /\ s.method = "local"
                            /\ s.by = "password" /\ s.sid \in FreshSids
    BY <1>a, <1>b, SessionShape
  <1>1. TypeOK'
    BY <1>0, <1>b, <1>c, <1>d DEF IndInv, TypeOK, ResetPassword, WritesPassword, factors
  <1>2. AddsKeys'
    BY <1>0, AccountsAssumption
      DEF IndInv, TypeOK, AddsKeys, ResetPassword, WritesPassword, FreshSids, Named, Session,
          Honoured, users, factors
  <1>3. OnPresentPassword'
    BY <1>0, AccountsAssumption
      DEF IndInv, TypeOK, OnPresentPassword, ResetPassword, WritesPassword, FreshSids, Named,
          Session, Honoured, users, factors
  <1>4. HonouredOnce'
    BY <1>b, <1>c DEF IndInv, TypeOK, HonouredOnce
  <1>5. PendingIsPresent'
    BY <1>0, AccountsAssumption
      DEF IndInv, TypeOK, PendingIsPresent, ResetPassword, WritesPassword, FreshSids, Named,
          Session, Honoured, IsLogin, users, factors
  <1>6. NamedIsPresent'
    BY <1>0, AccountsAssumption
      DEF IndInv, TypeOK, NamedIsPresent, ResetPassword, WritesPassword, FreshSids, Named,
          Session, Honoured, users, factors
  <1>7. PendingIsUnused'
    <2>1. logins' = {} /\ regs' = {} /\ codes' = codes /\ tokens' = tokens \ {req[r].with}
      BY DEF ResetPassword, WritesPassword, factors
    <2>2. \A x \in codes \cup tokens : x \in DOMAIN used
      BY DEF IndInv, TypeOK
    <2>3. req[r].with \notin codes
      BY <1>b, AccountsAssumption DEF IndInv, TypeOK
    <2> QED BY <1>c, <2>1, <2>2, <2>3 DEF IndInv, PendingIsUnused
  <1>8. LinksAreHeld'
    BY <1>0, AccountsAssumption
      DEF IndInv, TypeOK, LinksAreHeld, ResetPassword, WritesPassword, FreshSids, Named, Session,
          Honoured, users, factors
  <1>9. UnstampedIsInFlight'
    BY <1>0, AccountsAssumption
      DEF IndInv, TypeOK, UnstampedIsInFlight, ResetPassword, WritesPassword, FreshSids, Named,
          Session, Honoured, users, factors
  <1>10. OneCountPerKey'
    BY DEF IndInv, ResetPassword, users, factors, OneCountPerKey
  <1> QED BY <1>1, <1>2, <1>3, <1>4, <1>5, <1>6, <1>7, <1>8, <1>9, <1>10 DEF IndInv

\* A session that is not stamped yet belongs to the callback that created it.
LEMMA OidcCreateInv ==
    ASSUME IndInv, NEW r \in Reqs, OidcCreate(r)
    PROVE  IndInv'
  <1>0. /\ req' \in [Reqs -> Requests] /\ req'[r].at = "created" /\ req[r].at # "created"
        /\ \A k \in Reqs : k # r => req'[k] = req[k]
    <2>1. PICK n \in FreshSids : Becomes(r, [req[r] EXCEPT !.at = "created", !.sid = n])
      BY DEF OidcCreate
    <2> DEFINE q == [req[r] EXCEPT !.at = "created", !.sid = n]
    <2>2. q \in Requests
      BY <2>1, RequestFields DEF IndInv, Requests, FreshSids
    <2>3. q.at = "created"
      BY RequestFields DEF IndInv, Requests
    <2> HIDE DEF q
    <2>4. Becomes(r, q)
      BY <2>1 DEF q
    <2> QED BY <2>2, <2>3, <2>4, OneRequest DEF IndInv, OidcCreate
  <1>1. TypeOK'
    BY AccountsAssumption, <1>0, RequestFields
      DEF IndInv, TypeOK, OidcCreate, FreshSids, Named, Session, Becomes, Requests, Sessions,
          users, factors
  <1>2. AddsKeys'
    BY <1>0, AccountsAssumption
      DEF IndInv, TypeOK, AddsKeys, OidcCreate, FreshSids, Named, Session, Becomes, users,
          factors
  <1>3. OnPresentPassword'
    BY <1>0, AccountsAssumption
      DEF IndInv, TypeOK, OnPresentPassword, OidcCreate, FreshSids, Named, Session, Becomes,
          users, factors
  <1>4. PendingIsPresent'
    BY <1>0, AccountsAssumption
      DEF IndInv, TypeOK, PendingIsPresent, OidcCreate, FreshSids, Named, Session, Becomes,
          IsLogin, users, factors
  <1>5. NamedIsPresent'
    BY <1>0, AccountsAssumption
      DEF IndInv, TypeOK, NamedIsPresent, OidcCreate, FreshSids, Named, Session, Becomes, users,
          factors
  <1>6. LinksAreHeld'
    BY <1>0, AccountsAssumption
      DEF IndInv, TypeOK, LinksAreHeld, OidcCreate, FreshSids, Named, Session, Becomes, users,
          factors
  <1>7. UnstampedIsInFlight'
    BY <1>0, AccountsAssumption
      DEF IndInv, TypeOK, UnstampedIsInFlight, OidcCreate, FreshSids, Named, Session, Becomes,
          users, factors
  <1>8. HonouredOnce' /\ PendingIsUnused' /\ OneCountPerKey'
    BY DEF IndInv, OidcCreate, users, factors, HonouredOnce, PendingIsUnused, OneCountPerKey
  <1> QED BY <1>1, <1>2, <1>3, <1>4, <1>5, <1>6, <1>7, <1>8 DEF IndInv

LEMMA OidcStampInv ==
    ASSUME IndInv, NEW r \in Reqs, OidcStamp(r)
    PROVE  IndInv'
  <1>0. /\ req' \in [Reqs -> Requests] /\ req'[r].at = "stamped" /\ req[r].at # "stamped"
        /\ \A k \in Reqs : k # r => req'[k] = req[k]
    BY RequestFields, OneRequest DEF IndInv, OidcStamp, Requests, FreshSids
  <1>a. /\ \A s \in sessions : [s EXCEPT !.method = "oidc"] \in Sessions
        /\ \A s \in sessions : LET t == [s EXCEPT !.method = "oidc"]
                              IN  t.sid = s.sid /\ t.ver = s.ver /\ t.method = "oidc" /\ t.by = s.by
    BY DEF IndInv, TypeOK, Sessions
  <1>b. \A t \in sessions' : \E s \in sessions :
           /\ t \in Sessions /\ t.sid = s.sid /\ t.ver = s.ver /\ t.by = s.by
           /\ t.method = "local" => s.method = "local" /\ s.sid # req[r].sid
    <2>1. sessions' = {IF s.sid = req[r].sid THEN [s EXCEPT !.method = "oidc"] ELSE s : s \in sessions}
      BY DEF OidcStamp
    <2> SUFFICES ASSUME NEW t \in sessions'
                 PROVE  \E s \in sessions :
                           /\ t \in Sessions /\ t.sid = s.sid /\ t.ver = s.ver /\ t.by = s.by
                           /\ t.method = "local" => s.method = "local" /\ s.sid # req[r].sid
      OBVIOUS
    <2>2. PICK s \in sessions :
             t = IF s.sid = req[r].sid THEN [s EXCEPT !.method = "oidc"] ELSE s
      BY <2>1
    <2>3. s \in Sessions
      BY DEF IndInv, TypeOK
    <2>4. CASE s.sid = req[r].sid
      BY <1>a, <2>2, <2>4
    <2>5. CASE s.sid # req[r].sid
      BY <2>2, <2>3, <2>5
    <2> QED BY <2>4, <2>5
  <1>1. TypeOK'
    BY AccountsAssumption, <1>0, RequestFields
      DEF IndInv, TypeOK, OidcStamp, Becomes, Requests, Sessions, users, factors
  <1>2. AddsKeys'
    BY <1>0, AccountsAssumption DEF IndInv, TypeOK, AddsKeys, OidcStamp, Becomes, users, factors
  <1>3. OnPresentPassword'
    BY <1>0, <1>b DEF IndInv, TypeOK, OnPresentPassword, OidcStamp, users
  <1>4. PendingIsPresent'
    BY <1>0, AccountsAssumption
      DEF IndInv, TypeOK, PendingIsPresent, OidcStamp, Becomes, IsLogin, users, factors
  <1>5. NamedIsPresent'
    BY <1>0, <1>b DEF IndInv, TypeOK, NamedIsPresent, OidcStamp, users
  <1>6. LinksAreHeld'
    BY <1>0, AccountsAssumption
      DEF IndInv, TypeOK, LinksAreHeld, OidcStamp, Becomes, users, factors
  <1>7. UnstampedIsInFlight'
    BY <1>0, <1>b DEF IndInv, TypeOK, UnstampedIsInFlight, OidcStamp, users
  <1>8. HonouredOnce' /\ PendingIsUnused' /\ OneCountPerKey'
    BY DEF IndInv, OidcStamp, users, factors, HonouredOnce, PendingIsUnused, OneCountPerKey
  <1> QED BY <1>1, <1>2, <1>3, <1>4, <1>5, <1>6, <1>7, <1>8 DEF IndInv

LEMMA OidcFinishInv ==
    ASSUME IndInv, NEW r \in Reqs, OidcFinish(r)
    PROVE  IndInv'
  <1>0. /\ req' \in [Reqs -> Requests] /\ req'[r].at = "idle"
        /\ \A k \in Reqs : k # r => req'[k] = req[k]
    BY EndsIsIdle DEF IndInv, OidcFinish
  <1>1. TypeOK'
    BY AccountsAssumption, <1>0, RequestFields
      DEF IndInv, TypeOK, OidcFinish, Requests, Sessions, users, factors
  <1>2. AddsKeys'
    BY <1>0, AccountsAssumption DEF IndInv, TypeOK, AddsKeys, OidcFinish, users, factors
  <1>3. PendingIsPresent'
    BY <1>0, AccountsAssumption
      DEF IndInv, TypeOK, PendingIsPresent, OidcFinish, IsLogin, users, factors
  <1>4. NamedIsPresent'
    BY <1>0, AccountsAssumption DEF IndInv, TypeOK, NamedIsPresent, OidcFinish, users, factors
  <1>5. LinksAreHeld'
    BY <1>0, AccountsAssumption DEF IndInv, TypeOK, LinksAreHeld, OidcFinish, users, factors
  <1>6. UnstampedIsInFlight'
    BY <1>0, AccountsAssumption
      DEF IndInv, TypeOK, UnstampedIsInFlight, OidcFinish, users, factors
  <1>7. OnPresentPassword' /\ HonouredOnce' /\ PendingIsUnused' /\ OneCountPerKey'
    BY
      DEF IndInv, OidcFinish, users, factors, OnPresentPassword, HonouredOnce, PendingIsUnused,
          OneCountPerKey
  <1> QED BY <1>1, <1>2, <1>3, <1>4, <1>5, <1>6, <1>7 DEF IndInv

LEMMA OidcFailsInv ==
    ASSUME IndInv, NEW r \in Reqs, OidcFails(r)
    PROVE  IndInv'
  <1>0. /\ req' \in [Reqs -> Requests] /\ req'[r].at = "idle"
        /\ \A k \in Reqs : k # r => req'[k] = req[k]
    BY EndsIsIdle DEF IndInv, OidcFails
  <1>1. TypeOK'
    BY AccountsAssumption, <1>0, RequestFields
      DEF IndInv, TypeOK, OidcFails, Requests, Sessions, users, factors
  <1>2. AddsKeys'
    BY <1>0, AccountsAssumption DEF IndInv, TypeOK, AddsKeys, OidcFails, users, factors
  <1>3. OnPresentPassword'
    BY <1>0, AccountsAssumption DEF IndInv, TypeOK, OnPresentPassword, OidcFails, users, factors
  <1>4. PendingIsPresent'
    BY <1>0, AccountsAssumption
      DEF IndInv, TypeOK, PendingIsPresent, OidcFails, IsLogin, users, factors
  <1>5. NamedIsPresent'
    BY <1>0, AccountsAssumption DEF IndInv, TypeOK, NamedIsPresent, OidcFails, users, factors
  <1>6. LinksAreHeld'
    BY <1>0, AccountsAssumption DEF IndInv, TypeOK, LinksAreHeld, OidcFails, users, factors
  <1>7. UnstampedIsInFlight'
    BY <1>0, AccountsAssumption DEF IndInv, TypeOK, UnstampedIsInFlight, OidcFails, users, factors
  <1>8. HonouredOnce' /\ PendingIsUnused' /\ OneCountPerKey'
    BY DEF IndInv, OidcFails, users, factors, HonouredOnce, PendingIsUnused, OneCountPerKey
  <1> QED BY <1>1, <1>2, <1>3, <1>4, <1>5, <1>6, <1>7, <1>8 DEF IndInv

LEMMA PasskeyOptionsInv ==
    ASSUME IndInv, NEW r \in Reqs, PasskeyOptions(r)
    PROVE  IndInv'
  <1>0. /\ req' \in [Reqs -> Requests] /\ req'[r].at = "idle"
        /\ \A k \in Reqs : k # r => req'[k] = req[k]
    BY EndsIsIdle DEF IndInv, PasskeyOptions
  <1>1. TypeOK'
    BY AccountsAssumption, <1>0, RequestFields
      DEF IndInv, TypeOK, PasskeyOptions, Issued, FreshChs, Named, Requests, Sessions, users,
          factors
  <1>2. AddsKeys'
    BY <1>0, AccountsAssumption
      DEF IndInv, TypeOK, AddsKeys, PasskeyOptions, Issued, FreshChs, Named, users, factors
  <1>3. HonouredOnce'
    BY <1>0, AccountsAssumption
      DEF IndInv, TypeOK, HonouredOnce, PasskeyOptions, Issued, FreshChs, Named, users, factors
  <1>4. PendingIsPresent'
    BY <1>0, AccountsAssumption
      DEF IndInv, TypeOK, PendingIsPresent, PasskeyOptions, Issued, FreshChs, Named, IsLogin,
          users, factors
  <1>5. NamedIsPresent'
    BY <1>0, AccountsAssumption
      DEF IndInv, TypeOK, NamedIsPresent, PasskeyOptions, Issued, FreshChs, Named, users,
          factors
  <1>6. PendingIsUnused'
    BY <1>0, AccountsAssumption
      DEF IndInv, TypeOK, PendingIsUnused, PasskeyOptions, Issued, FreshChs, Named, users,
          factors
  <1>7. LinksAreHeld'
    BY <1>0, AccountsAssumption
      DEF IndInv, TypeOK, LinksAreHeld, PasskeyOptions, Issued, FreshChs, Named, users, factors
  <1>8. UnstampedIsInFlight'
    BY <1>0, AccountsAssumption
      DEF IndInv, TypeOK, UnstampedIsInFlight, PasskeyOptions, Issued, FreshChs, Named, users,
          factors
  <1>9. OnPresentPassword' /\ OneCountPerKey'
    BY DEF IndInv, PasskeyOptions, users, factors, OnPresentPassword, OneCountPerKey
  <1> QED BY <1>1, <1>2, <1>3, <1>4, <1>5, <1>6, <1>7, <1>8, <1>9 DEF IndInv

LEMMA AddPasskeyInv ==
    ASSUME IndInv, NEW r \in Reqs, AddPasskey(r)
    PROVE  IndInv'
  <1>0. /\ req' \in [Reqs -> Requests] /\ req'[r].at = "idle"
        /\ \A k \in Reqs : k # r => req'[k] = req[k]
    BY EndsIsIdle DEF IndInv, AddPasskey
  <1>a. CASE UNCHANGED <<regs, used, passkeys>>
    <2>1. /\ used' = used /\ UNCHANGED <<site, users, sessions, logins, codes, tokens>>
      BY <1>a DEF AddPasskey
    <2>2. TypeOK' /\ AddsKeys' /\ OnPresentPassword' /\ HonouredOnce' /\ OneCountPerKey'
      BY <1>0, <1>a, <2>1 DEF IndInv, TypeOK, AddsKeys, OnPresentPassword, HonouredOnce,
                              OneCountPerKey, users
    <2>3. PendingIsPresent' /\ NamedIsPresent' /\ PendingIsUnused'
      BY <1>0, <1>a, <2>1 DEF IndInv, PendingIsPresent, NamedIsPresent, PendingIsUnused, IsLogin,
                              users
    <2>4. LinksAreHeld'
      BY <1>0, <2>1 DEF IndInv, LinksAreHeld
    <2>5. UnstampedIsInFlight'
      BY <1>0, <2>1 DEF IndInv, UnstampedIsInFlight, AddPasskey
    <2> QED BY <2>2, <2>3, <2>4, <2>5 DEF IndInv
  <1>b. CASE ~ UNCHANGED <<regs, used, passkeys>>
    <2>1. /\ req[r].at = "adding" /\ req[r].ch \in regs /\ regs' = regs \ {req[r].ch}
          /\ used' = [used EXCEPT ![req[r].ch] = @ + 1]
          /\ passkeys' = IF req[r].with \in KeysHeld THEN passkeys
                         ELSE passkeys \cup {[key |-> req[r].with, count |-> 0]}
          /\ UNCHANGED <<site, users, sessions, logins, codes, tokens>>
      BY <1>b DEF AddPasskey, Honoured
    <2>2. req[r].ch \in Chs /\ req[r].with \in Keys /\ used[req[r].ch] = 0 /\ 0 \in 0..MaxCount
      BY <2>1, AccountsAssumption DEF IndInv, TypeOK, AddsKeys, PendingIsUnused
    <2>3. /\ used' \in [Chs \cup Codes \cup Tokens -> Nat] /\ used'[req[r].ch] = 1
          /\ \A x \in DOMAIN used : x # req[r].ch => used'[x] = used[x]
      BY <2>1, <2>2 DEF IndInv, TypeOK
    <2>4. passkeys' \in SUBSET [key : Keys, count : 0..MaxCount]
      BY <2>1, <2>2 DEF IndInv, TypeOK
    <2>5. TypeOK' /\ AddsKeys'
      BY <1>0, <2>1, <2>3, <2>4 DEF IndInv, TypeOK, AddsKeys, users
    <2>6. OnPresentPassword' /\ HonouredOnce'
      BY <2>1, <2>3 DEF IndInv, TypeOK, OnPresentPassword, HonouredOnce, users
    <2>7. OneCountPerKey'
      BY <2>1 DEF IndInv, OneCountPerKey, KeysHeld
    <2>8. PendingIsPresent' /\ NamedIsPresent'
      BY <1>0, <2>1 DEF IndInv, PendingIsPresent, NamedIsPresent, IsLogin, users
    <2>9. PendingIsUnused'
      <3>1. \A x \in codes \cup tokens : x # req[r].ch /\ x \in DOMAIN used
        BY <2>2, AccountsAssumption DEF IndInv, TypeOK
      <3>2. \A l \in logins : l.ch # req[r].ch /\ l.ch \in DOMAIN used
        BY <2>1 DEF IndInv, TypeOK, PendingIsUnused
      <3>3. \A x \in regs : x \in DOMAIN used
        BY DEF IndInv, TypeOK
      <3> QED BY <2>1, <2>3, <3>1, <3>2, <3>3 DEF IndInv, PendingIsUnused
    <2>10. LinksAreHeld' /\ UnstampedIsInFlight'
      BY <1>0, <2>1 DEF IndInv, LinksAreHeld, UnstampedIsInFlight
    <2> QED BY <2>5, <2>6, <2>7, <2>8, <2>9, <2>10 DEF IndInv
  <1> QED BY <1>a, <1>b

LEMMA RemovePasskeyInv ==
    ASSUME IndInv, NEW r \in Reqs, RemovePasskey(r)
    PROVE  IndInv'
  <1>0. /\ req' \in [Reqs -> Requests] /\ req'[r].at = "idle"
        /\ \A k \in Reqs : k # r => req'[k] = req[k]
    BY EndsIsIdle DEF IndInv, RemovePasskey
  <1>1. TypeOK'
    BY AccountsAssumption, <1>0, RequestFields
      DEF IndInv, TypeOK, RemovePasskey, Verified, Requests, Sessions, users, factors
  <1>2. AddsKeys'
    BY <1>0, AccountsAssumption
      DEF IndInv, TypeOK, AddsKeys, RemovePasskey, Verified, users, factors
  <1>3. PendingIsPresent'
    BY <1>0, AccountsAssumption
      DEF IndInv, TypeOK, PendingIsPresent, RemovePasskey, Verified, IsLogin, users, factors
  <1>4. NamedIsPresent'
    BY <1>0, AccountsAssumption
      DEF IndInv, TypeOK, NamedIsPresent, RemovePasskey, Verified, users, factors
  <1>5. LinksAreHeld'
    BY <1>0, AccountsAssumption
      DEF IndInv, TypeOK, LinksAreHeld, RemovePasskey, Verified, users, factors
  <1>6. OneCountPerKey'
    BY <1>0, AccountsAssumption
      DEF IndInv, TypeOK, OneCountPerKey, RemovePasskey, Verified, users, factors
  <1>7. UnstampedIsInFlight'
    BY <1>0, AccountsAssumption
      DEF IndInv, TypeOK, UnstampedIsInFlight, RemovePasskey, Verified, users, factors
  <1>8. OnPresentPassword' /\ HonouredOnce' /\ PendingIsUnused'
    BY DEF IndInv, RemovePasskey, users, factors, OnPresentPassword, HonouredOnce, PendingIsUnused
  <1> QED BY <1>1, <1>2, <1>3, <1>4, <1>5, <1>6, <1>7, <1>8 DEF IndInv

LEMMA RenewCodesInv ==
    ASSUME IndInv, NEW r \in Reqs, RenewCodes(r)
    PROVE  IndInv'
  <1>0. /\ req' \in [Reqs -> Requests] /\ req'[r].at = "idle"
        /\ \A k \in Reqs : k # r => req'[k] = req[k]
    BY EndsIsIdle DEF IndInv, RenewCodes
  <1>1. TypeOK'
    BY AccountsAssumption, <1>0, RequestFields
      DEF IndInv, TypeOK, RenewCodes, Issued, Named, Verified, Requests, Sessions, users,
          factors
  <1>2. AddsKeys'
    BY <1>0, AccountsAssumption
      DEF IndInv, TypeOK, AddsKeys, RenewCodes, Issued, Named, Verified, users, factors
  <1>3. HonouredOnce'
    BY <1>0, AccountsAssumption
      DEF IndInv, TypeOK, HonouredOnce, RenewCodes, Issued, Named, Verified, users, factors
  <1>4. PendingIsPresent'
    BY <1>0, AccountsAssumption
      DEF IndInv, TypeOK, PendingIsPresent, RenewCodes, Issued, Named, Verified, IsLogin, users,
          factors
  <1>5. NamedIsPresent'
    BY <1>0, AccountsAssumption
      DEF IndInv, TypeOK, NamedIsPresent, RenewCodes, Issued, Named, Verified, users, factors
  <1>6. PendingIsUnused'
    BY <1>0, AccountsAssumption
      DEF IndInv, TypeOK, PendingIsUnused, RenewCodes, Issued, Named, Verified, users, factors
  <1>7. LinksAreHeld'
    BY <1>0, AccountsAssumption
      DEF IndInv, TypeOK, LinksAreHeld, RenewCodes, Issued, Named, Verified, users, factors
  <1>8. UnstampedIsInFlight'
    BY <1>0, AccountsAssumption
      DEF IndInv, TypeOK, UnstampedIsInFlight, RenewCodes, Issued, Named, Verified, users,
          factors
  <1>9. OnPresentPassword' /\ OneCountPerKey'
    BY DEF IndInv, RenewCodes, users, factors, OnPresentPassword, OneCountPerKey
  <1> QED BY <1>1, <1>2, <1>3, <1>4, <1>5, <1>6, <1>7, <1>8, <1>9 DEF IndInv

LEMMA LapseInv ==
    ASSUME IndInv, Lapse
    PROVE  IndInv'
  <1>1. TypeOK'
    BY AccountsAssumption DEF IndInv, TypeOK, Lapse, Requests, Sessions, users, factors
  <1>2. AddsKeys' /\ OnPresentPassword' /\ HonouredOnce' /\ PendingIsPresent' /\ NamedIsPresent' /\ PendingIsUnused' /\ LinksAreHeld' /\ OneCountPerKey' /\ UnstampedIsInFlight'
    BY
      DEF IndInv, Lapse, users, factors, AddsKeys, OnPresentPassword, HonouredOnce,
          PendingIsPresent, NamedIsPresent, PendingIsUnused, LinksAreHeld, OneCountPerKey,
          UnstampedIsInFlight, IsLogin
  <1> QED BY <1>1, <1>2 DEF IndInv

LEMMA ChallengeExpiresInv ==
    ASSUME IndInv, ChallengeExpires
    PROVE  IndInv'
  <1>1. TypeOK'
    BY AccountsAssumption DEF IndInv, TypeOK, ChallengeExpires, Requests, Sessions, users, factors
  <1>2. OnPresentPassword'
    BY AccountsAssumption DEF IndInv, TypeOK, OnPresentPassword, ChallengeExpires, users, factors
  <1>3. PendingIsPresent'
    BY AccountsAssumption
      DEF IndInv, TypeOK, PendingIsPresent, ChallengeExpires, IsLogin, users, factors
  <1>4. PendingIsUnused'
    BY AccountsAssumption DEF IndInv, TypeOK, PendingIsUnused, ChallengeExpires, users, factors
  <1>5. AddsKeys' /\ HonouredOnce' /\ NamedIsPresent' /\ LinksAreHeld' /\ OneCountPerKey' /\ UnstampedIsInFlight'
    BY
      DEF IndInv, ChallengeExpires, users, factors, AddsKeys, HonouredOnce, NamedIsPresent,
          LinksAreHeld, OneCountPerKey, UnstampedIsInFlight
  <1> QED BY <1>1, <1>2, <1>3, <1>4, <1>5 DEF IndInv

LEMMA MintTokenInv ==
    ASSUME IndInv, MintToken
    PROVE  IndInv'
  <1>1. TypeOK'
    BY AccountsAssumption
      DEF IndInv, TypeOK, MintToken, Issued, Named, Requests, Sessions, users, factors
  <1>2. HonouredOnce'
    BY AccountsAssumption
      DEF IndInv, TypeOK, HonouredOnce, MintToken, Issued, Named, users, factors
  <1>3. PendingIsUnused'
    BY AccountsAssumption
      DEF IndInv, TypeOK, PendingIsUnused, MintToken, Issued, Named, users, factors
  <1>4. LinksAreHeld'
    BY AccountsAssumption
      DEF IndInv, TypeOK, LinksAreHeld, MintToken, Issued, Named, users, factors
  <1>5. AddsKeys' /\ OnPresentPassword' /\ PendingIsPresent' /\ NamedIsPresent' /\ OneCountPerKey' /\ UnstampedIsInFlight'
    BY
      DEF IndInv, MintToken, users, factors, AddsKeys, OnPresentPassword, PendingIsPresent,
          NamedIsPresent, OneCountPerKey, UnstampedIsInFlight, IsLogin
  <1> QED BY <1>1, <1>2, <1>3, <1>4, <1>5 DEF IndInv

LEMMA TokenExpiresInv ==
    ASSUME IndInv, TokenExpires
    PROVE  IndInv'
  <1>1. TypeOK'
    BY AccountsAssumption DEF IndInv, TypeOK, TokenExpires, Requests, Sessions, users, factors
  <1>2. PendingIsUnused'
    BY AccountsAssumption DEF IndInv, TypeOK, PendingIsUnused, TokenExpires, users, factors
  <1>3. LinksAreHeld'
    BY AccountsAssumption DEF IndInv, TypeOK, LinksAreHeld, TokenExpires, users, factors
  <1>4. AddsKeys' /\ OnPresentPassword' /\ HonouredOnce' /\ PendingIsPresent' /\ NamedIsPresent' /\ OneCountPerKey' /\ UnstampedIsInFlight'
    BY
      DEF IndInv, TokenExpires, users, factors, AddsKeys, OnPresentPassword, HonouredOnce,
          PendingIsPresent, NamedIsPresent, OneCountPerKey, UnstampedIsInFlight, IsLogin
  <1> QED BY <1>1, <1>2, <1>3, <1>4 DEF IndInv

LEMMA AdminResetInv ==
    ASSUME IndInv, AdminReset
    PROVE  IndInv'
  <1>1. TypeOK'
    BY AccountsAssumption
      DEF IndInv, TypeOK, AdminReset, WritesPassword, Requests, Sessions, users, factors
  <1>2. OnPresentPassword'
    BY AccountsAssumption
      DEF IndInv, TypeOK, OnPresentPassword, AdminReset, WritesPassword, users, factors
  <1>3. PendingIsPresent'
    BY AccountsAssumption
      DEF IndInv, TypeOK, PendingIsPresent, AdminReset, WritesPassword, IsLogin, users, factors
  <1>4. NamedIsPresent'
    BY AccountsAssumption
      DEF IndInv, TypeOK, NamedIsPresent, AdminReset, WritesPassword, users, factors
  <1>5. PendingIsUnused'
    BY AccountsAssumption
      DEF IndInv, TypeOK, PendingIsUnused, AdminReset, WritesPassword, users, factors
  <1>6. UnstampedIsInFlight'
    BY AccountsAssumption
      DEF IndInv, TypeOK, UnstampedIsInFlight, AdminReset, WritesPassword, users, factors
  <1>7. AddsKeys' /\ HonouredOnce' /\ LinksAreHeld' /\ OneCountPerKey'
    BY
      DEF IndInv, AdminReset, users, factors, AddsKeys, HonouredOnce, LinksAreHeld,
          OneCountPerKey
  <1> QED BY <1>1, <1>2, <1>3, <1>4, <1>5, <1>6, <1>7 DEF IndInv

LEMMA SetActiveInv ==
    ASSUME IndInv, SetActive
    PROVE  IndInv'
  <1>1. TypeOK'
    BY AccountsAssumption DEF IndInv, TypeOK, SetActive, Requests, Sessions, users, factors
  <1>2. OnPresentPassword'
    BY AccountsAssumption DEF IndInv, TypeOK, OnPresentPassword, SetActive, users, factors
  <1>3. NamedIsPresent'
    BY AccountsAssumption DEF IndInv, TypeOK, NamedIsPresent, SetActive, users, factors
  <1>4. UnstampedIsInFlight'
    BY AccountsAssumption DEF IndInv, TypeOK, UnstampedIsInFlight, SetActive, users, factors
  <1>5. AddsKeys' /\ HonouredOnce' /\ PendingIsPresent' /\ PendingIsUnused' /\ LinksAreHeld' /\ OneCountPerKey'
    BY
      DEF IndInv, SetActive, users, factors, AddsKeys, HonouredOnce, PendingIsPresent,
          PendingIsUnused, LinksAreHeld, OneCountPerKey, IsLogin
  <1> QED BY <1>1, <1>2, <1>3, <1>4, <1>5 DEF IndInv

LEMMA SessionEndsInv ==
    ASSUME IndInv, SessionEnds
    PROVE  IndInv'
  <1>1. TypeOK'
    BY AccountsAssumption DEF IndInv, TypeOK, SessionEnds, Requests, Sessions, users, factors
  <1>2. OnPresentPassword'
    BY AccountsAssumption DEF IndInv, TypeOK, OnPresentPassword, SessionEnds, users, factors
  <1>3. NamedIsPresent'
    BY AccountsAssumption DEF IndInv, TypeOK, NamedIsPresent, SessionEnds, users, factors
  <1>4. UnstampedIsInFlight'
    BY AccountsAssumption DEF IndInv, TypeOK, UnstampedIsInFlight, SessionEnds, users, factors
  <1>5. AddsKeys' /\ HonouredOnce' /\ PendingIsPresent' /\ PendingIsUnused' /\ LinksAreHeld' /\ OneCountPerKey'
    BY
      DEF IndInv, SessionEnds, users, factors, AddsKeys, HonouredOnce, PendingIsPresent,
          PendingIsUnused, LinksAreHeld, OneCountPerKey, IsLogin
  <1> QED BY <1>1, <1>2, <1>3, <1>4, <1>5 DEF IndInv

-------------------------------------------------------------------------------
LEMMA RequestInv ==
    ASSUME IndInv, NEW r \in Reqs, Request(r)
    PROVE  IndInv'
  BY ReadingInv, LoginChallengeInv, LoginSessionInv, CountFailureInv, MfaCompleteInv,
     ChangePasswordInv, ResetPasswordInv, OidcCreateInv, OidcStampInv, OidcFinishInv, OidcFailsInv,
     PasskeyOptionsInv, AddPasskeyInv, RemovePasskeyInv, RenewCodesInv
  DEF Request

LEMMA StutterInv == IndInv /\ UNCHANGED vars => IndInv'
  <1> SUFFICES ASSUME IndInv, UNCHANGED vars PROVE IndInv'
    OBVIOUS
  <1>1. TypeOK' /\ AddsKeys' /\ OnPresentPassword' /\ HonouredOnce'
    BY DEF IndInv, vars, users, factors, TypeOK, AddsKeys, OnPresentPassword, HonouredOnce
  <1>2. PendingIsPresent' /\ NamedIsPresent' /\ PendingIsUnused' /\ LinksAreHeld'
    BY DEF IndInv, vars, users, factors, PendingIsPresent, NamedIsPresent, PendingIsUnused,
           LinksAreHeld, IsLogin
  <1>3. OneCountPerKey' /\ UnstampedIsInFlight'
    BY DEF IndInv, vars, users, factors, OneCountPerKey, UnstampedIsInFlight
  <1> QED BY <1>1, <1>2, <1>3 DEF IndInv

(* Whatever the requests interleave, the account's rows and what each        *)
(* request remembers of them stay in agreement.                              *)
THEOREM Invariance == Spec => []IndInv
  <1>1. IndInv /\ [Next]_vars => IndInv'
    BY RequestInv, StutterInv, LapseInv, ChallengeExpiresInv, MintTokenInv, TokenExpiresInv,
       AdminResetInv, SetActiveInv, SessionEndsInv DEF Next
  <1> QED BY InitInv, <1>1, PTL DEF Spec

(* No session and no challenge outlives the password it was verified with.   *)
THEOREM AlwaysOnPresentPassword == Spec => []OnPresentPassword
  <1>1. IndInv => OnPresentPassword
    BY DEF IndInv
  <1> QED BY <1>1, Invariance, PTL

(* A challenge, a recovery code and a link are honoured at most once.        *)
THEOREM AlwaysHonouredOnce == Spec => []HonouredOnce
  <1>1. IndInv => HonouredOnce
    BY DEF IndInv
  <1> QED BY <1>1, Invariance, PTL

(* A session that SSO began is served as an SSO session only.                *)
THEOREM SsoAlwaysStaysSso == Spec => []SsoStaysSso
  <1>1. IndInv => SsoStaysSso
    <2> SUFFICES ASSUME IndInv, NEW s \in sessions, s.by = "sso", Served(s), s.method # "oidc"
                 PROVE  FALSE
      BY DEF SsoStaysSso
    <2>1. s.method = "local"
      BY DEF IndInv, TypeOK, Sessions
    <2> QED BY <2>1 DEF IndInv, UnstampedIsInFlight, Served
  <1> QED BY <1>1, Invariance, PTL

(* Only time ends a lock.                                                    *)
THEOREM LockAlwaysLasts == Spec => LockLasts
  <1>1. IndInv /\ [Next]_vars => [locked /\ ~locked' => Lapse]_vars
    <2> SUFFICES ASSUME IndInv, Next, locked, ~locked' PROVE Lapse
      OBVIOUS
    <2>1. ASSUME NEW r \in Reqs, Request(r) PROVE FALSE
      <3>1. CASE \/ LoginRead(r) \/ LoginFactors(r) \/ MfaPasskey(r) \/ MfaCode(r) \/ MfaRefused(r)
                 \/ ChangeRead(r) \/ ResetLookup(r) \/ ResetConsume(r) \/ OidcLoad(r) \/ ManageRead(r)
        BY <3>1
          DEF LoginRead, LoginFactors, MfaPasskey, MfaCode, MfaRefused, ChangeRead, ResetLookup,
                    ResetConsume, OidcLoad, ManageRead, users
      <3>2. CASE LoginChallenge(r) \/ LoginSession(r) \/ CountFailure(r) \/ MfaComplete(r)
        BY <3>2, Zenon DEF LoginChallenge, LoginSession, CountFailure, MfaComplete, users
      <3>3. CASE ChangePassword(r) \/ ResetPassword(r) \/ OidcCreate(r) \/ OidcStamp(r) \/ OidcFinish(r)
                 \/ OidcFails(r)
        BY <3>3
          DEF ChangePassword, ResetPassword, OidcCreate, OidcStamp, OidcFinish, OidcFails, users
      <3>4. CASE PasskeyOptions(r) \/ AddPasskey(r) \/ RemovePasskey(r) \/ RenewCodes(r)
        BY <3>4 DEF PasskeyOptions, AddPasskey, RemovePasskey, RenewCodes, users
      <3> QED BY <2>1, <3>1, <3>2, <3>3, <3>4 DEF Request
    <2>2. CASE ChallengeExpires \/ MintToken \/ TokenExpires \/ AdminReset \/ SetActive \/ SessionEnds
      BY <2>2
        DEF ChallengeExpires, MintToken, TokenExpires, AdminReset, SetActive, SessionEnds, users
    <2> QED BY <2>1, <2>2 DEF Next
  <1> QED BY <1>1, Invariance, PTL DEF Spec, LockLasts

-------------------------------------------------------------------------------
\* Which steps can open a session on the password alone, and which lose a passkey.
LEMMA SessionsOpenedByPassword ==
    ASSUME IndInv, Next, passkeys' # {}, NEW s \in sessions', s.by = "password"
    PROVE  \E t \in sessions : t.by = "password"
  <1>1. ASSUME NEW r \in Reqs, Request(r) PROVE \E t \in sessions : t.by = "password"
    <2>1. CASE \/ LoginRead(r) \/ LoginFactors(r) \/ MfaPasskey(r) \/ MfaCode(r) \/ MfaRefused(r)
               \/ ChangeRead(r) \/ ResetLookup(r) \/ ResetConsume(r) \/ OidcLoad(r) \/ ManageRead(r)
      BY <2>1
        DEF LoginRead, LoginFactors, MfaPasskey, MfaCode, MfaRefused, ChangeRead, ResetLookup,
                  ResetConsume, OidcLoad, ManageRead
    <2>2. CASE LoginChallenge(r) \/ CountFailure(r) \/ OidcFinish(r) \/ OidcFails(r)
      BY <2>2 DEF LoginChallenge, CountFailure, OidcFinish, OidcFails
    <2>3. CASE LoginSession(r)
      BY <2>3 DEF LoginSession, factors
    <2>4. CASE MfaComplete(r)
      BY <2>4 DEF MfaComplete, Session
    <2>5. CASE ChangePassword(r)
      <3>1. CASE sessions' = sessions
        BY <3>1
      <3>2. CASE \E t \in sessions, n \in FreshSids :
                   sessions' = {Session(n, t.method, t.by, ver + 1)}
        <4>1. PICK t \in sessions, n \in FreshSids :
                   sessions' = {Session(n, t.method, t.by, ver + 1)}
          BY <3>2
        <4>2. Session(n, t.method, t.by, ver + 1).by = t.by
          BY DEF Session
        <4> QED BY <4>1, <4>2
      <3> QED BY <2>5, <3>1, <3>2 DEF ChangePassword
    <2>6. CASE ResetPassword(r)
      BY <2>6 DEF ResetPassword, factors
    <2>7. CASE OidcCreate(r)
      BY <2>7 DEF OidcCreate, Session
    <2>8. CASE OidcStamp(r)
      <3>1. \A t \in sessions : [t EXCEPT !.method = "oidc"].by = t.by
        BY DEF IndInv, TypeOK, Sessions
      <3> QED BY <2>8, <3>1 DEF OidcStamp
    <2>9. CASE PasskeyOptions(r) \/ AddPasskey(r) \/ RemovePasskey(r) \/ RenewCodes(r)
      BY <2>9 DEF PasskeyOptions, AddPasskey, RemovePasskey, RenewCodes
    <2> QED BY <1>1, <2>1, <2>2, <2>3, <2>4, <2>5, <2>6, <2>7, <2>8, <2>9 DEF Request
  <1>2. CASE Lapse \/ ChallengeExpires \/ MintToken \/ TokenExpires \/ AdminReset \/ SetActive
             \/ SessionEnds
    BY <1>2
      DEF Lapse, ChallengeExpires, MintToken, TokenExpires, AdminReset, SetActive, SessionEnds
  <1> QED BY <1>1, <1>2 DEF Next

(* With a passkey on the account, the password alone opens nothing new.      *)
THEOREM SecondFactorAlwaysStands == Spec => SecondFactorStands
  <1>1. IndInv /\ [Next]_vars =>
          [passkeys' # {} /\ (\E s \in sessions' : s.by = "password")
             => \E s \in sessions : s.by = "password"]_vars
    BY SessionsOpenedByPassword
  <1> QED BY <1>1, Invariance, PTL DEF Spec, SecondFactorStands

LEMMA EmergencyKeepsAPasskey ==
    ASSUME IndInv, Next, site.mode = "break_glass", passkeys # {}
    PROVE  passkeys' # {}
  <1>1. ASSUME NEW r \in Reqs, Request(r) PROVE passkeys' # {}
    <2>1. CASE \/ LoginRead(r) \/ LoginFactors(r) \/ MfaPasskey(r) \/ MfaCode(r) \/ MfaRefused(r)
               \/ ChangeRead(r) \/ ResetLookup(r) \/ ResetConsume(r) \/ OidcLoad(r) \/ ManageRead(r)
      BY <2>1
        DEF LoginRead, LoginFactors, MfaPasskey, MfaCode, MfaRefused, ChangeRead, ResetLookup,
                  ResetConsume, OidcLoad, ManageRead, factors
    <2>2. CASE LoginChallenge(r) \/ LoginSession(r) \/ CountFailure(r) \/ ChangePassword(r)
               \/ ResetPassword(r)
      BY <2>2
        DEF LoginChallenge, LoginSession, CountFailure, ChangePassword, ResetPassword, factors
    <2>3. CASE OidcCreate(r) \/ OidcStamp(r) \/ OidcFinish(r) \/ OidcFails(r) \/ PasskeyOptions(r)
               \/ RenewCodes(r)
      BY <2>3
        DEF OidcCreate, OidcStamp, OidcFinish, OidcFails, PasskeyOptions, RenewCodes, factors
    <2>4. CASE MfaComplete(r)
      BY <2>4 DEF MfaComplete, PasskeyWrite, CodeWrite
    <2>5. CASE AddPasskey(r)
      BY <2>5 DEF AddPasskey
    <2>6. CASE RemovePasskey(r)
      <3> SUFFICES ASSUME passkeys' = {} PROVE FALSE
        OBVIOUS
      <3>1. Cardinality(passkeys) # 1 /\ \A p \in passkeys : p.key = req[r].with
        BY <2>6 DEF RemovePasskey
      <3>2. PICK p \in passkeys : passkeys = {p}
        BY <3>1 DEF IndInv, OneCountPerKey
      <3> QED BY <3>1, <3>2, FS_Singleton
    <2> QED BY <1>1, <2>1, <2>2, <2>3, <2>4, <2>5, <2>6 DEF Request
  <1>2. CASE Lapse \/ ChallengeExpires \/ MintToken \/ TokenExpires \/ AdminReset \/ SetActive
             \/ SessionEnds
    BY <1>2
      DEF Lapse, ChallengeExpires, MintToken, TokenExpires, AdminReset, SetActive, SessionEnds,
                factors
  <1> QED BY <1>1, <1>2 DEF Next

(* Two removals at the same time never take the emergency account's last     *)
(* passkey.                                                                  *)
THEOREM PasskeyAlwaysRemains == Spec => PasskeyRemains
  <1>1. IndInv /\ [Next]_vars =>
          [site.mode = "break_glass" /\ passkeys # {} => passkeys' # {}]_vars
    BY EmergencyKeepsAPasskey
  <1> QED BY <1>1, Invariance, PTL DEF Spec, PasskeyRemains

(* A change of password replaces the one it verified.                        *)
THEOREM AlwaysReplacesWhatWasVerified == Spec => ReplacesWhatWasVerified
  <1>1. IndInv /\ [Next]_vars =>
          [\A r \in Reqs : req[r].at = "changing" /\ ver' # ver /\ req'[r] = Idle
             => req[r].ver = ver]_vars
    <2> SUFFICES ASSUME IndInv, Next, NEW k \in Reqs, req[k].at = "changing", ver' # ver,
                        req'[k] = Idle
                 PROVE  req[k].ver = ver
      OBVIOUS
    <2>1. PICK r \in Reqs : ChangePassword(r) \/ ResetPassword(r)
      <3>1. CASE \E r \in Reqs : Request(r)
        <4>1. PICK r \in Reqs : Request(r)
          BY <3>1
        <4>2. ver' = ver \/ ChangePassword(r) \/ ResetPassword(r)
          BY <4>1
            DEF Request, LoginRead, LoginFactors, LoginChallenge, LoginSession, CountFailure,
               MfaPasskey, MfaCode, MfaComplete, MfaRefused, ChangeRead, ResetLookup, ResetConsume,
               OidcLoad, OidcCreate, OidcStamp, OidcFinish, OidcFails, ManageRead, PasskeyOptions,
               AddPasskey, RemovePasskey, RenewCodes, users
        <4> QED BY <4>2
      <3>2. CASE Lapse \/ ChallengeExpires \/ MintToken \/ TokenExpires \/ AdminReset \/ SetActive
                 \/ SessionEnds
        <4>1. req' = req
          BY <3>2 DEF Lapse, ChallengeExpires, MintToken, TokenExpires, AdminReset, SetActive,
                      SessionEnds
        <4> QED BY <4>1 DEF Idle, Holds
      <3> QED BY <3>1, <3>2 DEF Next
    <2>2. /\ req'[r].at = "idle" /\ req[r].at \in {"changing", "consumed"}
          /\ \A q \in Reqs : q # r => req'[q] = req[q]
      BY <2>1, EndsIsIdle DEF IndInv, ChangePassword, ResetPassword
    <2>3. k = r
      BY <2>2 DEF Idle, Holds
    <2>4. \E s \in sessions : s.sid = req[k].sid
      BY <2>1, <2>3 DEF ChangePassword, ResetPassword
    <2> QED BY <2>4 DEF IndInv, NamedIsPresent
  <1> QED BY <1>1, Invariance, PTL DEF Spec, ReplacesWhatWasVerified

===============================================================================
