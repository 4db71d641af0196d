------------------------------- MODULE Accounts -------------------------------
(***************************************************************************)
(* The sign-in paths of one account: password login and its lockout, the   *)
(* second factor, the changes of password, the reset links, company SSO,   *)
(* passkey and recovery-code management, and the administrator's writes.   *)
(*                                                                         *)
(* A request reads without locks, works (argon2, WebAuthn, the network)    *)
(* and then writes in one transaction that locks the users row.  Each read *)
(* and each transaction is a step; requests interleave between them.       *)
(*                                                                         *)
(* A password hash is the number of password writes before it: two hashes  *)
(* are equal exactly when no write lies between them.  Session tokens,     *)
(* challenges and links are drawn at random, so a slot is given out again  *)
(* only when nothing names it any more.                                    *)
(***************************************************************************)
EXTENDS Naturals, FiniteSets

CONSTANTS
    Reqs,       \* requests the server works on at one time
    Sids,       \* session tokens
    Chs,        \* MFA challenges
    Keys,       \* passkeys
    Codes,      \* recovery codes
    Tokens,     \* reset and invitation links
    Modes,      \* values LOCAL_LOGIN_MODE is given
    Threshold,  \* LOGIN_LOCKOUT_THRESHOLD
    MaxCount,   \* bound: signature counters
    MaxWrites,  \* bound: password writes
    None        \* no slot

ASSUME AccountsAssumption ==
    /\ Modes \subseteq {"enabled", "break_glass", "disabled"}
    /\ Threshold \in Nat \ {0} /\ MaxCount \in Nat /\ MaxWrites \in Nat
    /\ None \notin Sids \cup Chs \cup Keys \cup Codes \cup Tokens
    /\ Chs \cap Codes = {} /\ Chs \cap Tokens = {} /\ Codes \cap Tokens = {}
    /\ Keys \cap Codes = {}

VARIABLES
    site,      \* the account's role is super_user, and LOCAL_LOGIN_MODE
    ver,       \* users.password_hash
    mustReset, \* users.must_reset_password
    active,    \* users.is_active
    failed,    \* users.failed_login_count
    locked,    \* users.locked_until lies in the future
    sessions,  \* rows of sessions, how each began and on which password
    logins,    \* pending login challenges, and the password that started each
    regs,      \* pending register challenges
    passkeys,  \* rows of user_passkeys with their sign_count
    codes,     \* unused rows of user_recovery_codes
    tokens,    \* unused unexpired rows of password_reset_tokens
    used,      \* how often a challenge, a code or a link was honoured
    req        \* the requests

users == <<ver, mustReset, active, failed, locked>>
factors == <<passkeys, codes>>
vars == <<site, users, sessions, logins, regs, factors, tokens, used, req>>

Holds(at, v, s, c, w) ==
    [at |-> at, ver |-> v, sid |-> s, ch |-> c, with |-> w, count |-> 0]
Idle == Holds("idle", 0, None, None, None)

Requests ==
    [at : {"idle", "verified", "challenging", "opening", "counting", "completing",
           "changing", "resetting", "consumed", "options", "adding", "removing",
           "renewing", "loaded", "created", "stamped"},
     ver : 0..MaxWrites, sid : Sids \cup {None}, ch : Chs \cup {None},
     with : Keys \cup Codes \cup Tokens \cup {None}, count : 0..MaxCount]

Sessions == [sid : Sids, method : {"local", "oidc"}, by : {"password", "factor", "sso"},
             ver : 0..MaxWrites]
Sites == [super : BOOLEAN, mode : Modes]

TypeOK ==
    /\ site \in Sites
    /\ ver \in 0..MaxWrites
    /\ mustReset \in BOOLEAN /\ active \in BOOLEAN /\ locked \in BOOLEAN
    /\ failed \in 0..(Threshold - 1)
    /\ sessions \in SUBSET Sessions
    /\ logins \in SUBSET [ch : Chs, ver : 0..MaxWrites]
    /\ regs \in SUBSET Chs
    /\ passkeys \in SUBSET [key : Keys, count : 0..MaxCount]
    /\ codes \in SUBSET Codes
    /\ tokens \in SUBSET Tokens
    /\ used \in [Chs \cup Codes \cup Tokens -> Nat]
    /\ req \in [Reqs -> Requests]

\* Only a super_user enrols passkeys; nobody is signed in.
Init ==
    /\ site \in Sites
    /\ ver = 0 /\ mustReset = FALSE /\ active = TRUE /\ failed = 0 /\ locked = FALSE
    /\ sessions = {} /\ logins = {} /\ regs = {} /\ tokens = {}
    /\ passkeys \in {{}} \cup {{[key |-> k, count |-> 0]} : k \in IF site.super THEN Keys ELSE {}}
    /\ codes = {}
    /\ used = [x \in Chs \cup Codes \cup Tokens |-> 0]
    /\ req = [r \in Reqs |-> Idle]

-------------------------------------------------------------------------------
(* The policies and the helpers of the transactions.                       *)

LocalLoginAllowed == site.mode = "enabled" \/ (site.mode = "break_glass" /\ site.super)

\* The emergency account, which may not sign in without a passkey.
NeedsPasskey == site.mode = "break_glass" /\ site.super

KeysHeld == {p.key : p \in passkeys}
Named == {req[r].sid : r \in Reqs} \cup {req[r].ch : r \in Reqs} \cup {req[r].with : r \in Reqs}
FreshSids == Sids \ ({s.sid : s \in sessions} \cup Named)
FreshChs == Chs \ ({l.ch : l \in logins} \cup regs \cup Named)

\* What findSessionByToken gives a request that carries this session's cookie;
\* the cookie of an SSO sign-in goes out when its callback ends.
Served(s) ==
    /\ active
    /\ s.method = "oidc" \/ LocalLoginAllowed
    /\ ~ \E r \in Reqs : req[r].at \in {"created", "stamped"} /\ req[r].sid = s.sid

Becomes(r, q) == req' = [req EXCEPT ![r] = q]
Ends(r) == Becomes(r, Idle)
Session(sid, method, by, v) == [sid |-> sid, method |-> method, by |-> by, ver |-> v]
Honoured(x) == used' = [used EXCEPT ![x] = @ + 1]
IsLogin(c) == \E l \in logins : l.ch = c
Issued(X) == used' = [x \in DOMAIN used |-> IF x \in X THEN 0 ELSE used[x]]

\* recordAuthSuccess, in the transaction that opened the session.
ClearFailures == failed' = 0 /\ locked' = FALSE

\* Mutant: a password write leaves the pending challenges.
KeepsChallenges(v, must) ==
    /\ ver' = v /\ mustReset' = must
    /\ UNCHANGED <<logins, regs>>

\* A new hash, and invalidateMfaChallenges in the same transaction.
WritesPassword(v, must) ==
    /\ ver' = v /\ mustReset' = must
    /\ logins' = {} /\ regs' = {}

-------------------------------------------------------------------------------
(* POST /auth/login                                                        *)

LoginRead(r) ==
    /\ req[r].at = "idle"
    /\ active /\ LocalLoginAllowed /\ ~locked
    /\ \/ Becomes(r, Holds("verified", ver, None, None, None))
       \/ Becomes(r, Holds("counting", 0, None, None, None))
    /\ UNCHANGED <<site, users, sessions, logins, regs, factors, tokens, used>>

\* listPasskeys, before any lock.
LoginFactors(r) ==
    /\ req[r].at = "verified"
    /\ IF passkeys # {}
       THEN Becomes(r, [req[r] EXCEPT !.at = "challenging"])
       ELSE IF NeedsPasskey THEN Ends(r) ELSE Becomes(r, [req[r] EXCEPT !.at = "opening"])
    /\ UNCHANGED <<site, users, sessions, logins, regs, factors, tokens, used>>

LoginChallenge(r) ==
    /\ req[r].at = "challenging"
    /\ \/ /\ req[r].ver = ver
          /\ \E c \in FreshChs :
                /\ logins' = logins \cup {[ch |-> c, ver |-> req[r].ver]}
                /\ Issued({c})
       \/ req[r].ver # ver /\ UNCHANGED <<logins, used>>
    /\ Ends(r)
    /\ UNCHANGED <<site, users, sessions, regs, factors, tokens>>

\* Mutant: the passkeys are not listed again under the row lock.
OpensOnOldList(r) ==
    /\ req[r].at = "opening"
    /\ req[r].ver = ver /\ active /\ ~locked
    /\ \E s \in FreshSids : sessions' = sessions \cup {Session(s, "local", "password", req[r].ver)}
    /\ ClearFailures
    /\ Ends(r)
    /\ UNCHANGED <<site, ver, mustReset, active, logins, regs, factors, tokens, used>>

\* Mutant: the lock read before the password was verified is trusted.
OpensThroughLock(r) ==
    /\ req[r].at = "opening"
    /\ req[r].ver = ver /\ active /\ passkeys = {}
    /\ \E s \in FreshSids : sessions' = sessions \cup {Session(s, "local", "password", req[r].ver)}
    /\ ClearFailures
    /\ Ends(r)
    /\ UNCHANGED <<site, ver, mustReset, active, logins, regs, factors, tokens, used>>

\* The transaction of a password-only login: all it read is read again.
LoginSession(r) ==
    /\ req[r].at = "opening"
    /\ \/ /\ req[r].ver = ver /\ active /\ ~locked /\ passkeys = {}
          /\ \E s \in FreshSids :
                sessions' = sessions \cup {Session(s, "local", "password", req[r].ver)}
          /\ ClearFailures
       \/ /\ req[r].ver # ver \/ ~active \/ locked \/ passkeys # {}
          /\ UNCHANGED <<sessions, failed, locked>>
    /\ Ends(r)
    /\ UNCHANGED <<site, ver, mustReset, active, logins, regs, factors, tokens, used>>

\* recordAuthFailure: one UPDATE, which skips an account whose lock is in force.
CountFailure(r) ==
    /\ req[r].at = "counting"
    /\ \/ /\ ~locked
          /\ locked' = (failed + 1 >= Threshold)
          /\ failed' = IF failed + 1 >= Threshold THEN 0 ELSE failed + 1
       \/ locked /\ UNCHANGED <<locked, failed>>
    /\ Ends(r)
    /\ UNCHANGED <<site, ver, mustReset, active, sessions, logins, regs, factors, tokens, used>>

\* LOGIN_LOCKOUT_MINUTES pass.
Lapse ==
    /\ locked
    /\ locked' = FALSE
    /\ UNCHANGED <<site, ver, mustReset, active, failed, sessions, logins, regs, factors, tokens,
                   used, req>>

-------------------------------------------------------------------------------
(* The second factor: POST /auth/mfa/passkey and /auth/mfa/recovery-code   *)

\* WebAuthn's rule for a new signature counter over a stored one.
Accepted(count, stored) == count > stored \/ (count = 0 /\ stored = 0)

MfaPasskey(r) ==
    /\ req[r].at = "idle"
    /\ active /\ LocalLoginAllowed /\ ~locked
    /\ \E l \in logins :
          \/ Becomes(r, Holds("counting", 0, None, None, None))
          \/ \E p \in passkeys, n \in 0..MaxCount :
                /\ Accepted(n, p.count)
                /\ Becomes(r, [at |-> "completing", ver |-> l.ver, sid |-> None, ch |-> l.ch,
                               with |-> p.key, count |-> n])
    /\ UNCHANGED <<site, users, sessions, logins, regs, factors, tokens, used>>

MfaCode(r) ==
    /\ req[r].at = "idle"
    /\ active /\ LocalLoginAllowed /\ ~locked
    /\ \E l \in logins, x \in Codes :
          Becomes(r, Holds("completing", l.ver, None, l.ch, x))
    /\ UNCHANGED <<site, users, sessions, logins, regs, factors, tokens, used>>

PasskeyWrite(q) ==
    \E p \in passkeys :
       /\ p.key = q.with /\ Accepted(q.count, p.count)
       /\ passkeys' = (passkeys \ {p}) \cup {[p EXCEPT !.count = q.count]}
       /\ used' = [used EXCEPT ![q.ch] = @ + 1]
       /\ UNCHANGED codes

CodeWrite(q) ==
    /\ q.with \in codes
    /\ codes' = codes \ {q.with}
    /\ used' = [used EXCEPT ![q.ch] = @ + 1, ![q.with] = @ + 1]
    /\ UNCHANGED passkeys

FactorHolds(q) ==
    \/ q.with \in codes
    \/ \E p \in passkeys : p.key = q.with /\ Accepted(q.count, p.count)

\* Mutant: the challenge found before the assertion was checked still counts.
CompletesTwice(r) ==
    /\ req[r].at = "completing"
    /\ active /\ ~locked
    /\ logins' = {l \in logins : l.ch # req[r].ch}
    /\ PasskeyWrite(req[r]) \/ CodeWrite(req[r])
    /\ \E s \in FreshSids : sessions' = sessions \cup {Session(s, "local", "factor", req[r].ver)}
    /\ ClearFailures
    /\ Ends(r)
    /\ UNCHANGED <<site, ver, mustReset, active, regs, tokens>>

\* completeMfaLogin: the challenge, the factor, the session and the lockout
\* reset commit together.
MfaComplete(r) ==
    /\ req[r].at = "completing"
    /\ active /\ ~locked /\ IsLogin(req[r].ch)
    /\ logins' = {l \in logins : l.ch # req[r].ch}
    /\ PasskeyWrite(req[r]) \/ CodeWrite(req[r])
    /\ \E s \in FreshSids : sessions' = sessions \cup {Session(s, "local", "factor", req[r].ver)}
    /\ ClearFailures
    /\ Ends(r)
    /\ UNCHANGED <<site, ver, mustReset, active, regs, tokens>>

\* Nothing is written; a rejected factor, and nothing else, counts as a failure.
MfaRefused(r) ==
    /\ req[r].at = "completing"
    /\ IF active /\ ~locked /\ IsLogin(req[r].ch)
       THEN ~FactorHolds(req[r]) /\ Becomes(r, Holds("counting", 0, None, None, None))
       ELSE Ends(r)
    /\ UNCHANGED <<site, users, sessions, logins, regs, factors, tokens, used>>

ChallengeExpires ==
    /\ \/ \E l \in logins : logins' = logins \ {l} /\ UNCHANGED regs
       \/ \E c \in regs : regs' = regs \ {c} /\ UNCHANGED logins
    /\ UNCHANGED <<site, users, sessions, factors, tokens, used, req>>

-------------------------------------------------------------------------------
(* Password changes: the user's own, a link's, and the administrator's.    *)

\* The cookie's session, then the hash the current password is verified against.
ChangeRead(r) ==
    /\ req[r].at = "idle"
    /\ \E s \in sessions :
          /\ Served(s)
          /\ Becomes(r, Holds("changing", ver, s.sid, None, None))
    /\ UNCHANGED <<site, users, sessions, logins, regs, factors, tokens, used>>

\* Mutant: the replacement is an ordinary local session.
ChangesToLocal(r) ==
    /\ req[r].at = "changing"
    /\ \/ \E s \in sessions :
             /\ s.sid = req[r].sid
             /\ ver < MaxWrites
             /\ WritesPassword(ver + 1, FALSE)
             /\ \E n \in FreshSids : sessions' = {Session(n, "local", s.by, ver + 1)}
       \/ /\ \A s \in sessions : s.sid # req[r].sid
          /\ UNCHANGED <<ver, mustReset, sessions, logins, regs>>
    /\ Ends(r)
    /\ UNCHANGED <<site, active, failed, locked, factors, tokens, used>>

\* The session is read again, under the lock; the hash is not.
ChangePassword(r) ==
    /\ req[r].at = "changing"
    /\ \/ \E s \in sessions :
             /\ s.sid = req[r].sid
             /\ ver < MaxWrites
             /\ WritesPassword(ver + 1, FALSE)
             /\ \E n \in FreshSids : sessions' = {Session(n, s.method, s.by, ver + 1)}
       \/ /\ \A s \in sessions : s.sid # req[r].sid
          /\ UNCHANGED <<ver, mustReset, sessions, logins, regs>>
    /\ Ends(r)
    /\ UNCHANGED <<site, active, failed, locked, factors, tokens, used>>

\* createResetToken: forgot-password, or an invitation.
MintToken ==
    /\ LocalLoginAllowed /\ active
    /\ \E t \in Tokens \ (tokens \cup Named) : tokens' = tokens \cup {t} /\ Issued({t})
    /\ UNCHANGED <<site, users, sessions, logins, regs, factors, req>>

TokenExpires ==
    /\ \E t \in tokens : tokens' = tokens \ {t}
    /\ ~ \E r \in Reqs : req[r].at = "consumed" /\ req[r].with \notin tokens'
    /\ UNCHANGED <<site, users, sessions, logins, regs, factors, used, req>>

\* lookupResetTokenUserId, and the new password's hash.
ResetLookup(r) ==
    /\ req[r].at = "idle"
    /\ \E t \in tokens : Becomes(r, Holds("resetting", 0, None, None, t))
    /\ UNCHANGED <<site, users, sessions, logins, regs, factors, tokens, used>>

\* The transaction takes the link's row, which others wait for, and reads the
\* user without a lock; an inactive user or a refused mode rolls it back.
ResetConsume(r) ==
    /\ req[r].at = "resetting"
    /\ \A q \in Reqs : req[q].at = "consumed" => req[q].with # req[r].with
    /\ IF req[r].with \in tokens /\ active /\ LocalLoginAllowed
       THEN Becomes(r, [req[r] EXCEPT !.at = "consumed"])
       ELSE Ends(r)
    /\ UNCHANGED <<site, users, sessions, logins, regs, factors, tokens, used>>

\* A session only where /login would open one on the password alone.
ResetPassword(r) ==
    /\ req[r].at = "consumed"
    /\ ver < MaxWrites
    /\ tokens' = tokens \ {req[r].with}
    /\ Honoured(req[r].with)
    /\ WritesPassword(ver + 1, FALSE)
    /\ IF passkeys # {} \/ NeedsPasskey
       THEN sessions' = {}
       ELSE \E n \in FreshSids : sessions' = {Session(n, "local", "password", ver + 1)}
    /\ Ends(r)
    /\ UNCHANGED <<site, active, failed, locked, factors>>

\* Mutant: the temporary password leaves the user's sessions.
ResetsAlone ==
    /\ LocalLoginAllowed
    /\ ver < MaxWrites
    /\ WritesPassword(ver + 1, TRUE)
    /\ UNCHANGED <<site, active, failed, locked, sessions, factors, tokens, used, req>>

AdminReset ==
    /\ LocalLoginAllowed
    /\ ver < MaxWrites
    /\ WritesPassword(ver + 1, TRUE)
    /\ sessions' = {}
    /\ UNCHANGED <<site, active, failed, locked, factors, tokens, used, req>>

\* PATCH isActive: the sessions go with the flag, the pending challenges stay.
SetActive ==
    /\ active' \in BOOLEAN
    /\ sessions' = IF active' THEN sessions ELSE {}
    /\ UNCHANGED <<site, ver, mustReset, failed, locked, logins, regs, factors, tokens, used, req>>

\* Logout, the idle limit, or expiry.
SessionEnds ==
    /\ \E s \in sessions : sessions' = sessions \ {s}
    /\ UNCHANGED <<site, users, logins, regs, factors, tokens, used, req>>

-------------------------------------------------------------------------------
(* Company SSO: GET /auth/oidc/callback of an account bound to its identity *)

OidcLoad(r) ==
    /\ req[r].at = "idle"
    /\ active /\ ~site.super
    /\ Becomes(r, Holds("loaded", 0, None, None, None))
    /\ UNCHANGED <<site, users, sessions, logins, regs, factors, tokens, used>>

\* createSession writes a local session, which the next statement restamps.
OidcCreate(r) ==
    /\ req[r].at = "loaded"
    /\ \E n \in FreshSids :
          /\ sessions' = sessions \cup {Session(n, "local", "sso", ver)}
          /\ Becomes(r, [req[r] EXCEPT !.at = "created", !.sid = n])
    /\ UNCHANGED <<site, users, logins, regs, factors, tokens, used>>

OidcStamp(r) ==
    /\ req[r].at = "created"
    /\ sessions' = {IF s.sid = req[r].sid THEN [s EXCEPT !.method = "oidc"] ELSE s : s \in sessions}
    /\ Becomes(r, [req[r] EXCEPT !.at = "stamped"])
    /\ UNCHANGED <<site, users, logins, regs, factors, tokens, used>>

\* The user's row, the audit event, and then the cookie.
OidcFinish(r) ==
    /\ req[r].at = "stamped"
    /\ mustReset' = FALSE
    /\ Ends(r)
    /\ UNCHANGED <<site, ver, active, failed, locked, sessions, logins, regs, factors, tokens, used>>

\* A statement fails: the row is deleted and no cookie is set.
OidcFails(r) ==
    /\ req[r].at \in {"loaded", "created", "stamped"}
    /\ sessions' = {s \in sessions : s.sid # req[r].sid}
    /\ Ends(r)
    /\ UNCHANGED <<site, users, logins, regs, factors, tokens, used>>

-------------------------------------------------------------------------------
(* Passkeys and recovery codes: the signed-in super_user's own account     *)

\* requireCurrentPassword; a wrong password counts, a locked account is refused.
\* The registration is the newest pending one's in the code, any one's here.
ManageRead(r) ==
    /\ req[r].at = "idle"
    /\ \E s \in sessions : Served(s)
    /\ site.super /\ ~mustReset /\ ~locked
    /\ \/ \E at \in {"counting", "options"} : Becomes(r, Holds(at, 0, None, None, None))
       \/ Becomes(r, Holds("renewing", ver, None, None, None))
       \/ \E k \in Keys, c \in regs :
             Becomes(r, Holds("adding", ver, None, c, k))
       \/ \E k \in Keys : Becomes(r, Holds("removing", ver, None, None, k))
    /\ UNCHANGED <<site, users, sessions, logins, regs, factors, tokens, used>>

\* createRegisterChallenge, a plain insert.
PasskeyOptions(r) ==
    /\ req[r].at = "options"
    /\ \E c \in FreshChs : regs' = regs \cup {c} /\ Issued({c})
    /\ Ends(r)
    /\ UNCHANGED <<site, users, sessions, logins, factors, tokens>>

\* lockVerifiedAccount gives no refusal.
Verified(r) == active /\ req[r].ver = ver /\ ~locked

\* A credential that is registered already spends the challenge and adds nothing.
AddPasskey(r) ==
    /\ req[r].at = "adding"
    /\ \/ /\ Verified(r) /\ req[r].ch \in regs
          /\ regs' = regs \ {req[r].ch}
          /\ Honoured(req[r].ch)
          /\ passkeys' = IF req[r].with \in KeysHeld THEN passkeys
                         ELSE passkeys \cup {[key |-> req[r].with, count |-> 0]}
       \/ /\ ~Verified(r) \/ req[r].ch \notin regs
          /\ UNCHANGED <<regs, used, passkeys>>
    /\ Ends(r)
    /\ UNCHANGED <<site, users, sessions, logins, codes, tokens>>

\* Mutant: whatever is left, the passkey goes.
RemovesLast(r) ==
    /\ req[r].at = "removing"
    /\ passkeys' = IF Verified(r) THEN {p \in passkeys : p.key # req[r].with} ELSE passkeys
    /\ Ends(r)
    /\ UNCHANGED <<site, users, sessions, logins, regs, codes, tokens, used>>

\* The rows are counted under their locks: the emergency account keeps one.
RemovePasskey(r) ==
    /\ req[r].at = "removing"
    /\ passkeys' = IF Verified(r) /\ ~(site.mode = "break_glass" /\ Cardinality(passkeys) = 1)
                   THEN {p \in passkeys : p.key # req[r].with}
                   ELSE passkeys
    /\ Ends(r)
    /\ UNCHANGED <<site, users, sessions, logins, regs, codes, tokens, used>>

\* replaceRecoveryCodes: every old row goes, new ones come.
RenewCodes(r) ==
    /\ req[r].at = "renewing"
    /\ IF Verified(r)
       THEN \E x \in Codes \ (codes \cup Named) : codes' = {x} /\ Issued({x})
       ELSE UNCHANGED <<codes, used>>
    /\ Ends(r)
    /\ UNCHANGED <<site, users, sessions, logins, regs, passkeys, tokens>>

-------------------------------------------------------------------------------
Request(r) ==
    \/ LoginRead(r) \/ LoginFactors(r) \/ LoginChallenge(r) \/ LoginSession(r) \/ CountFailure(r)
    \/ MfaPasskey(r) \/ MfaCode(r) \/ MfaComplete(r) \/ MfaRefused(r)
    \/ ChangeRead(r) \/ ChangePassword(r)
    \/ ResetLookup(r) \/ ResetConsume(r) \/ ResetPassword(r)
    \/ OidcLoad(r) \/ OidcCreate(r) \/ OidcStamp(r) \/ OidcFinish(r) \/ OidcFails(r)
    \/ ManageRead(r) \/ PasskeyOptions(r) \/ AddPasskey(r) \/ RemovePasskey(r) \/ RenewCodes(r)

Next ==
    \/ \E r \in Reqs : Request(r)
    \/ Lapse \/ ChallengeExpires \/ MintToken \/ TokenExpires
    \/ AdminReset \/ SetActive \/ SessionEnds

Spec == Init /\ [][Next]_vars

-------------------------------------------------------------------------------
(* Every session rests on the present password: whatever was verified      *)
(* before a password write, at whichever step, opens nothing after it.     *)
OnPresentPassword ==
    /\ \A s \in sessions : s.ver = ver
    /\ \A l \in logins : l.ver = ver

(* A challenge, a recovery code and a reset link are each honoured at most *)
(* once, whichever requests present them at the same time.                 *)
HonouredOnce == \A x \in DOMAIN used : used[x] <= 1

(* A lock that was set ends when its time has passed: no sign-in that      *)
(* began before it clears it.                                              *)
LockLasts == [][locked /\ ~locked' => Lapse]_vars

(* Once the account holds a passkey, its password alone opens no session:  *)
(* such a session can only follow one that was there before the passkey.   *)
SecondFactorStands ==
    [][passkeys' # {} /\ (\E s \in sessions' : s.by = "password")
         => \E s \in sessions : s.by = "password"]_vars

(* The emergency account never loses its last passkey, however many        *)
(* removals run at the same time.                                          *)
PasskeyRemains == [][site.mode = "break_glass" /\ passkeys # {} => passkeys' # {}]_vars

(* A user's own change replaces the password they proved to know, though   *)
(* the transaction does not read the hash again.                           *)
ReplacesWhatWasVerified ==
    [][\A r \in Reqs : req[r].at = "changing" /\ ver' # ver /\ req'[r] = Idle
          => req[r].ver = ver]_vars

(* An SSO sign-in, and each session that replaces it, is held as an SSO    *)
(* session by its client: its limits are those of SSO.                     *)
SsoStaysSso == \A s \in sessions : s.by = "sso" /\ Served(s) => s.method = "oidc"

-------------------------------------------------------------------------------
(* What the requests in flight may still rely on.                          *)

\* A named challenge that is still pending was started on the present hash.
PendingIsPresent ==
    \A r \in Reqs : req[r].at = "completing" /\ IsLogin(req[r].ch) => req[r].ver = ver

\* A session that a change of password named and that is still there has seen
\* no other password write, and belongs to no callback that has not ended.
NamedIsPresent ==
    \A r \in Reqs : req[r].at = "changing" /\ (\E s \in sessions : s.sid = req[r].sid) =>
        /\ req[r].ver = ver
        /\ \A q \in Reqs : req[q].at = "created" => req[q].sid # req[r].sid

\* What can still be honoured has not been.
PendingIsUnused ==
    /\ \A l \in logins : used[l.ch] = 0 /\ l.ch \notin regs
    /\ \A x \in regs \cup codes \cup tokens : used[x] = 0

\* Each consumer holds a link of its own, which is still there.
LinksAreHeld ==
    \A r \in Reqs : req[r].at = "consumed" =>
        /\ req[r].with \in tokens
        /\ \A q \in Reqs : req[q].at = "consumed" /\ req[q].with = req[r].with => q = r

OneCountPerKey == \A p, q \in passkeys : p.key = q.key => p = q

UnstampedIsInFlight ==
    \A s \in sessions : s.by = "sso" /\ s.method = "local" =>
        \E r \in Reqs : req[r].at = "created" /\ req[r].sid = s.sid

\* A registration in flight adds a passkey.
AddsKeys == \A r \in Reqs : req[r].at = "adding" => req[r].with \in Keys

IndInv ==
    /\ TypeOK /\ AddsKeys /\ OnPresentPassword /\ HonouredOnce
    /\ PendingIsPresent /\ NamedIsPresent /\ PendingIsUnused /\ LinksAreHeld
    /\ OneCountPerKey /\ UnstampedIsInFlight

===============================================================================
