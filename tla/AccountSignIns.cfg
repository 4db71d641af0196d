SPECIFICATION Spec
CONSTANTS
    Reqs = {r1, r2}
    Sids = {s1, s2}
    Chs = {h1}
    Keys = {k1, k2}
    Codes = {x1}
    Tokens = {t1}
    Modes = {"enabled", "break_glass"}
    Threshold = 2
    MaxCount = 1
    MaxWrites = 2
    None = None
SYMMETRY Slots
VIEW View
INVARIANT OnPresentPassword
INVARIANT HonouredOnce
INVARIANT SsoStaysSso
PROPERTY LockLasts
PROPERTY SecondFactorStands
PROPERTY PasskeyRemains
PROPERTY ReplacesWhatWasVerified
