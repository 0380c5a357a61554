\* Two requests at once send, resend and verify two codes of one number.
SPECIFICATION LoginSpec
CONSTANTS
    t1 = t1  t2 = t2  a1 = a1
    Threads = {t1, t2}
    Referrers = {a1}
    NoRef = NoRef
    MaxAttempts = 2
    MaxCodes = 2
SYMMETRY Symmetry
INVARIANTS LoginTypeOK GuessesBounded
PROPERTIES RowIsStable ReferrerKept
