SPECIFICATION Spec
CONSTANTS
    Tasks = {t1, t2}
    Passwords = {pw1}
    pw1 = pw1
    Items <- MCItems
    MergeFlags = {TRUE, FALSE}
    WritesFail = TRUE
    OTP_MAX_ATTEMPTS = 1
    MaxGen = 2
    MaxCookies = 2
    MaxCodes = 1
SYMMETRY Symmetry
CONSTRAINT StillOfInterest
INVARIANT RevocationHolds
INVARIANT GuessesAreBounded
INVARIANT CodesOpenOneSession
INVARIANT SavedEditsStay
CHECK_DEADLOCK FALSE
