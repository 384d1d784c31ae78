SPECIFICATION Spec
CONSTANTS
    Tasks = {t1, t2}
    Passwords = {pw1, pw2}
    pw1 = pw1
    Items <- MCItems
    MergeFlags = {TRUE}
    WritesFail = FALSE
    OTP_MAX_ATTEMPTS = 2
    MaxGen = 2
    MaxCookies = 2
    MaxCodes = 1
INVARIANT RevokedStaysRevoked
CHECK_DEADLOCK FALSE
