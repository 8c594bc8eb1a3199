SPECIFICATION Spec
CONSTANTS
    Requests = {r1, r2}
    TotpSecrets = {s1, s2}
    Tokens = {t1, t2}
    None = None
    MaxLog = 5
SYMMETRY Interchangeable
INVARIANTS
    TypeOK
    NeverLockedOut
    LogAlternates
PROPERTIES
    OnlyItsCodeTurnsItOff
    LaterLoginsNeedCode
CHECK_DEADLOCK FALSE
