SPECIFICATION Spec
CONSTANTS
    u1 = u1  adm = adm  s1 = s1  s2 = s2  w1 = w1  w2 = w2  t1 = t1
    p1 = p1  p2 = p2  None = None
    Users = {u1, adm}
    Passwords = {w1, w2}
    Sids = {s1, s2}
    Tokens = {t1}
    Processes = {p1, p2}
    Password0 <- FirstPassword
    Admins0 = {adm}
    MaxFailed = 2
    MaxAttempts = 4
    MaxVersion = 2
SYMMETRY Symmetry
CONSTRAINTS
    Guessing
    Administering
    Sessions
    ChangedOnce
INVARIANTS
    GuessesBounded
    TokenSpentOnce
PROPERTIES
    DeadSessionsRefused
    LockIsKept
    AdminsRemain
CHECK_DEADLOCK FALSE
