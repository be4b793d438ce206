SPECIFICATION Spec
CONSTANTS
    Ids = {i1, i2}
    Names = {n1}
    Passwords = {w1, w2}
    Links = {t1, t2}
    None = None
    Callers = {c1, c2}
    Permits = 1
    MaxSessions = 1
SYMMETRY Symmetry
INVARIANTS
    KeysAreCurrent
    LinkIsSpentByItsReset
    HashingIsBounded
CHECK_DEADLOCK FALSE
