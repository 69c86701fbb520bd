CONSTANTS
    Emails = {e1, e2}
    Passwords = {p1, p2}
    Empty = empty
    Bad = bad
    Slots = {s1, s2}
SPECIFICATION Spec
SYMMETRY Symmetry
INVARIANTS
    TypeOK
    OnlyResendingMisleads
    LoginWithStoredPassword
CHECK_DEADLOCK FALSE
