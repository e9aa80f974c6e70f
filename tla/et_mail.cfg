\* One user, three tokens, two requests at a time.
CONSTANTS
    h1 = h1
    h2 = h2
    t1 = t1
    t2 = t2
    t3 = t3
    NoRow = NoRow
    u1 = u1
    Users = {u1}
    Tokens = {t1, t2, t3}
    Handlers = {h1, h2}
    Ways = {"verify", "forgot", "resend"}
    Faults = TRUE
SPECIFICATION Spec
SYMMETRY Symmetry
CHECK_DEADLOCK FALSE
INVARIANTS
    TypeOK
    RedeemedOnce
PROPERTIES
    NewestOnly
