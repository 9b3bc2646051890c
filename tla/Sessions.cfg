\* Two requests at once on one account: two sessions, two reset links, a clock of two ticks.
SPECIFICATION Spec
CONSTANTS
    u1 = u1  t1 = t1  t2 = t2  l1 = l1  l2 = l2  h1 = h1  h2 = h2  None = None
    Users = {u1}
    Tokens = {t1, t2}
    Links = {l1, l2}
    Handlers = {h1, h2}
    SessionTTL = 2
    MfaTTL = 1
    LinkTTL = 1
    LockTime = 1
    MaxAttempts = 2
    MaxTime = 2
INVARIANTS TypeOK LoggedOutStaysOut LinksAreOnce
SYMMETRY Symmetry
