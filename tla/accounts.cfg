\* Two browsers, two forms at a time, three credentials, one task, tokens that
\* live for one tick, and every fault.
SPECIFICATION Spec
CONSTANTS
    b1 = b1
    b2 = b2
    r1 = r1
    r2 = r2
    u1 = u1
    u2 = u2
    t1 = t1
    Browsers = {b1, b2}
    Credentials <- TypedCredentials
    Slots = {r1, r2}
    Ids = {u1, u2}
    Tasks = {t1}
    NoUser = NoUser
    NoToken = NoToken
    NoTask = NoTask
    Lifetime = 1
    Faults = {"db", "lost"}
SYMMETRY AccountSymmetry
INVARIANTS
    TypeOK
PROPERTIES
    ImplementsRegistry
    DeniedForCause
