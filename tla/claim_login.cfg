\* One browser, one form at a time, and no faults.
SPECIFICATION Spec
CONSTANTS
    b1 = b1
    b2 = b2
    r1 = r1
    r2 = r2
    u1 = u1
    u2 = u2
    t1 = t1
    Browsers = {b1}
    Credentials <- TypedCredentials
    Slots = {r1}
    Ids = {u1, u2}
    Tasks = {}
    NoUser = NoUser
    NoToken = NoToken
    NoTask = NoTask
    Lifetime = 1
    Faults = {}
SYMMETRY AccountSymmetry
INVARIANTS
    LoginWorks
