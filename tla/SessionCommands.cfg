\* Two commands at once, two sessions of one user and one of another, any keyring.
CONSTANTS
    s1 = s1
    s2 = s2
    s3 = s3
    u1 = u1
    u2 = u2
    Callers = {c1, c2}
    Users = {u1, u2}
    Sessions <- SessionSet
    Owner <- OwnerOf
    NoSession = NoSession
    LoggedOut = LoggedOut
    Waiting = Waiting
    Failed = Failed
SPECIFICATION Spec
SYMMETRY Interchangeable
INVARIANTS
    OneUserEach
    AuthHasSession
PROPERTY LoadReturnsLastSaved
