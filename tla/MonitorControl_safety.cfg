\* Two commands at a time, every failure, a channel that overflows.
CONSTANTS
    Callers = {c1, c2}
    Runs = {r1, r2}
    NoRun = NoRun
    Lessons = {l1}
    Capacity = 2
    Offered = {"LoginByQr", "PollLogin", "RestoreSession", "StartMonitor", "StopMonitor", "Logout"}
    LessonsMayEnd = TRUE
    SyncMayFail = TRUE
    StoreMayFail = TRUE
    EngineMayRefuse = TRUE
SPECIFICATION Spec
SYMMETRY Interchangeable
INVARIANTS
    NoStrayRun
    StopReturnsWhenOver
