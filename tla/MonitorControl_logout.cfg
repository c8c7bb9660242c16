\* One command at a time: no race is needed. Two lessons: one ends, one goes on.
CONSTANTS
    Callers = {c1}
    Runs = {r1, r2}
    NoRun = NoRun
    Lessons = {l1, l2}
    Capacity = 2
    Offered = {"LoginByQr", "PollLogin", "RestoreSession", "StartMonitor", "StopMonitor", "Logout"}
    LessonsMayEnd = TRUE
    SyncMayFail = FALSE
    StoreMayFail = FALSE
    EngineMayRefuse = FALSE
SPECIFICATION Spec
INVARIANT StopsBackgroundTask
