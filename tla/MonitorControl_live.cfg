\* No symmetry: liveness. Two commands at a time, the ones that meet in the engine.
CONSTANTS
    Callers = {c1, c2}
    Runs = {r1, r2}
    NoRun = NoRun
    Lessons = {l1}
    Capacity = 2
    Offered = {"RestoreSession", "StartMonitor", "StopMonitor"}
    LessonsMayEnd = FALSE
    SyncMayFail = FALSE
    StoreMayFail = FALSE
    EngineMayRefuse = FALSE
SPECIFICATION FairSpec
PROPERTIES
    KeepsContract
    CommandsReturn
    StopIsEffective
