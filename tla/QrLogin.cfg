\* No symmetry: liveness. Two commands, two login attempts.
CONSTANTS
    Callers = {c1, c2}
    Scenes = {s1, s2}
    NoScene = NoScene
    PollsToo = TRUE
    StoreMayFail = TRUE
SPECIFICATION FairSpec
INVARIANTS
    PendingIsServed
    OutcomeIsKept
PROPERTIES
    KeepsOutcomes
    AwaitsReturn
