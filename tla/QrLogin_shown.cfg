CONSTANTS
    Callers = {c1, c2}
    Scenes = {s1, s2}
    NoScene = NoScene
    PollsToo = FALSE
    StoreMayFail = FALSE
SPECIFICATION Spec
PROPERTIES
    LoginIsForShownScene
