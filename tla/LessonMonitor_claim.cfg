CONSTANTS
    Problems = {p1}
    Choice = {p1}
    Blank = {}
    Keyed = {p1}
    Checkins = {k1}
    StreamCapacity = 1
    AutoAnswer = TRUE
    AutoCheckin = TRUE
    RandomGuess = FALSE
    HistoryMayFail = FALSE
SPECIFICATION Spec
INVARIANT ClaimedIsAnswered
