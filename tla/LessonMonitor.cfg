\* One problem with and one without options, everything may fail.
CONSTANTS
    Problems = {p1, p2}
    Choice = {p1}
    Blank = {p2}
    Keyed = {p1}
    Checkins = {k1}
    StreamCapacity = 2
    AutoAnswer = TRUE
    AutoCheckin = TRUE
    RandomGuess = TRUE
    HistoryMayFail = TRUE
SPECIFICATION FairSpec
INVARIANTS
    AnsweredOnce
    CheckedInOnce
PROPERTIES
    StopsWhenTold
    EndsWithLesson
    CatchesUp
    HeardCheckinTried
    KeepsContract
