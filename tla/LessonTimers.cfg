\* The times of the code scaled down, with the order between them kept.
CONSTANTS
    s1 = s1
    s2 = s2
    hello = hello
    quiz = quiz
    poll = poll
    Slides = {s1, s2}
    NoSlide = NoSlide
    Throttle = 3
    JitterMax = 1
    RequestMax = 1
    Contents = {hello}
    Threshold = 3
    Window = 2
    Cooldown = 2
    MaxDanmus = 5
    Problems = {quiz, poll}
    Guessed = {poll}
    Limit <- LimitOfProblems
    NoLimit = NoLimit
    DefaultLimit = 4
    ShortLimit = 3
    Margin = 1
    Mixes <- Lessons
    InboxCapacity = 2
SPECIFICATION Spec
INVARIANTS
    KeepsReporting
    RepliesOnEvidence
    SubmitsInTime
PROPERTY SkipsOnlyReported
