--------------------------- MODULE MC_LessonTimers ---------------------------
(* LessonTimers with lessons that send two kinds of messages each.          *)
EXTENDS LessonTimers, TLC

CONSTANTS s1, s2, hello, quiz, poll

Slide(s) == [type |-> "slide", of |-> s]
Danmu(c) == [type |-> "danmu", of |-> c]
Problem(p) == [type |-> "problem", of |-> p]

Lessons ==
    {{Slide(s1), Slide(s2)},
     {Slide(s1), Danmu(hello)},
     {Slide(s1), Problem(quiz)},
     {Problem(quiz), Problem(poll)}}

LimitOfProblems == (quiz :> 4) @@ (poll :> 2)
=============================================================================
