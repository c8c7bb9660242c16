----------------------------- MODULE LessonContract -----------------------------
(***************************************************************************)
(* What a lesson task promises to the run that has spawned it and to the   *)
(* classroom: it ends for a cause only, because its run is told to stop or *)
(* the lesson is over, and does not come back; it takes charge of a        *)
(* problem once and asks for a check-in once, while it is at work; and an  *)
(* answer it has left waiting is submitted once at most, perhaps after the *)
(* task's end.                                                             *)
(*                                                                         *)
(* Three modules have a lesson task, each from its own side, and each is   *)
(* shown to implement this one: MonitorEngine sees it from its run,        *)
(* LessonMonitor has what it does on the stream, LessonTimers what it does *)
(* by the clock.                                                           *)
(***************************************************************************)
EXTENDS Naturals

CONSTANTS Problems, Checkins

VARIABLES
    work,           \* "waiting" to be spawned, "working" or "ended"
    told,           \* the run has been told to stop
    over,           \* the lesson may be over
    taken,          \* problems taken charge of
    waiting,        \* waiting[p]: answers to p on their way
    sent,           \* sent[p]: answers to p submitted
    requested       \* requested[k]: requests made for check-in k

answers == <<taken, waiting, sent>>
vars == <<work, told, over, answers, requested>>

Init ==
    /\ work \in {"waiting", "working"}
    /\ told = FALSE
    /\ over \in BOOLEAN
    /\ taken = {}
    /\ waiting = [p \in Problems |-> 0]
    /\ sent = [p \in Problems |-> 0]
    /\ requested = [k \in Checkins |-> 0]

\* The run spawns a task for the lesson, or has no such lesson.
Spawn ==
    /\ work = "waiting"
    /\ work' \in {"working", "ended"}
    /\ UNCHANGED <<told, over, answers, requested>>

TellStop ==
    /\ told' = TRUE
    /\ UNCHANGED <<work, over, answers, requested>>

EndLesson ==
    /\ over' = TRUE
    /\ UNCHANGED <<work, told, answers, requested>>

\* The task takes charge of problems it has not met before, and leaves an answer
\* waiting for those with one that is due.
Meet(found, due) ==
    /\ work = "working"
    /\ found \cap taken = {}
    /\ taken' = taken \cup found
    /\ waiting' = [p \in Problems |-> IF p \in due THEN 1 ELSE waiting[p]]
    /\ UNCHANGED <<work, told, over, sent, requested>>

Submit(p) ==
    /\ waiting[p] = 1
    /\ waiting' = [waiting EXCEPT ![p] = 0]
    /\ sent' = [sent EXCEPT ![p] = @ + 1]
    /\ UNCHANGED <<work, told, over, taken, requested>>

Request(k) ==
    /\ work = "working"
    /\ requested[k] = 0
    /\ requested' = [requested EXCEPT ![k] = 1]
    /\ UNCHANGED <<work, told, over, answers>>

End ==
    /\ work = "working"
    /\ told \/ over
    /\ work' = "ended"
    /\ UNCHANGED <<told, over, answers, requested>>

Next ==
    \/ Spawn \/ TellStop \/ EndLesson \/ End
    \/ \E found \in SUBSET Problems : \E due \in SUBSET found : Meet(found, due)
    \/ \E p \in Problems : Submit(p)
    \/ \E k \in Checkins : Request(k)

Spec == Init /\ [][Next]_vars
=============================================================================
