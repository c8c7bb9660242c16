----------------------------- MODULE LessonMonitor -----------------------------
(***************************************************************************)
(* One lesson task of a monitoring run (the task spawned per lesson by     *)
(* CoreMonitorEngine::start, with process_lesson_ws_event), the answer     *)
(* tasks it detaches, and the classroom it talks to.                       *)
(*                                                                         *)
(* The task checks in for the tokens that open the lesson's stream, loads  *)
(* the problems of the slides, then handles stream events one by one; when *)
(* the stream closes it pauses and connects again, until the server says   *)
(* that the lesson is over or the run is told to stop.  What it has        *)
(* already answered and checked in survives reconnections: it lives as     *)
(* long as the task.                                                       *)
(*                                                                         *)
(* An answer is submitted by a task of its own, after a delay; nothing     *)
(* holds a handle on that task.                                            *)
(***************************************************************************)
EXTENDS Naturals, Sequences

CONSTANTS
    Problems,       \* problems of the lesson
    Choice,         \* those of type SingleChoice or MultipleChoice
    Blank,          \* those of type FillBlank; the others are Unknown
    Keyed,          \* those whose slide carries the correct answer
    Checkins,       \* check-ins the teacher may open
    StreamCapacity, \* unread events of a stream (128 in the code)
    AutoAnswer,     \* MonitorConfig.auto_answer_enabled
    AutoCheckin,    \* MonitorConfig.auto_checkin_enabled
    RandomGuess,    \* MonitorConfig.auto_answer_random_guess
    HistoryMayFail  \* get_lesson_problems may fail

ASSUME LessonAssumption ==
    /\ Choice \cup Blank \subseteq Problems
    /\ Choice \cap Blank = {}
    /\ Keyed \subseteq Choice \cup Blank
    /\ StreamCapacity \in Nat \ {0}
    /\ {AutoAnswer, AutoCheckin, RandomGuess, HistoryMayFail} \subseteq BOOLEAN

VARIABLES
    \* the classroom
    slides,         \* problems on the slides of the lesson's presentations
    published,      \* problems the teacher has published
    over,           \* the lesson is over
    \* the stream
    stream,         \* "none", "open" or "closed" by the peer
    inbox,          \* events received on the stream and not yet handled
    \* the lesson task
    pc,
    told,           \* the run has been told to stop
    answered,       \* LessonState.answered_problems
    checked,        \* LessonState.checked_checkins
    slideKnown,     \* LessonState.current_slide_index is Some
    \* the requests it makes
    pending,        \* pending[p]: answers of detached tasks not yet submitted
    sent,           \* sent[p]: answers submitted
    tries,          \* tries[k]: check-in requests made for k
    asked,          \* check-ins made for the connection being opened
    tokens          \* what they have yielded

classroom == <<slides, published, over>>
admission == <<asked, tokens>>
requests == <<pending, sent, tries, admission>>
lessonState == <<answered, checked, slideKnown>>
vars == <<classroom, stream, inbox, pc, told, lessonState, requests>>

\* The bearer token goes into the request for the stream, the lesson token into the
\* first message on it.
Tokens == {"bearer", "lesson"}
MaxAsked == 3       \* `0..3` in prepare_lesson_ws_auth

Answers == {"key", "guess", "empty"}
Steps == {"connecting", "joining", "backoff", "loading", "listening", "checkingIn",
          "reporting", "pausing", "ended"}

\* Slides, presentations, unlocks, calls, danmus, warnings: "slide" makes the
\* task report a page view, a "note" is only published to the application.
WsEvents ==
    [type: {"problem"}, of: Problems] \cup [type: {"checkin"}, of: Checkins]
        \cup [type: {"slide", "note", "over"}]

Init ==
    /\ slides \in SUBSET Problems
    /\ published \in SUBSET slides
    /\ over = FALSE
    /\ stream = "none"
    /\ inbox = <<>>
    /\ pc = "connecting"
    /\ told = FALSE
    /\ answered = {}
    /\ checked = {}
    /\ slideKnown = FALSE
    /\ pending = [p \in Problems |-> <<>>]
    /\ sent = [p \in Problems |-> <<>>]
    /\ tries = [k \in Checkins |-> 0]
    /\ asked = 0
    /\ tokens = {}

-----------------------------------------------------------------------------
(* The classroom.  It announces things on the stream while that is open;   *)
(* what it announces at any other time is not repeated on a later stream.  *)
(* A stream that is not read fills up, and its pump waits; here the        *)
(* classroom waits with it, a bound of the model (the socket's buffers     *)
(* hold what the pump has not taken).                                      *)

Announce(event) ==
    IF stream = "open"
    THEN Len(inbox) < StreamCapacity /\ inbox' = Append(inbox, event)
    ELSE UNCHANGED inbox

\* The teacher brings a presentation with this problem.
AddSlide(p) ==
    /\ ~over
    /\ slides' = slides \cup {p}
    /\ UNCHANGED <<published, over, stream, inbox, pc, told, lessonState, requests>>

\* probleminfo: the teacher publishes a problem of the slides, perhaps again.
PublishProblem(p) ==
    /\ ~over
    /\ p \in slides
    /\ published' = published \cup {p}
    /\ Announce([type |-> "problem", of |-> p])
    /\ UNCHANGED <<slides, over, stream, pc, told, lessonState, requests>>

OpenCheckin(k) ==
    /\ ~over
    /\ Announce([type |-> "checkin", of |-> k])
    /\ UNCHANGED <<classroom, stream, pc, told, lessonState, requests>>

SendOther(type) ==
    /\ ~over
    /\ Announce([type |-> type])
    /\ UNCHANGED <<classroom, stream, pc, told, lessonState, requests>>

EndLesson ==
    /\ ~over
    /\ over' = TRUE
    /\ Announce([type |-> "over"])
    /\ UNCHANGED <<slides, published, stream, pc, told, lessonState, requests>>

\* Mutant: the events received and not yet handled are dropped.
CloseStream_DropsUnread ==
    /\ stream = "open"
    /\ stream' = "closed"
    /\ inbox' = <<>>
    /\ UNCHANGED <<classroom, pc, told, lessonState, requests>>

\* The peer closes, or the connection breaks; what was received stays readable.
CloseStream ==
    /\ stream = "open"
    /\ stream' = "closed"
    /\ UNCHANGED <<classroom, inbox, pc, told, lessonState, requests>>

-----------------------------------------------------------------------------
(* Connecting.                                                             *)

Leaves(step) ==
    /\ pc' = step
    /\ asked' = 0
    /\ tokens' = {}

\* A check-in is answered with some of the tokens, or none; without both, the task
\* asks again.  It makes these check-ins whatever AutoCheckin says.
CheckInAnswers(got) ==
    /\ pc = "connecting"
    /\ ~over
    /\ asked + 1 < MaxAsked
    /\ tokens \cup got # Tokens
    /\ asked' = asked + 1
    /\ tokens' = tokens \cup got
    /\ UNCHANGED <<classroom, stream, inbox, pc, told, lessonState, pending, sent, tries>>

\* The task has both tokens or has asked often enough.  The lesson token it must
\* have; the bearer token it goes without.
CheckInDone(got) ==
    /\ pc = "connecting"
    /\ ~over
    /\ asked + 1 = MaxAsked \/ tokens \cup got = Tokens
    /\ Leaves(IF "lesson" \in tokens \cup got THEN "joining" ELSE "backoff")
    /\ UNCHANGED <<classroom, stream, inbox, told, lessonState, pending, sent, tries>>

\* Mutant: the problems of the slides are loaded on the first connection only.
Connects_LoadsOnce ==
    /\ pc = "joining"
    /\ stream' = "open"
    /\ inbox' = <<>>
    /\ pc' = IF answered = {} THEN "loading" ELSE "listening"
    /\ UNCHANGED <<classroom, told, lessonState, requests>>

\* The user's id is fetched, the socket opened and the first message sent: the
\* stream is there, also that of a lesson that is over by now.  Only then are the
\* problems loaded, so none can be published unseen between the two.
Connects ==
    /\ pc = "joining"
    /\ stream' = "open"
    /\ inbox' = <<>>
    /\ pc' = "loading"
    /\ UNCHANGED <<classroom, told, lessonState, requests>>

\* Any of the requests fails.
ConnectFails ==
    /\ pc \in {"connecting", "joining"}
    /\ Leaves("backoff")
    /\ UNCHANGED <<classroom, stream, inbox, told, lessonState, pending, sent, tries>>

\* Mutant: LESSON_END is an error like any other.
ConnectRefused_Retries ==
    /\ pc = "connecting"
    /\ over
    /\ Leaves("backoff")
    /\ UNCHANGED <<classroom, stream, inbox, told, lessonState, pending, sent, tries>>

\* The check-in is answered with LESSON_END.
ConnectRefused ==
    /\ pc = "connecting"
    /\ over
    /\ Leaves("ended")
    /\ UNCHANGED <<classroom, stream, inbox, told, lessonState, pending, sent, tries>>

\* The back-off or the pause elapses; the loop looks at the stop signal again.
Retries ==
    /\ pc \in {"backoff", "pausing"}
    /\ pc' = IF told THEN "ended" ELSE "connecting"
    /\ UNCHANGED <<classroom, stream, inbox, told, lessonState, requests>>

-----------------------------------------------------------------------------
(* Problems.                                                               *)

\* resolve_answer_payload.  A problem found on the slides ("Ppt") has options
\* and, if keyed, its answer.  A problem announced on the stream ("Ws") has
\* neither, so at most a blank gets a guess then, the empty text.
Resolve(p, source) ==
    IF p \in Keyed /\ source = "Ppt" THEN "key"
    ELSE IF RandomGuess /\ p \in Blank THEN "empty"
    ELSE IF RandomGuess /\ p \in Choice /\ source = "Ppt" THEN "guess"
    ELSE "none"

\* The problems of `found` that get an answer task, unless met before.
ToAnswer(found, source) ==
    {p \in found : AutoAnswer /\ Resolve(p, source) # "none"}

Detach(targets, source) ==
    pending' = [p \in Problems |->
        IF p \in targets THEN Append(pending[p], Resolve(p, source)) ELSE pending[p]]

\* Mutant: the result of answered_problems.insert is ignored.
Discover_Again(found, source) ==
    /\ answered' = IF AutoAnswer THEN answered \cup found ELSE answered
    /\ Detach(ToAnswer(found, source), source)

\* ProblemPublished, for each of the problems found: the first time a problem is
\* met, and if there is anything to answer, an answer task is detached.
Discover(found, source) ==
    /\ answered' = IF AutoAnswer THEN answered \cup found ELSE answered
    /\ Detach(ToAnswer(found, source) \ answered, source)

HistoryLoads ==
    /\ pc = "loading"
    /\ pc' = "listening"
    /\ Discover(slides, "Ppt")
    /\ UNCHANGED <<classroom, stream, inbox, told, checked, slideKnown, sent, tries, admission>>

\* Mutant: the error of get_lesson_problems is propagated out of the task.
HistoryFails_Ends ==
    /\ HistoryMayFail
    /\ pc = "loading"
    /\ pc' = "ended"
    /\ UNCHANGED <<classroom, stream, inbox, told, lessonState, requests>>

\* The failure is ignored, and not tried again before the next connection.
HistoryFails ==
    /\ HistoryMayFail
    /\ pc = "loading"
    /\ pc' = "listening"
    /\ UNCHANGED <<classroom, stream, inbox, told, lessonState, requests>>

\* A detached answer task wakes up and submits; whatever the server says, the
\* task ends and there is no second try.
SubmitAnswer(p) ==
    /\ pending[p] # <<>>
    /\ pending' = [pending EXCEPT ![p] = Tail(@)]
    /\ sent' = [sent EXCEPT ![p] = Append(@, Head(pending[p]))]
    /\ UNCHANGED <<classroom, stream, inbox, pc, told, lessonState, tries, admission>>

-----------------------------------------------------------------------------
(* Listening.                                                              *)

Takes(type) ==
    /\ pc = "listening"
    /\ inbox # <<>>
    /\ Head(inbox).type = type
    /\ inbox' = Tail(inbox)
    /\ UNCHANGED <<classroom, stream, told>>

TakesProblem ==
    /\ Takes("problem")
    /\ Discover({Head(inbox).of}, "Ws")
    /\ UNCHANGED <<pc, checked, slideKnown, sent, tries, admission>>

\* Mutant: a check-in is marked when its request has succeeded, and the request
\* may fail though the server has seen it.
TakesCheckin_MarksLater ==
    /\ Takes("checkin")
    /\ LET k == Head(inbox).of
       IN  IF AutoCheckin /\ k \notin checked
           THEN /\ tries' = [tries EXCEPT ![k] = @ + 1]
                /\ pc' = "checkingIn"
                /\ checked' \in {checked, checked \cup {k}}
           ELSE UNCHANGED <<checked, tries, pc>>
    /\ UNCHANGED <<answered, slideKnown, pending, sent, admission>>

\* CheckinOpened: the first time, the task submits it and waits for the answer.
TakesCheckin ==
    /\ Takes("checkin")
    /\ LET k == Head(inbox).of
       IN  IF AutoCheckin /\ k \notin checked
           THEN /\ checked' = checked \cup {k}
                /\ tries' = [tries EXCEPT ![k] = @ + 1]
                /\ pc' = "checkingIn"
           ELSE UNCHANGED <<checked, tries, pc>>
    /\ UNCHANGED <<answered, slideKnown, pending, sent, admission>>

\* SlideNavigated: the page view is reported at once.
TakesSlide ==
    /\ Takes("slide")
    /\ slideKnown' = TRUE
    /\ pc' = "reporting"
    /\ UNCHANGED <<answered, checked, requests>>

\* Any other event, LessonEnded included, is passed on; the task goes on.
TakesOther ==
    /\ Takes("note") \/ Takes("over")
    /\ UNCHANGED <<pc, lessonState, requests>>

\* The page-view timer fires and the report is due (module LessonTimers).
PageViewDue ==
    /\ pc = "listening"
    /\ slideKnown
    /\ pc' = "reporting"
    /\ UNCHANGED <<classroom, stream, inbox, told, lessonState, requests>>

\* submit_checkin or report_page_view returns, with or without an error.
RequestReturns ==
    /\ pc \in {"checkingIn", "reporting"}
    /\ pc' = "listening"
    /\ UNCHANGED <<classroom, stream, inbox, told, lessonState, requests>>

\* The stream is closed and everything received on it has been handled.
StreamClosed ==
    /\ pc = "listening"
    /\ stream = "closed"
    /\ inbox = <<>>
    /\ stream' = "none"
    /\ pc' = "pausing"
    /\ UNCHANGED <<classroom, inbox, told, lessonState, requests>>

-----------------------------------------------------------------------------
(* Stopping.                                                               *)

\* stop sends `true` on the watch channel of the run.
TellStop ==
    /\ told' = TRUE
    /\ UNCHANGED <<classroom, stream, inbox, pc, lessonState, requests>>

\* Mutant: the supervisor leaves it to the lesson task to see the signal.
Stops_ByItself ==
    /\ told
    /\ pc \in {"backoff", "listening", "pausing"}
    /\ Leaves("ended")
    /\ UNCHANGED <<classroom, stream, inbox, told, lessonState, pending, sent, tries>>

\* The task sees the signal while it waits for something else, or the supervisor
\* aborts it wherever it is suspended.
Stops ==
    /\ told
    /\ pc # "ended"
    /\ Leaves("ended")
    /\ UNCHANGED <<classroom, stream, inbox, told, lessonState, pending, sent, tries>>

-----------------------------------------------------------------------------

Classroom ==
    \/ \E p \in Problems : AddSlide(p) \/ PublishProblem(p)
    \/ \E k \in Checkins : OpenCheckin(k)
    \/ SendOther("slide") \/ SendOther("note")
    \/ EndLesson
    \/ CloseStream

Handle ==
    TakesProblem \/ TakesCheckin \/ TakesSlide \/ TakesOther \/ StreamClosed

LessonTask ==
    \/ \E got \in SUBSET Tokens : CheckInAnswers(got) \/ CheckInDone(got)
    \/ Connects \/ ConnectFails \/ ConnectRefused \/ Retries
    \/ HistoryLoads \/ HistoryFails
    \/ Handle \/ PageViewDue \/ RequestReturns
    \/ Stops

Next ==
    \/ Classroom
    \/ LessonTask
    \/ TellStop
    \/ \E p \in Problems : SubmitAnswer(p)

Spec == Init /\ [][Next]_vars

\* The runtime runs the supervisor and the task, whose select is not biased
\* against the stream; the server owes nothing.
TaskFairness ==
    /\ WF_vars(Stops)
    /\ WF_vars(Retries)
    /\ SF_vars(Handle)

\* HTTP requests end (they time out), a server that can be reached is reached
\* in the end, and it closes the stream of a lesson that is over.
ServerFairness ==
    /\ WF_vars(HistoryLoads \/ HistoryFails)
    /\ WF_vars(RequestReturns)
    /\ SF_vars(CheckInDone(Tokens))
    /\ SF_vars(Connects)
    /\ SF_vars(ConnectRefused)
    /\ WF_vars(over /\ CloseStream)

FairSpec == Spec /\ TaskFairness

-----------------------------------------------------------------------------
(* Properties.                                                             *)

TypeOK ==
    /\ slides \in SUBSET Problems
    /\ published \in SUBSET slides
    /\ over \in BOOLEAN
    /\ stream \in {"none", "open", "closed"}
    /\ inbox \in Seq(WsEvents)
    /\ Len(inbox) <= StreamCapacity
    /\ pc \in Steps
    /\ told \in BOOLEAN
    /\ answered \in SUBSET Problems
    /\ checked \in SUBSET Checkins
    /\ slideKnown \in BOOLEAN
    /\ pending \in [Problems -> Seq(Answers)]
    /\ sent \in [Problems -> Seq(Answers)]
    /\ tries \in [Checkins -> Nat]
    /\ asked \in 0 .. MaxAsked - 1
    /\ tokens \in SUBSET Tokens

\* A problem gets one answer at most, though the slides and the stream may both
\* announce it, again on every connection.
AnsweredOnce == \A p \in Problems : Len(pending[p]) + Len(sent[p]) <= 1

\* A check-in is requested once at most, whatever became of the request and
\* however often the check-in is announced.
CheckedInOnce == \A k \in Checkins : tries[k] <= 1

\* The task leaves its lesson only for a cause: no failed request, broken stream
\* or announcement ends it.
EndsForCause == pc = "ended" => told \/ over

\* A told task ends even if the server never answers it.
StopsWhenTold == told ~> (pc = "ended")

\* When the lesson is over the task ends, though it takes the announcement of
\* that for an event like any other.
EndsWithLesson == ServerFairness => (over ~> (pc = "ended"))

\* A problem published while the stream was down, or that the slides did not show
\* when they could not be loaded, is met all the same by a task that goes on
\* being connected and finds the slides again.
CatchesUp ==
    /\ ServerFairness
    /\ <>[][~HistoryFails]_vars
    /\ []<>(stream # "open")
    => \A p \in Problems : (p \in published) ~> (p \in answered \/ pc = "ended")

\* A check-in heard on the stream is requested unless the task ends first.
HeardCheckinTried ==
    ServerFairness => \A k \in Checkins :
        (\E i \in DOMAIN inbox : inbox[i] = [type |-> "checkin", of |-> k])
            ~> (tries[k] > 0 \/ pc = "ended")

\* The task keeps the contract that its run and the classroom rely on: it ends for
\* a cause only, meets a problem and asks for a check-in once, and submits no
\* answer twice, whatever is announced again, fails or is connected anew.
Contract == INSTANCE LessonContract
                WITH work <- IF pc = "ended" THEN "ended" ELSE "working",
                     taken <- answered,
                     waiting <- [p \in Problems |-> Len(pending[p])],
                     sent <- [p \in Problems |-> Len(sent[p])],
                     requested <- tries
KeepsContract == Contract!Spec

-----------------------------------------------------------------------------
(* What the documentation says and the code does not do.                   *)

\* "ProblemPublished events trigger automatic answering": a problem whose answer
\* is on the slides, once taken charge of, has an answer sent or on its way.
ClaimedIsAnswered ==
    \A p \in answered \cap Keyed : pending[p] # <<>> \/ sent[p] # <<>>
=============================================================================
