----------------------------- MODULE LessonTimers -----------------------------
(***************************************************************************)
(* What a lesson task does by the clock: the page views it reports when    *)
(* the teacher turns to a slide and, by a timer, while a slide stays       *)
(* (report_page_view_if_due), the danmus it repeats when many students     *)
(* send the same one (monitor/danmu.rs), and the time it lets pass before  *)
(* it submits an answer (monitor/delay.rs).  Module LessonMonitor has the  *)
(* same task without its clock.                                            *)
(*                                                                         *)
(* The three meet in one select loop: while a page view is being reported, *)
(* nothing else is handled, and what is handled late is dated by the time  *)
(* of handling.  Time passes in ticks, and only when nothing is ready to   *)
(* run; what the code remembers as an instant is its age here.             *)
(***************************************************************************)
EXTENDS Integers, Sequences, FiniteSets

CONSTANTS
    Slides, NoSlide,
    Throttle,       \* MonitorConfig.page_view_throttle (600 s)
    JitterMax,      \* MonitorConfig.page_view_jitter_max (120 s)
    RequestMax,     \* timeout of an HTTP request (15 s)
    Contents,       \* texts of danmus
    Threshold,      \* MonitorConfig.danmu_threshold
    Window,         \* window_secs (60)
    Cooldown,       \* cooldown_secs (60)
    MaxDanmus,      \* danmus of one text within Window + Cooldown (a bound)
    Problems,       \* those there is an answer for on the slides
    Guessed,        \* those among them that are answered from the stream too: blanks,
                    \* with random guesses enabled
    Limit,          \* Limit[p]: limit_secs of p, or NoLimit
    NoLimit,
    DefaultLimit,   \* the limit of a problem that has none (60)
    ShortLimit,     \* limits below are answered at once (15)
    Margin,         \* seconds to spare (5)
    Mixes,          \* what a lesson may send: sets of messages (a bound)
    InboxCapacity   \* messages received and not yet handled (a bound)

ASSUME TimersAssumption ==
    /\ NoSlide \notin Slides
    /\ {Throttle, RequestMax, Cooldown} \subseteq Nat \ {0}
    /\ {JitterMax, Window, MaxDanmus} \subseteq Nat
    /\ Threshold \in Nat \ {0} /\ InboxCapacity \in Nat \ {0}
    /\ Guessed \subseteq Problems
    /\ NoLimit \notin Nat
    /\ Limit \in [Problems -> Nat \cup {NoLimit}]
    /\ {DefaultLimit, ShortLimit, Margin} \subseteq Nat
    /\ Margin < ShortLimit

VARIABLES
    mix,            \* what this lesson sends
    pc,             \* "away" from the stream, "listening" or "reporting"
    inbox,          \* messages received and not yet handled
    timer,          \* ticks until page_view_sleep is over
    slide,          \* LessonState.current_slide_index
    reported,       \* LessonState.last_reported_slide_index
    reportedAge,    \* ticks since LessonState.last_reported_at
    request,        \* the page view being reported, its age, who asked for it
    seen,           \* DanmuTracker.history: ages of what is counted
    repliedAge,     \* DanmuTracker.last_sent: its age
    answer,         \* answer[p]: the answer task of p, its time left, when p was
                    \* published (history) and met, and by what (history)
    attemptAge,     \* ticks since a page view was last tried (history)
    okAge,          \* okAge[s]: ticks since s was reported with success (history)
    log             \* log[c]: the danmus c handled, their ages, which were
                    \* replied to; the older ones are forgotten (history)

task == <<pc, inbox>>
pages == <<timer, slide, reported, reportedAge, request, attemptAge, okAge>>
danmus == <<seen, repliedAge, log>>
vars == <<mix, task, pages, danmus, answer>>

\* An age is counted up to where it makes no difference any more.
Aged(age, cap) == IF age < cap THEN age + 1 ELSE cap

Messages ==
    [type: {"slide"}, of: Slides] \cup [type: {"danmu"}, of: Contents]
        \cup [type: {"problem"}, of: Problems]

LongestGap == 2 * Throttle + JitterMax + RequestMax
NoRequest == [of |-> NoSlide, age |-> 0, byTimer |-> FALSE]
Unmet == [at |-> "unmet", since |-> -1, left |-> 0, lag |-> -1, by |-> "none"]

Init ==
    /\ mix \in Mixes
    /\ pc = "away"
    /\ inbox = <<>>
    /\ timer \in Throttle .. Throttle + JitterMax
    /\ slide = NoSlide
    /\ reported = NoSlide
    /\ reportedAge = Throttle
    /\ request = NoRequest
    /\ seen = [c \in Contents |-> <<>>]
    /\ repliedAge = [c \in Contents |-> Cooldown]
    /\ answer = [p \in Problems |-> Unmet]
    /\ attemptAge = 0
    /\ okAge = [s \in Slides |-> Throttle]
    /\ log = [c \in Contents |-> <<>>]

-----------------------------------------------------------------------------
(* The stream.                                                             *)

\* The teacher turns to a slide, or a student sends a danmu.
Receive(m) ==
    /\ pc # "away"
    /\ m \in mix /\ m.type # "problem"
    /\ Len(inbox) < InboxCapacity
    /\ m.type = "danmu" =>
          Len(log[m.of]) + Cardinality({i \in DOMAIN inbox : inbox[i] = m}) < MaxDanmus
    /\ inbox' = Append(inbox, m)
    /\ UNCHANGED <<mix, pc, pages, danmus, answer>>

\* The teacher publishes a problem; nobody is told who is away.
Publish(p) ==
    /\ [type |-> "problem", of |-> p] \in mix
    /\ answer[p].since = -1
    /\ answer' = [answer EXCEPT ![p].since = 0]
    /\ IF pc = "away" THEN UNCHANGED inbox
       ELSE /\ Len(inbox) < InboxCapacity
            /\ inbox' = Append(inbox, [type |-> "problem", of |-> p])
    /\ UNCHANGED <<mix, pc, pages, danmus>>

\* The stream closes, and what it left has been handled.
GoesAway ==
    /\ pc = "listening" /\ inbox = <<>>
    /\ pc' = "away"
    /\ UNCHANGED <<mix, inbox, pages, danmus, answer>>

-----------------------------------------------------------------------------
(* Answers.                                                                *)

\* Mutant: five seconds too many.
WaitTimes_NoMargin(limit) ==
    IF limit < ShortLimit THEN {0} ELSE 1 .. limit

\* calculate_wait_time: the sample of the Poisson distribution may be anything.
WaitTimes(limit) ==
    IF limit < ShortLimit THEN {0} ELSE 1 .. limit - Margin

LimitOf(p) == IF Limit[p] = NoLimit THEN DefaultLimit ELSE Limit[p]

\* The limit that the task goes by: probleminfo comes without one.
GivenLimit(p, by) == IF by = "stream" THEN DefaultLimit ELSE LimitOf(p)

\* The task meets p and detaches a task that waits: from now on, whenever p was
\* published.
Meets(p, wait, by) ==
    [answer[p] EXCEPT !.at = "waiting", !.left = wait, !.lag = answer[p].since, !.by = by]

\* p enters answered_problems, but without options there is nothing to submit.
Claims(p) == [answer[p] EXCEPT !.at = "claimed", !.by = "stream"]

\* The stream is open, and the problems on the slides are loaded, if they can be.
Connects ==
    /\ pc = "away"
    /\ pc' = "listening"
    /\ \E found \in SUBSET {p \in Problems : [type |-> "problem", of |-> p] \in mix} :
       \E wait \in [found -> UNION {WaitTimes(LimitOf(p)) : p \in found}] :
          /\ \A p \in found : wait[p] \in WaitTimes(LimitOf(p))
          /\ answer' = [p \in Problems |->
                IF p \in found /\ answer[p].at = "unmet" THEN Meets(p, wait[p], "slides")
                ELSE answer[p]]
    /\ UNCHANGED <<mix, inbox, pages, danmus>>

Takes(m) ==
    /\ pc = "listening"
    /\ inbox # <<>> /\ Head(inbox) = m
    /\ inbox' = Tail(inbox)
    /\ UNCHANGED mix

\* A problem from the stream that was not met before; of one that was, nothing more
\* becomes.
TakesProblem(p) ==
    /\ Takes([type |-> "problem", of |-> p])
    /\ \/ /\ answer[p].at = "unmet" /\ p \in Guessed
          /\ \E wait \in WaitTimes(GivenLimit(p, "stream")) :
                answer' = [answer EXCEPT ![p] = Meets(p, wait, "stream")]
       \/ /\ answer[p].at = "unmet" /\ p \notin Guessed
          /\ answer' = [answer EXCEPT ![p] = Claims(p)]
       \/ answer[p].at # "unmet" /\ UNCHANGED answer
    /\ UNCHANGED <<pc, pages, danmus>>

\* The answer is submitted.
Submits(p) ==
    /\ answer[p].at = "waiting" /\ answer[p].left = 0
    /\ answer' = [answer EXCEPT ![p].at = "sent"]
    /\ UNCHANGED <<mix, task, pages, danmus>>

-----------------------------------------------------------------------------
(* Page views.                                                             *)

\* next_page_view_wait: the jitter is made from the clock.
Waits == Throttle .. Throttle + JitterMax

\* report_page_view_if_due notes the time and waits for the request.
Reports(s, byTimer) ==
    /\ request' = [of |-> s, age |-> 0, byTimer |-> byTimer]
    /\ attemptAge' = 0
    /\ pc' = "reporting"

\* SlideNavigated: reported at once, whatever was reported before.
TakesSlide(s) ==
    /\ Takes([type |-> "slide", of |-> s])
    /\ slide' = s
    /\ Reports(s, FALSE)
    /\ UNCHANGED <<timer, reported, reportedAge, okAge, danmus, answer>>

\* Mutant: a slide that has been reported is not reported again.
Due_Once(s) == reported # s

\* Not the slide reported last, or that was long enough ago.
Due(s) == reported # s \/ reportedAge >= Throttle

\* The timer is over, and the slide on the screen is due.
TimerReports ==
    /\ pc = "listening" /\ timer = 0
    /\ slide # NoSlide /\ Due(slide)
    /\ Reports(slide, TRUE)
    /\ UNCHANGED <<mix, inbox, timer, slide, reported, reportedAge, okAge, danmus, answer>>

\* The timer is over, and there is nothing to report.
TimerSkips ==
    /\ pc = "listening" /\ timer = 0
    /\ slide = NoSlide \/ ~Due(slide)
    /\ timer' \in Waits
    /\ UNCHANGED <<mix, task, slide, reported, reportedAge, request, attemptAge, okAge,
                   danmus, answer>>

Returns ==
    /\ pc' = "listening"
    /\ timer' \in IF request.byTimer THEN Waits ELSE {timer}
    /\ request' = NoRequest

ReportSucceeds ==
    /\ pc = "reporting"
    /\ reported' = request.of
    /\ reportedAge' = request.age
    /\ okAge' = [okAge EXCEPT ![request.of] = request.age]
    /\ Returns
    /\ UNCHANGED <<mix, inbox, slide, attemptAge, danmus, answer>>

\* Mutant: what failed counts as reported.
ReportFails_Counts ==
    /\ pc = "reporting"
    /\ reported' = request.of
    /\ reportedAge' = request.age
    /\ Returns
    /\ UNCHANGED <<mix, inbox, slide, attemptAge, okAge, danmus, answer>>

\* No csrf token, no answer in time, or an error status: a warning.
ReportFails ==
    /\ pc = "reporting"
    /\ Returns
    /\ UNCHANGED <<mix, inbox, slide, reported, reportedAge, attemptAge, okAge, danmus,
                   answer>>

-----------------------------------------------------------------------------
(* Danmus.                                                                 *)

\* The first place from the front whose age is within max, one past the end if there
\* is none.
FirstWithin(ages, max) ==
    CHOOSE k \in 1 .. Len(ages) + 1 :
       /\ \A i \in 1 .. k - 1 : ages[i] > max
       /\ k <= Len(ages) => ages[k] <= max

\* The front of the queue is dropped for as long as it is outside of the window.
Recent(ages) == SubSeq(ages, FirstWithin(ages, Window), Len(ages))

\* The danmu is counted, those outside of the window are not.
Counted(c) == Recent(Append(seen[c], 0))

\* Mutant: the queue is not cleared after a reply.
Tracks_KeepsQueue(c, replies) ==
    IF repliedAge[c] < Cooldown
    THEN ~replies /\ UNCHANGED <<seen, repliedAge>>
    ELSE /\ replies = (Len(Counted(c)) >= Threshold)
         /\ seen' = [seen EXCEPT ![c] = Counted(c)]
         /\ repliedAge' = [repliedAge EXCEPT ![c] = IF replies THEN 0 ELSE @]

\* track_and_decide: in the cooldown a danmu is not even counted.
Tracks(c, replies) ==
    IF repliedAge[c] < Cooldown
    THEN ~replies /\ UNCHANGED <<seen, repliedAge>>
    ELSE /\ replies = (Len(Counted(c)) >= Threshold)
         /\ seen' = [seen EXCEPT ![c] = IF replies THEN <<>> ELSE Counted(c)]
         /\ repliedAge' = [repliedAge EXCEPT ![c] = IF replies THEN 0 ELSE @]

\* DanmuPublished; a reply is sent by a task of its own.
TakesDanmu(c) ==
    /\ Takes([type |-> "danmu", of |-> c])
    /\ \E replies \in BOOLEAN :
          /\ Tracks(c, replies)
          /\ log' = [log EXCEPT ![c] = Append(@, [age |-> 0, replied |-> replies])]
    /\ UNCHANGED <<pc, pages, answer>>

-----------------------------------------------------------------------------
(* Time.                                                                   *)

\* Something is to be done before any time passes.
Urgent ==
    \/ pc = "listening" /\ (inbox # <<>> \/ timer = 0)
    \/ pc = "reporting" /\ request.age = RequestMax
    \/ \E p \in Problems : answer[p].at = "waiting" /\ answer[p].left = 0

\* The danmus handled are a tick older, and those that make no difference any more
\* are forgotten.
Older(entries) ==
    LET ages == [i \in 1 .. Len(entries) |-> entries[i].age + 1]
        k == FirstWithin(ages, Window + Cooldown)
    IN  [i \in 1 .. Len(entries) - k + 1 |->
            [age |-> ages[i + k - 1], replied |-> entries[i + k - 1].replied]]

\* What becomes of an answer task that has not submitted, and of the time since
\* its problem was published.
Later(p) ==
    [answer[p] EXCEPT
        !.since = IF answer[p].at \in {"claimed", "sent"} \/ @ = -1 THEN @
                  ELSE Aged(@, LimitOf(p) + DefaultLimit + Margin + 1),
        !.left = IF answer[p].at = "waiting" THEN @ - 1 ELSE @]

Tick ==
    /\ ~Urgent
    /\ timer' = IF timer > 0 THEN timer - 1 ELSE 0
    /\ reportedAge' = Aged(reportedAge, Throttle)
    /\ request' = IF pc = "reporting" THEN [request EXCEPT !.age = @ + 1] ELSE request
    /\ attemptAge' = Aged(attemptAge, LongestGap)
    /\ okAge' = [s \in Slides |-> Aged(okAge[s], Throttle)]
    /\ seen' = [c \in Contents |->
          [i \in DOMAIN seen[c] |-> Aged(seen[c][i], Window + 1)]]
    /\ repliedAge' = [c \in Contents |-> Aged(repliedAge[c], Cooldown)]
    /\ log' = [c \in Contents |-> Older(log[c])]
    /\ answer' = [p \in Problems |-> Later(p)]
    /\ UNCHANGED <<mix, task, slide, reported>>

Next ==
    \/ \E m \in Messages : Receive(m)
    \/ GoesAway \/ Connects
    \/ \E p \in Problems : Publish(p) \/ TakesProblem(p) \/ Submits(p)
    \/ \E s \in Slides : TakesSlide(s)
    \/ TimerReports \/ TimerSkips \/ ReportSucceeds \/ ReportFails
    \/ \E c \in Contents : TakesDanmu(c)
    \/ Tick

Spec == Init /\ [][Next]_vars

-----------------------------------------------------------------------------
(* Properties.                                                             *)

TypeOK ==
    /\ mix \in Mixes
    /\ pc \in {"away", "listening", "reporting"}
    /\ Len(inbox) <= InboxCapacity
    /\ timer \in 0 .. Throttle + JitterMax
    /\ slide \in Slides \cup {NoSlide} /\ reported \in Slides \cup {NoSlide}
    /\ reportedAge \in Nat
    /\ request.of \in Slides \cup {NoSlide}
    /\ request.age \in 0 .. RequestMax /\ request.byTimer \in BOOLEAN
    /\ attemptAge \in 0 .. LongestGap
    /\ okAge \in [Slides -> Nat]

\* While the lesson is followed, the page views of the slide on the screen never
\* fall silent for longer than two rounds of the timer, failures and slides
\* turned in between included: the timer runs on its own, so a page view
\* reported just before it goes off puts the next one off by a whole round.
KeepsReporting ==
    slide # NoSlide /\ timer > 0 => attemptAge + timer <= LongestGap

\* The timer passes over a slide only if that very slide has been reported with
\* success less than a throttle ago: a page view that failed is tried again at
\* the next round, whatever was reported before and after it.
SkipsOnlyReported ==
    [][pc = "listening" /\ timer = 0 /\ timer' > 0 /\ slide # NoSlide
          => okAge[slide] < Throttle]_vars

\* The danmus that count for a reply to the last one: those in the window that no
\* cooldown swallowed and no earlier reply was for.
Evidence(entries) ==
    LET n == Len(entries)
    IN  {i \in 1 .. n :
            /\ entries[i].age <= Window
            /\ \A j \in 1 .. n - 1 : entries[j].replied =>
                  i > j /\ entries[j].age - entries[i].age >= Cooldown}

\* A danmu just handled is replied to if, and only if, it counts and with it there
\* are enough that do.
Justified(entries) ==
    LET n == Len(entries)
    IN  n > 0 /\ entries[n].age = 0 =>
           (entries[n].replied <=>
               n \in Evidence(entries) /\ Cardinality(Evidence(entries)) >= Threshold)

\* The last danmu handled gets a reply if, and only if, with it there are
\* Threshold of its text in the window that no cooldown swallowed and no earlier
\* reply was for.
RepliesOnEvidence == \A c \in Contents : Justified(log[c])

\* "Clamp to [1, limit - 5] to avoid timing out": the answer to a problem that was
\* met soon after it was published is submitted within the limit the task went by.
\* That is the problem's own if the slides have brought it; if the stream has, it
\* is the default, which may be later than the problem's own.
SubmitsInTime ==
    \A p \in Problems :
        LET limit == GivenLimit(p, answer[p].by)
        IN  /\ answer[p].at = "sent"
            /\ 0 <= answer[p].lag /\ answer[p].lag <= Margin /\ answer[p].lag <= limit
            => answer[p].since <= limit

\* As far as answers go, the task by the clock keeps the contract of a lesson task
\* that neither ends nor meets a check-in.
Contract == INSTANCE LessonContract
                WITH Checkins <- {},
                     work <- "working", told <- FALSE, over <- FALSE,
                     taken <- {p \in Problems : answer[p].at # "unmet"},
                     waiting <- [p \in Problems |->
                                    IF answer[p].at = "waiting" THEN 1 ELSE 0],
                     sent <- [p \in Problems |-> IF answer[p].at = "sent" THEN 1 ELSE 0],
                     requested <- [k \in {} |-> 0]
KeepsContract == Contract!Spec
=============================================================================
