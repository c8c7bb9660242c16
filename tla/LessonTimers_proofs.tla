-------------------------- MODULE LessonTimers_proofs --------------------------
(***************************************************************************)
(* What a lesson task does by the clock, for all times, slides, texts and  *)
(* problems: page views do not fall silent, the timer passes over nothing  *)
(* that is due, answers are submitted within their limits, and danmus are  *)
(* replied to on evidence, and always then.                                *)
(*                                                                         *)
(* Replies rest on TextInv: place by place from the back, the queue of a   *)
(* text holds the danmus of the log that count for the next reply.         *)
(*                                                                         *)
(* And the task implements LessonContract.                                 *)
(***************************************************************************)
EXTENDS LessonTimers, FiniteSetTheorems, SequenceTheorems, WellFoundedInduction, TLAPS

Requests == [of: Slides \cup {NoSlide}, age: Nat, byTimer: BOOLEAN]
Sources == {"slides", "stream"}
AnswerTasks == [at: {"unmet", "claimed", "waiting", "sent"}, since: Int, left: Int, lag: Int,
                by: Sources \cup {"none"}]

PagesType ==
    /\ pc \in {"away", "listening", "reporting"}
    /\ timer \in Nat /\ timer <= Throttle + JitterMax
    /\ slide \in Slides \cup {NoSlide} /\ reported \in Slides \cup {NoSlide}
    /\ reportedAge \in Nat
    /\ request \in Requests /\ request.age <= RequestMax
    /\ attemptAge \in Nat /\ attemptAge <= LongestGap
    /\ okAge \in [Slides -> Nat]

\* A page view under way is the last one tried, of the slide on the screen; the
\* timer waits for the one it has asked for.
RequestInv ==
    pc = "reporting" =>
        /\ request.of = slide /\ slide \in Slides
        /\ attemptAge = request.age
        /\ request.byTimer => timer = 0

\* What the task remembers of the last success is so.
ReportedInv ==
    /\ reported # NoSlide => okAge[reported] = reportedAge
    /\ reportedAge < Throttle => attemptAge <= reportedAge

PagesInv == PagesType /\ RequestInv /\ ReportedInv /\ KeepsReporting

\* The limit p's answer task goes by.
LimitGiven(p) == GivenLimit(p, answer[p].by)

\* An answer that waits will be in time if it was met in time.
InTime(p) ==
    0 <= answer[p].lag /\ answer[p].lag <= Margin /\ answer[p].lag <= LimitGiven(p)
        => answer[p].since + answer[p].left <= LimitGiven(p)

AnswersInv ==
    /\ answer \in [Problems -> AnswerTasks]
    /\ \A p \in Problems :
          /\ answer[p].since >= -1
          /\ answer[p].since = -1 => answer[p].lag = -1
          /\ answer[p].at = "waiting" => answer[p].left >= 0 /\ InTime(p)
          /\ answer[p].at = "sent" => answer[p].left = 0 /\ InTime(p)

-----------------------------------------------------------------------------
(* Page views.                                                             *)

LEMMA PagesInit == Init => PagesInv
  BY TimersAssumption DEF Init, PagesInv, PagesType, RequestInv, ReportedInv,
     KeepsReporting, Requests, NoRequest, LongestGap

\* Steps that have nothing to do with page views.
LEMMA PagesKept ==
  ASSUME PagesInv, UNCHANGED pages,
         pc' = pc \/ (pc # "reporting" /\ pc' \in {"away", "listening"})
  PROVE  PagesInv'
  BY DEF PagesInv, PagesType, RequestInv, ReportedInv, KeepsReporting, pages, LongestGap

LEMMA SlidePages == ASSUME PagesInv, NEW s \in Slides, TakesSlide(s) PROVE PagesInv'
  <1> USE TimersAssumption DEF TakesSlide, Reports
  <1>1. PagesType'
    BY DEF PagesInv, PagesType, Requests, LongestGap
  <1>2. RequestInv'
    BY DEF PagesInv, RequestInv
  <1>3. ReportedInv'
    BY DEF PagesInv, PagesType, ReportedInv
  <1>4. KeepsReporting'
    BY DEF PagesInv, PagesType, KeepsReporting, LongestGap
  <1> QED BY <1>1, <1>2, <1>3, <1>4 DEF PagesInv

LEMMA TimerPages == ASSUME PagesInv, TimerReports PROVE PagesInv'
  <1> USE TimersAssumption DEF TimerReports, Reports
  <1>1. PagesType'
    BY DEF PagesInv, PagesType, Requests, LongestGap
  <1>2. RequestInv'
    BY DEF PagesInv, PagesType, RequestInv
  <1>3. ReportedInv'
    BY DEF PagesInv, PagesType, ReportedInv
  <1>4. KeepsReporting'
    BY DEF PagesInv, PagesType, KeepsReporting, LongestGap
  <1> QED BY <1>1, <1>2, <1>3, <1>4 DEF PagesInv

\* A slide that is passed over was tried less than a throttle ago.
LEMMA SkipPages == ASSUME PagesInv, TimerSkips PROVE PagesInv'
  <1> USE TimersAssumption DEF TimerSkips, Waits, task
  <1>1. PagesType'
    BY DEF PagesInv, PagesType
  <1>2. RequestInv' /\ ReportedInv'
    BY DEF PagesInv, RequestInv, ReportedInv
  <1>3. KeepsReporting'
    BY DEF PagesInv, PagesType, ReportedInv, KeepsReporting, Due, LongestGap
  <1> QED BY <1>1, <1>2, <1>3 DEF PagesInv

LEMMA ReturnPages ==
  ASSUME PagesInv, pc = "reporting", Returns, UNCHANGED <<slide, attemptAge>>,
         \/ UNCHANGED <<reported, reportedAge, okAge>>
         \/ /\ reported' = request.of /\ reportedAge' = request.age
            /\ okAge' = [okAge EXCEPT ![request.of] = request.age]
  PROVE  PagesInv'
  <1> USE TimersAssumption DEF Returns, Waits, NoRequest
  <1>1. PagesType'
    BY DEF PagesInv, PagesType, RequestInv, Requests
  <1>2. RequestInv'
    BY DEF RequestInv
  <1>3. ReportedInv'
    BY DEF PagesInv, PagesType, RequestInv, ReportedInv, Requests
  <1>4. KeepsReporting'
    BY DEF PagesInv, PagesType, RequestInv, KeepsReporting, LongestGap, Requests
  <1> QED BY <1>1, <1>2, <1>3, <1>4 DEF PagesInv

\* What a tick does to the page views.
LEMMA TickOnPages ==
  ASSUME PagesInv, Tick
  PROVE  /\ pc' = pc /\ slide' = slide /\ reported' = reported
         /\ timer' = IF timer > 0 THEN timer - 1 ELSE 0
         /\ reportedAge' = Aged(reportedAge, Throttle)
         /\ attemptAge' = Aged(attemptAge, LongestGap)
         /\ okAge' = [s \in Slides |-> Aged(okAge[s], Throttle)]
         /\ request' \in Requests /\ request'.age <= RequestMax
         /\ pc = "reporting" => request' = [request EXCEPT !.age = @ + 1]
         /\ pc = "reporting" => request'.age = request.age + 1
  <1>1. /\ pc' = pc /\ slide' = slide /\ reported' = reported
        /\ timer' = IF timer > 0 THEN timer - 1 ELSE 0
        /\ reportedAge' = Aged(reportedAge, Throttle)
        /\ attemptAge' = Aged(attemptAge, LongestGap)
        /\ okAge' = [s \in Slides |-> Aged(okAge[s], Throttle)]
        /\ request' = IF pc = "reporting" THEN [request EXCEPT !.age = @ + 1] ELSE request
    BY DEF Tick, task
  <1>2. pc = "reporting" => request.age # RequestMax
    BY DEF Tick, Urgent
  <1>3. request \in Requests /\ request.age <= RequestMax
    BY DEF PagesInv, PagesType
  <1>4. request' \in Requests /\ request'.age <= RequestMax
    BY <1>1, <1>2, <1>3, TimersAssumption DEF Requests
  <1> QED BY <1>1, <1>3, <1>4 DEF Requests

LEMMA TickPages == ASSUME PagesInv, Tick PROVE PagesInv'
  <1> USE TimersAssumption, TickOnPages DEF Aged
  <1>1. PagesType'
    BY DEF PagesInv, PagesType, LongestGap
  <1>2. RequestInv'
    <2> SUFFICES ASSUME pc = "reporting"
                 PROVE  /\ request'.of = slide /\ slide \in Slides
                        /\ attemptAge' = request'.age
                        /\ request'.byTimer => timer' = 0
      BY DEF RequestInv
    <2>1. /\ request'.of = request.of /\ request'.byTimer = request.byTimer
          /\ request'.age = request.age + 1 /\ request'.age <= RequestMax
      BY DEF PagesInv, PagesType, Requests
    <2>2. request.age \in Nat /\ request.age < LongestGap
      BY <2>1 DEF PagesInv, PagesType, Requests, LongestGap
    <2> QED BY <2>1, <2>2 DEF PagesInv, PagesType, RequestInv
  <1>3. ReportedInv'
    BY DEF PagesInv, PagesType, ReportedInv, LongestGap
  <1>4. KeepsReporting'
    BY DEF PagesInv, PagesType, KeepsReporting, LongestGap
  <1> QED BY <1>1, <1>2, <1>3, <1>4 DEF PagesInv

LEMMA PagesStep == ASSUME PagesInv, [Next]_vars PROVE PagesInv'
  <1>1. CASE \E s \in Slides : TakesSlide(s)
    BY <1>1, SlidePages
  <1>2. CASE TimerReports
    BY <1>2, TimerPages
  <1>3. CASE TimerSkips
    BY <1>3, SkipPages
  <1>4. CASE ReportSucceeds \/ ReportFails
    BY <1>4, ReturnPages DEF ReportSucceeds, ReportFails
  <1>5. CASE Tick
    BY <1>5, TickPages
  <1>6. CASE GoesAway \/ Connects
    <2>1. UNCHANGED pages /\ pc # "reporting" /\ pc' \in {"away", "listening"}
      BY <1>6 DEF GoesAway, Connects
    <2> QED BY <2>1, PagesKept
  <1>7. CASE \/ \E m \in Messages : Receive(m)
             \/ \E p \in Problems : Publish(p) \/ TakesProblem(p) \/ Submits(p)
             \/ \E c \in Contents : TakesDanmu(c)
             \/ UNCHANGED vars
    <2>1. UNCHANGED pages /\ pc' = pc
      BY <1>7 DEF Receive, Publish, TakesProblem, Submits, TakesDanmu, vars, task
    <2> QED BY <2>1, PagesKept
  <1> QED BY <1>1, <1>2, <1>3, <1>4, <1>5, <1>6, <1>7 DEF Next

LEMMA PagesAreSafe == Spec => []PagesInv
  <1>1. Init => PagesInv
    BY PagesInit
  <1>2. PagesInv /\ [Next]_vars => PagesInv'
    BY PagesStep
  <1> QED BY <1>1, <1>2, PTL DEF Spec

\* Page views of the slide on the screen do not fall silent for longer than two
\* rounds of the timer, for all times of throttle, jitter and requests.
THEOREM PageViewsGoOn == Spec => []KeepsReporting
  <1>1. PagesInv => KeepsReporting
    BY DEF PagesInv
  <1> QED BY <1>1, PagesAreSafe, PTL

\* The timer passes over nothing but what has been reported a short while ago,
\* whichever page views have failed.
THEOREM NothingDueIsSkipped == Spec => SkipsOnlyReported
  <1> DEFINE Skips == pc = "listening" /\ timer = 0 /\ timer' > 0 /\ slide # NoSlide
                         => okAge[slide] < Throttle
  <1>1. ASSUME PagesInv, [Next]_vars, pc = "listening", timer = 0, timer' > 0,
               slide # NoSlide
        PROVE  okAge[slide] < Throttle
    <2>1. CASE TimerSkips
      BY <1>1, <2>1, TimersAssumption DEF TimerSkips, Due, PagesInv, PagesType, ReportedInv
    <2>2. CASE ~TimerSkips
      <3>1. ~(ReportSucceeds \/ ReportFails)
        BY <1>1 DEF ReportSucceeds, ReportFails
      <3>2. Tick => timer' = 0
        BY <1>1, TickOnPages
      <3>3. \/ \E m \in Messages : Receive(m)
            \/ GoesAway \/ Connects
            \/ \E p \in Problems : Publish(p) \/ TakesProblem(p) \/ Submits(p)
            \/ \E s \in Slides : TakesSlide(s)
            \/ TimerReports
            \/ \E c \in Contents : TakesDanmu(c)
            \/ UNCHANGED vars
            => timer' = timer
        BY DEF Receive, Publish, GoesAway, Connects, TakesProblem, Submits,
           TakesSlide, TimerReports, TakesDanmu, vars, pages
      <3> QED BY <3>1, <3>2, <3>3, <2>2, <1>1 DEF Next
    <2> QED BY <2>1, <2>2
  <1>2. PagesInv /\ [Next]_vars => [Skips]_vars
    BY <1>1
  <1> QED BY <1>2, PagesAreSafe, PTL DEF Spec, SkipsOnlyReported

-----------------------------------------------------------------------------
(* Answers.                                                                *)

LEMMA LimitsAreNat ==
  \A p \in Problems : LimitOf(p) \in Nat /\ \A by : GivenLimit(p, by) \in Nat
  BY TimersAssumption DEF LimitOf, GivenLimit

LEMMA AnswersInit == Init => AnswersInv
  BY DEF Init, AnswersInv, AnswerTasks, Unmet

\* A problem that is met gets an answer task that will be in time.
LEMMA MetInTime ==
  ASSUME AnswersInv, NEW p \in Problems, answer[p].at = "unmet", NEW by \in Sources,
         NEW wait \in WaitTimes(GivenLimit(p, by)), answer' \in [Problems -> AnswerTasks],
         answer'[p] = Meets(p, wait, by)
  PROVE  /\ answer'[p].since >= -1
         /\ answer'[p].since = -1 => answer'[p].lag = -1
         /\ answer'[p].left >= 0 /\ InTime(p)'
  <1>1. /\ answer'[p].lag = answer[p].since /\ answer'[p].since = answer[p].since
        /\ answer'[p].left = wait /\ answer'[p].by = by
    BY DEF AnswersInv, AnswerTasks, Meets
  <1>2. /\ GivenLimit(p, by) \in Nat /\ wait \in Nat
        /\ wait = 0 \/ wait <= GivenLimit(p, by) - Margin
    BY LimitsAreNat, TimersAssumption DEF WaitTimes
  <1>3. answer[p].since \in Int
    BY DEF AnswersInv, AnswerTasks
  <1>4. answer[p].since >= -1
    BY DEF AnswersInv
  <1>5. LimitGiven(p)' = GivenLimit(p, by)
    BY <1>1 DEF LimitGiven, GivenLimit, LimitOf
  <1> QED BY <1>1, <1>2, <1>3, <1>4, <1>5, TimersAssumption DEF InTime

LEMMA WaitsAreInt ==
  \A p \in Problems : \A by \in Sources : WaitTimes(GivenLimit(p, by)) \subseteq Int
  BY LimitsAreNat, TimersAssumption DEF WaitTimes

LEMMA MeetsIsTask ==
  ASSUME AnswersInv, NEW p \in Problems, NEW by \in Sources,
         NEW wait \in WaitTimes(GivenLimit(p, by))
  PROVE  Meets(p, wait, by) \in AnswerTasks /\ Meets(p, wait, by).at = "waiting"
  <1>1. wait \in Int
    BY WaitsAreInt
  <1>2. answer[p] \in AnswerTasks
    BY DEF AnswersInv
  <1> QED BY <1>1, <1>2 DEF AnswerTasks, Meets

LEMMA SlidesLimit == \A p \in Problems : LimitOf(p) = GivenLimit(p, "slides")
  BY DEF GivenLimit

LEMMA ConnectAnswers == ASSUME AnswersInv, Connects PROVE AnswersInv'
  <1>1. PICK found \in SUBSET Problems :
          \E wait \in [found -> UNION {WaitTimes(LimitOf(p)) : p \in found}] :
             /\ \A p \in found : wait[p] \in WaitTimes(LimitOf(p))
             /\ answer' = [p \in Problems |->
                   IF p \in found /\ answer[p].at = "unmet" THEN Meets(p, wait[p], "slides")
                   ELSE answer[p]]
    BY DEF Connects
  <1>2. PICK wait \in [found -> UNION {WaitTimes(LimitOf(p)) : p \in found}] :
             /\ \A p \in found : wait[p] \in WaitTimes(LimitOf(p))
             /\ answer' = [p \in Problems |->
                   IF p \in found /\ answer[p].at = "unmet" THEN Meets(p, wait[p], "slides")
                   ELSE answer[p]]
    BY <1>1
  <1>a. \A p \in found : wait[p] \in WaitTimes(GivenLimit(p, "slides"))
    BY <1>2, SlidesLimit
  <1>b. "slides" \in Sources
    BY DEF Sources
  <1>3. answer' \in [Problems -> AnswerTasks]
    BY <1>2, <1>a, <1>b, MeetsIsTask DEF AnswersInv
  <1>4. ASSUME NEW p \in Problems
        PROVE  /\ answer'[p].since >= -1
               /\ answer'[p].since = -1 => answer'[p].lag = -1
               /\ answer'[p].at = "waiting" => answer'[p].left >= 0 /\ InTime(p)'
               /\ answer'[p].at = "sent" => answer'[p].left = 0 /\ InTime(p)'
    <2>1. CASE p \in found /\ answer[p].at = "unmet"
      <3>1. /\ answer'[p] = Meets(p, wait[p], "slides")
            /\ wait[p] \in WaitTimes(GivenLimit(p, "slides"))
        BY <1>2, <1>a, <2>1
      <3>2. answer'[p].at = "waiting"
        BY <3>1, <1>b, MeetsIsTask
      <3>3. /\ answer'[p].since >= -1
            /\ answer'[p].since = -1 => answer'[p].lag = -1
            /\ answer'[p].left >= 0 /\ InTime(p)'
        BY <1>3, <1>b, <2>1, <3>1, MetInTime
      <3> QED BY <3>2, <3>3
    <2>2. CASE ~(p \in found /\ answer[p].at = "unmet")
      <3>1. answer'[p] = answer[p]
        BY <1>2, <2>2
      <3> QED BY <3>1 DEF AnswersInv, InTime, LimitGiven, GivenLimit, LimitOf
    <2> QED BY <2>1, <2>2
  <1> QED BY <1>3, <1>4 DEF AnswersInv

LEMMA ClaimsIs ==
  ASSUME AnswersInv, NEW p \in Problems
  PROVE  /\ Claims(p) \in AnswerTasks
         /\ Claims(p).at = "claimed" /\ Claims(p).since = answer[p].since
         /\ Claims(p).lag = answer[p].lag
  BY DEF AnswersInv, AnswerTasks, Claims, Sources

LEMMA ProblemAnswers ==
  ASSUME AnswersInv, NEW q \in Problems, TakesProblem(q) PROVE AnswersInv'
  <1>1. CASE UNCHANGED answer
    BY <1>1 DEF AnswersInv, InTime, LimitGiven, GivenLimit, LimitOf
  <1>2. ASSUME answer[q].at = "unmet", NEW new \in AnswerTasks,
               answer' = [answer EXCEPT ![q] = new],
               /\ new.since >= -1
               /\ new.since = -1 => new.lag = -1
               /\ new.at = "waiting" => new.left >= 0 /\ InTime(q)'
               /\ new.at # "sent"
        PROVE  AnswersInv'
    <2>1. answer' \in [Problems -> AnswerTasks] /\ answer'[q] = new
      BY <1>2 DEF AnswersInv
    <2>2. ASSUME NEW p \in Problems
          PROVE  /\ answer'[p].since >= -1
                 /\ answer'[p].since = -1 => answer'[p].lag = -1
                 /\ answer'[p].at = "waiting" => answer'[p].left >= 0 /\ InTime(p)'
                 /\ answer'[p].at = "sent" => answer'[p].left = 0 /\ InTime(p)'
      <3>1. CASE p = q
        BY <1>2, <2>1, <3>1
      <3>2. CASE p # q
        <4>1. answer'[p] = answer[p]
          BY <1>2, <3>2 DEF AnswersInv
        <4> QED BY <4>1 DEF AnswersInv, InTime, LimitGiven, GivenLimit, LimitOf
      <3> QED BY <3>1, <3>2
    <2> QED BY <2>1, <2>2 DEF AnswersInv
  <1>3. ASSUME answer[q].at = "unmet", NEW wait \in WaitTimes(GivenLimit(q, "stream")),
               answer' = [answer EXCEPT ![q] = Meets(q, wait, "stream")]
        PROVE  AnswersInv'
    <2>0. "stream" \in Sources
      BY DEF Sources
    <2>1. Meets(q, wait, "stream") \in AnswerTasks /\ Meets(q, wait, "stream").at = "waiting"
      BY <1>3, <2>0, MeetsIsTask
    <2>2. answer'[q] = Meets(q, wait, "stream") /\ answer' \in [Problems -> AnswerTasks]
      BY <1>3, <2>1 DEF AnswersInv
    <2>3. /\ answer'[q].since >= -1
          /\ answer'[q].since = -1 => answer'[q].lag = -1
          /\ answer'[q].left >= 0 /\ InTime(q)'
      BY <1>3, <2>0, <2>2, MetInTime
    <2> QED BY <1>2, <1>3, <2>1, <2>2, <2>3
  <1>4. ASSUME answer[q].at = "unmet", answer' = [answer EXCEPT ![q] = Claims(q)]
        PROVE  AnswersInv'
    BY <1>2, <1>4, ClaimsIs DEF AnswersInv
  <1> QED BY <1>1, <1>3, <1>4 DEF TakesProblem

LEMMA LaterIs ==
  ASSUME AnswersInv, NEW p \in Problems
  PROVE  /\ Later(p) \in AnswerTasks
         /\ Later(p).at = answer[p].at /\ Later(p).lag = answer[p].lag
         /\ Later(p).by = answer[p].by
         /\ Later(p).left = IF answer[p].at = "waiting" THEN answer[p].left - 1
                             ELSE answer[p].left
         /\ Later(p).since <= answer[p].since + 1 /\ Later(p).since >= -1
         /\ Later(p).since = -1 => answer[p].since = -1
         /\ answer[p].at = "sent" => Later(p).since = answer[p].since
  <1> DEFINE since == IF answer[p].at \in {"claimed", "sent"} \/ answer[p].since = -1
                      THEN answer[p].since
                      ELSE Aged(answer[p].since, LimitOf(p) + DefaultLimit + Margin + 1)
             left == IF answer[p].at = "waiting" THEN answer[p].left - 1 ELSE answer[p].left
  <1>1. answer[p] \in AnswerTasks /\ answer[p].since >= -1
    BY DEF AnswersInv
  <1>2. Later(p) = [answer[p] EXCEPT !.since = since, !.left = left]
    BY DEF Later
  <1>3. LimitOf(p) + DefaultLimit + Margin + 1 \in Nat
    BY LimitsAreNat, TimersAssumption
  <1>4. since \in Int /\ since <= answer[p].since + 1 /\ since >= -1
        /\ (since = -1 => answer[p].since = -1)
        /\ (answer[p].at = "sent" => since = answer[p].since)
    BY <1>1, <1>3 DEF Aged, AnswerTasks
  <1>5. left \in Int
    BY <1>1 DEF AnswerTasks
  <1> HIDE DEF since, left
  <1>6. /\ Later(p) \in AnswerTasks
        /\ Later(p).at = answer[p].at /\ Later(p).lag = answer[p].lag
        /\ Later(p).by = answer[p].by
        /\ Later(p).left = left /\ Later(p).since = since
    BY <1>1, <1>2, <1>4, <1>5 DEF AnswerTasks
  <1> QED BY <1>4, <1>6 DEF left

LEMMA TickAnswers == ASSUME AnswersInv, Tick PROVE AnswersInv'
  <1>1. answer' = [p \in Problems |-> Later(p)]
    BY DEF Tick
  <1>2. \A p \in Problems : answer[p].at = "waiting" => answer[p].left # 0
    BY DEF Tick, Urgent
  <1>3. answer' \in [Problems -> AnswerTasks]
    BY <1>1, LaterIs
  <1>4. ASSUME NEW p \in Problems
        PROVE  /\ answer'[p].since >= -1
               /\ answer'[p].since = -1 => answer'[p].lag = -1
               /\ answer'[p].at = "waiting" => answer'[p].left >= 0 /\ InTime(p)'
               /\ answer'[p].at = "sent" => answer'[p].left = 0 /\ InTime(p)'
    <2>1. answer'[p] = Later(p)
      BY <1>1
    <2>2. answer[p].since \in Int /\ answer[p].left \in Int /\ answer[p].lag \in Int
          /\ Later(p).since \in Int
      BY LaterIs DEF AnswersInv, AnswerTasks
    <2>3. answer'[p].since >= -1 /\ (answer'[p].since = -1 => answer'[p].lag = -1)
      BY <2>1, LaterIs DEF AnswersInv
    <2>4. CASE answer[p].at = "waiting"
      <3>1. answer[p].left >= 0 /\ answer[p].left # 0 /\ InTime(p)
        BY <1>2, <2>4 DEF AnswersInv
      <3>2. /\ answer'[p].at = "waiting" /\ answer'[p].lag = answer[p].lag
            /\ answer'[p].left = answer[p].left - 1
            /\ answer'[p].since <= answer[p].since + 1
        BY <2>1, <2>4, LaterIs
      <3>a. LimitGiven(p)' = LimitGiven(p) /\ LimitGiven(p) \in Nat
        BY <2>1, LaterIs, LimitsAreNat DEF LimitGiven, GivenLimit, LimitOf
      <3>3. InTime(p)'
        BY <2>1, <2>2, <3>1, <3>2, <3>a, TimersAssumption DEF InTime
      <3> QED BY <2>2, <2>3, <3>1, <3>2, <3>3
    <2>5. CASE answer[p].at = "sent"
      <3>1. answer[p].left = 0 /\ InTime(p)
        BY <2>5 DEF AnswersInv
      <3>2. /\ answer'[p].at = "sent" /\ answer'[p].lag = answer[p].lag
            /\ answer'[p].left = answer[p].left /\ answer'[p].since = answer[p].since
        BY <2>1, <2>5, LaterIs
      <3>a. LimitGiven(p)' = LimitGiven(p)
        BY <2>1, LaterIs DEF LimitGiven, GivenLimit, LimitOf
      <3> QED BY <2>3, <3>1, <3>2, <3>a DEF InTime
    <2>6. CASE answer[p].at \in {"unmet", "claimed"}
      BY <2>1, <2>3, <2>6, LaterIs
    <2> QED BY <2>4, <2>5, <2>6 DEF AnswersInv, AnswerTasks
  <1> QED BY <1>3, <1>4 DEF AnswersInv

LEMMA AnswersStep == ASSUME AnswersInv, [Next]_vars PROVE AnswersInv'
  <1>1. CASE Connects
    BY <1>1, ConnectAnswers
  <1>2. CASE \E p \in Problems : TakesProblem(p)
    BY <1>2, ProblemAnswers
  <1>3. CASE Tick
    BY <1>3, TickAnswers
  <1>4. ASSUME NEW q \in Problems, Publish(q) PROVE AnswersInv'
    <2>1. answer' = [answer EXCEPT ![q].since = 0] /\ answer[q].since = -1
      BY <1>4 DEF Publish
    <2>2. answer' \in [Problems -> AnswerTasks]
      BY <2>1 DEF AnswersInv, AnswerTasks
    <2>3. ASSUME NEW p \in Problems
          PROVE  /\ answer'[p].since >= -1
                 /\ answer'[p].since = -1 => answer'[p].lag = -1
                 /\ answer'[p].at = "waiting" => answer'[p].left >= 0 /\ InTime(p)'
                 /\ answer'[p].at = "sent" => answer'[p].left = 0 /\ InTime(p)'
      <3>1. CASE p = q
        BY <2>1, <3>1, LimitsAreNat DEF AnswersInv, AnswerTasks, InTime, LimitGiven
      <3>2. CASE p # q
        <4>1. answer'[p] = answer[p]
          BY <2>1, <3>2 DEF AnswersInv
        <4> QED BY <4>1 DEF AnswersInv, InTime, LimitGiven, GivenLimit, LimitOf
      <3> QED BY <3>1, <3>2
    <2> QED BY <2>2, <2>3 DEF AnswersInv
  <1>5. ASSUME NEW q \in Problems, Submits(q) PROVE AnswersInv'
    BY <1>5 DEF Submits, AnswersInv, AnswerTasks, InTime, LimitGiven, GivenLimit, LimitOf
  <1>6. CASE UNCHANGED answer
    BY <1>6 DEF AnswersInv, InTime, LimitGiven, GivenLimit, LimitOf
  <1>7. CASE \/ \E m \in Messages : Receive(m)
             \/ GoesAway
             \/ \E s \in Slides : TakesSlide(s)
             \/ TimerReports \/ TimerSkips \/ ReportSucceeds \/ ReportFails
             \/ \E c \in Contents : TakesDanmu(c)
             \/ UNCHANGED vars
    <2>1. UNCHANGED answer
      BY <1>7 DEF Receive, GoesAway, TakesSlide, TimerReports, TimerSkips, ReportSucceeds,
         ReportFails, TakesDanmu, vars
    <2> QED BY <2>1, <1>6
  <1> QED BY <1>1, <1>2, <1>3, <1>4, <1>5, <1>7 DEF Next

\* An answer to a problem that was met soon after it was published is submitted
\* within the limit its task went by, the problem's own if it was met on the slides
\* and the default if on the stream, for all limits and whatever the sample.
THEOREM AnswersInTime == Spec => []SubmitsInTime
  <1>1. Init => AnswersInv
    BY AnswersInit
  <1>2. AnswersInv /\ [Next]_vars => AnswersInv'
    BY AnswersStep
  <1>3. AnswersInv => SubmitsInTime
    <2> SUFFICES ASSUME AnswersInv, NEW p \in Problems, answer[p].at = "sent",
                        0 <= answer[p].lag, answer[p].lag <= Margin,
                        answer[p].lag <= LimitGiven(p)
                 PROVE  answer[p].since <= LimitGiven(p)
      BY DEF SubmitsInTime, LimitGiven
    <2>1. answer[p].left = 0 /\ answer[p].since \in Int /\ InTime(p)
      BY DEF AnswersInv, AnswerTasks
    <2> QED BY <2>1 DEF InTime
  <1> QED BY <1>1, <1>2, <1>3, PTL DEF Spec

-----------------------------------------------------------------------------
(* Danmus.                                                                 *)

Entries == [age : Nat, replied : BOOLEAN]

\* The queue has the older entries first.
Falling(ages) == \A i, j \in 1 .. Len(ages) : i <= j => ages[i] >= ages[j]

\* As far as a cooldown lasts, it is that of a reply in the log, and nothing is
\* counted.
CooldownKept(ages, since, entries) ==
    /\ since <= Cooldown
    /\ since < Cooldown =>
          /\ Len(ages) = 0
          /\ \E j \in 1 .. Len(entries) : entries[j].replied /\ entries[j].age = since
    /\ \A j \in 1 .. Len(entries) : entries[j].replied => since <= entries[j].age

\* What is k places from the back of the queue counts.
CountedAt(ages, k) == k < Len(ages) /\ ages[Len(ages) - k] <= Window

\* The i-th danmu of the log came after every reply and its cooldown.
Unspent(entries, i) ==
    \A j \in 1 .. Len(entries) : entries[j].replied =>
       i > j /\ entries[j].age - entries[i].age >= Cooldown

\* What is k places from the back of the log is evidence for a reply to come.
EvidenceAt(entries, k) ==
    /\ k < Len(entries)
    /\ entries[Len(entries) - k].age <= Window
    /\ Unspent(entries, Len(entries) - k)

\* Place by place from the back, the queue holds the evidence.
Matches(ages, entries) ==
    \A k \in Nat :
       /\ CountedAt(ages, k) <=> EvidenceAt(entries, k)
       /\ CountedAt(ages, k) => ages[Len(ages) - k] = entries[Len(entries) - k].age

\* What is counted and remembered of one text, and what has become of its danmus.
TextInv(ages, since, entries) ==
    /\ ages \in Seq(Nat) /\ since \in Nat /\ entries \in Seq(Entries)
    /\ Falling(ages)
    /\ CooldownKept(ages, since, entries)
    /\ Matches(ages, entries)
    /\ Justified(entries)

\* A set of numbers has a least one.
LEMMA LeastNumber ==
  ASSUME NEW T \in SUBSET Nat, T # {}
  PROVE  \E x \in T : \A y \in T : x <= y
  <1> DEFINE Less == {pair \in Nat \X Nat : pair[1] < pair[2]}
  <1>1. IsWellFoundedOn(Less, Nat)
    BY NatLessThanWellFounded DEF OpToRel
  <1>2. \A x, y \in Nat : y < x => <<y, x>> \in Less
    OBVIOUS
  <1> HIDE DEF Less
  <1>3. \E x \in T : \A y \in T : ~ (<<y, x>> \in Less)
    BY <1>1, WFMin
  <1>4. PICK x \in T : \A y \in T : ~ (<<y, x>> \in Less)
    BY <1>3
  <1>5. ASSUME NEW y \in T
        PROVE  x <= y
    <2>1. ~(y < x)
      BY <1>2, <1>4
    <2> QED BY <2>1
  <1> QED BY <1>5

\* FirstWithin finds the place that it is to find.
LEMMA FirstWithinIs ==
  ASSUME NEW ages \in Seq(Nat), NEW max \in Nat
  PROVE  /\ FirstWithin(ages, max) \in 1 .. Len(ages) + 1
         /\ \A i \in 1 .. FirstWithin(ages, max) - 1 : ages[i] > max
         /\ FirstWithin(ages, max) <= Len(ages) => ages[FirstWithin(ages, max)] <= max
  <1> DEFINE Young == {i \in 1 .. Len(ages) : ages[i] <= max}
  <1>1. \E k \in 1 .. Len(ages) + 1 : /\ \A i \in 1 .. k - 1 : ages[i] > max
                                      /\ k <= Len(ages) => ages[k] <= max
    <2>1. CASE Young = {}
      <3>1. \A i \in 1 .. Len(ages) : ages[i] > max
        BY <2>1
      <3> WITNESS Len(ages) + 1 \in 1 .. Len(ages) + 1
      <3> QED BY <3>1
    <2>2. CASE Young # {}
      <3>1. Young \in SUBSET Nat
        OBVIOUS
      <3> HIDE DEF Young
      <3>2. \E k \in Young : \A i \in Young : k <= i
        BY <2>2, <3>1, LeastNumber
      <3> USE DEF Young
      <3>3. PICK k \in Young : \A i \in Young : k <= i
        BY <3>2
      <3>4. \A i \in 1 .. k - 1 : ages[i] > max
        BY <3>3
      <3> WITNESS k \in 1 .. Len(ages) + 1
      <3> QED BY <3>3, <3>4
    <2> QED BY <2>1, <2>2
  <1> QED BY <1>1 DEF FirstWithin

LEMMA FcnIsSeq ==
  ASSUME NEW n \in Nat, NEW S, NEW f \in [1 .. n -> S]
  PROVE  f \in Seq(S) /\ Len(f) = n
  <1>1. f \in Seq(S)
    BY SeqDef
  <1> QED BY <1>1

LEMMA TimesAreNat == Window \in Nat /\ Cooldown \in Nat \ {0} /\ Threshold \in Nat \ {0}
  BY TimersAssumption

\* Recent drops d ages from the front, all those outside of the window.
LEMMA RecentIs ==
  ASSUME NEW ages \in Seq(Nat), Falling(ages)
  PROVE  \E d \in 0 .. Len(ages) :
            /\ Recent(ages) \in Seq(Nat)
            /\ Len(Recent(ages)) = Len(ages) - d
            /\ \A i \in 1 .. Len(ages) - d : Recent(ages)[i] = ages[i + d]
            /\ \A i \in 1 .. d : ages[i] > Window
            /\ \A i \in d + 1 .. Len(ages) : ages[i] <= Window
  <1> DEFINE k == FirstWithin(ages, Window)
  <1>1. /\ k \in 1 .. Len(ages) + 1
        /\ \A i \in 1 .. k - 1 : ages[i] > Window
        /\ k <= Len(ages) => ages[k] <= Window
    BY FirstWithinIs, TimersAssumption
  <1>2. Recent(ages) = SubSeq(ages, k, Len(ages))
    BY DEF Recent
  <1> HIDE DEF k
  <1>3. /\ Recent(ages) \in Seq(Nat) /\ Len(Recent(ages)) = Len(ages) - (k - 1)
        /\ \A i \in 1 .. Len(ages) - (k - 1) : Recent(ages)[i] = ages[i + (k - 1)]
    BY <1>1, <1>2
  <1>4. \A i \in (k - 1) + 1 .. Len(ages) : ages[i] <= Window
    <2> TAKE i \in (k - 1) + 1 .. Len(ages)
    <2>1. k \in 1 .. Len(ages) /\ i \in 1 .. Len(ages) /\ k <= i
      BY <1>1
    <2>2. ages[k] >= ages[i] /\ ages[k] \in Nat /\ ages[i] \in Nat
      BY <2>1 DEF Falling
    <2> QED BY <1>1, <2>1, <2>2, TimesAreNat
  <1>5. k - 1 \in 0 .. Len(ages)
    BY <1>1
  <1> DEFINE d == k - 1
  <1>6. /\ d \in 0 .. Len(ages) /\ Recent(ages) \in Seq(Nat)
        /\ Len(Recent(ages)) = Len(ages) - d
        /\ \A i \in 1 .. Len(ages) - d : Recent(ages)[i] = ages[i + d]
        /\ \A i \in 1 .. d : ages[i] > Window
        /\ \A i \in d + 1 .. Len(ages) : ages[i] <= Window
    BY <1>1, <1>3, <1>4, <1>5
  <1> QED BY <1>6

\* Older forgets d danmus from the front, none but those that are too old to matter.
LEMMA OlderIs ==
  ASSUME NEW entries \in Seq(Entries)
  PROVE  \E d \in 0 .. Len(entries) :
            /\ Older(entries) \in Seq(Entries)
            /\ Len(Older(entries)) = Len(entries) - d
            /\ \A i \in 1 .. Len(entries) - d :
                  /\ Older(entries)[i].age = entries[i + d].age + 1
                  /\ Older(entries)[i].replied = entries[i + d].replied
            /\ \A i \in 1 .. d : entries[i].age + 1 > Window + Cooldown
  <1> DEFINE ages == [i \in 1 .. Len(entries) |-> entries[i].age + 1]
             k == FirstWithin(ages, Window + Cooldown)
             older == [i \in 1 .. Len(entries) - k + 1 |->
                         [age |-> ages[i + k - 1], replied |-> entries[i + k - 1].replied]]
  <1>1. /\ ages \in Seq(Nat) /\ Len(ages) = Len(entries)
        /\ \A i \in 1 .. Len(entries) : ages[i] = entries[i].age + 1
    <2>1. \A i \in 1 .. Len(entries) : entries[i] \in Entries
      OBVIOUS
    <2>2. ages \in [1 .. Len(entries) -> Nat] /\ Len(entries) \in Nat
      BY <2>1 DEF Entries
    <2>3. \A i \in 1 .. Len(entries) : ages[i] = entries[i].age + 1
      OBVIOUS
    <2> HIDE DEF ages
    <2> QED BY <2>2, <2>3, FcnIsSeq
  <1>2. Older(entries) = older
    BY DEF Older
  <1>3. Window + Cooldown \in Nat
    BY TimersAssumption
  <1> HIDE DEF ages
  <1>4. /\ k \in 1 .. Len(entries) + 1
        /\ \A i \in 1 .. k - 1 : ages[i] > Window + Cooldown
    BY <1>1, <1>3, FirstWithinIs
  <1> HIDE DEF k
  <1>5. ASSUME NEW i \in 1 .. Len(entries) - k + 1
        PROVE  /\ older[i] \in Entries
               /\ older[i].age = entries[i + (k - 1)].age + 1
               /\ older[i].replied = entries[i + (k - 1)].replied
    <2>1. i + k - 1 \in 1 .. Len(entries) /\ i + k - 1 = i + (k - 1)
      BY <1>4
    <2>2. entries[i + k - 1] \in Entries /\ ages[i + k - 1] = entries[i + k - 1].age + 1
      BY <1>1, <2>1
    <2> QED BY <2>1, <2>2 DEF Entries
  <1>6. older \in Seq(Entries) /\ Len(older) = Len(entries) - (k - 1)
    <2>1. Len(entries) - k + 1 \in Nat
      BY <1>4
    <2>2. older \in [1 .. Len(entries) - k + 1 -> Entries]
      BY <1>5
    <2>3. Len(entries) - k + 1 = Len(entries) - (k - 1)
      BY <1>4
    <2> HIDE DEF older
    <2> QED BY <2>1, <2>2, <2>3, FcnIsSeq
  <1> HIDE DEF older
  <1> DEFINE d == k - 1
  <1>7. d \in 0 .. Len(entries) /\ Len(entries) - k + 1 = Len(entries) - d
    BY <1>4
  <1>8. \A i \in 1 .. d : entries[i].age + 1 > Window + Cooldown
    BY <1>1, <1>4
  <1>9. \A i \in 1 .. Len(entries) - d :
           /\ Older(entries)[i].age = entries[i + d].age + 1
           /\ Older(entries)[i].replied = entries[i + d].replied
    BY <1>2, <1>5, <1>7
  <1>10. Older(entries) \in Seq(Entries) /\ Len(Older(entries)) = Len(entries) - d
    BY <1>2, <1>6
  <1> HIDE DEF d
  <1> QED BY <1>7, <1>8, <1>9, <1>10

\* The log with a danmu more.
LEMMA LogNext ==
  ASSUME NEW entries \in Seq(Entries), NEW e \in Entries, e.age = 0, NEW new,
         new = Append(entries, e)
  PROVE  /\ new \in Seq(Entries) /\ Len(new) = Len(entries) + 1
         /\ new[Len(new)].age = 0 /\ new[Len(new)] = e
         /\ \A i \in 1 .. Len(entries) : /\ new[i] = entries[i]
                                         /\ new[i] \in Entries
  OBVIOUS

\* The evidence for the danmu that has just been handled: itself, unless a cooldown
\* swallows it, and the danmus unspent so far.
LEMMA EvidenceNext ==
  ASSUME NEW entries \in Seq(Entries), NEW e \in Entries, e.age = 0, NEW new,
         new = Append(entries, e)
  PROVE  /\ Evidence(new) \subseteq 1 .. Len(new)
         /\ Len(new) \in Evidence(new)
               <=> \A j \in 1 .. Len(entries) :
                      entries[j].replied => entries[j].age >= Cooldown
         /\ \A i \in 1 .. Len(entries) :
               i \in Evidence(new) <=> entries[i].age <= Window /\ Unspent(entries, i)
  <1>1. /\ Len(new) = Len(entries) + 1 /\ new[Len(new)].age = 0
        /\ \A i \in 1 .. Len(entries) : new[i] = entries[i] /\ new[i] \in Entries
    BY LogNext
  <1>2. Evidence(new) \subseteq 1 .. Len(new)
    BY DEF Evidence
  <1>3. Len(new) - 1 = Len(entries) /\ Len(entries) \in Nat
    BY <1>1
  <1>4. \A i \in 1 .. Len(new) :
           i \in Evidence(new) <=>
              /\ new[i].age <= Window
              /\ \A j \in 1 .. Len(entries) : new[j].replied =>
                    i > j /\ new[j].age - new[i].age >= Cooldown
    BY <1>3 DEF Evidence
  <1>5. \A j \in 1 .. Len(entries) : entries[j].age \in Nat
    BY <1>1 DEF Entries
  <1>6. Len(new) \in Evidence(new)
           <=> \A j \in 1 .. Len(entries) : entries[j].replied => entries[j].age >= Cooldown
    BY <1>1, <1>3, <1>4, <1>5, TimesAreNat
  <1>7. ASSUME NEW i \in 1 .. Len(entries)
        PROVE  i \in Evidence(new) <=> entries[i].age <= Window /\ Unspent(entries, i)
    BY <1>1, <1>3, <1>4 DEF Unspent
  <1> QED BY <1>2, <1>6, <1>7

\* The queue with a danmu more, as far as it is within the window.
LEMMA QueueNext ==
  ASSUME NEW ages \in Seq(Nat), Falling(ages)
  PROVE  \E d \in 0 .. Len(ages) :
            /\ Recent(Append(ages, 0)) \in Seq(Nat)
            /\ Len(Recent(Append(ages, 0))) = Len(ages) + 1 - d
            /\ Recent(Append(ages, 0))[Len(ages) + 1 - d] = 0
            /\ \A i \in 1 .. Len(ages) - d : Recent(Append(ages, 0))[i] = ages[i + d]
            /\ \A i \in 1 .. d : ages[i] > Window
            /\ \A i \in d + 1 .. Len(ages) : ages[i] <= Window
  <1> DEFINE new == Append(ages, 0)
  <1>1. /\ new \in Seq(Nat) /\ Len(new) = Len(ages) + 1 /\ new[Len(ages) + 1] = 0
        /\ \A i \in 1 .. Len(ages) : new[i] = ages[i] /\ ages[i] \in Nat
    OBVIOUS
  <1> HIDE DEF new
  <1>2. Falling(new)
    <2> SUFFICES ASSUME NEW i \in 1 .. Len(new), NEW j \in 1 .. Len(new), i <= j
                 PROVE  new[i] >= new[j]
      BY DEF Falling
    <2>1. i \in 1 .. Len(ages) + 1 /\ j \in 1 .. Len(ages) + 1 /\ Len(ages) \in Nat
      BY <1>1
    <2>2. \A k \in 1 .. Len(ages) + 1 : new[k] \in Nat
      BY <1>1
    <2>3. CASE j \in 1 .. Len(ages)
      <3>1. i \in 1 .. Len(ages)
        BY <2>1, <2>3
      <3> QED BY <2>3, <3>1, <1>1 DEF Falling
    <2>4. CASE j = Len(ages) + 1
      BY <2>1, <2>2, <2>4, <1>1
    <2> QED BY <2>1, <2>3, <2>4
  <1>3. PICK d \in 0 .. Len(new) :
            /\ Recent(new) \in Seq(Nat)
            /\ Len(Recent(new)) = Len(new) - d
            /\ \A i \in 1 .. Len(new) - d : Recent(new)[i] = new[i + d]
            /\ \A i \in 1 .. d : new[i] > Window
            /\ \A i \in d + 1 .. Len(new) : new[i] <= Window
    BY <1>1, <1>2, RecentIs
  <1>4. d \in 0 .. Len(ages)
    BY <1>1, <1>3, TimesAreNat
  <1>5. /\ Len(Recent(new)) = Len(ages) + 1 - d
        /\ Recent(new)[Len(ages) + 1 - d] = 0
        /\ \A i \in 1 .. Len(ages) - d : Recent(new)[i] = ages[i + d]
        /\ \A i \in 1 .. d : ages[i] > Window
        /\ \A i \in d + 1 .. Len(ages) : ages[i] <= Window
    <2>1. Len(new) - d \in 1 .. Len(new) - d /\ Len(new) - d = Len(ages) + 1 - d
      BY <1>1, <1>4
    <2>2. Recent(new)[Len(new) - d] = new[(Len(new) - d) + d] /\ (Len(new) - d) + d = Len(ages) + 1
      <3>1. Recent(new)[Len(new) - d] = new[(Len(new) - d) + d]
        BY <1>3, <2>1
      <3>2. (Len(new) - d) + d = Len(ages) + 1
        BY <1>1, <1>4
      <3> QED BY <3>1, <3>2
    <2>3. ASSUME NEW i \in 1 .. Len(ages) - d
          PROVE  Recent(new)[i] = ages[i + d]
      <3>1. i \in 1 .. Len(new) - d /\ i + d \in 1 .. Len(ages)
        BY <1>1, <1>4
      <3> QED BY <3>1, <1>1, <1>3
    <2>4. /\ \A i \in 1 .. d : ages[i] > Window
          /\ \A i \in d + 1 .. Len(ages) : ages[i] <= Window
      <3>1. ASSUME NEW i \in 1 .. d
            PROVE  ages[i] > Window
        <4>1. i \in 1 .. Len(ages)
          BY <1>4
        <4> QED BY <4>1, <1>1, <1>3
      <3>2. ASSUME NEW i \in d + 1 .. Len(ages)
            PROVE  ages[i] <= Window
        <4>1. i \in 1 .. Len(ages) /\ i \in d + 1 .. Len(new)
          BY <1>1, <1>4
        <4> QED BY <4>1, <1>1, <1>3
      <3> QED BY <3>1, <3>2
    <2>5. Recent(new)[Len(ages) + 1 - d] = 0
      BY <1>1, <2>1, <2>2
    <2> QED BY <1>1, <1>3, <2>3, <2>4, <2>5
  <1> QED BY <1>3, <1>4, <1>5 DEF new

\* Out of the cooldown, the queue counts the evidence.
LEMMA CountIs ==
  ASSUME NEW ages, NEW since, NEW entries, TextInv(ages, since, entries),
         since >= Cooldown, NEW e \in Entries, e.age = 0, NEW new,
         new = Append(entries, e)
  PROVE  /\ Len(new) \in Evidence(new)
         /\ Cardinality(Evidence(new)) = Len(Recent(Append(ages, 0)))
  <1>1. /\ ages \in Seq(Nat) /\ entries \in Seq(Entries) /\ Falling(ages)
        /\ Matches(ages, entries) /\ since \in Nat
        /\ \A j \in 1 .. Len(entries) : entries[j].replied => since <= entries[j].age
    BY DEF TextInv, CooldownKept
  <1>2. /\ Evidence(new) \subseteq 1 .. Len(new)
        /\ \A i \in 1 .. Len(entries) :
              i \in Evidence(new) <=> entries[i].age <= Window /\ Unspent(entries, i)
    BY <1>1, EvidenceNext
  <1>3. \A j \in 1 .. Len(entries) : entries[j].age \in Nat
    <2>1. \A j \in 1 .. Len(entries) : entries[j] \in Entries
      BY <1>1
    <2> QED BY <2>1 DEF Entries
  <1>4. Len(new) \in Evidence(new)
    <2>1. \A j \in 1 .. Len(entries) : entries[j].replied => entries[j].age >= Cooldown
      BY <1>1, <1>3, TimesAreNat
    <2> QED BY <2>1, <1>1, EvidenceNext
  <1>5. Len(new) = Len(entries) + 1 /\ Len(entries) \in Nat /\ Len(ages) \in Nat
    BY <1>1, LogNext
  <1>6. PICK d \in 0 .. Len(ages) :
            /\ Len(Recent(Append(ages, 0))) = Len(ages) + 1 - d
            /\ \A i \in 1 .. d : ages[i] > Window
            /\ \A i \in d + 1 .. Len(ages) : ages[i] <= Window
    BY <1>1, QueueNext
  <1> DEFINE count == Len(ages) + 1 - d
             first == Len(new) - count + 1
  <1>7. \A k \in Nat : CountedAt(ages, k) <=> k < Len(ages) - d
    <2> TAKE k \in Nat
    <2>1. CASE k < Len(ages)
      <3>1. Len(ages) - k \in 1 .. Len(ages) /\ ages[Len(ages) - k] \in Nat
        BY <1>1, <2>1
      <3> QED BY <3>1, <1>6, <2>1, TimesAreNat DEF CountedAt
    <2>2. CASE ~(k < Len(ages))
      BY <2>2, <1>5 DEF CountedAt
    <2> QED BY <2>1, <2>2
  <1>8. \A k \in Nat : EvidenceAt(entries, k) <=> k < Len(ages) - d
    BY <1>1, <1>7 DEF Matches
  <1>9. ASSUME NEW i \in 1 .. Len(entries)
        PROVE  i \in Evidence(new) <=> i >= first
    <2>1. Len(entries) - i \in Nat /\ Len(entries) - i < Len(entries)
          /\ Len(entries) - (Len(entries) - i) = i
      BY <1>5
    <2>2. i \in Evidence(new) <=> EvidenceAt(entries, Len(entries) - i)
      BY <1>2, <2>1 DEF EvidenceAt
    <2>3. i \in Evidence(new) <=> Len(entries) - i < Len(ages) - d
      BY <1>8, <2>1, <2>2
    <2> QED BY <2>3, <1>5
  <1>10. first \in Int /\ first >= 1
    <2>1. CASE Len(ages) - d = 0
      BY <2>1, <1>5
    <2>2. CASE Len(ages) - d # 0
      <3>1. Len(ages) - d - 1 \in Nat
        BY <2>2, <1>5
      <3>2. Len(ages) - d - 1 < Len(entries)
        BY <3>1, <1>8 DEF EvidenceAt
      <3> QED BY <3>1, <3>2, <1>5
    <2> QED BY <2>1, <2>2
  <1>11. Evidence(new) = first .. Len(new)
    <2>1. ASSUME NEW i \in 1 .. Len(new)
          PROVE  i \in Evidence(new) <=> i >= first
      <3>1. CASE i = Len(new)
        BY <3>1, <1>4, <1>5, <1>6
      <3>2. CASE i # Len(new)
        <4>1. i \in 1 .. Len(entries)
          BY <3>2, <1>5
        <4> QED BY <4>1, <1>9
      <3> QED BY <3>1, <3>2
    <2> HIDE DEF first
    <2>2. \A i : i \in 1 .. Len(new) /\ i >= first <=> i \in first .. Len(new)
      BY <1>5, <1>10
    <2> QED BY <2>1, <2>2, <1>2
  <1>12. Cardinality(Evidence(new)) = count
    <2>1. first <= Len(new) /\ Len(new) \in Int /\ Len(new) - first + 1 = count
      BY <1>5, <1>6
    <2> HIDE DEF first, count
    <2> QED BY <2>1, <1>10, <1>11, FS_Interval
  <1> QED BY <1>4, <1>6, <1>12

\* In the cooldown a danmu is neither counted nor replied to.
LEMMA SwallowedKeeps ==
  ASSUME NEW ages, NEW since, NEW entries, TextInv(ages, since, entries),
         since < Cooldown
  PROVE  TextInv(ages, since, Append(entries, [age |-> 0, replied |-> FALSE]))
  <1> DEFINE new == Append(entries, [age |-> 0, replied |-> FALSE])
             e == [age |-> 0, replied |-> FALSE]
  <1>0. new = Append(entries, e) /\ e \in Entries /\ e.age = 0 /\ e.replied = FALSE
    BY DEF Entries
  <1> HIDE DEF new, e
  <1>1. /\ ages \in Seq(Nat) /\ since \in Nat /\ entries \in Seq(Entries) /\ Falling(ages)
        /\ CooldownKept(ages, since, entries) /\ Len(ages) = 0
    BY DEF TextInv, CooldownKept
  <1>2. PICK j \in 1 .. Len(entries) : entries[j].replied /\ entries[j].age = since
    BY DEF TextInv, CooldownKept
  <1>3. /\ new \in Seq(Entries) /\ Len(new) = Len(entries) + 1 /\ Len(entries) \in Nat
        /\ new[Len(new)].age = 0 /\ new[Len(new)].replied = FALSE
        /\ \A i \in 1 .. Len(entries) : new[i] = entries[i]
    BY <1>0, <1>1, LogNext
  <1>4. Len(new) \notin Evidence(new)
    <2>1. since \in Nat /\ ~(entries[j].age >= Cooldown)
      BY <1>1, <1>2, TimesAreNat
    <2> QED BY <1>0, <1>1, <1>2, <2>1, EvidenceNext
  <1>5. \A i \in 1 .. Len(new) : new[i].age \in Nat
    <2>1. \A i \in 1 .. Len(new) : new[i] \in Entries
      BY <1>3
    <2> QED BY <2>1 DEF Entries
  <1>6. CooldownKept(ages, since, new)
    <2>1. j \in 1 .. Len(new) /\ new[j].replied /\ new[j].age = since
      BY <1>2, <1>3
    <2>2. ASSUME NEW i \in 1 .. Len(new), new[i].replied
          PROVE  since <= new[i].age
      <3>1. i \in 1 .. Len(entries)
        BY <1>3, <2>2
      <3> QED BY <3>1, <1>1, <1>3, <2>2 DEF CooldownKept
    <2> QED BY <1>1, <2>1, <2>2 DEF CooldownKept
  <1>7. Matches(ages, new)
    <2> SUFFICES ASSUME NEW k \in Nat
                 PROVE  ~CountedAt(ages, k) /\ ~EvidenceAt(new, k)
      BY DEF Matches
    <2>1. ~CountedAt(ages, k)
      BY <1>1 DEF CountedAt
    <2>2. ASSUME k < Len(new), Unspent(new, Len(new) - k)
          PROVE  FALSE
      <3>1. Len(new) - k \in 1 .. Len(new) /\ j \in 1 .. Len(new) /\ new[j] = entries[j]
        BY <1>3, <2>2
      <3>2. new[j].age - new[Len(new) - k].age >= Cooldown
        BY <1>2, <2>2, <3>1 DEF Unspent
      <3> QED BY <1>1, <1>2, <1>5, <3>1, <3>2, TimesAreNat
    <2> QED BY <2>1, <2>2 DEF EvidenceAt
  <1>8. Justified(new)
    BY <1>3, <1>4 DEF Justified
  <1> QED BY <1>1, <1>3, <1>6, <1>7, <1>8 DEF TextInv, new, e

\* Out of the cooldown it is replied to if enough have been counted, and all that has
\* been counted is spent.
LEMMA RepliedKeeps ==
  ASSUME NEW ages, NEW since, NEW entries, TextInv(ages, since, entries),
         since >= Cooldown, Len(Recent(Append(ages, 0))) >= Threshold
  PROVE  TextInv(<<>>, 0, Append(entries, [age |-> 0, replied |-> TRUE]))
  <1> DEFINE new == Append(entries, [age |-> 0, replied |-> TRUE])
             e == [age |-> 0, replied |-> TRUE]
  <1>0. new = Append(entries, e) /\ e \in Entries /\ e.age = 0 /\ e.replied = TRUE
    BY DEF Entries
  <1> HIDE DEF new, e
  <1>1. entries \in Seq(Entries) /\ <<>> \in Seq(Nat) /\ 0 \in Nat /\ Len(<<>>) = 0
    BY DEF TextInv
  <1>2. /\ new \in Seq(Entries) /\ Len(new) = Len(entries) + 1 /\ Len(entries) \in Nat
        /\ new[Len(new)].age = 0 /\ new[Len(new)].replied = TRUE
    BY <1>0, <1>1, LogNext
  <1>3. Len(new) \in Evidence(new) /\ Cardinality(Evidence(new)) >= Threshold
    BY <1>0, CountIs
  <1>4. \A i \in 1 .. Len(new) : new[i].age \in Nat
    <2>1. \A i \in 1 .. Len(new) : new[i] \in Entries
      BY <1>2
    <2> QED BY <2>1 DEF Entries
  <1>5. CooldownKept(<<>>, 0, new)
    <2>1. Len(new) \in 1 .. Len(new)
      BY <1>2
    <2> QED BY <1>2, <1>4, <2>1, TimesAreNat DEF CooldownKept
  <1>6. Matches(<<>>, new)
    <2> SUFFICES ASSUME NEW k \in Nat
                 PROVE  ~CountedAt(<<>>, k) /\ ~EvidenceAt(new, k)
      BY DEF Matches
    <2>1. ~(Len(new) - k > Len(new)) /\ Len(new) \in 1 .. Len(new)
      BY <1>2
    <2>2. ~Unspent(new, Len(new) - k)
      BY <1>2, <2>1 DEF Unspent
    <2> QED BY <2>2 DEF CountedAt, EvidenceAt
  <1>7. Justified(new)
    BY <1>2, <1>3 DEF Justified
  <1>8. Falling(<<>>)
    BY DEF Falling
  <1> QED BY <1>1, <1>2, <1>5, <1>6, <1>7, <1>8 DEF TextInv, new, e

\* Or else it is counted.
LEMMA CountedKeeps ==
  ASSUME NEW ages, NEW since, NEW entries, TextInv(ages, since, entries),
         since >= Cooldown, ~(Len(Recent(Append(ages, 0))) >= Threshold)
  PROVE  TextInv(Recent(Append(ages, 0)), since,
                 Append(entries, [age |-> 0, replied |-> FALSE]))
  <1> DEFINE new == Append(entries, [age |-> 0, replied |-> FALSE])
             queue == Recent(Append(ages, 0))
             e == [age |-> 0, replied |-> FALSE]
  <1>0. new = Append(entries, e) /\ e \in Entries /\ e.age = 0 /\ e.replied = FALSE
    BY DEF Entries
  <1> HIDE DEF new, e
  <1>1. /\ ages \in Seq(Nat) /\ since \in Nat /\ entries \in Seq(Entries) /\ Falling(ages)
        /\ CooldownKept(ages, since, entries) /\ Matches(ages, entries)
    BY DEF TextInv
  <1>2. /\ new \in Seq(Entries) /\ Len(new) = Len(entries) + 1 /\ Len(entries) \in Nat
        /\ new[Len(new)].age = 0 /\ new[Len(new)].replied = FALSE
        /\ \A i \in 1 .. Len(entries) : new[i] = entries[i] /\ new[i] \in Entries
    BY <1>0, <1>1, LogNext
  <1>3. Cardinality(Evidence(new)) = Len(queue)
    BY <1>0, CountIs
  <1>4. PICK d \in 0 .. Len(ages) :
            /\ queue \in Seq(Nat)
            /\ Len(queue) = Len(ages) + 1 - d
            /\ queue[Len(ages) + 1 - d] = 0
            /\ \A i \in 1 .. Len(ages) - d : queue[i] = ages[i + d]
            /\ \A i \in 1 .. d : ages[i] > Window
            /\ \A i \in d + 1 .. Len(ages) : ages[i] <= Window
    BY <1>1, QueueNext
  <1>5. /\ Len(ages) \in Nat /\ d \in Nat /\ d <= Len(ages)
        /\ Len(queue) = Len(ages) + 1 - d
    BY <1>1, <1>4
  <1>6. Justified(new)
    BY <1>2, <1>3 DEF Justified
  <1> HIDE DEF queue
  <1>7. Falling(queue)
    <2> SUFFICES ASSUME NEW i \in 1 .. Len(queue), NEW j \in 1 .. Len(queue), i <= j
                 PROVE  queue[i] >= queue[j]
      BY DEF Falling
    <2>0. queue \in Seq(Nat)
      BY <1>4
    <2>1. queue[i] \in Nat
      BY <2>0
    <2>2. CASE j = Len(queue)
      BY <1>4, <2>1, <2>2
    <2>3. CASE j # Len(queue)
      <3>1. /\ i \in 1 .. Len(ages) - d /\ j \in 1 .. Len(ages) - d
            /\ i + d \in 1 .. Len(ages) /\ j + d \in 1 .. Len(ages) /\ i + d <= j + d
        <4>1. i < Len(queue) /\ j < Len(queue) /\ Len(queue) = Len(ages) + 1 - d
          BY <1>5, <2>3
        <4> QED BY <4>1, <1>5
      <3> QED BY <3>1, <1>1, <1>4 DEF Falling
    <2> QED BY <2>2, <2>3
  <1>8. CooldownKept(queue, since, new)
    <2>1. ASSUME NEW i \in 1 .. Len(new), new[i].replied
          PROVE  since <= new[i].age
      <3>1. i \in 1 .. Len(entries)
        BY <1>2, <2>1
      <3> QED BY <3>1, <1>1, <1>2, <2>1 DEF CooldownKept
    <2>2. since <= Cooldown /\ ~(since < Cooldown)
      BY <1>1, TimesAreNat DEF CooldownKept
    <2> QED BY <2>1, <2>2 DEF CooldownKept
  <1>9. Matches(queue, new)
    <2> SUFFICES ASSUME NEW k \in Nat
                 PROVE  /\ CountedAt(queue, k) <=> EvidenceAt(new, k)
                        /\ CountedAt(queue, k) =>
                              queue[Len(queue) - k] = new[Len(new) - k].age
      BY DEF Matches
    <2>1. CASE k = 0
      <3>1. Len(queue) - 0 = Len(queue) /\ Len(new) - 0 = Len(new)
            /\ Len(queue) > 0 /\ Len(new) > 0 /\ queue[Len(queue)] = 0
        BY <1>2, <1>4, <1>5
      <3>2. CountedAt(queue, 0)
        BY <3>1, TimesAreNat DEF CountedAt
      <3>3. Len(new) \in Evidence(new)
        BY <1>0, CountIs
      <3>4. Unspent(new, Len(new))
        BY <3>3, <1>2, <3>1 DEF Evidence, Unspent
      <3>5. EvidenceAt(new, 0)
        BY <3>1, <3>4, <1>2, TimesAreNat DEF EvidenceAt
      <3> QED BY <2>1, <3>1, <3>2, <3>5, <1>2
    <2>2. CASE k # 0
      <3> DEFINE h == k - 1
      <3>1. /\ h \in Nat /\ k = h + 1 /\ Len(new) - k = Len(entries) - h
            /\ k < Len(new) <=> h < Len(entries)
        BY <2>2, <1>2
      <3> HIDE DEF h
      <3>2. CountedAt(queue, k) <=> h < Len(ages) - d
        <4>1. CASE k < Len(queue)
          <5>1. /\ Len(queue) - k \in 1 .. Len(ages) - d
                /\ (Len(queue) - k) + d \in d + 1 .. Len(ages) /\ h < Len(ages) - d
            BY <4>1, <2>2, <3>1, <1>5
          <5> QED BY <5>1, <4>1, <1>4 DEF CountedAt
        <4>2. CASE ~(k < Len(queue))
          BY <4>2, <2>2, <3>1, <1>5 DEF CountedAt
        <4> QED BY <4>1, <4>2
      <3>3. CountedAt(ages, h) <=> h < Len(ages) - d
        <4>1. CASE h < Len(ages)
          <5>1. Len(ages) - h \in 1 .. Len(ages) /\ ages[Len(ages) - h] \in Nat
            BY <4>1, <3>1, <1>1, <1>5
          <5>2. CASE h < Len(ages) - d
            <6>1. Len(ages) - h \in d + 1 .. Len(ages)
              BY <5>2, <3>1, <1>5
            <6> QED BY <6>1, <5>2, <4>1, <1>4 DEF CountedAt
          <5>3. CASE ~(h < Len(ages) - d)
            <6>1. Len(ages) - h \in 1 .. d
              BY <5>3, <4>1, <3>1, <1>5
            <6>2. ages[Len(ages) - h] > Window
              BY <6>1, <1>4
            <6> QED BY <6>2, <5>1, <5>3, TimesAreNat DEF CountedAt
          <5> QED BY <5>2, <5>3
        <4>2. CASE ~(h < Len(ages))
          BY <4>2, <3>1, <1>5 DEF CountedAt
        <4> QED BY <4>1, <4>2
      <3>4. EvidenceAt(new, k) <=> EvidenceAt(entries, h)
        <4>1. CASE h < Len(entries)
          <5>1. Len(entries) - h \in 1 .. Len(entries)
            BY <4>1, <3>1, <1>2
          <5>2. new[Len(entries) - h] = entries[Len(entries) - h]
            BY <5>1, <1>2
          <5>3. \A j \in 1 .. Len(new) : new[j].replied => j \in 1 .. Len(entries)
            BY <1>2
          <5>4. Unspent(new, Len(entries) - h) <=> Unspent(entries, Len(entries) - h)
            BY <5>2, <5>3, <1>2 DEF Unspent
          <5> QED BY <5>2, <5>4, <3>1 DEF EvidenceAt
        <4>2. CASE ~(h < Len(entries))
          BY <4>2, <3>1 DEF EvidenceAt
        <4> QED BY <4>1, <4>2
      <3>5. /\ CountedAt(ages, h) <=> EvidenceAt(entries, h)
            /\ CountedAt(ages, h) => ages[Len(ages) - h] = entries[Len(entries) - h].age
        BY <3>1, <1>1 DEF Matches
      <3>6. ASSUME CountedAt(queue, k)
            PROVE  queue[Len(queue) - k] = new[Len(new) - k].age
        <4>1. /\ Len(queue) - k \in 1 .. Len(ages) - d
              /\ (Len(queue) - k) + d = Len(ages) - h
          BY <3>1, <3>2, <3>6, <1>5
        <4>2. queue[Len(queue) - k] = ages[Len(ages) - h]
          BY <4>1, <1>4
        <4>3. Len(entries) - h \in 1 .. Len(entries)
          BY <3>1, <3>2, <3>3, <3>5, <3>6, <1>2 DEF EvidenceAt
        <4> QED BY <4>2, <4>3, <3>1, <3>2, <3>3, <3>5, <3>6, <1>2
      <3> QED BY <3>2, <3>3, <3>4, <3>5, <3>6
    <2> QED BY <2>1, <2>2
  <1> QED BY <1>1, <1>2, <1>4, <1>6, <1>7, <1>8, <1>9 DEF TextInv, new, e, queue

LEMMA GapKept == \A x, y \in Nat : (x + 1) - (y + 1) = x - y
  OBVIOUS

\* A tick makes queue and log older alike: what leaves the window leaves it in both,
\* and a reply that is forgotten is out of the way of everything in the window.
LEMMA TickKeeps ==
  ASSUME NEW ages, NEW since, NEW entries, TextInv(ages, since, entries)
  PROVE  TextInv([i \in DOMAIN ages |-> Aged(ages[i], Window + 1)], Aged(since, Cooldown),
                 Older(entries))
  <1> DEFINE aged == [i \in DOMAIN ages |-> Aged(ages[i], Window + 1)]
             older == Older(entries)
             left == Aged(since, Cooldown)
  <1>1. /\ ages \in Seq(Nat) /\ since \in Nat /\ entries \in Seq(Entries) /\ Falling(ages)
        /\ CooldownKept(ages, since, entries) /\ Matches(ages, entries)
    BY DEF TextInv
  <1>2. \A i \in 1 .. Len(ages) : ages[i] \in Nat
    BY <1>1
  <1>3. \A i \in 1 .. Len(ages) : /\ aged[i] = Aged(ages[i], Window + 1)
                                  /\ aged[i] \in Nat
                                  /\ aged[i] <= Window <=> ages[i] + 1 <= Window
                                  /\ aged[i] <= Window => aged[i] = ages[i] + 1
    BY <1>1, <1>2, TimesAreNat DEF Aged
  <1>4. aged \in Seq(Nat) /\ Len(aged) = Len(ages) /\ Len(ages) \in Nat
    <2>1. DOMAIN ages = 1 .. Len(ages) /\ Len(ages) \in Nat
      BY <1>1
    <2>2. aged \in [1 .. Len(ages) -> Nat]
      BY <2>1, <1>2, TimesAreNat DEF Aged
    <2> HIDE DEF aged
    <2> QED BY <2>1, <2>2, FcnIsSeq
  <1>5. PICK d \in 0 .. Len(entries) :
            /\ older \in Seq(Entries)
            /\ Len(older) = Len(entries) - d
            /\ \A i \in 1 .. Len(entries) - d :
                  /\ older[i].age = entries[i + d].age + 1
                  /\ older[i].replied = entries[i + d].replied
            /\ \A i \in 1 .. d : entries[i].age + 1 > Window + Cooldown
    BY <1>1, OlderIs
  <1>6. /\ Len(entries) \in Nat /\ d \in Nat /\ d <= Len(entries)
        /\ Len(older) = Len(entries) - d
    BY <1>1, <1>5
  <1>7. \A i \in 1 .. Len(entries) : entries[i].age \in Nat
    <2>1. \A i \in 1 .. Len(entries) : entries[i] \in Entries
      BY <1>1
    <2> QED BY <2>1 DEF Entries
  <1>8. left \in Nat /\ left <= Cooldown /\ left <= since + 1 /\ (left < Cooldown => left = since + 1)
    BY <1>1, TimesAreNat DEF Aged
  <1> HIDE DEF aged, older, left
  <1>9. Falling(aged)
    <2> SUFFICES ASSUME NEW i \in 1 .. Len(ages), NEW j \in 1 .. Len(ages), i <= j
                 PROVE  aged[i] >= aged[j]
      BY <1>4 DEF Falling
    <2>1. ages[i] >= ages[j]
      BY <1>1 DEF Falling
    <2> QED BY <2>1, <1>2, <1>3, TimesAreNat DEF Aged
  <1>10. CooldownKept(aged, left, older)
    <2>1. ASSUME left < Cooldown
          PROVE  /\ Len(aged) = 0
                 /\ \E j \in 1 .. Len(older) : older[j].replied /\ older[j].age = left
      <3>1. since < Cooldown /\ left = since + 1
        BY <2>1, <1>1, <1>8, TimesAreNat
      <3>2. PICK j \in 1 .. Len(entries) : entries[j].replied /\ entries[j].age = since
        BY <3>1, <1>1 DEF CooldownKept
      <3>3. ~(entries[j].age + 1 > Window + Cooldown)
        BY <3>1, <3>2, <2>1, <1>1, TimesAreNat
      <3>4. ~(j <= d)
        BY <3>3, <1>5
      <3>5. j - d \in 1 .. Len(entries) - d /\ (j - d) + d = j
        BY <3>4, <1>6
      <3>6. older[j - d].replied /\ older[j - d].age = left
        BY <3>1, <3>2, <3>5, <1>5
      <3>7. Len(ages) = 0
        BY <3>1, <1>1 DEF CooldownKept
      <3> QED BY <3>5, <3>6, <3>7, <1>4, <1>6
    <2>2. ASSUME NEW j \in 1 .. Len(older), older[j].replied
          PROVE  left <= older[j].age
      <3>1. j \in 1 .. Len(entries) - d /\ j + d \in 1 .. Len(entries)
        BY <1>6
      <3>2. entries[j + d].replied /\ older[j].age = entries[j + d].age + 1
        BY <3>1, <2>2, <1>5
      <3>3. since <= entries[j + d].age /\ entries[j + d].age \in Nat
        BY <3>1, <3>2, <1>1, <1>7 DEF CooldownKept
      <3> QED BY <3>2, <3>3, <1>1, <1>8
    <2> QED BY <2>1, <2>2, <1>8 DEF CooldownKept
  <1>11. ASSUME NEW k \in Nat
         PROVE  /\ CountedAt(aged, k)
                      <=> CountedAt(ages, k) /\ ages[Len(ages) - k] + 1 <= Window
                /\ CountedAt(aged, k) => aged[Len(aged) - k] = ages[Len(ages) - k] + 1
    <2>1. CASE k < Len(ages)
      <3>1. Len(ages) - k \in 1 .. Len(ages)
        BY <2>1, <1>4
      <3>2. ages[Len(ages) - k] + 1 <= Window => ages[Len(ages) - k] <= Window
        BY <3>1, <1>2, TimesAreNat
      <3> QED BY <3>1, <3>2, <2>1, <1>3, <1>4 DEF CountedAt
    <2>2. CASE ~(k < Len(ages))
      BY <2>2, <1>4 DEF CountedAt
    <2> QED BY <2>1, <2>2
  <1>12. ASSUME NEW k \in Nat
         PROVE  /\ EvidenceAt(older, k)
                      <=> EvidenceAt(entries, k) /\ entries[Len(entries) - k].age + 1 <= Window
                /\ EvidenceAt(older, k)
                      => older[Len(older) - k].age = entries[Len(entries) - k].age + 1
    <2>1. CASE k < Len(older)
      <3> DEFINE i == Len(entries) - k
      <3>1. /\ Len(older) - k = i - d /\ i - d \in 1 .. Len(entries) - d /\ (i - d) + d = i
            /\ i \in 1 .. Len(entries) /\ i > d /\ k < Len(entries)
        BY <2>1, <1>6
      <3> HIDE DEF i
      <3>2. older[i - d].age = entries[i].age + 1 /\ entries[i].age \in Nat
        BY <3>1, <1>5, <1>7
      <3>3. ASSUME entries[i].age + 1 <= Window
            PROVE  Unspent(older, i - d) <=> Unspent(entries, i)
        <4>1. ASSUME Unspent(older, i - d), NEW j \in 1 .. Len(entries), entries[j].replied
              PROVE  i > j /\ entries[j].age - entries[i].age >= Cooldown
          <5>1. CASE j <= d
            <6>1. j \in 1 .. d /\ entries[j].age \in Nat
              BY <5>1, <1>6, <1>7
            <6>2. entries[j].age + 1 > Window + Cooldown
              BY <6>1, <1>5
            <6>3. i > j
              BY <5>1, <3>1, <6>1
            <6>4. /\ entries[j].age \in Nat /\ entries[i].age \in Nat
                  /\ entries[j].age + 1 > Window + Cooldown /\ entries[i].age + 1 <= Window
              BY <6>1, <6>2, <3>2, <3>3
            <6>5. entries[j].age - entries[i].age >= Cooldown
              BY <6>4, TimesAreNat
            <6> QED BY <6>3, <6>5
          <5>2. CASE ~(j <= d)
            <6>1. j - d \in 1 .. Len(older) /\ j - d \in 1 .. Len(entries) - d /\ (j - d) + d = j
              BY <5>2, <1>6
            <6>2. older[j - d].replied /\ older[j - d].age = entries[j].age + 1
              BY <6>1, <4>1, <1>5
            <6>3. i - d > j - d /\ older[j - d].age - older[i - d].age >= Cooldown
              BY <6>1, <6>2, <4>1 DEF Unspent
            <6>4. i > j
              BY <6>3, <3>1, <1>6
            <6>5. entries[j].age \in Nat
              BY <1>7
            <6>6. older[j - d].age - older[i - d].age
                     = (entries[j].age + 1) - (entries[i].age + 1)
              BY <6>2, <3>2
            <6>7. older[j - d].age - older[i - d].age = entries[j].age - entries[i].age
              BY <6>5, <6>6, <3>2, GapKept
            <6> QED BY <6>3, <6>4, <6>7
          <5> QED BY <5>1, <5>2
        <4>2. ASSUME Unspent(entries, i), NEW j \in 1 .. Len(older), older[j].replied
              PROVE  i - d > j /\ older[j].age - older[i - d].age >= Cooldown
          <5>1. j \in 1 .. Len(entries) - d /\ j + d \in 1 .. Len(entries)
            BY <1>6
          <5>2. entries[j + d].replied /\ older[j].age = entries[j + d].age + 1
            BY <5>1, <4>2, <1>5
          <5>3. i > j + d /\ entries[j + d].age - entries[i].age >= Cooldown
            BY <5>1, <5>2, <4>2 DEF Unspent
          <5>4. i - d > j
            BY <5>3, <3>1, <1>6
          <5>5. entries[j + d].age \in Nat
            BY <5>1, <1>7
          <5>6. older[j].age - older[i - d].age
                   = (entries[j + d].age + 1) - (entries[i].age + 1)
            BY <5>2, <3>2
          <5>7. older[j].age - older[i - d].age = entries[j + d].age - entries[i].age
            BY <5>5, <5>6, <3>2, GapKept
          <5> QED BY <5>3, <5>4, <5>7
        <4> QED BY <4>1, <4>2 DEF Unspent
      <3>4. /\ EvidenceAt(older, k) <=> entries[i].age + 1 <= Window /\ Unspent(older, i - d)
            /\ EvidenceAt(entries, k) <=> entries[i].age <= Window /\ Unspent(entries, i)
        BY <2>1, <3>1, <3>2 DEF EvidenceAt, i
      <3>5. entries[i].age + 1 <= Window => entries[i].age <= Window
        BY <3>2, TimesAreNat
      <3> QED BY <3>1, <3>2, <3>3, <3>4, <3>5 DEF i
    <2>2. CASE ~(k < Len(older))
      <3>1. ~EvidenceAt(older, k)
        BY <2>2 DEF EvidenceAt
      <3>2. ASSUME k < Len(entries)
            PROVE  ~(entries[Len(entries) - k].age + 1 <= Window)
        <4>1. Len(entries) - k \in 1 .. d /\ Len(entries) - k \in 1 .. Len(entries)
          BY <2>2, <3>2, <1>6
        <4>2. /\ entries[Len(entries) - k].age + 1 > Window + Cooldown
              /\ entries[Len(entries) - k].age \in Nat
          BY <4>1, <1>5, <1>7
        <4> QED BY <4>2, TimesAreNat
      <3> QED BY <3>1, <3>2 DEF EvidenceAt
    <2> QED BY <2>1, <2>2
  <1>13. Matches(aged, older)
    BY <1>1, <1>11, <1>12 DEF Matches
  <1>14. Justified(older)
    <2>1. ASSUME Len(older) > 0
          PROVE  older[Len(older)].age # 0
      <3>1. /\ Len(older) \in 1 .. Len(entries) - d /\ Len(older) + d \in 1 .. Len(entries)
        BY <2>1, <1>6
      <3> QED BY <3>1, <1>5, <1>7
    <2> QED BY <2>1 DEF Justified
  <1> QED BY <1>4, <1>5, <1>8, <1>9, <1>10, <1>13, <1>14 DEF TextInv, aged, older, left

DanmusInv ==
    /\ seen \in [Contents -> Seq(Nat)]
    /\ repliedAge \in [Contents -> Nat]
    /\ log \in [Contents -> Seq(Entries)]
    /\ \A c \in Contents : TextInv(seen[c], repliedAge[c], log[c])

LEMMA DanmusInit == Init => DanmusInv
  <1> SUFFICES ASSUME Init PROVE DanmusInv
    OBVIOUS
  <1>1. TextInv(<<>>, Cooldown, <<>>)
    <2>1. Falling(<<>>) /\ CooldownKept(<<>>, Cooldown, <<>>) /\ Justified(<<>>)
      BY TimesAreNat DEF Falling, CooldownKept, Justified
    <2>2. Matches(<<>>, <<>>)
      BY DEF Matches, CountedAt, EvidenceAt
    <2>3. <<>> \in Seq(Nat) /\ <<>> \in Seq(Entries)
      OBVIOUS
    <2> QED BY <2>1, <2>2, <2>3, TimesAreNat DEF TextInv
  <1> QED BY <1>1, TimesAreNat DEF Init, DanmusInv

LEMMA TakenDanmu == ASSUME DanmusInv, NEW c \in Contents, TakesDanmu(c) PROVE DanmusInv'
  <1>1. PICK replies \in BOOLEAN :
           /\ Tracks(c, replies)
           /\ log' = [log EXCEPT ![c] = Append(@, [age |-> 0, replied |-> replies])]
    BY DEF TakesDanmu
  <1>2. /\ TextInv(seen[c], repliedAge[c], log[c])
        /\ seen \in [Contents -> Seq(Nat)] /\ repliedAge \in [Contents -> Nat]
        /\ log \in [Contents -> Seq(Entries)]
    BY DEF DanmusInv
  <1>3. /\ log'[c] = Append(log[c], [age |-> 0, replied |-> replies])
        /\ log' \in [Contents -> Seq(Entries)]
        /\ \A b \in Contents : b # c => log'[b] = log[b]
    <2>1. [age |-> 0, replied |-> replies] \in Entries
      BY DEF Entries
    <2>2. Append(log[c], [age |-> 0, replied |-> replies]) \in Seq(Entries)
      BY <2>1, <1>2
    <2> QED BY <2>2, <1>1, <1>2
  <1>4. \A b \in Contents : b # c => seen'[b] = seen[b] /\ repliedAge'[b] = repliedAge[b]
    BY <1>1, <1>2 DEF Tracks
  <1>5. /\ seen' \in [Contents -> Seq(Nat)] /\ repliedAge' \in [Contents -> Nat]
        /\ TextInv(seen'[c], repliedAge'[c], log'[c])
    <2>1. CASE repliedAge[c] < Cooldown
      <3>1. replies = FALSE /\ UNCHANGED <<seen, repliedAge>>
        BY <1>1, <2>1 DEF Tracks
      <3> QED BY <3>1, <2>1, <1>2, <1>3, SwallowedKeeps
    <2>2. CASE ~(repliedAge[c] < Cooldown)
      <3>1. repliedAge[c] >= Cooldown
        BY <2>2, <1>2, TimesAreNat
      <3>2. /\ replies = (Len(Counted(c)) >= Threshold)
            /\ seen' = [seen EXCEPT ![c] = IF replies THEN <<>> ELSE Counted(c)]
            /\ repliedAge' = [repliedAge EXCEPT ![c] = IF replies THEN 0 ELSE @]
        BY <1>1, <2>2 DEF Tracks
      <3>3. CASE replies
        <4>1. /\ seen' \in [Contents -> Seq(Nat)] /\ seen'[c] = <<>>
              /\ repliedAge' \in [Contents -> Nat] /\ repliedAge'[c] = 0
          BY <3>2, <3>3, <1>2
        <4>2. /\ Len(Recent(Append(seen[c], 0))) >= Threshold
              /\ log'[c] = Append(log[c], [age |-> 0, replied |-> TRUE])
          BY <3>2, <3>3, <1>3 DEF Counted
        <4> QED BY <4>1, <4>2, <3>1, <1>2, RepliedKeeps
      <3>4. CASE ~replies
        <4>1. /\ ~(Len(Recent(Append(seen[c], 0))) >= Threshold)
              /\ log'[c] = Append(log[c], [age |-> 0, replied |-> FALSE])
          BY <3>2, <3>4, <1>3 DEF Counted
        <4>2. seen' = [seen EXCEPT ![c] = Recent(Append(seen[c], 0))]
          BY <3>2, <3>4 DEF Counted
        <4>3. repliedAge' = repliedAge
          BY <3>2, <3>4, <1>2
        <4>4. TextInv(Recent(Append(seen[c], 0)), repliedAge[c], log'[c])
          BY <4>1, <3>1, <1>2, CountedKeeps
        <4>5. Recent(Append(seen[c], 0)) \in Seq(Nat)
          BY <4>4 DEF TextInv
        <4> QED BY <4>2, <4>3, <4>4, <4>5, <1>2
      <3> QED BY <3>3, <3>4
    <2> QED BY <2>1, <2>2
  <1> QED BY <1>2, <1>3, <1>4, <1>5 DEF DanmusInv

LEMMA TickDanmus == ASSUME DanmusInv, Tick PROVE DanmusInv'
  <1>1. /\ seen' = [c \in Contents |->
              [i \in DOMAIN seen[c] |-> Aged(seen[c][i], Window + 1)]]
        /\ repliedAge' = [c \in Contents |-> Aged(repliedAge[c], Cooldown)]
        /\ log' = [c \in Contents |-> Older(log[c])]
    BY DEF Tick
  <1>2. ASSUME NEW c \in Contents
        PROVE  TextInv(seen'[c], repliedAge'[c], log'[c])
    <2>1. TextInv(seen[c], repliedAge[c], log[c])
      BY DEF DanmusInv
    <2>2. TextInv([i \in DOMAIN seen[c] |-> Aged(seen[c][i], Window + 1)],
                  Aged(repliedAge[c], Cooldown), Older(log[c]))
      BY <2>1, TickKeeps
    <2> QED BY <2>2, <1>1
  <1>3. \A c \in Contents :
           seen'[c] \in Seq(Nat) /\ repliedAge'[c] \in Nat /\ log'[c] \in Seq(Entries)
    BY <1>2 DEF TextInv
  <1> QED BY <1>1, <1>2, <1>3 DEF DanmusInv

LEMMA DanmusStep == ASSUME DanmusInv, [Next]_vars PROVE DanmusInv'
  <1>1. CASE \E c \in Contents : TakesDanmu(c)
    BY <1>1, TakenDanmu
  <1>2. CASE Tick
    BY <1>2, TickDanmus
  <1>3. CASE UNCHANGED danmus
    BY <1>3 DEF danmus, DanmusInv
  <1>4. CASE \/ \E m \in Messages : Receive(m)
             \/ GoesAway \/ Connects
             \/ \E p \in Problems : Publish(p) \/ TakesProblem(p) \/ Submits(p)
             \/ \E s \in Slides : TakesSlide(s)
             \/ TimerReports \/ TimerSkips \/ ReportSucceeds \/ ReportFails
             \/ UNCHANGED vars
    <2>1. UNCHANGED danmus
      BY <1>4 DEF Receive, GoesAway, Connects, Publish, TakesProblem, Submits, TakesSlide,
         TimerReports, TimerSkips, ReportSucceeds, ReportFails, vars
    <2> QED BY <2>1, <1>3
  <1> QED BY <1>1, <1>2, <1>4 DEF Next

\* A danmu is replied to if, and only if, with it there are enough of its text in the
\* window that no cooldown swallowed and no earlier reply was for, for all
\* thresholds, windows and cooldowns: the queue that track_and_decide keeps by
\* dropping, clearing and not counting never loses a danmu that counts and never
\* keeps one that does not.
THEOREM RepliesAreJustified == Spec => []RepliesOnEvidence
  <1>1. DanmusInv => RepliesOnEvidence
    BY DEF DanmusInv, TextInv, RepliesOnEvidence
  <1>2. DanmusInv /\ [Next]_vars => DanmusInv'
    BY DanmusStep
  <1> QED BY <1>1, <1>2, DanmusInit, PTL DEF Spec

-----------------------------------------------------------------------------
(* The contract of a lesson task.                                          *)

\* Problems that are met are a step of the contract, each with an answer that is due
\* or without one.
LEMMA MeetingKeepsContract ==
  ASSUME NEW found \in SUBSET Problems, NEW due \in SUBSET found,
         \A p \in found : answer[p].at = "unmet",
         \A p \in due : answer'[p].at = "waiting",
         \A p \in found \ due : answer'[p].at = "claimed",
         \A p \in Problems \ found : answer'[p].at = answer[p].at
  PROVE  [Contract!Next]_Contract!vars
  <1> DEFINE taken == {p \in Problems : answer[p].at # "unmet"}
             waiting == [p \in Problems |-> IF answer[p].at = "waiting" THEN 1 ELSE 0]
             sent == [p \in Problems |-> IF answer[p].at = "sent" THEN 1 ELSE 0]
  <1>1. found \cap taken = {} /\ taken' = taken \cup found
    OBVIOUS
  <1>2. waiting' = [p \in Problems |-> IF p \in due THEN 1 ELSE waiting[p]]
    OBVIOUS
  <1>3. sent' = sent
    OBVIOUS
  <1>4. Contract!Meet(found, due)
    BY <1>1, <1>2, <1>3 DEF Contract!Meet
  <1> QED BY <1>4 DEF Contract!Next

\* So is an answer that is submitted.
LEMMA SubmittingKeepsContract ==
  ASSUME NEW p \in Problems, answer[p].at = "waiting", answer'[p].at = "sent",
         \A q \in Problems \ {p} : answer'[q].at = answer[q].at
  PROVE  [Contract!Next]_Contract!vars
  <1> DEFINE waiting == [q \in Problems |-> IF answer[q].at = "waiting" THEN 1 ELSE 0]
             sent == [q \in Problems |-> IF answer[q].at = "sent" THEN 1 ELSE 0]
  <1>1. waiting' = [waiting EXCEPT ![p] = 0] /\ waiting[p] = 1
    OBVIOUS
  <1>2. sent' = [sent EXCEPT ![p] = 1] /\ sent[p] = 0
    OBVIOUS
  <1>3. sent' = [sent EXCEPT ![p] = sent[p] + 1]
    <2> HIDE DEF sent
    <2>1. sent[p] + 1 = 1
      BY <1>2
    <2> QED BY <1>2, <2>1
  <1>4. {q \in Problems : answer[q].at # "unmet"}' = {q \in Problems : answer[q].at # "unmet"}
    OBVIOUS
  <1>5. Contract!Submit(p)
    BY <1>1, <1>3, <1>4 DEF Contract!Submit
  <1> QED BY <1>5 DEF Contract!Next

\* Whatever leaves the answer tasks where they are is none.
LEMMA RestKeepsContract ==
  ASSUME \A p \in Problems : answer'[p].at = answer[p].at
  PROVE  [Contract!Next]_Contract!vars
  BY DEF Contract!vars, Contract!answers

LEMMA ContractStep ==
  ASSUME AnswersInv, [Next]_vars
  PROVE  [Contract!Next]_Contract!vars
  <1>0. answer \in [Problems -> AnswerTasks]
    BY DEF AnswersInv
  <1>1. CASE Connects
    <2>1. PICK found \in SUBSET Problems :
             \E wait \in [found -> UNION {WaitTimes(LimitOf(p)) : p \in found}] :
                answer' = [p \in Problems |->
                   IF p \in found /\ answer[p].at = "unmet" THEN Meets(p, wait[p], "slides")
                   ELSE answer[p]]
      BY <1>1 DEF Connects
    <2>2. PICK wait : answer' = [p \in Problems |->
                   IF p \in found /\ answer[p].at = "unmet" THEN Meets(p, wait[p], "slides")
                   ELSE answer[p]]
      BY <2>1
    <2> DEFINE new == {p \in found : answer[p].at = "unmet"}
    <2>3. \A p \in Problems : Meets(p, wait[p], "slides").at = "waiting"
      BY <1>0 DEF Meets, AnswerTasks
    <2>4. /\ new \in SUBSET Problems
          /\ \A p \in new : answer[p].at = "unmet" /\ answer'[p].at = "waiting"
          /\ \A p \in Problems \ new : answer'[p].at = answer[p].at
          /\ new \in SUBSET new /\ \A p \in new \ new : answer'[p].at = "claimed"
      BY <2>2, <2>3
    <2> QED BY <2>4, MeetingKeepsContract
  <1>2. ASSUME NEW p \in Problems, TakesProblem(p)
        PROVE  [Contract!Next]_Contract!vars
    <2>1. ASSUME answer[p].at = "unmet", NEW wait,
                 answer' = [answer EXCEPT ![p] = Meets(p, wait, "stream")]
          PROVE  [Contract!Next]_Contract!vars
      <3>1. Meets(p, wait, "stream").at = "waiting"
        BY <1>0 DEF Meets, AnswerTasks
      <3>2. /\ {p} \in SUBSET Problems /\ {p} \in SUBSET {p}
            /\ \A q \in {p} : answer[q].at = "unmet" /\ answer'[q].at = "waiting"
            /\ \A q \in {p} \ {p} : answer'[q].at = "claimed"
            /\ \A q \in Problems \ {p} : answer'[q].at = answer[q].at
        BY <1>0, <2>1, <3>1
      <3> QED BY <3>2, MeetingKeepsContract
    <2>2. ASSUME answer[p].at = "unmet", answer' = [answer EXCEPT ![p] = Claims(p)]
          PROVE  [Contract!Next]_Contract!vars
      <3>1. /\ {p} \in SUBSET Problems /\ {} \in SUBSET {p}
            /\ \A q \in {p} : answer[q].at = "unmet"
            /\ \A q \in {} : answer'[q].at = "waiting"
            /\ \A q \in {p} \ {} : answer'[q].at = "claimed"
            /\ \A q \in Problems \ {p} : answer'[q].at = answer[q].at
        BY <1>0, <2>2, ClaimsIs
      <3> QED BY <3>1, MeetingKeepsContract
    <2>3. CASE UNCHANGED answer
      BY <2>3, RestKeepsContract
    <2> QED BY <1>2, <2>1, <2>2, <2>3 DEF TakesProblem
  <1>3. ASSUME NEW p \in Problems, Submits(p)
        PROVE  [Contract!Next]_Contract!vars
    <2>1. /\ answer[p].at = "waiting"
          /\ answer' = [answer EXCEPT ![p] = [answer[p] EXCEPT !.at = "sent"]]
      BY <1>3 DEF Submits
    <2>2. [answer[p] EXCEPT !.at = "sent"].at = "sent"
      BY <1>0 DEF AnswerTasks
    <2>3. answer'[p].at = "sent" /\ \A q \in Problems \ {p} : answer'[q].at = answer[q].at
      BY <1>0, <2>1, <2>2
    <2> QED BY <2>1, <2>3, SubmittingKeepsContract
  <1>4. ASSUME NEW p \in Problems, Publish(p)
        PROVE  [Contract!Next]_Contract!vars
    <2>1. answer' = [answer EXCEPT ![p] = [answer[p] EXCEPT !.since = 0]]
      BY <1>4 DEF Publish
    <2>2. [answer[p] EXCEPT !.since = 0].at = answer[p].at
      BY <1>0 DEF AnswerTasks
    <2> QED BY <1>0, <2>1, <2>2, RestKeepsContract
  <1>5. CASE Tick
    <2>1. \A p \in Problems : Later(p).at = answer[p].at
      BY <1>0 DEF Later, AnswerTasks
    <2>2. answer' = [p \in Problems |-> Later(p)]
      BY <1>5 DEF Tick
    <2> QED BY <2>1, <2>2, RestKeepsContract
  <1>6. CASE UNCHANGED answer
    BY <1>6, RestKeepsContract
  <1>7. CASE \/ \E m \in Messages : Receive(m)
             \/ GoesAway \/ \E s \in Slides : TakesSlide(s)
             \/ TimerReports \/ TimerSkips \/ ReportSucceeds \/ ReportFails
             \/ \E c \in Contents : TakesDanmu(c)
             \/ UNCHANGED vars
    BY <1>6, <1>7 DEF Receive, GoesAway, TakesSlide, TimerReports, TimerSkips,
         ReportSucceeds, ReportFails, TakesDanmu, vars
  <1> QED BY <1>1, <1>2, <1>3, <1>4, <1>5, <1>7 DEF Next

\* The task by the clock implements LessonContract, as LessonMonitor does: a problem
\* gets at most one answer, whatever the delays and however often it is met.
THEOREM TimersKeepContract == Spec => KeepsContract
  <1>1. Init => Contract!Init
    <2> SUFFICES ASSUME Init PROVE Contract!Init
      OBVIOUS
    <2>1. \A p \in Problems : answer[p].at = "unmet"
      BY DEF Init, Unmet
    <2> QED BY <2>1 DEF Contract!Init
  <1>2. AnswersInv /\ [Next]_vars => AnswersInv'
    BY AnswersStep
  <1>3. AnswersInv /\ [Next]_vars => [Contract!Next]_Contract!vars
    BY ContractStep
  <1> QED BY <1>1, <1>2, <1>3, AnswersInit, PTL DEF Spec, KeepsContract, Contract!Spec

-----------------------------------------------------------------------------
(* Types.                                                                  *)

TypesInv ==
    /\ mix \in Mixes
    /\ inbox \in Seq(Messages) /\ Len(inbox) <= InboxCapacity

LEMMA TypesStep == PagesInv /\ TypesInv /\ [Next]_vars => TypesInv'
  <1> SUFFICES ASSUME PagesInv, TypesInv, [Next]_vars PROVE TypesInv'
    OBVIOUS
  <1> USE DEF TypesInv
  <1>1. ASSUME NEW m \in Messages, Receive(m) PROVE TypesInv'
    BY <1>1, TimersAssumption DEF Receive
  <1>2. ASSUME NEW p \in Problems, Publish(p) PROVE TypesInv'
    <2>1. [type |-> "problem", of |-> p] \in Messages
      BY DEF Messages
    <2>2. mix' = mix
      BY <1>2 DEF Publish
    <2>3. CASE inbox' = inbox
      BY <2>2, <2>3
    <2>4. CASE /\ Len(inbox) < InboxCapacity
               /\ inbox' = Append(inbox, [type |-> "problem", of |-> p])
      BY <2>1, <2>2, <2>4, TimersAssumption
    <2> QED BY <1>2, <2>3, <2>4 DEF Publish
  <1>3. ASSUME NEW m, Takes(m) PROVE TypesInv'
    <2>1. inbox' \in Seq(Messages) /\ Len(inbox') = Len(inbox) - 1
      BY <1>3 DEF Takes
    <2> QED BY <1>3, <2>1, TimersAssumption DEF Takes
  <1>4. CASE UNCHANGED <<mix, inbox>>
    BY <1>4
  <1>5. CASE \/ GoesAway \/ Connects \/ \E p \in Problems : Submits(p)
             \/ TimerReports \/ TimerSkips \/ ReportSucceeds \/ ReportFails \/ Tick
             \/ UNCHANGED vars
    <2>1. UNCHANGED <<mix, inbox>>
      BY <1>5 DEF GoesAway, Connects, Submits, TimerReports, TimerSkips, ReportSucceeds,
                  ReportFails, Tick, vars, task
    <2> QED BY <2>1, <1>4
  <1>6. CASE \/ \E p \in Problems : TakesProblem(p)
             \/ \E s \in Slides : TakesSlide(s)
             \/ \E c \in Contents : TakesDanmu(c)
    BY <1>6, <1>3 DEF TakesProblem, TakesSlide, TakesDanmu
  <1> QED BY <1>1, <1>2, <1>5, <1>6 DEF Next

\* The task, its page views and the messages it has yet to handle keep their types,
\* the requests their timeout, and the timer its round.
THEOREM TimersTypesHold == Spec => []TypeOK
  <1>1. Init => TypesInv
    BY TimersAssumption DEF Init, TypesInv
  <1>2. PagesInv /\ TypesInv => TypeOK
    BY TimersAssumption DEF PagesInv, PagesType, TypesInv, TypeOK, Requests, LongestGap
  <1> QED BY <1>1, <1>2, TypesStep, PagesAreSafe, PTL DEF Spec
=============================================================================
