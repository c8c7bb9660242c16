------------------------- MODULE LessonMonitor_proofs -------------------------
(***************************************************************************)
(* For any problems, check-ins, stream capacity and settings: a lesson     *)
(* task answers a problem at most once, requests a check-in at most once,  *)
(* ends only for a cause and opens no stream once told to stop; and it     *)
(* implements LessonContract.                                              *)
(***************************************************************************)
EXTENDS LessonMonitor, TLAPS

(***************************************************************************)
(* AnsweredOnce is not inductive: it needs that a problem not yet in       *)
(* answered_problems has no answer sent or on its way, and likewise for    *)
(* check-ins.                                                              *)
(***************************************************************************)
UnmetIsUntouched ==
    /\ \A p \in Problems \ answered : pending[p] = <<>> /\ sent[p] = <<>>
    /\ \A k \in Checkins \ checked : tries[k] = 0

LessonInv ==
    /\ TypeOK
    /\ UnmetIsUntouched
    /\ AnsweredOnce
    /\ CheckedInOnce
    /\ EndsForCause

RequestInv == UnmetIsUntouched /\ AnsweredOnce /\ CheckedInOnce

LEMMA EmptyInboxFits == <<>> \in Seq(WsEvents) /\ Len(<<>>) <= StreamCapacity
<1>1. StreamCapacity \in Nat
  BY LessonAssumption
<1>. QED  BY <1>1

(***************************************************************************)
(* What is known of an answer: it is one of Answers where one is given.    *)
(***************************************************************************)
LEMMA ResolveType ==
    ASSUME NEW p, NEW source, Resolve(p, source) # "none"
    PROVE  Resolve(p, source) \in Answers
BY DEF Resolve, Answers

(***************************************************************************)
(* Meeting problems, wherever they come from, keeps the request books.     *)
(***************************************************************************)
LEMMA DiscoverInv ==
    ASSUME LessonInv, NEW found \in SUBSET Problems, NEW source,
           Discover(found, source), UNCHANGED <<checked, sent, tries>>
    PROVE  /\ answered' \in SUBSET Problems
           /\ pending' \in [Problems -> Seq(Answers)]
           /\ RequestInv'
<1> DEFINE targets == ToAnswer(found, source) \ answered
<1>1. targets \subseteq (answered' \ answered) \cap Problems
  BY DEF Discover, ToAnswer
<1>2. pending' = [p \in Problems |->
                    IF p \in targets THEN Append(pending[p], Resolve(p, source))
                    ELSE pending[p]]
  BY DEF Discover, Detach
<1>3. answered \subseteq answered' /\ answered' \in SUBSET Problems
  BY DEF Discover, LessonInv, TypeOK
<1>4. \A p \in targets : Resolve(p, source) \in Answers
  BY ResolveType DEF ToAnswer
<1> HIDE DEF targets
<1>5. pending' \in [Problems -> Seq(Answers)]
  BY <1>2, <1>4 DEF LessonInv, TypeOK
<1>6. AnsweredOnce'
  <2> SUFFICES ASSUME NEW p \in Problems
               PROVE  Len(pending'[p]) + Len(sent[p]) <= 1
    BY DEF AnsweredOnce
  <2>1. CASE p \in targets
    <3>1. pending[p] = <<>> /\ sent[p] = <<>>
      BY <1>1, <2>1 DEF LessonInv, UnmetIsUntouched
    <3>2. pending'[p] = Append(<<>>, Resolve(p, source))
      BY <1>2, <2>1, <3>1
    <3>. QED  BY <3>1, <3>2, <1>4, <2>1
  <2>2. CASE p \notin targets
    BY <1>2, <2>2 DEF LessonInv, AnsweredOnce
  <2>. QED  BY <2>1, <2>2
<1>7. UnmetIsUntouched'
  BY <1>1, <1>2, <1>3 DEF LessonInv, UnmetIsUntouched
<1>8. CheckedInOnce'
  BY DEF LessonInv, CheckedInOnce
<1>. QED  BY <1>3, <1>5, <1>6, <1>7, <1>8 DEF RequestInv

(***************************************************************************)
(* What the classroom does touches neither the task nor its requests, and  *)
(* never more than fills the stream.                                       *)
(***************************************************************************)
LEMMA AnnounceType ==
    ASSUME LessonInv, NEW event \in WsEvents, Announce(event)
    PROVE  inbox' \in Seq(WsEvents) /\ Len(inbox') <= StreamCapacity
<1> USE LessonAssumption DEF LessonInv, TypeOK
<1>1. CASE stream = "open"
  <2>1. inbox' = Append(inbox, event) /\ Len(inbox) < StreamCapacity
    BY <1>1 DEF Announce
  <2> HIDE DEF LessonInv
  <2>2. inbox \in Seq(WsEvents)
    BY DEF LessonInv
  <2>. QED  BY <2>1, <2>2, LessonAssumption
<1>2. CASE stream # "open"
  BY <1>2 DEF Announce
<1>. QED  BY <1>1, <1>2

LEMMA ClassroomInv == LessonInv /\ Classroom => LessonInv'
<1> SUFFICES ASSUME LessonInv, Classroom PROVE LessonInv'
  OBVIOUS
<1> USE DEF LessonInv, TypeOK
<1>1. UNCHANGED <<pc, told, lessonState, requests>> /\ (over => over')
  BY DEF Classroom, AddSlide, PublishProblem, OpenCheckin, SendOther, EndLesson,
         CloseStream, classroom
<1>2. UnmetIsUntouched' /\ AnsweredOnce' /\ CheckedInOnce' /\ EndsForCause'
  BY <1>1 DEF UnmetIsUntouched, AnsweredOnce, CheckedInOnce, EndsForCause,
              lessonState, requests
<1>3. /\ inbox' \in Seq(WsEvents) /\ Len(inbox') <= StreamCapacity
      /\ slides' \in SUBSET Problems /\ published' \in SUBSET slides'
      /\ over' \in BOOLEAN /\ stream' \in {"none", "open", "closed"}
  <2>1. ASSUME NEW p \in Problems, AddSlide(p) PROVE <1>3
    BY <2>1 DEF AddSlide
  <2>2. ASSUME NEW p \in Problems, PublishProblem(p) PROVE <1>3
    <3>1. [type |-> "problem", of |-> p] \in WsEvents
      BY DEF WsEvents
    <3>. QED  BY <2>2, <3>1, AnnounceType DEF PublishProblem
  <2>3. ASSUME NEW k \in Checkins, OpenCheckin(k) PROVE <1>3
    <3>1. [type |-> "checkin", of |-> k] \in WsEvents
      BY DEF WsEvents
    <3>. QED  BY <2>3, <3>1, AnnounceType DEF OpenCheckin, classroom
  <2>4. ASSUME NEW type \in {"slide", "note"}, SendOther(type) PROVE <1>3
    <3>1. [type |-> type] \in WsEvents
      BY DEF WsEvents
    <3>. QED  BY <2>4, <3>1, AnnounceType DEF SendOther, classroom
  <2>5. CASE EndLesson
    <3>1. [type |-> "over"] \in WsEvents
      BY DEF WsEvents
    <3>. QED  BY <2>5, <3>1, AnnounceType DEF EndLesson
  <2>6. CASE CloseStream
    BY <2>6 DEF CloseStream, classroom
  <2>. QED  BY <2>1, <2>2, <2>3, <2>4, <2>5, <2>6 DEF Classroom
<1>. QED  BY <1>1, <1>2, <1>3 DEF lessonState, requests, admission

(***************************************************************************)
(* The check-ins that precede a connection are counted as long as the task *)
(* goes on making them.                                                    *)
(***************************************************************************)
AdmissionType == asked \in 0 .. MaxAsked - 1 /\ tokens \in SUBSET Tokens

LEMMA AdmissionInv == LessonInv /\ LessonTask => AdmissionType'
<1> SUFFICES ASSUME LessonInv, LessonTask PROVE AdmissionType'
  OBVIOUS
<1>1. ASSUME NEW got \in SUBSET Tokens, CheckInAnswers(got) PROVE AdmissionType'
  BY <1>1 DEF CheckInAnswers, LessonInv, TypeOK, AdmissionType, MaxAsked
<1>2. ASSUME NEW step, Leaves(step) PROVE AdmissionType'
  BY <1>2 DEF Leaves, AdmissionType, MaxAsked
<1>3. CASE UNCHANGED admission
  BY <1>3 DEF admission, LessonInv, TypeOK, AdmissionType
<1>. QED  BY <1>1, <1>2, <1>3
             DEF LessonTask, Handle, CheckInDone, Connects, ConnectFails,
                 ConnectRefused, Retries, HistoryLoads, HistoryFails, PageViewDue,
                 RequestReturns, StreamClosed, Stops, TakesProblem, TakesCheckin,
                 TakesSlide, TakesOther, requests

(***************************************************************************)
(* Steps of the task that make no request and meet no problem.             *)
(***************************************************************************)
QuietStep ==
    \/ \E got \in SUBSET Tokens : CheckInAnswers(got) \/ CheckInDone(got)
    \/ Connects \/ ConnectFails \/ ConnectRefused \/ Retries \/ HistoryFails
    \/ PageViewDue \/ RequestReturns \/ StreamClosed \/ Stops

LEMMA QuietStepInv == LessonInv /\ (QuietStep \/ TellStop) => LessonInv'
<1> SUFFICES ASSUME LessonInv, QuietStep \/ TellStop PROVE LessonInv'
  OBVIOUS
<1>0. AdmissionType'
  <2>1. CASE QuietStep
    BY <2>1, AdmissionInv DEF QuietStep, LessonTask, Handle
  <2>2. CASE TellStop
    BY <2>2 DEF TellStop, requests, admission, LessonInv, TypeOK, AdmissionType
  <2>. QED  BY <2>1, <2>2
<1> USE LessonAssumption DEF LessonInv, TypeOK
<1>1. UNCHANGED <<classroom, lessonState, pending, sent, tries>> /\ (told => told')
      /\ told' \in BOOLEAN
  BY DEF QuietStep, CheckInAnswers, CheckInDone, Connects, ConnectFails, ConnectRefused,
         Retries, HistoryFails, PageViewDue, RequestReturns, StreamClosed, Stops,
         TellStop, requests
<1>2. /\ pc' \in Steps /\ stream' \in {"none", "open", "closed"}
      /\ inbox' = inbox \/ inbox' = <<>>
      /\ EndsForCause'
  BY DEF QuietStep, CheckInAnswers, CheckInDone, Connects, ConnectFails, ConnectRefused,
         Retries, HistoryFails, PageViewDue, RequestReturns, StreamClosed, Stops,
         TellStop, Steps, EndsForCause, classroom, Leaves
<1>3. UnmetIsUntouched' /\ AnsweredOnce' /\ CheckedInOnce'
  BY <1>1 DEF UnmetIsUntouched, AnsweredOnce, CheckedInOnce, lessonState
<1>4. inbox' \in Seq(WsEvents) /\ Len(inbox') <= StreamCapacity
  <2>1. CASE inbox' = inbox
    BY <2>1
  <2>2. CASE inbox' = <<>>
    BY <2>2, EmptyInboxFits
  <2>. QED  BY <1>2, <2>1, <2>2
<1>. QED  BY <1>0, <1>1, <1>2, <1>3, <1>4 DEF classroom, lessonState, AdmissionType

(***************************************************************************)
(* Handling an event: the event leaves the stream, the rest depends on it. *)
(***************************************************************************)
LEMMA TakesType ==
    ASSUME LessonInv, NEW type, Takes(type)
    PROVE  /\ Head(inbox) \in WsEvents /\ Head(inbox).type = type
           /\ inbox' \in Seq(WsEvents) /\ Len(inbox') <= StreamCapacity
<1>1. inbox \in Seq(WsEvents) /\ inbox # <<>> /\ Len(inbox) <= StreamCapacity
      /\ inbox' = Tail(inbox) /\ Head(inbox).type = type
  BY DEF LessonInv, TypeOK, Takes
<1>. QED  BY <1>1, LessonAssumption

LEMMA TakesProblemInv == LessonInv /\ TakesProblem => LessonInv'
<1> SUFFICES ASSUME LessonInv, TakesProblem PROVE LessonInv'
  OBVIOUS
<1>1. Takes("problem") /\ UNCHANGED <<pc, checked, slideKnown, sent, tries, admission>>
      /\ Discover({Head(inbox).of}, "Ws")
  BY DEF TakesProblem
<1>2. Head(inbox).of \in Problems
  BY <1>1, TakesType DEF WsEvents
<1>3. answered' \in SUBSET Problems /\ pending' \in [Problems -> Seq(Answers)]
      /\ RequestInv'
  BY <1>1, <1>2, DiscoverInv
<1>4. inbox' \in Seq(WsEvents) /\ Len(inbox') <= StreamCapacity
  BY <1>1, TakesType
<1>. QED  BY <1>1, <1>3, <1>4
             DEF LessonInv, TypeOK, RequestInv, EndsForCause, Takes, classroom,
                 admission

LEMMA TakesCheckinInv == LessonInv /\ TakesCheckin => LessonInv'
<1> SUFFICES ASSUME LessonInv, TakesCheckin PROVE LessonInv'
  OBVIOUS
<1> DEFINE k == Head(inbox).of
<1>1. Takes("checkin") /\ UNCHANGED <<answered, slideKnown, pending, sent, admission>>
  BY DEF TakesCheckin
<1>2. k \in Checkins
  BY <1>1, TakesType DEF WsEvents
<1>3. inbox' \in Seq(WsEvents) /\ Len(inbox') <= StreamCapacity
  BY <1>1, TakesType
<1>4. \/ UNCHANGED <<checked, tries, pc>>
      \/ /\ k \notin checked /\ checked' = checked \cup {k}
         /\ tries' = [tries EXCEPT ![k] = @ + 1] /\ pc' = "checkingIn"
  BY DEF TakesCheckin
<1> HIDE DEF k
<1> USE DEF LessonInv, TypeOK
<1>5. pc' \in Steps /\ checked' \in SUBSET Checkins /\ tries' \in [Checkins -> Nat]
      /\ (pc' = "ended" => pc = "ended")
  BY <1>2, <1>4 DEF Steps
<1>6. CheckedInOnce' /\ \A j \in Checkins \ checked' : tries'[j] = 0
  <2>1. /\ tries \in [Checkins -> Nat]
        /\ \A j \in Checkins : tries[j] <= 1
        /\ \A j \in Checkins \ checked : tries[j] = 0
    BY DEF CheckedInOnce, UnmetIsUntouched
  <2> HIDE DEF LessonInv, TypeOK
  <2>. QED  BY <1>2, <1>4, <2>1 DEF CheckedInOnce
<1>. QED  BY <1>1, <1>3, <1>5, <1>6
             DEF UnmetIsUntouched, AnsweredOnce, EndsForCause, Takes, classroom,
                 admission

LEMMA TakesRestInv == LessonInv /\ (TakesSlide \/ TakesOther) => LessonInv'
<1> SUFFICES ASSUME LessonInv, TakesSlide \/ TakesOther PROVE LessonInv'
  OBVIOUS
<1>1. PICK type : Takes(type)
  BY DEF TakesSlide, TakesOther
<1>2. inbox' \in Seq(WsEvents) /\ Len(inbox') <= StreamCapacity
  BY <1>1, TakesType
<1>3. UNCHANGED <<answered, checked, requests>> /\ slideKnown' \in BOOLEAN
      /\ pc' \in {pc, "reporting"}
  BY DEF TakesSlide, TakesOther, lessonState, LessonInv, TypeOK
<1>. QED  BY <1>1, <1>2, <1>3
             DEF LessonInv, TypeOK, UnmetIsUntouched, AnsweredOnce, CheckedInOnce,
                 EndsForCause, Takes, classroom, requests, admission, Steps

LEMMA HistoryLoadsInv == LessonInv /\ HistoryLoads => LessonInv'
<1> SUFFICES ASSUME LessonInv, HistoryLoads PROVE LessonInv'
  OBVIOUS
<1>1. answered' \in SUBSET Problems /\ pending' \in [Problems -> Seq(Answers)]
      /\ RequestInv'
  BY DiscoverInv DEF HistoryLoads, LessonInv, TypeOK
<1>. QED  BY <1>1 DEF HistoryLoads, LessonInv, TypeOK, RequestInv, EndsForCause,
                      Steps, classroom, admission

LEMMA SubmitInv ==
    ASSUME LessonInv, NEW p \in Problems, SubmitAnswer(p)
    PROVE  LessonInv'
<1> USE DEF LessonInv, TypeOK
<1>1. pending[p] \in Seq(Answers) /\ sent[p] \in Seq(Answers) /\ pending[p] # <<>>
  BY DEF SubmitAnswer
<1>2. /\ pending' = [pending EXCEPT ![p] = Tail(pending[p])]
      /\ sent' = [sent EXCEPT ![p] = Append(sent[p], Head(pending[p]))]
      /\ UNCHANGED <<classroom, stream, inbox, pc, told, lessonState, tries, admission>>
  BY DEF SubmitAnswer
<1>3. /\ Tail(pending[p]) \in Seq(Answers)
      /\ Append(sent[p], Head(pending[p])) \in Seq(Answers)
      /\ Len(Tail(pending[p])) + Len(Append(sent[p], Head(pending[p])))
            = Len(pending[p]) + Len(sent[p])
  BY <1>1
<1>4. pending' \in [Problems -> Seq(Answers)] /\ sent' \in [Problems -> Seq(Answers)]
  BY <1>2, <1>3
<1>5. p \in answered
  BY <1>1 DEF UnmetIsUntouched
<1>6. AnsweredOnce'
  BY <1>2, <1>3 DEF AnsweredOnce
<1>7. UnmetIsUntouched' /\ CheckedInOnce' /\ EndsForCause'
  BY <1>2, <1>5 DEF UnmetIsUntouched, CheckedInOnce, EndsForCause, lessonState,
                    classroom
<1>. QED  BY <1>2, <1>4, <1>6, <1>7 DEF lessonState, classroom, admission

LEMMA LessonNextInv == LessonInv /\ [Next]_vars => LessonInv'
<1> SUFFICES ASSUME LessonInv, [Next]_vars PROVE LessonInv'
  OBVIOUS
<1>1. CASE Classroom
  BY <1>1, ClassroomInv
<1>2. CASE LessonTask
  BY <1>2, QuietStepInv, HistoryLoadsInv, TakesProblemInv, TakesCheckinInv,
     TakesRestInv DEF LessonTask, Handle, QuietStep
<1>3. CASE TellStop
  BY <1>3, QuietStepInv
<1>4. ASSUME NEW p \in Problems, SubmitAnswer(p) PROVE LessonInv'
  BY <1>4, SubmitInv
<1>5. CASE UNCHANGED vars
  BY <1>5 DEF vars, classroom, lessonState, requests, admission, LessonInv, TypeOK,
              UnmetIsUntouched, AnsweredOnce, CheckedInOnce, EndsForCause
<1>. QED  BY <1>1, <1>2, <1>3, <1>4, <1>5 DEF Next

(***************************************************************************)
(* The types, at most one answer per problem, at most one request per      *)
(* check-in, and no end without a cause: for every lesson task.            *)
(***************************************************************************)
THEOREM LessonIsSafe == Spec => []LessonInv
<1>1. Init => LessonInv
  <2> SUFFICES ASSUME Init PROVE LessonInv
    OBVIOUS
  <2>1. inbox \in Seq(WsEvents) /\ Len(inbox) <= StreamCapacity
    BY EmptyInboxFits DEF Init
  <2>2. \A p \in Problems : pending[p] = <<>> /\ sent[p] = <<>>
    BY DEF Init
  <2>3. pending \in [Problems -> Seq(Answers)] /\ sent \in [Problems -> Seq(Answers)]
    BY DEF Init
  <2>4. AnsweredOnce /\ UnmetIsUntouched
    BY <2>2 DEF Init, AnsweredOnce, UnmetIsUntouched
  <2>5. tries \in [Checkins -> Nat] /\ CheckedInOnce
    BY DEF Init, CheckedInOnce
  <2>6. pc \in Steps /\ EndsForCause
    BY DEF Init, Steps, EndsForCause
  <2>7. slides \in SUBSET Problems /\ published \in SUBSET slides
    BY DEF Init
  <2>8. /\ {over, told, slideKnown} \subseteq BOOLEAN
        /\ stream \in {"none", "open", "closed"}
        /\ answered \in SUBSET Problems /\ checked \in SUBSET Checkins
    BY DEF Init
  <2>9. AdmissionType
    BY DEF Init, AdmissionType, MaxAsked
  <2>. QED  BY <2>1, <2>3, <2>4, <2>5, <2>6, <2>7, <2>8, <2>9
               DEF LessonInv, TypeOK, AdmissionType
<1>. QED  BY <1>1, LessonNextInv, PTL DEF Spec

(***************************************************************************)
(* One answer per problem, however often slides and streams announce it.   *)
(***************************************************************************)
THEOREM EachProblemOnce == Spec => []AnsweredOnce
BY LessonIsSafe, PTL DEF LessonInv

(***************************************************************************)
(* One request per check-in, however often it is announced.                *)
(***************************************************************************)
THEOREM EachCheckinOnce == Spec => []CheckedInOnce
BY LessonIsSafe, PTL DEF LessonInv

(***************************************************************************)
(* A lesson task keeps to its types: a stream holds no more unread events  *)
(* than it has room for, a connection makes three check-ins at most.       *)
(***************************************************************************)
THEOREM LessonTypesHold == Spec => []TypeOK
BY LessonIsSafe, PTL DEF LessonInv

-----------------------------------------------------------------------------
(* The contract of a lesson task.                                          *)

\* Meeting problems is a step of the contract: none of those that get an answer
\* task has had one.
LEMMA DiscoverKeepsContract ==
    ASSUME LessonInv, NEW found \in SUBSET Problems, NEW source,
           Discover(found, source), pc # "ended", pc' # "ended",
           UNCHANGED <<over, told, sent, tries>>
    PROVE  [Contract!Next]_Contract!vars
<1> DEFINE new == (answered' \ answered) \cap Problems
           targets == ToAnswer(found, source) \ answered
<1>1. /\ new \cap answered = {} /\ answered' = answered \cup new
      /\ new \in SUBSET Problems /\ targets \in SUBSET new
  BY DEF Discover, ToAnswer, LessonInv, TypeOK
<1>2. /\ pending' = [p \in Problems |->
                       IF p \in targets THEN Append(pending[p], Resolve(p, source))
                       ELSE pending[p]]
      /\ \A p \in targets : Resolve(p, source) \in Answers
  BY ResolveType DEF Discover, Detach, ToAnswer
<1>3. \A p \in targets : pending[p] = <<>>
  BY <1>1 DEF LessonInv, UnmetIsUntouched
<1> HIDE DEF new, targets
<1>4. \A p \in Problems :
         Len(pending'[p]) = IF p \in targets THEN 1 ELSE Len(pending[p])
  <2> SUFFICES ASSUME NEW p \in Problems
               PROVE  Len(pending'[p]) = IF p \in targets THEN 1 ELSE Len(pending[p])
    OBVIOUS
  <2>1. CASE p \in targets
    <3>1. pending'[p] = Append(<<>>, Resolve(p, source))
      BY <1>2, <1>3, <2>1
    <3>. QED  BY <2>1, <3>1, <1>2
  <2>2. CASE p \notin targets
    BY <1>2, <2>2
  <2>. QED  BY <2>1, <2>2
<1>5. PICK met \in SUBSET Problems, due \in SUBSET Problems :
         met = new /\ due = targets
  BY <1>1
<1>6. Contract!Meet(met, due)
  BY <1>1, <1>4, <1>5 DEF Contract!Meet
<1>7. due \in SUBSET met
  BY <1>1, <1>5
<1>. QED  BY <1>6, <1>7 DEF Contract!Next

\* Submitting an answer is one too: there is one on its way.
LEMMA SubmitKeepsContract ==
    ASSUME LessonInv, NEW p \in Problems, SubmitAnswer(p)
    PROVE  [Contract!Next]_Contract!vars
<1>1. /\ pending \in [Problems -> Seq(Answers)] /\ sent \in [Problems -> Seq(Answers)]
      /\ pending[p] # <<>> /\ Len(pending[p]) + Len(sent[p]) <= 1
      /\ pending' = [pending EXCEPT ![p] = Tail(pending[p])]
      /\ sent' = [sent EXCEPT ![p] = Append(sent[p], Head(pending[p]))]
      /\ UNCHANGED <<over, told, pc, answered, tries>>
  BY DEF SubmitAnswer, LessonInv, TypeOK, AnsweredOnce, classroom, lessonState
<1>2. /\ pending[p] \in Seq(Answers) /\ sent[p] \in Seq(Answers)
      /\ Len(pending[p]) = 1
      /\ Len(Tail(pending[p])) = 0
      /\ Len(Append(sent[p], Head(pending[p]))) = Len(sent[p]) + 1
  <2>1. pending[p] \in Seq(Answers) /\ sent[p] \in Seq(Answers)
    BY <1>1
  <2>2. Len(pending[p]) \in Nat \ {0} /\ Len(sent[p]) \in Nat
    BY <1>1, <2>1
  <2> DEFINE m == Len(pending[p])
             n == Len(sent[p])
  <2>3. m = 1
    <3>1. m + n <= 1 /\ m \in Nat \ {0} /\ n \in Nat
      BY <1>1, <2>2
    <3> HIDE DEF m, n
    <3>. QED  BY <3>1
  <2>4. Len(Tail(pending[p])) = 0 /\ Head(pending[p]) \in Answers
    BY <1>1, <2>1, <2>3
  <2>. QED  BY <2>1, <2>3, <2>4
<1>3. /\ [q \in Problems |-> Len(pending[q])]'
            = [[q \in Problems |-> Len(pending[q])] EXCEPT ![p] = 0]
      /\ [q \in Problems |-> Len(sent[q])]'
            = [[q \in Problems |-> Len(sent[q])] EXCEPT ![p] = @ + 1]
  BY <1>1, <1>2
<1>4. Contract!Submit(p)
  BY <1>1, <1>2, <1>3 DEF Contract!Submit
<1>. QED  BY <1>4 DEF Contract!Next

\* A check-in is asked for only when it never was.
LEMMA CheckinKeepsContract ==
    ASSUME LessonInv, TakesCheckin
    PROVE  [Contract!Next]_Contract!vars
<1> DEFINE k == Head(inbox).of
<1>1. Takes("checkin") /\ UNCHANGED <<answered, pending, sent>>
  BY DEF TakesCheckin
<1>2. k \in Checkins
  BY <1>1, TakesType DEF WsEvents
<1>3. /\ pc = "listening" /\ UNCHANGED <<over, told>>
      /\ \/ UNCHANGED <<tries, pc>>
         \/ /\ k \notin checked /\ pc' = "checkingIn"
            /\ tries' = [tries EXCEPT ![k] = @ + 1]
  BY <1>1 DEF TakesCheckin, Takes, classroom
<1> HIDE DEF k
<1>4. CASE UNCHANGED <<tries, pc>>
  BY <1>1, <1>3, <1>4 DEF Contract!vars, Contract!answers
<1>5. CASE /\ k \notin checked /\ pc' = "checkingIn"
           /\ tries' = [tries EXCEPT ![k] = @ + 1]
  <2>1. tries[k] = 0 /\ tries' = [tries EXCEPT ![k] = 1]
    <3>1. tries \in [Checkins -> Nat] /\ \A j \in Checkins \ checked : tries[j] = 0
      BY DEF LessonInv, UnmetIsUntouched, TypeOK
    <3>2. tries[k] = 0
      BY <1>2, <1>5, <3>1
    <3>. QED  BY <1>5, <3>2
  <2>2. Contract!Request(k)
    BY <1>1, <1>3, <1>5, <2>1 DEF Contract!Request, Contract!answers
  <2>. QED  BY <1>2, <2>2 DEF Contract!Next
<1>. QED  BY <1>3, <1>4, <1>5

\* The steps in which the task ends, and those in which it only goes on.
LEMMA QuietKeepsContract ==
    ASSUME QuietStep \/ TellStop \/ Classroom \/ TakesSlide \/ TakesOther \/ UNCHANGED vars,
           LessonInv
    PROVE  [Contract!Next]_Contract!vars
<1>1. UNCHANGED <<answered, pending, sent, tries>>
  BY DEF QuietStep, CheckInAnswers, CheckInDone, Connects, ConnectFails, ConnectRefused,
         Retries, HistoryFails, PageViewDue, RequestReturns, StreamClosed, Stops,
         TellStop, Classroom, AddSlide, PublishProblem, OpenCheckin, SendOther, EndLesson,
         CloseStream, TakesSlide, TakesOther, vars, requests, lessonState
<1>2. \/ UNCHANGED <<pc, told>> /\ over' \in {over, TRUE}
      \/ UNCHANGED <<pc, over>> /\ told' = TRUE
      \/ UNCHANGED <<told, over>> /\ pc # "ended" /\ (pc' = "ended" => told \/ over)
  BY DEF QuietStep, CheckInAnswers, CheckInDone, Connects, ConnectFails, ConnectRefused,
         Retries, HistoryFails, PageViewDue, RequestReturns, StreamClosed, Stops,
         TellStop, Classroom, AddSlide, PublishProblem, OpenCheckin, SendOther, EndLesson,
         CloseStream, TakesSlide, TakesOther, Takes, vars, classroom, Leaves
<1>3. CASE UNCHANGED <<pc, told>> /\ over' \in {over, TRUE}
  BY <1>1, <1>3 DEF Contract!Next, Contract!EndLesson, Contract!vars, Contract!answers
<1>4. CASE UNCHANGED <<pc, over>> /\ told' = TRUE
  BY <1>1, <1>4 DEF Contract!Next, Contract!TellStop, Contract!answers
<1>5. CASE UNCHANGED <<told, over>> /\ pc # "ended" /\ (pc' = "ended" => told \/ over)
  <2>1. CASE pc' = "ended"
    BY <1>1, <1>5, <2>1 DEF Contract!Next, Contract!End, Contract!answers
  <2>2. CASE pc' # "ended"
    BY <1>1, <1>5, <2>2 DEF Contract!vars, Contract!answers
  <2>. QED  BY <2>1, <2>2
<1>. QED  BY <1>2, <1>3, <1>4, <1>5

(***************************************************************************)
(* A lesson task implements LessonContract, whatever slides, stream and    *)
(* server do: it ends for a cause, meets a problem and asks for a check-in *)
(* once and submits no answer twice.                                       *)
(***************************************************************************)
THEOREM LessonKeepsContract == Spec => KeepsContract
<1>1. Init => Contract!Init
  <2> SUFFICES ASSUME Init PROVE Contract!Init
    OBVIOUS
  <2>1. \A p \in Problems : Len(pending[p]) = 0 /\ Len(sent[p]) = 0
    BY DEF Init
  <2>2. /\ [p \in Problems |-> Len(pending[p])] = [p \in Problems |-> 0]
        /\ [p \in Problems |-> Len(sent[p])] = [p \in Problems |-> 0]
    BY <2>1
  <2>3. pc # "ended" /\ told = FALSE /\ over = FALSE /\ answered = {}
        /\ tries = [k \in Checkins |-> 0]
    BY DEF Init
  <2>. QED  BY <2>2, <2>3 DEF Contract!Init
<1>2. LessonInv /\ [Next]_vars => [Contract!Next]_Contract!vars
  <2> SUFFICES ASSUME LessonInv, [Next]_vars
               PROVE  [Contract!Next]_Contract!vars
    OBVIOUS
  <2>1. CASE QuietStep \/ TellStop \/ Classroom \/ TakesSlide \/ TakesOther \/ UNCHANGED vars
    BY <2>1, QuietKeepsContract
  <2>2. CASE HistoryLoads
    <3>1. /\ Discover(slides, "Ppt") /\ slides \in SUBSET Problems
          /\ pc = "loading" /\ pc' = "listening" /\ UNCHANGED <<over, told, sent, tries>>
      BY <2>2 DEF HistoryLoads, LessonInv, TypeOK, classroom
    <3>. QED  BY <3>1, DiscoverKeepsContract
  <2>3. CASE TakesProblem
    <3>1. /\ Discover({Head(inbox).of}, "Ws") /\ Takes("problem")
          /\ pc = "listening" /\ pc' = pc /\ UNCHANGED <<over, told, sent, tries>>
      BY <2>3 DEF TakesProblem, Takes, classroom
    <3>2. {Head(inbox).of} \in SUBSET Problems
      BY <3>1, TakesType DEF WsEvents
    <3>. QED  BY <3>1, <3>2, DiscoverKeepsContract
  <2>4. CASE TakesCheckin
    BY <2>4, CheckinKeepsContract
  <2>5. ASSUME NEW p \in Problems, SubmitAnswer(p)
        PROVE  [Contract!Next]_Contract!vars
    BY <2>5, SubmitKeepsContract
  <2>. QED  BY <2>1, <2>2, <2>3, <2>4, <2>5
               DEF Next, LessonTask, Handle, QuietStep
<1>. QED  BY <1>1, <1>2, LessonIsSafe, PTL DEF Spec, KeepsContract, Contract!Spec
=============================================================================
