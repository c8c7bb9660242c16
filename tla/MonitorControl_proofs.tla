------------------------- MODULE MonitorControl_proofs -------------------------
(***************************************************************************)
(* First the engine on its own: for any callers, runs, lessons and channel *)
(* capacity EngineInv is an invariant of MonitorEngine, and MonitorEngine  *)
(* implements MonitorContract.                                             *)
(*                                                                         *)
(* Then the commands, which drive the engine only through its interface:   *)
(* every step of MonitorControl is a step of MonitorEngine or leaves the   *)
(* engine alone.  Hence all that is proved of the engine holds under any   *)
(* interleaving of commands and background loop, for any number of them.   *)
(*                                                                         *)
(* At the end, each lesson task of each run, as the engine sees it, is     *)
(* shown to implement LessonContract.                                      *)
(***************************************************************************)
EXTENDS MonitorControl, SequenceTheorems, TLAPS

(***************************************************************************)
(* Publishing keeps the unread events within the channel.                  *)
(***************************************************************************)
LEMMA PublishKeepsFeed ==
    ASSUME EngineTypeOK, NEW e \in Events, Publish(e)
    PROVE  /\ feed' \in Seq(Events)
           /\ Len(feed') <= Capacity
           /\ lagged' \in BOOLEAN
           /\ listening' \in BOOLEAN
<1> USE EngineAssumption DEF EngineTypeOK
<1>1. CASE ~listening
  BY <1>1 DEF Publish
<1>2. CASE listening /\ Len(feed) = Capacity
  <2>1. feed # <<>>
    BY <1>2
  <2>2. Tail(feed) \in Seq(Events) /\ Len(Tail(feed)) = Len(feed) - 1
    BY <2>1, HeadTailProperties
  <2>3. feed' = Append(Tail(feed), e)
    BY <1>2 DEF Publish
  <2>4. feed' \in Seq(Events) /\ Len(feed') = Len(feed)
    BY <2>2, <2>3, AppendProperties
  <2>. QED  BY <1>2, <2>4 DEF Publish
<1>3. CASE listening /\ Len(feed) # Capacity
  <2>1. feed' = Append(feed, e)
    BY <1>3 DEF Publish
  <2>2. feed' \in Seq(Events) /\ Len(feed') = Len(feed) + 1
    BY <2>1, AppendProperties
  <2>. QED  BY <1>3, <2>2 DEF Publish
<1>. QED  BY <1>1, <1>2, <1>3

LEMMA EngineInitInv == EngineInit => EngineInv
<1> SUFFICES ASSUME EngineInit PROVE EngineInv
  OBVIOUS
<1> USE EngineAssumption DEF EngineInit
<1>0. <<>> \in Seq(Events) /\ Len(<<>>) = 0
  BY EmptySeq
<1>1. feed \in Seq(Events) /\ Len(feed) <= Capacity
  BY <1>0
<1>2. EngineTypeOK
  BY <1>1 DEF EngineTypeOK, Stages
<1>3. BooksAgree /\ OneOwner /\ NoStrayRun /\ StopReturnsWhenOver
  BY DEF BooksAgree, OneOwner, NoStrayRun, StopReturnsWhenOver, Live
<1>. QED  BY <1>2, <1>3 DEF EngineInv

(***************************************************************************)
(* The invariant is preserved by each operation.  The parts other than the *)
(* type invariant do not mention the channel.                              *)
(***************************************************************************)
LEMMA EngineStartInv == EngineInv /\ EngineStart => EngineInv'
<1> SUFFICES ASSUME EngineInv, EngineStart PROVE EngineInv'
  OBVIOUS
<1> USE EngineAssumption
        DEF EngineInv, EngineTypeOK, BooksAgree, OneOwner, NoStrayRun,
            StopReturnsWhenOver, Silent, Live, Stages
<1>1. CASE runtime # NoRun
  BY <1>1 DEF EngineStart
<1>2. CASE runtime = NoRun
  <2>1. PICK r \in Runs : /\ task[r] = "unspawned"
                          /\ task' = [task EXCEPT ![r] = "spawned"]
                          /\ runtime' = r
    BY <1>2 DEF EngineStart
  <2>2. UNCHANGED <<told, lessons, took, over, feed, lagged, listening>>
    BY DEF EngineStart
  <2>. QED  BY <1>2, <2>1, <2>2
<1>. QED  BY <1>1, <1>2

LEMMA StopInv ==
    ASSUME EngineInv, NEW c \in Callers,
           StopTake(c) \/ StopSignal(c) \/ StopJoined(c)
    PROVE  EngineInv'
<1> USE EngineAssumption
        DEF EngineInv, EngineTypeOK, BooksAgree, OneOwner, NoStrayRun,
            StopReturnsWhenOver, Silent, Live, Stages
<1>1. CASE StopTake(c)
  BY <1>1 DEF StopTake
<1>2. CASE StopSignal(c)
  BY <1>2 DEF StopSignal
<1>3. CASE StopJoined(c)
  BY <1>3 DEF StopJoined
<1>. QED  BY <1>1, <1>2, <1>3

LEMMA RunStepInv ==
    ASSUME EngineInv, NEW r \in Runs, RunStep(r)
    PROVE  EngineInv'
<1> USE EngineAssumption
        DEF EngineInv, EngineTypeOK, BooksAgree, OneOwner, NoStrayRun,
            StopReturnsWhenOver, Silent, Live, Stages
<1>e. "Notice" \in Events /\ "MonitorStopped" \in Events
  BY DEF Events
<1>1. CASE Begins(r)
  BY <1>1, <1>e, PublishKeepsFeed DEF Begins
<1>2. CASE SyncFails(r)
  BY <1>2, <1>e, PublishKeepsFeed DEF SyncFails
<1>3. ASSUME NEW l \in Lessons, Discovers(r, l) PROVE EngineInv'
  BY <1>3, <1>e, PublishKeepsFeed DEF Discovers
<1>4. CASE Supervises(r)
  BY <1>4 DEF Supervises
<1>5. CASE Ends(r)
  BY <1>5, <1>e, PublishKeepsFeed DEF Ends
<1>6. ASSUME NEW l \in Lessons, LessonStep(r, l) PROVE EngineInv'
  <2>1. CASE LessonReports(r, l)
    BY <2>1, <1>e, PublishKeepsFeed DEF LessonReports
  <2>2. CASE LessonAnnouncesEnd(r, l)
    BY <2>2, <1>e, PublishKeepsFeed DEF LessonAnnouncesEnd
  <2>3. CASE LessonRefused(r, l)
    BY <2>3, <1>e, PublishKeepsFeed DEF LessonRefused, Watching
  <2>4. CASE LessonStops(r, l)
    BY <2>4 DEF LessonStops, Watching
  <2>. QED  BY <1>6, <2>1, <2>2, <2>3, <2>4 DEF LessonStep
<1>7. CASE AnswerReports(r)
  BY <1>7, <1>e, PublishKeepsFeed DEF AnswerReports
<1>. QED  BY <1>1, <1>2, <1>3, <1>4, <1>5, <1>6, <1>7 DEF RunStep, SupervisorStep

LEMMA ReceiveInv == EngineInv /\ (Receive \/ ReceiveLagged) => EngineInv'
<1> SUFFICES ASSUME EngineInv, Receive \/ ReceiveLagged PROVE EngineInv'
  OBVIOUS
<1>1. feed' \in Seq(Events) /\ Len(feed') <= Capacity
  <2>1. CASE Receive
    BY <2>1, HeadTailProperties, EngineAssumption
       DEF Receive, EngineInv, EngineTypeOK
  <2>2. CASE ReceiveLagged
    BY <2>2, EmptySeq, EngineAssumption DEF ReceiveLagged
  <2>. QED  BY <2>1, <2>2
<1>2. UNCHANGED <<runtime, task, told, lessons, took, over, lagged>>
  BY DEF Receive, ReceiveLagged
<1>3. listening' \in BOOLEAN
  BY DEF Receive, ReceiveLagged, EngineInv, EngineTypeOK
<1>. QED
  BY <1>1, <1>2, <1>3
     DEF EngineInv, EngineTypeOK, BooksAgree, OneOwner, NoStrayRun,
         StopReturnsWhenOver, Live

LEMMA LessonOverInv ==
    ASSUME EngineInv, NEW l \in Lessons, LessonOver(l)
    PROVE  EngineInv'
BY DEF LessonOver, Silent, EngineInv, EngineTypeOK, BooksAgree, OneOwner, NoStrayRun,
       StopReturnsWhenOver, Live

LEMMA EngineNextInv == EngineInv /\ [EngineNext]_engineVars => EngineInv'
<1> SUFFICES ASSUME EngineInv, [EngineNext]_engineVars PROVE EngineInv'
  OBVIOUS
<1>1. CASE EngineStart
  BY <1>1, EngineStartInv
<1>2. ASSUME NEW c \in Callers, StopTake(c) \/ StopSignal(c) \/ StopJoined(c)
      PROVE  EngineInv'
  BY <1>2, StopInv
<1>3. ASSUME NEW r \in Runs, RunStep(r) PROVE EngineInv'
  BY <1>3, RunStepInv
<1>4. CASE Receive \/ ReceiveLagged
  BY <1>4, ReceiveInv
<1>5. CASE UNCHANGED engineVars
  BY <1>5 DEF engineVars, EngineInv, EngineTypeOK, BooksAgree, OneOwner,
              NoStrayRun, StopReturnsWhenOver, Live
<1>6. ASSUME NEW l \in Lessons, LessonOver(l) PROVE EngineInv'
  BY <1>6, LessonOverInv
<1>. QED  BY <1>1, <1>2, <1>3, <1>4, <1>5, <1>6 DEF EngineNext

(***************************************************************************)
(* EngineInv holds in every state of every behaviour of the engine, so its *)
(* types are right, no run strays from its owner, a runtime has one owner, *)
(* and a stop returns only when its run is over.                           *)
(***************************************************************************)
THEOREM EngineIsSafe == EngineSpec => []EngineInv
<1>1. EngineInit => EngineInv
  BY EngineInitInv
<1>2. EngineInv /\ [EngineNext]_engineVars => EngineInv'
  BY EngineNextInv
<1>. QED  BY <1>1, <1>2, PTL DEF EngineSpec

(***************************************************************************)
(* Implementation.  Only start, and the first and last halves of stop,     *)
(* change what the contract sees of a run; everything else stutters.       *)
(***************************************************************************)
LEMMA StartKeepsContract ==
    ASSUME EngineInv, EngineStart
    PROVE  [Contract!Next]_Contract!vars
<1> USE EngineAssumption DEF EngineInv, EngineTypeOK, BooksAgree, OneOwner
<1>1. CASE runtime # NoRun
  BY <1>1 DEF EngineStart, ContractPhase, ContractWorking, Live, Contract!vars
<1>2. CASE runtime = NoRun
  <2>1. PICK r \in Runs : /\ task[r] = "unspawned"
                          /\ task' = [task EXCEPT ![r] = "spawned"]
                          /\ runtime' = r
    BY <1>2 DEF EngineStart
  <2>2. took' = took
    BY DEF EngineStart
  <2>3. ContractPhase[r] = "new"
    BY <2>1 DEF ContractPhase
  <2>4. \A q \in Runs : ContractPhase[q] # "serving"
    BY <1>2 DEF ContractPhase
  <2>5. ContractPhase' = [ContractPhase EXCEPT ![r] = "serving"]
    BY <1>2, <2>1, <2>2 DEF ContractPhase
  <2>6. ContractWorking' = ContractWorking \cup {r}
    BY <2>1 DEF ContractWorking, Live
  <2>7. Contract!Begin(r)
    BY <2>3, <2>4, <2>5, <2>6 DEF Contract!Begin
  <2>. QED  BY <2>7 DEF Contract!Next
<1>. QED  BY <1>1, <1>2

LEMMA StopKeepsContract ==
    ASSUME EngineInv, NEW c \in Callers,
           StopTake(c) \/ StopSignal(c) \/ StopJoined(c)
    PROVE  [Contract!Next]_Contract!vars
<1> USE EngineAssumption DEF EngineInv, EngineTypeOK, BooksAgree, OneOwner
<1>1. CASE StopTake(c) /\ runtime = NoRun
  BY <1>1 DEF StopTake, ContractPhase, ContractWorking, Live, Contract!vars
<1>2. CASE StopTake(c) /\ runtime # NoRun
  <2>1. PICK r \in Runs : r = runtime
    BY <1>2
  <2>2. ContractPhase[r] = "serving"
    BY <2>1 DEF ContractPhase
  <2>3. ContractPhase' = [ContractPhase EXCEPT ![r] = "retiring"]
    BY <1>2, <2>1 DEF ContractPhase, StopTake
  <2>4. UNCHANGED ContractWorking
    BY <1>2 DEF ContractWorking, Live, StopTake
  <2>5. Contract!Retire(r)
    BY <2>2, <2>3, <2>4 DEF Contract!Retire
  <2>. QED  BY <2>5 DEF Contract!Next
<1>3. CASE StopSignal(c)
  BY <1>3 DEF StopSignal, ContractPhase, ContractWorking, Live, Contract!vars
<1>4. CASE StopJoined(c)
  <2>1. PICK r \in Runs : r = took[c]
    BY <1>4 DEF StopJoined
  <2>2. ContractPhase[r] = "retiring"
    BY <2>1 DEF ContractPhase
  <2>3. \A d \in Callers : d # c => took[d] # r
    BY <2>1
  <2>4. ContractPhase' = [ContractPhase EXCEPT ![r] = "over"]
    BY <1>4, <2>1, <2>3 DEF ContractPhase, StopJoined
  <2>5. r \notin ContractWorking /\ UNCHANGED ContractWorking
    BY <1>4, <2>1 DEF ContractWorking, Live, StopJoined
  <2>6. Contract!Finish(r)
    BY <2>2, <2>4, <2>5 DEF Contract!Finish
  <2>. QED  BY <2>6 DEF Contract!Next
<1>. QED  BY <1>1, <1>2, <1>3, <1>4

LEMMA RunStepKeepsContract ==
    ASSUME EngineInv, NEW r \in Runs, RunStep(r)
    PROVE  [Contract!Next]_Contract!vars
<1> USE EngineAssumption DEF EngineInv, EngineTypeOK
<1>1. UNCHANGED <<runtime, took>>
  BY DEF RunStep, SupervisorStep, LessonStep, Begins, SyncFails, Discovers,
         Supervises, Ends, LessonReports, LessonAnnouncesEnd, LessonRefused,
         LessonStops, AnswerReports
<1>2. \/ UNCHANGED task
      \/ /\ task[r] \in {"spawned", "syncing"}
         /\ task' = [task EXCEPT ![r] = "syncing"]
      \/ /\ task[r] = "syncing"
         /\ task' = [task EXCEPT ![r] = "watching"]
      \/ /\ task[r] \in {"syncing", "watching"}
         /\ task' = [task EXCEPT ![r] = "ended"]
  BY DEF RunStep, SupervisorStep, LessonStep, Begins, SyncFails, Discovers,
         Supervises, Ends, LessonReports, LessonAnnouncesEnd, LessonRefused,
         LessonStops, AnswerReports
<1>3. UNCHANGED ContractPhase
  BY <1>1, <1>2 DEF ContractPhase
<1>4. CASE /\ task[r] \in {"syncing", "watching"}
           /\ task' = [task EXCEPT ![r] = "ended"]
  <2>1. r \in ContractWorking /\ ContractWorking' = ContractWorking \ {r}
    BY <1>4 DEF ContractWorking, Live
  <2>2. Contract!Expire(r)
    BY <1>3, <2>1 DEF Contract!Expire
  <2>. QED  BY <2>2 DEF Contract!Next
<1>5. CASE \A q \in Runs : Live(q)' <=> Live(q)
  BY <1>3, <1>5 DEF ContractWorking, Contract!vars
<1>. QED  BY <1>2, <1>4, <1>5 DEF Live

(***************************************************************************)
(* The engine keeps its contract: at most one run in service, a run is     *)
(* retired at most once, and the retiring stop returns when it is over.    *)
(***************************************************************************)
THEOREM EngineKeepsContract == EngineSpec => KeepsContract
<1>1. EngineInit => Contract!Init
  BY EngineAssumption DEF EngineInit, Contract!Init, ContractPhase,
                              ContractWorking, Live
<1>2. EngineInv /\ [EngineNext]_engineVars => [Contract!Next]_Contract!vars
  <2> SUFFICES ASSUME EngineInv, [EngineNext]_engineVars
               PROVE  [Contract!Next]_Contract!vars
    OBVIOUS
  <2>1. CASE EngineStart
    BY <2>1, StartKeepsContract
  <2>2. ASSUME NEW c \in Callers, StopTake(c) \/ StopSignal(c) \/ StopJoined(c)
        PROVE  [Contract!Next]_Contract!vars
    BY <2>2, StopKeepsContract
  <2>3. ASSUME NEW r \in Runs, RunStep(r)
        PROVE  [Contract!Next]_Contract!vars
    BY <2>3, RunStepKeepsContract
  <2>4. CASE Receive \/ ReceiveLagged \/ UNCHANGED engineVars
    BY <2>4 DEF Receive, ReceiveLagged, engineVars, Contract!vars,
                ContractPhase, ContractWorking, Live
  <2>5. ASSUME NEW l \in Lessons, LessonOver(l)
        PROVE  [Contract!Next]_Contract!vars
    BY <2>5 DEF LessonOver, Contract!vars, ContractPhase, ContractWorking, Live
  <2>. QED  BY <2>1, <2>2, <2>3, <2>4, <2>5 DEF EngineNext
<1>. QED  BY <1>1, <1>2, EngineIsSafe, PTL DEF EngineSpec, KeepsContract, Contract!Spec

-----------------------------------------------------------------------------
(* The lesson tasks, as the engine sees them.                              *)

\* A step of a run concerns one of its lesson tasks when the supervision begins,
\* when the task is over, and at no other time.
LEMMA RunStepOnLesson ==
    ASSUME EngineInv, NEW r \in Runs, NEW l \in Lessons, NEW q \in Runs, RunStep(q)
    PROVE  \/ LessonWork(r, l)' = LessonWork(r, l)
           \/ LessonWork(r, l) = "waiting" /\ LessonWork(r, l)' \in {"working", "ended"}
           \/ /\ LessonWork(r, l) = "working" /\ LessonWork(r, l)' = "ended"
              /\ l \in over \/ r \in told
<1> USE DEF EngineInv, EngineTypeOK, BooksAgree, LessonWork
<1>1. CASE q # r
  <2>1. task'[r] = task[r] /\ lessons'[r] = lessons[r]
    BY <1>1 DEF RunStep, SupervisorStep, LessonStep, Begins, SyncFails, Discovers,
                Supervises, Ends, LessonReports, LessonAnnouncesEnd, LessonRefused,
                LessonStops, AnswerReports
  <2>. QED  BY <2>1
<1>2. CASE Begins(r) \/ SyncFails(r) \/ Supervises(r) \/ Ends(r)
  BY <1>2 DEF Begins, SyncFails, Supervises, Ends
<1>3. ASSUME NEW m \in Lessons, Discovers(r, m) \/ LessonStep(r, m)
      PROVE  \/ LessonWork(r, l)' = LessonWork(r, l)
             \/ /\ LessonWork(r, l) = "working" /\ LessonWork(r, l)' = "ended"
                /\ l \in over \/ r \in told
  BY <1>3 DEF Discovers, LessonStep, LessonReports, LessonAnnouncesEnd, LessonRefused,
              LessonStops, Watching
<1>4. CASE AnswerReports(r)
  BY <1>4 DEF AnswerReports
<1>. QED  BY <1>1, <1>2, <1>3, <1>4 DEF RunStep, SupervisorStep

(***************************************************************************)
(* Each lesson task of each run implements LessonContract, as far as the   *)
(* engine has it: it begins with the supervision of its run, ends for a    *)
(* cause, which is that its lesson is over or its run told to stop, and    *)
(* does not come back.                                                     *)
(***************************************************************************)
THEOREM EngineLessonsKeepContract ==
    ASSUME NEW r \in Runs, NEW l \in Lessons
    PROVE  EngineSpec => LessonOf(r, l)!Spec
<1>1. EngineInit => LessonOf(r, l)!Init
  BY EngineAssumption DEF EngineInit, LessonOf!Init, LessonWork
<1>2. EngineInv /\ [EngineNext]_engineVars => [LessonOf(r, l)!Next]_(LessonOf(r, l)!vars)
  <2> SUFFICES ASSUME EngineInv, [EngineNext]_engineVars
               PROVE  [LessonOf(r, l)!Next]_(LessonOf(r, l)!vars)
    OBVIOUS
  <2>1. ASSUME UNCHANGED <<LessonWork(r, l), r \in told, l \in over>>
        PROVE  [LessonOf(r, l)!Next]_(LessonOf(r, l)!vars)
    BY <2>1 DEF LessonOf!vars, LessonOf!answers
  <2>2. CASE EngineStart
    <3>1. UNCHANGED <<LessonWork(r, l), r \in told, l \in over>>
      BY <2>2 DEF EngineStart, LessonWork, EngineInv, EngineTypeOK
    <3>. QED  BY <3>1, <2>1
  <2>3. ASSUME NEW c \in Callers, StopTake(c) \/ StopJoined(c)
        PROVE  [LessonOf(r, l)!Next]_(LessonOf(r, l)!vars)
    <3>1. UNCHANGED <<LessonWork(r, l), r \in told, l \in over>>
      BY <2>3 DEF StopTake, StopJoined, LessonWork
    <3>. QED  BY <3>1, <2>1
  <2>4. ASSUME NEW c \in Callers, StopSignal(c)
        PROVE  [LessonOf(r, l)!Next]_(LessonOf(r, l)!vars)
    <3>1. UNCHANGED <<LessonWork(r, l), over>> /\ told' = told \cup {took[c]}
      BY <2>4 DEF StopSignal, LessonWork
    <3>2. CASE r = took[c]
      <4>1. LessonOf(r, l)!TellStop
        BY <3>1, <3>2 DEF LessonOf!TellStop, LessonOf!answers
      <4>. QED  BY <4>1 DEF LessonOf!Next
    <3>3. CASE r # took[c]
      BY <3>1, <3>3, <2>1
    <3>. QED  BY <3>2, <3>3
  <2>5. ASSUME NEW q \in Runs, RunStep(q)
        PROVE  [LessonOf(r, l)!Next]_(LessonOf(r, l)!vars)
    <3>1. told' = told /\ over' = over
      BY <2>5 DEF RunStep, SupervisorStep, LessonStep, Begins, SyncFails, Discovers,
                  Supervises, Ends, LessonReports, LessonAnnouncesEnd, LessonRefused,
                  LessonStops, AnswerReports
    <3>2. CASE LessonWork(r, l)' = LessonWork(r, l)
      BY <3>1, <3>2, <2>1
    <3>3. CASE LessonWork(r, l) = "waiting" /\ LessonWork(r, l)' \in {"working", "ended"}
      <4>1. LessonOf(r, l)!Spawn
        BY <3>1, <3>3 DEF LessonOf!Spawn, LessonOf!answers
      <4>. QED  BY <4>1 DEF LessonOf!Next
    <3>4. CASE /\ LessonWork(r, l) = "working" /\ LessonWork(r, l)' = "ended"
               /\ l \in over \/ r \in told
      <4>1. LessonOf(r, l)!End
        BY <3>1, <3>4 DEF LessonOf!End, LessonOf!answers
      <4>. QED  BY <4>1 DEF LessonOf!Next
    <3>. QED  BY <2>5, <3>2, <3>3, <3>4, RunStepOnLesson
  <2>6. CASE Receive \/ ReceiveLagged \/ UNCHANGED engineVars
    <3>1. UNCHANGED <<LessonWork(r, l), r \in told, l \in over>>
      BY <2>6 DEF Receive, ReceiveLagged, engineVars, LessonWork
    <3>. QED  BY <3>1, <2>1
  <2>7. ASSUME NEW m \in Lessons, LessonOver(m)
        PROVE  [LessonOf(r, l)!Next]_(LessonOf(r, l)!vars)
    <3>1. UNCHANGED <<LessonWork(r, l), told>> /\ over' = over \cup {m}
      BY <2>7 DEF LessonOver, LessonWork
    <3>2. CASE m = l
      <4>1. LessonOf(r, l)!EndLesson
        BY <3>1, <3>2 DEF LessonOf!EndLesson, LessonOf!answers
      <4>. QED  BY <4>1 DEF LessonOf!Next
    <3>3. CASE m # l
      BY <3>1, <3>3, <2>1
    <3>. QED  BY <3>2, <3>3
  <2>. QED  BY <2>2, <2>3, <2>4, <2>5, <2>6, <2>7 DEF EngineNext
<1>. QED  BY <1>1, <1>2, EngineIsSafe, PTL DEF EngineSpec, LessonOf!Spec

-----------------------------------------------------------------------------
(* The commands.                                                           *)

LEMMA CommandIsEngineStep ==
    ASSUME NEW c \in Callers, CommandStep(c)
    PROVE  [EngineNext]_engineVars
<1>1. CASE LoginStep(c)
  BY <1>1 DEF LoginStep, LoginByQr, ConfirmLogin, SaveSession,
              SaveSessionFails, RejectLogin, RestoreSession, SetLoggedIn
<1>2. CASE StartStep(c)
  <2>1. CASE StartEngine(c)
    BY <2>1 DEF StartEngine, EngineNext
  <2>2. CASE StartMonitor(c) \/ SetRunning(c) \/ LoadSession(c) \/ KeepHandle(c)
             \/ EngineRefuses(c) \/ DropHandle(c)
    BY <2>2 DEF StartMonitor, SetRunning, LoadSession, KeepHandle,
                EngineRefuses, DropHandle
  <2>. QED  BY <1>2, <2>1, <2>2 DEF StartStep
<1>3. CASE StopStep(c)
  <2>1. CASE StopMonitor(c) \/ Logout(c)
    BY <2>1 DEF StopMonitor, Logout, StopOrLogout
  <2>2. CASE EngineStopTakes(c) \/ EngineStopSignals(c) \/ EngineStopReturns(c)
    BY <2>2 DEF EngineStopTakes, EngineStopSignals, EngineStopReturns, EngineNext
  <2>3. CASE ClearSession(c) \/ ClearSessionFails(c) \/ SetLoggedOut(c)
             \/ SetStopped(c)
    BY <2>3 DEF ClearSession, ClearSessionFails, SetLoggedOut, SetStopped
  <2>. QED  BY <1>3, <2>1, <2>2, <2>3 DEF StopStep
<1>. QED  BY <1>1, <1>2, <1>3 DEF CommandStep

LEMMA NextIsEngineStep == [Next]_vars => [EngineNext]_engineVars
<1> SUFFICES ASSUME [Next]_vars PROVE [EngineNext]_engineVars
  OBVIOUS
<1>1. ASSUME NEW c \in Callers, CommandStep(c) PROVE [EngineNext]_engineVars
  BY <1>1, CommandIsEngineStep
<1>2. CASE MonitorStep
  BY <1>2 DEF MonitorStep, EngineNext
<1>3. CASE BackgroundLoop \/ BackgroundLoopBreaks
  BY <1>3 DEF BackgroundLoop, BackgroundLoopBreaks, EngineNext
<1>4. CASE UNCHANGED vars
  BY <1>4 DEF vars
<1>. QED  BY <1>1, <1>2, <1>3, <1>4 DEF Next

(***************************************************************************)
(* The composition implements the engine on its own.                       *)
(***************************************************************************)
THEOREM ControlUsesEngine == Spec => EngineSpec
<1>1. Init => EngineInit
  BY DEF Init
<1>. QED  BY <1>1, NextIsEngineStep, PTL DEF Spec, EngineSpec

(***************************************************************************)
(* So commands keep the engine's contract: at most one run in service, and *)
(* a StopMonitor or Logout that retired a run outlasts it.                 *)
(***************************************************************************)
THEOREM ControlKeepsContract == Spec => KeepsContract
BY ControlUsesEngine, EngineKeepsContract

(***************************************************************************)
(* And lesson tasks keep theirs, whatever commands run.                    *)
(***************************************************************************)
THEOREM LessonTasksKeepContract ==
    ASSUME NEW r \in Runs, NEW l \in Lessons
    PROVE  Spec => LessonOf(r, l)!Spec
BY ControlUsesEngine, EngineLessonsKeepContract

(***************************************************************************)
(* The service's own variables and the engine's stay in step.              *)
(***************************************************************************)
ControlInv == EngineInv /\ TypeOK /\ JoinerHoldsRun

LEMMA RunStepKeepsTook ==
    ASSUME NEW r \in Runs, RunStep(r)
    PROVE  took' = took
BY DEF RunStep, SupervisorStep, LessonStep, Begins, SyncFails, Discovers,
       Supervises, Ends, LessonReports, LessonAnnouncesEnd, LessonRefused,
       LessonStops, AnswerReports

LEMMA LoginStepInv ==
    ASSUME ControlInv, NEW c \in Callers, LoginStep(c)
    PROVE  TypeOK' /\ JoinerHoldsRun'
<1>1. EngineTypeOK' /\ UNCHANGED <<took, monitorRunning, monitorHandle>>
  BY DEF ControlInv, TypeOK, LoginStep, LoginByQr, ConfirmLogin,
         SaveSession, SaveSessionFails, RejectLogin, RestoreSession, SetLoggedIn,
         engineVars, serviceVars, EngineTypeOK
<1> USE <1>1 DEF ControlInv, TypeOK, JoinerHoldsRun, Idle, Issue, Goto, At,
                 Steps, AppCommands, AuthStates
<1>2. CASE LoginByQr(c) \/ RejectLogin(c)
  BY <1>2 DEF LoginByQr, RejectLogin
<1>6. CASE SaveSession(c) \/ SaveSessionFails(c)
  BY <1>6 DEF SaveSession, SaveSessionFails, serviceVars
<1>3. CASE ConfirmLogin(c)
  BY <1>3 DEF ConfirmLogin
<1>4. CASE RestoreSession(c)
  BY <1>4 DEF RestoreSession, serviceVars
<1>5. CASE SetLoggedIn(c)
  BY <1>5 DEF SetLoggedIn
<1>. QED  BY <1>2, <1>3, <1>4, <1>5, <1>6 DEF LoginStep

LEMMA StartStepInv ==
    ASSUME ControlInv, EngineInv', NEW c \in Callers, StartStep(c)
    PROVE  TypeOK' /\ JoinerHoldsRun'
<1>1. EngineTypeOK' /\ took' = took
  BY DEF EngineInv, StartStep, StartMonitor, SetRunning, LoadSession,
         StartEngine, EngineStart, KeepHandle, EngineRefuses, DropHandle,
         engineVars
<1> USE <1>1 DEF ControlInv, TypeOK, JoinerHoldsRun, Idle, Issue, Goto, At,
                 Steps, AppCommands, AuthStates, serviceVars
<1>2. CASE StartMonitor(c)
  BY <1>2 DEF StartMonitor
<1>3. CASE SetRunning(c)
  BY <1>3 DEF SetRunning
<1>4. CASE LoadSession(c)
  BY <1>4 DEF LoadSession
<1>5. CASE StartEngine(c)
  BY <1>5 DEF StartEngine
<1>6. CASE KeepHandle(c)
  BY <1>6 DEF KeepHandle
<1>7. CASE EngineRefuses(c)
  BY <1>7 DEF EngineRefuses
<1>8. CASE DropHandle(c)
  BY <1>8 DEF DropHandle
<1>. QED  BY <1>2, <1>3, <1>4, <1>5, <1>6, <1>7, <1>8 DEF StartStep

LEMMA StopStepInv ==
    ASSUME ControlInv, EngineInv', NEW c \in Callers, StopStep(c)
    PROVE  TypeOK' /\ JoinerHoldsRun'
<1>1. EngineTypeOK'
  BY DEF EngineInv
<1> USE <1>1 DEF ControlInv, TypeOK, JoinerHoldsRun, Idle, Goto, At,
                 Steps, AppCommands, AuthStates, serviceVars, AfterEngine
<1>2. ASSUME NEW command \in {"StopMonitor", "Logout"}, StopOrLogout(c, command)
      PROVE  TypeOK' /\ JoinerHoldsRun'
  BY <1>2 DEF StopOrLogout, engineVars
<1>3. CASE EngineStopTakes(c)
  BY <1>3, EngineAssumption DEF EngineStopTakes, StopTake, EngineInv, EngineTypeOK
<1>4. CASE EngineStopSignals(c)
  BY <1>4 DEF EngineStopSignals, StopSignal
<1>5. CASE EngineStopReturns(c)
  BY <1>5, EngineAssumption DEF EngineStopReturns, StopJoined, EngineInv, EngineTypeOK
<1>6. CASE ClearSession(c)
  BY <1>6 DEF ClearSession, engineVars
<1>7. CASE ClearSessionFails(c)
  BY <1>7 DEF ClearSessionFails, engineVars
<1>8. CASE SetLoggedOut(c)
  BY <1>8 DEF SetLoggedOut, engineVars
<1>9. CASE SetStopped(c)
  BY <1>9 DEF SetStopped, engineVars
<1>. QED  BY <1>2, <1>3, <1>4, <1>5, <1>6, <1>7, <1>8, <1>9
             DEF StopStep, StopMonitor, Logout

LEMMA ControlNextInv == ControlInv /\ EngineInv' /\ [Next]_vars => ControlInv'
<1> SUFFICES ASSUME ControlInv, EngineInv', [Next]_vars
             PROVE  TypeOK' /\ JoinerHoldsRun'
  BY DEF ControlInv
<1>1. ASSUME NEW c \in Callers, CommandStep(c)
      PROVE  TypeOK' /\ JoinerHoldsRun'
  BY <1>1, LoginStepInv, StartStepInv, StopStepInv DEF CommandStep
<1>2. CASE MonitorStep
  <2>1. EngineTypeOK' /\ took' = took
    BY <1>2, RunStepKeepsTook DEF MonitorStep, LessonOver, EngineInv
  <2>. QED
    BY <1>2, <2>1 DEF MonitorStep, ControlInv, TypeOK, JoinerHoldsRun, serviceVars
<1>3. CASE BackgroundLoop \/ BackgroundLoopBreaks
  <2>1. EngineTypeOK' /\ took' = took
    BY <1>3 DEF BackgroundLoop, BackgroundLoopBreaks, Receive, ReceiveLagged,
                EngineInv
  <2>. QED
    BY <1>3, <2>1 DEF BackgroundLoop, BackgroundLoopBreaks, ControlInv, TypeOK,
                      JoinerHoldsRun, serviceVars
<1>4. CASE UNCHANGED vars
  BY <1>4 DEF vars, serviceVars, ControlInv, TypeOK, JoinerHoldsRun, engineVars,
              EngineTypeOK
<1>. QED  BY <1>1, <1>2, <1>3, <1>4 DEF Next

(***************************************************************************)
(* Whatever the commands do: types are right, a command that waits for the *)
(* engine holds a runtime and no other does, no run strays from its owner, *)
(* and a command leaves stop only when its run is over.                    *)
(***************************************************************************)
THEOREM ControlIsSafe == Spec => []ControlInv
<1>1. Init => ControlInv
  <2> SUFFICES ASSUME Init PROVE ControlInv
    OBVIOUS
  <2>1. EngineInv
    BY EngineInitInv DEF Init
  <2>. QED
    BY <2>1 DEF Init, ControlInv, TypeOK, JoinerHoldsRun, EngineInv, EngineInit,
                AuthStates, Steps, AppCommands
<1>2. ControlInv /\ EngineInv' /\ [Next]_vars => ControlInv'
  BY ControlNextInv
<1>3. Spec => []EngineInv
  BY ControlUsesEngine, EngineIsSafe
<1>. QED  BY <1>1, <1>2, <1>3, PTL DEF Spec

THEOREM CommandsWaitForTheirRun == Spec => []JoinerHoldsRun
BY ControlIsSafe, PTL DEF ControlInv

(***************************************************************************)
(* The commands and the engine keep to their types.                        *)
(***************************************************************************)
THEOREM ControlTypesHold == Spec => []TypeOK
BY ControlIsSafe, PTL DEF ControlInv

(***************************************************************************)
(* A run that is alive and not told to stop is held by the engine or by    *)
(* one command inside its stop, whatever the commands do.                  *)
(***************************************************************************)
THEOREM NoRunGoesAstray == Spec => []NoStrayRun
BY ControlIsSafe, PTL DEF ControlInv, EngineInv

(***************************************************************************)
(* A command that has been through the engine's stop leaves no live run    *)
(* behind of those it had taken.                                           *)
(***************************************************************************)
THEOREM StopsAreComplete == Spec => []StopReturnsWhenOver
BY ControlIsSafe, PTL DEF ControlInv, EngineInv
=============================================================================
