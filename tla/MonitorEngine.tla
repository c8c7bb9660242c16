---------------------------- MODULE MonitorEngine ----------------------------
(***************************************************************************)
(* CoreMonitorEngine (rca-core/src/monitor/core_engine.rs): the engine     *)
(* behind StartMonitor, StopMonitor and Logout.                            *)
(*                                                                         *)
(* `start` and `stop` are called by any number of concurrent command       *)
(* futures.  `start` spawns a supervisor task - a run - and leaves its     *)
(* EngineRuntime in the engine's state; `stop` takes the EngineRuntime out *)
(* under the state lock, releases the lock, signals the run through its    *)
(* watch channel and awaits the supervisor.  The supervisor asks the       *)
(* server for the lessons in progress, spawns one task per lesson and ends *)
(* when all of them have ended or when it is told to stop.  What a lesson  *)
(* task does with the classroom stream is the module LessonMonitor; here   *)
(* it can publish events, end, or be stopped.                              *)
(*                                                                         *)
(* Every task publishes to one broadcast channel of bounded capacity.  Its *)
(* only receiver is the service's background loop: a send to a full        *)
(* channel overwrites the oldest event, and the receiver learns of that as *)
(* an error of its next recv.                                              *)
(***************************************************************************)
EXTENDS Naturals, Sequences

CONSTANTS
    Callers,        \* command futures that may be inside `stop`
    Runs,           \* supervisor tasks that may ever be spawned (a bound)
    NoRun,          \* no EngineRuntime
    Lessons,        \* lessons the server may list as in progress
    Capacity,       \* capacity of the broadcast channel (128 in the code)
    LessonsMayEnd,  \* lessons may come to their end in the classroom
    SyncMayFail     \* the request for the lessons in progress may fail

ASSUME EngineAssumption ==
    /\ NoRun \notin Runs
    /\ Capacity \in Nat \ {0}
    /\ LessonsMayEnd \in BOOLEAN
    /\ SyncMayFail \in BOOLEAN

VARIABLES
    runtime,        \* EngineState.runtime: the run whose EngineRuntime is kept
    task,           \* task[r]: progress of the supervisor task of run r
    told,           \* runs whose watch channel holds `true`
    lessons,        \* lessons[r]: lessons of r found, then the live lesson tasks
    took,           \* took[c]: the run whose EngineRuntime the stop call of c holds
    over,           \* lessons that are over in the classroom (environment)
    feed,           \* events published and not yet received
    lagged,         \* the receiver has missed an event and not yet been told
    listening       \* the background loop still receives

engineVars == <<runtime, task, told, lessons, took, over, feed, lagged, listening>>

Stages == {"unspawned", "spawned", "syncing", "watching", "ended"}

\* MonitorStopped is the one event the service acts on; "Notice" stands for
\* every other CoreEvent, which the background loop only records.
Events == {"MonitorStopped", "Notice"}

Live(r) == task[r] \in {"spawned", "syncing", "watching"}

EngineInit ==
    /\ runtime = NoRun
    /\ task = [r \in Runs |-> "unspawned"]
    /\ told = {}
    /\ lessons = [r \in Runs |-> {}]
    /\ took = [c \in Callers |-> NoRun]
    /\ over = {}
    /\ feed = <<>>
    /\ lagged = FALSE
    /\ listening = TRUE

-----------------------------------------------------------------------------
(* The broadcast channel.                                                  *)

\* event_tx.send: never waits; without a receiver the event is dropped.
Publish(e) ==
    LET full == Len(feed) = Capacity
    IN  /\ feed' = IF ~listening THEN feed
                   ELSE Append(IF full THEN Tail(feed) ELSE feed, e)
        /\ lagged' = (lagged \/ (listening /\ full))
        /\ UNCHANGED listening

Silent == UNCHANGED <<feed, lagged, listening>>

\* rx.recv returns the oldest event.
Receive ==
    /\ listening
    /\ ~lagged
    /\ feed # <<>>
    /\ feed' = Tail(feed)
    /\ UNCHANGED <<runtime, task, told, lessons, took, over, lagged, listening>>

\* rx.recv returns the Lagged error: the background loop breaks and drops rx.
ReceiveLagged ==
    /\ listening
    /\ lagged
    /\ listening' = FALSE
    /\ feed' = <<>>
    /\ UNCHANGED <<runtime, task, told, lessons, took, over, lagged>>

-----------------------------------------------------------------------------
(* start and stop.                                                         *)

\* Mutant: start forgets to look for an EngineRuntime in place.
EngineStart_Overwrites ==
    /\ \E r \in Runs :
          /\ task[r] = "unspawned"
          /\ task' = [task EXCEPT ![r] = "spawned"]
          /\ runtime' = r
    /\ UNCHANGED <<told, lessons, took, over>>
    /\ Silent

\* start, with the state lock held throughout: it returns the same handle
\* whether it spawned a run or found an EngineRuntime in place.
EngineStart ==
    /\ \/ /\ runtime # NoRun
          /\ UNCHANGED <<runtime, task>>
       \/ /\ runtime = NoRun
          /\ \E r \in Runs :
                /\ task[r] = "unspawned"
                /\ task' = [task EXCEPT ![r] = "spawned"]
                /\ runtime' = r
    /\ UNCHANGED <<told, lessons, took, over>>
    /\ Silent

\* stop, first half, under the state lock: take the EngineRuntime, if any.
StopTake(c) ==
    /\ took[c] = NoRun
    /\ took' = [took EXCEPT ![c] = runtime]
    /\ runtime' = NoRun
    /\ UNCHANGED <<task, told, lessons, over>>
    /\ Silent

\* Mutant: the value sent on the watch channel is not `true`.
StopSignal_Lost(c) ==
    /\ took[c] # NoRun
    /\ took[c] \notin told
    /\ UNCHANGED engineVars

\* stop, after the lock is released: stop_tx.send(true).
StopSignal(c) ==
    /\ took[c] # NoRun
    /\ took[c] \notin told
    /\ told' = told \cup {took[c]}
    /\ UNCHANGED <<runtime, task, lessons, took, over>>
    /\ Silent

\* Mutant: stop does not await the supervisor.
StopJoined_Detaches(c) ==
    /\ took[c] \in told
    /\ took' = [took EXCEPT ![c] = NoRun]
    /\ UNCHANGED <<runtime, task, told, lessons, over>>
    /\ Silent

\* stop, last: join_handle.await returns once the supervisor has ended.
StopJoined(c) ==
    /\ took[c] \in told
    /\ task[took[c]] = "ended"
    /\ took' = [took EXCEPT ![c] = NoRun]
    /\ UNCHANGED <<runtime, task, told, lessons, over>>
    /\ Silent

-----------------------------------------------------------------------------
(* The supervisor task of a run.                                           *)

Begins(r) ==
    /\ task[r] = "spawned"
    /\ task' = [task EXCEPT ![r] = "syncing"]
    /\ Publish("Notice")
    /\ UNCHANGED <<runtime, told, lessons, took, over>>

\* get_on_lessons fails: an error event, no MonitorStopped.
SyncFails(r) ==
    /\ SyncMayFail
    /\ task[r] = "syncing"
    /\ lessons[r] = {}
    /\ task' = [task EXCEPT ![r] = "ended"]
    /\ Publish("Notice")
    /\ UNCHANGED <<runtime, told, lessons, took, over>>

\* get_on_lessons listed l: LessonDiscovered is published for it.
Discovers(r, l) ==
    /\ task[r] = "syncing"
    /\ l \notin lessons[r]
    /\ lessons' = [lessons EXCEPT ![r] = @ \cup {l}]
    /\ Publish("Notice")
    /\ UNCHANGED <<runtime, task, told, took, over>>

\* The lesson tasks are spawned and the supervision loop begins.
Supervises(r) ==
    /\ task[r] = "syncing"
    /\ task' = [task EXCEPT ![r] = "watching"]
    /\ UNCHANGED <<runtime, told, lessons, took, over>>
    /\ Silent

\* join_next has returned None, by itself or after abort_all.
Ends(r) ==
    /\ task[r] = "watching"
    /\ lessons[r] = {}
    /\ task' = [task EXCEPT ![r] = "ended"]
    /\ Publish("MonitorStopped")
    /\ UNCHANGED <<runtime, told, lessons, took, over>>

-----------------------------------------------------------------------------
(* The classroom.                                                          *)

LessonOver(l) ==
    /\ LessonsMayEnd
    /\ l \notin over
    /\ over' = over \cup {l}
    /\ UNCHANGED <<runtime, task, told, lessons, took>>
    /\ Silent

-----------------------------------------------------------------------------
(* The lesson tasks of a run.                                              *)

Watching(r, l) == task[r] = "watching" /\ l \in lessons[r]

\* Problems, check-ins, slides, warnings, failed requests ...
LessonReports(r, l) ==
    /\ Watching(r, l)
    /\ Publish("Notice")
    /\ UNCHANGED <<runtime, task, told, lessons, took, over>>

\* The stream says lessonfinished: the task publishes MonitorStopped and goes on.
LessonAnnouncesEnd(r, l) ==
    /\ l \in over
    /\ Watching(r, l)
    /\ Publish("MonitorStopped")
    /\ UNCHANGED <<runtime, task, told, lessons, took, over>>

\* Connecting is refused because the lesson is over: MonitorStopped, task ends.
LessonRefused(r, l) ==
    /\ l \in over
    /\ Watching(r, l)
    /\ lessons' = [lessons EXCEPT ![r] = @ \ {l}]
    /\ Publish("MonitorStopped")
    /\ UNCHANGED <<runtime, task, told, took, over>>

\* The run is told to stop: the task sees it, or the supervisor aborts it.
LessonStops(r, l) ==
    /\ Watching(r, l)
    /\ r \in told
    /\ lessons' = [lessons EXCEPT ![r] = @ \ {l}]
    /\ UNCHANGED <<runtime, task, told, took, over>>
    /\ Silent

\* The answer tasks that lesson tasks have detached publish how their submission
\* went, also when the run is over; a run that failed at once has none, which makes
\* no difference here.
AnswerReports(r) ==
    /\ task[r] \in {"watching", "ended"}
    /\ Publish("Notice")
    /\ UNCHANGED <<runtime, task, told, lessons, took, over>>

SupervisorStep(r) ==
    \/ Begins(r)
    \/ SyncFails(r)
    \/ \E l \in Lessons : Discovers(r, l)
    \/ Supervises(r)
    \/ Ends(r)

LessonStep(r, l) ==
    \/ LessonReports(r, l)
    \/ LessonAnnouncesEnd(r, l)
    \/ LessonRefused(r, l)
    \/ LessonStops(r, l)

RunStep(r) ==
    \/ SupervisorStep(r)
    \/ \E l \in Lessons : LessonStep(r, l)
    \/ AnswerReports(r)

EngineNext ==
    \/ EngineStart
    \/ \E c \in Callers : StopTake(c) \/ StopSignal(c) \/ StopJoined(c)
    \/ \E r \in Runs : RunStep(r)
    \/ \E l \in Lessons : LessonOver(l)
    \/ Receive
    \/ ReceiveLagged

EngineSpec == EngineInit /\ [][EngineNext]_engineVars

-----------------------------------------------------------------------------
(* Properties.                                                             *)

\* The variables keep their types, and the unread events fit the channel.
EngineTypeOK ==
    /\ runtime \in Runs \cup {NoRun}
    /\ task \in [Runs -> Stages]
    /\ told \in SUBSET Runs
    /\ lessons \in [Runs -> SUBSET Lessons]
    /\ took \in [Callers -> Runs \cup {NoRun}]
    /\ over \subseteq Lessons
    /\ feed \in Seq(Events)
    /\ Len(feed) <= Capacity
    /\ lagged \in BOOLEAN
    /\ listening \in BOOLEAN

\* No run escapes its owner: a live run that nobody has told to stop can still
\* be told, because the engine or exactly one stop call holds its runtime.
\* An EngineRuntime overwritten by a second start would break this.
NoStrayRun ==
    \A r \in Runs :
        (Live(r) /\ r \notin told) =>
            (runtime = r \/ \E c \in Callers : took[c] = r)

\* The EngineRuntime of a run is in one place: the engine's state or one stop
\* call, so no two stop calls await the same task.
OneOwner ==
    /\ \A c \in Callers : took[c] # NoRun => took[c] # runtime
    /\ \A c, d \in Callers : (took[c] # NoRun /\ took[c] = took[d]) => c = d

\* When the stop call that took a run has returned, the supervisor has ended
\* and no lesson task of that run is left; of what it did only the answer tasks
\* that were detached may go on.
StopReturnsWhenOver ==
    \A r \in Runs :
        (task[r] # "unspawned" /\ runtime # r /\ \A c \in Callers : took[c] # r)
            => /\ task[r] = "ended"
               /\ lessons[r] = {}

\* The books agree: a held runtime belongs to a spawned run, the engine never
\* keeps a run it has told to stop, and only a supervisor that is at work has
\* lesson tasks - an ended supervisor has waited for all of its own.
BooksAgree ==
    /\ runtime # NoRun => task[runtime] # "unspawned" /\ runtime \notin told
    /\ \A c \in Callers : took[c] # NoRun => task[took[c]] # "unspawned"
    /\ \A r \in told : task[r] # "unspawned"
    /\ \A r \in Runs : lessons[r] # {} => task[r] \in {"syncing", "watching"}

\* All of it together is inductive.
EngineInv ==
    /\ EngineTypeOK
    /\ BooksAgree
    /\ OneOwner
    /\ NoStrayRun
    /\ StopReturnsWhenOver

\* The engine keeps the contract its callers rely on.
ContractPhase ==
    [r \in Runs |->
        IF task[r] = "unspawned" THEN "new"
        ELSE IF runtime = r THEN "serving"
        ELSE IF \E c \in Callers : took[c] = r THEN "retiring"
        ELSE "over"]

ContractWorking == {r \in Runs : Live(r)}

Contract == INSTANCE MonitorContract
                WITH phase <- ContractPhase, working <- ContractWorking
KeepsContract == Contract!Spec

\* What the engine has of a lesson task: it is spawned when the supervision of its
\* run begins and is in lessons[r] until it ends.
LessonWork(r, l) ==
    IF task[r] \in {"unspawned", "spawned", "syncing"} THEN "waiting"
    ELSE IF l \in lessons[r] THEN "working" ELSE "ended"

\* What a lesson task promises, problems and check-ins aside.
LessonOf(r, l) == INSTANCE LessonContract
                      WITH Problems <- {}, Checkins <- {},
                           work <- LessonWork(r, l),
                           told <- r \in told,
                           over <- l \in over,
                           taken <- {},
                           waiting <- [p \in {} |-> 0],
                           sent <- [p \in {} |-> 0],
                           requested <- [k \in {} |-> 0]
=============================================================================
