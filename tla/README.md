# A TLA+ model of the RainClassroom assistant

rainclass-asst-rs logs a student in to the RainClassroom service by QR code,
watches the lessons in progress, answers problems and check-ins, and saves
presentations as PDF files. It has a desktop front end (Slint) and a command
line. This directory holds TLA+ modules of its concurrent and persistent parts,
TLC configurations that check them on small instances, and proofs, checked by
TLAPS, of the main safety properties for instances of any size.

Paths are given without the leading `src/`; `core` is `crates/rca-core/src`,
`infra` is `crates/rca-infra/src`, `desktop` is `apps/rca-desktop/src`.

1. [The system](#1-the-system)
2. [The modules](#2-the-modules)
3. [Model checking](#3-model-checking)
4. [Proofs](#4-proofs)
5. [Where the code and its documents disagree](#5-where-the-code-and-its-documents-disagree)
6. [What is not modelled](#6-what-is-not-modelled)
7. [Plan](#7-plan)

## 1. The system

### 1.1 Components

| Component | Source | State | Operations |
|---|---|---|---|
| Application service | `core/app/service/{mod,api,impls,background}.rs` | `InnerState` behind one mutex: `AppState` (authentication, lessons, `monitor_running`, configuration), the subscribers, the monitor's handle, recent events | `handle_command` with twelve commands, `handle_query`, `subscribe_events`; the background loop that applies the engine's events |
| Monitor engine | `core/monitor/core_engine.rs`, `engine.rs` | `EngineState.runtime`, the `EngineRuntime` of the run in service; a broadcast channel of 128 | `start`, `stop`, `subscribe_events`; a supervisor task per run, a lesson task per lesson |
| Lesson task | `core/monitor/core_engine.rs`, `infra/api/core_port/ws.rs` | `LessonState`: problems answered, check-ins made, slide shown; the stream's channel of 128 | connect, load the slides' problems, handle stream events, reconnect; detached tasks submit the answers |
| QR login | `infra/api/core_port/{qr_login,qr_state}.rs`, commands in `api.rs` | `QrStateStore`: scene to Pending or outcome; a `Notify` | start, poll, await; a login task per scene |
| Session store | `infra/bridge.rs`, `infra/storage/keyring_impl.rs` | a record in the session file, tokens in the system's keyring | save, load, clear |
| Files | `infra/storage/fs_impl.rs` | `config.json`, `session.json` and a temporary file of each | load, save (write, rename), clear |
| Page views, danmu replies, delays | `core/monitor/{core_engine,danmu,delay}.rs` | the slide on the screen, the one reported last and when; per text a queue of recent danmus and the time of the last reply | report on a turn of slides and by a timer; count a danmu and decide; choose the wait before an answer |
| Running programs' configuration | `api.rs`, `infra/bridge.rs`, `desktop/config_mapping.rs`, `apps/rca-cli/src/main.rs` | `InnerState.config` of each program, over one `config.json` | LoadConfig, SaveConfig, the settings page, `config set-tenant`, `config edit` |
| Events and the window | `impls.rs`, `desktop/{event_subscriber,command_runner}.rs` | the list of subscribers, a channel of 128 each; the event loop's latest snapshot | subscribe, emit, paint after 120 ms of quiet |
| Command line | `apps/rca-cli/src/main.rs` | one future, its receiver, a deadline | log in, subscribe, `monitor`, `check-update`, downloads in tasks of their own |
| Update check | `infra/update/checker.rs` | | one request; an event if there is a newer release |
| Downloads | `infra/api/core_port/{download,pdf}.rs` | chunks of slide tasks, a temporary file | fetch, retry, build, write, rename |
| Start-up | `crates/rca-app/src/lib.rs` | | LoadConfig, RestoreSession, RefreshSession, CheckUpdate |

The other components (notifications, request formats, tenants, the table of the
authentication states, logging, build tasks) are listed in `PROJECT.json` with
what is modelled of them.

### 1.2 Interaction

- The front ends call `handle_command`. On the desktop every click runs in a
  task of its own, so **any two commands may overlap**; the service takes its
  mutex for one closure at a time and holds nothing across an await.
- `StartMonitor` loads the session and calls `engine.start`, which spawns a
  supervisor; that spawns one task per lesson. They publish `CoreEvent`s on a
  broadcast channel whose one receiver is the service's background loop, which
  updates `AppState` and emits `AppEvent`s to the subscribers.
- `StopMonitor` and `Logout` call `engine.stop` if the service holds a handle.
  `stop` takes the `EngineRuntime` under a lock, signals the run through a watch
  channel and awaits the supervisor.
- `LoginByQr` spawns a login task; `PollLogin` and `AwaitLogin` find the outcome
  in the `QrStateStore` and hand it to `apply_qr_login_progress`, which saves the
  session and then sets the authentication state.
- Sessions and the configuration are written through a temporary file with one
  fixed name per document. The desktop and the command line share the files and
  each keep the configuration in memory.
- The desktop subscribes to the events in a task of its own (`main.rs:34`,
  `event_subscriber.rs:19`), after it has spawned the tasks of its start, one of which
  may look for an update and emit (`ui_binding.rs:13-25`).
- The command line awaits its own commands and reads its events between them, so
  nobody reads its channel while StartMonitor or StopMonitor emits into it.
- A lesson task handles stream events, its page-view timer and page-view
  requests in one loop; while a request is under way nothing else is handled.

### 1.3 What is hard, and what makes each component correct

| Component | Hard behaviour | Correct when |
|---|---|---|
| Engine | start and stop overlap; stop signals after it has released the lock; a request in a run may hang | a live run that nobody has told to stop can still be stopped; a stop returns only when its run is over; every stop returns |
| Service | commands interleave at each await; the event channel overflows | the engine's contract holds under every interleaving of commands; every command returns |
| Lesson task | the same thing is announced several times, over several connections; the tokens of a stream come one at a time or not at all; stop arrives anywhere | one answer per problem, one request per check-in; a stop ends the task wherever it is; what was published while the stream was down is met |
| Page views, danmus, delays | the timer's round, the throttle and the turning of slides run apart; requests hang; danmus during a cooldown are not counted | the slide on the screen keeps being reported; a reply is sent exactly on evidence; an answer is in time, by the limit the task was given |
| QR login | a wake-up missed between a look at the store and the registration with `Notify`; a dozen ways out of the login task | every pending scene has a task at work; an outcome is kept until taken, once; a wait returns |
| Files | crash between write and rename; overlapping saves share a name | a load reads a whole document; a save takes effect at once or not at all; the configuration never disappears |
| Configuration | file first, memory after it; two programs, futures that cross, an editor; a program ends between the two | memory and file agree; a command changes the settings it is about and no others |
| Session store | two places written one after the other, either may fail | a load returns what was last saved, or at most its record with the token of a later save that did not reach the file; no session mixes two users; logged in means there is a session |
| Events | the list of subscribers is copied, used and written back without a lock; the desktop subscribes while others may be emitting; snapshots overtake each other | nobody who was there before the copy is skipped or dropped; emissions end; the window comes to show the last state |
| Command line | it emits into the channel that only it reads; a deadline that is looked at in pauses | it subscribes before anything is emitted; it ends; it prints what it was told |
| Downloads | images arrive in any order; the process ends during a write; two documents may share a name | pages in order; bounded retries; a `.pdf` is whole or absent, and what was last reported as saved |

The hazards behind these, each at its line and with the properties that would
catch it going wrong, are in `PROJECT.json`.

## 2. The modules

```text
MonitorContract <-- refines -- MonitorEngine <-- extends -- MonitorControl
LoginContract   <-- refines -- QrLogin
RegisterContract <- refines -- JsonFile      <-- extends -- AppConfig
                               SessionStore  <-- extends -- SessionCommands
                               EventFanout   <-- extends -- FrontEnds
LessonContract  <-- refines -- LessonMonitor, LessonTimers and, for each of
                               its runs and lessons, MonitorEngine
                               Download
```

`MC_<module>` gives a module its model values, its functions over them and its
symmetry sets; `<module>_proofs` holds its theorems. An operator whose name is
that of an action with a suffix (`StopSignal_Lost`) and whose comment begins with
"Mutant" is a plausible mistake in that action. Each property was seen to fail
with at least one of them in place of the original.

In all modules a handler is cut where it awaits or releases a lock, and nowhere
else, so one action is what no other task can interrupt.

### MonitorEngine, with MonitorContract

`CoreMonitorEngine`. `runtime` is `EngineState.runtime`; `task`, `told` and
`lessons` are the supervisors, their watch channels and their lesson tasks;
`took` is the `EngineRuntime` that a `stop` call holds between its lock and its
end; `feed`, `lagged` and `listening` are the broadcast channel. `EngineStart` is
`start`, under its lock throughout; `StopTake`, `StopSignal` and `StopJoined` are
the three parts of `stop`; `Begins` ... `Ends` the supervisor; `over` the lessons that
have ended in the classroom (`LessonOver`), which a lesson task announces or is
refused for; the other `Lesson*`
actions what the engine sees of a lesson task, and `AnswerReports` what an
answer task publishes, which may be after its run. A send to a full channel
overwrites the oldest event and the receiver's next `recv` is an error.

`MonitorContract` knows runs in service and runs that work: at most one in
service, retired once, and the call that retires one returns when it no longer
works. A run may stop working while in service; that is what the code does when
every lesson ends.

### LessonContract

What a lesson task promises to its run and to the classroom: it ends only for a
cause, which is that it was told to stop or that its lesson is over; it takes
charge of a problem and asks for a check-in once, and only while it works; an
answer that it leaves waiting is submitted at most once, perhaps after its end.
Three modules have a lesson task and each implements the contract from its side:
`LessonMonitor` in full, as what the task does on the stream; `LessonTimers` as to
its answers, for a task that goes on; and `MonitorEngine` as to the beginning and
the end of each of its tasks (`LessonOf(r, l)`).

### MonitorControl

The commands that drive the engine, over `AppState` (`auth`, `monitorRunning`),
the stored session (a Boolean here), and `monitorHandle`. `pc[c]` is the next step
of a command. `StartMonitor` is its guard, then `SetRunning`, `LoadSession`,
`StartEngine`, `KeepHandle`; `StopMonitor` and `Logout` take the handle, go
through the engine if there was one, and end with `ClearSession`, `SetLoggedOut`
(Logout) and `SetStopped`. `BackgroundLoop` applies an event:
`MonitorStopped` clears the flag and the handle, whichever run it is from. The
engine's variables change only by the engine's actions, which `ControlUsesEngine`
proves.

### LessonMonitor

One lesson task with its classroom, its stream and its answer tasks. `pc` is
where the task is suspended: connecting (the check-ins of
`prepare_lesson_ws_auth`, whose number is `asked` and whose yield `tokens`),
joining (the stream is being opened), in a back-off, loading the slides'
problems, listening, in a check-in or page-view request, or in the pause before
the next connection. A lesson can end between the check-in that would say so and
the opening of its stream. `Resolve` is `resolve_answer_payload`: a problem found
on the slides ("Ppt") has its options and its answer, one announced on the stream
("Ws") has neither. `Stops` is both the task's own look at the signal and the
supervisor's abort, which reaches it at any await. `Spec` has no fairness,
`FairSpec` the supervisor's and the loop's; what is assumed of the server is the
premise `ServerFairness` of the properties that need it.

### LessonTimers

The same task by the clock. What the code keeps as an instant is an age here,
counted in ticks up to where it makes no difference any more; `Tick` is possible
only when nothing is ready to run (`Urgent`), so a message that arrives while a
page view is being reported is handled, and dated, when that has ended.
`TakesSlide` reports at once; `TimerReports` and `TimerSkips` are the two ways of
the timer; `Tracks` is `track_and_decide`; `WaitTimes` is `calculate_wait_time`
with the random sample left open within the clamp. A problem comes to the task from the slides, with its limit, or from the stream,
without one (`GivenLimit`), in which case the default is taken; from the stream only
a guess on a blank is submitted (`Guessed`), and any other problem is marked as
answered and left (`Claims`). `attemptAge`, `okAge`, `log` and of an answer `since`, `lag`
and `by` are histories, for the properties only.

### QrLogin, with LoginContract

`store` is the `QrStateStore`, `link[s]` the login task of a scene, `at[c]` a
command. `Take` removes an outcome as it reads it; `WaitFindsPending` releases the
store's lock and `WaitSleeps` registers with `Notify` only afterwards, so `Settle`
(`set`) may fall between them and wake nobody. Both front ends read the scene out
of the state (`ReadScene`) before they await it. `LoginContract`: each scene comes
to one outcome, which is handed out at most once.

### JsonFile, with RegisterContract

`target` and `tmp` are the inodes that the document's name and its temporary name
stand for, `data` their contents, `fd` what a process has open. `fs::write` is an
open that truncates and a write (which another save's open may cut off or its
write mix with: "torn"); `rename` moves whatever has the temporary name by then.
`kind` separates the configuration, which a load creates when missing, from the
session, which can be cleared. `RegisterContract` is an atomic register that
promises nothing once two saves have been under way together.

### AppConfig

The two programs over that file, with every step of theirs on the file a step of
`JsonFile` (`AppUsesFile` proves it). `stage` is the start-up of a program, which
reads the file once for the server and once for LoadConfig; `command[p]` is what a
future does, "store" being the time between the file and the memory. A
configuration is a server and one other setting, which the settings page resets
and `set-tenant` must keep. `Exits` is the end of a program at any step, `Edits`
an editor. `alone` and `settled` are history variables: that nothing has crossed a
command, and that the last command of a program ran alone and nobody has written
the file since.

### SessionStore and SessionCommands

`SessionStore` has `save_session`, `load_session` and `clear_session` as sequences
of accesses to the file and the keyring. A session is a record of user, token and
CSRF token, the last two named after the granted session they come from, so that
a mixture can be told from a session. `mode` says how the keyring behaves in this
environment: it works, it is broken, or it fails now and then.
`SessionCommands` adds what calls it: RestoreSession and RefreshSession at
start-up and as commands, the end of a login, Logout, and the end of the process.
`latest`, `overlapped`, `crossed` (commands had overlapped when `latest` was written)
and `tried` (the tokens that saves which have not reached the file may have put into
the keyring since) are history variables, for the properties only.

### EventFanout and FrontEnds

`EventFanout` has emissions and the desktop's window, and no specification of
its own. The state is a version number; an emission copies the list of
subscribers (`CloneSubscribers`), sends to one after the other and waits while a
channel is full (`Send`), and writes back those it reached (`WriteBack`). The
window is painted from three places, as in the code: the timer of the event loop
(`PaintLatest`), a refresh task (`StartRefresh` to `RefreshPaints`), and each
command when it is over (`ReadState`, `PaintState`).

`FrontEnds` adds who calls it: the desktop, where the background loop and the
commands emit side by side, and the command line, whose one future `Main` runs
`monitor` or `check-update`. `Order` is the order of its parts: it subscribes
before StartMonitor and before CheckUpdate, when nothing is being emitted. The
desktop begins with nobody on the list, a refresh of the window asked for and its
commands free to emit; `DesktopSubscribes` may come at any moment among them. If an
emission has its copy of the list then (`raced`), it writes back a list without the
desktop; once nobody holds a sender of its channel any more the event loop ends
(`LoopEnds`). While `Main` awaits a command of its own it does not read its channel `Rx`; that this
does not block rests on the channel's room, which is `RoomAssumption`.

### Download

`slide[r][i]` is the task of one slide with its attempts, `pages` what `join_all`
has returned so far, `tmp` and `pdf` the two files of a name and `handle[r]` what
the file that a command has open is called by now, for another command with the
same title and second may have renamed it. A rename fails when the temporary file is
gone, or for any other reason the disk has, and then leaves a file that is there.
`last` (the command that last reported a name as saved) and `crossed` (names whose
temporary file two commands have had at a time) are histories. `Exit` is the end of the process, in
particular of the command line when monitoring ends.

## 3. Model checking

Every run is `tlc -config <run>.cfg MC_<module>.tla`. Deadlock is checked in all of them.

| Run | Instance | States | Properties |
|---|---|---|---|
| `MonitorControl_safety` | 2 commands at a time out of all six, 2 runs, 1 lesson, channel of 2, every failure | 1 436 000 | `NoStrayRun`, `StopReturnsWhenOver` |
| `MonitorControl_live` | 2 commands out of RestoreSession, StartMonitor, StopMonitor; no failures | 50 000 | `KeepsContract`, `CommandsReturn`, `StopIsEffective` |
| `LessonMonitor` | 2 problems, 1 check-in, stream of 2, every failure, anything may hang | 125 000 | `AnsweredOnce`, `CheckedInOnce`, `StopsWhenTold`, `EndsWithLesson`, `CatchesUp`, `HeardCheckinTried`, `KeepsContract` |
| `LessonTimers` | 2 slides, 1 danmu text, 2 problems, of which a lesson sends two kinds; throttle 3, jitter 1, window and cooldown 2, requests of up to 1 tick; one of the problems is guessed from the stream | 702 000 | `KeepsReporting`, `SkipsOnlyReported`, `RepliesOnEvidence`, `SubmitsInTime` |
| `QrLogin` | 2 commands, 2 scenes, polls and waits, a store that may fail | 63 000 | `PendingIsServed`, `OutcomeIsKept`, `KeepsOutcomes`, `AwaitsReturn` |
| `AppConfig` | 2 futures of one program or of two, 2 servers, 2 values of the other setting, 4 inodes, failures, exits and edits; the session's file beside it | 873 000 | `LoadsWhole`, `FileStays`, `KeepsRegister`, `MemoryIsFile`, `SetTenantKeepsRest` |
| `SessionCommands` | 2 commands, 2 sessions of one user and 1 of another, any keyring, failures and crashes | 972 000 | `OneUserEach`, `AuthHasSession`, `LoadReturnsLastSaved` |
| `FrontEnds` | the background loop with a command of the desktop, or with the command line; the window's channel of 1; 2 changes and 1 other event | 140 000 | `EveryEmissionHeard`, `SubscribersKept`, `UpdateIsPrinted`, `WindowIsCurrent`, `EmittersReturn`, `UiSettles`, `CommandsEnd` |
| `Download` | a presentation of up to 3 slides in chunks of 2 and one of 1, 1 retry, one title or two, failures and exit | 85 000 | `PagesInOrder`, `PdfWhole`, `SavedIsThere`, `Returns` |
| `MonitorControl_logout` | 1 command at a time, 2 lessons of which either may end | | `StopsBackgroundTask`, violated |
| `LessonMonitor_claim` | 1 problem with an answer on its slide | | `ClaimedIsAnswered`, violated |
| `QrLogin_shown` | as `QrLogin`, no failures, no polls | | `LoginIsForShownScene`, violated |

Type invariants are proved for every module with proofs (section 4) and are not
run: the theorems hold for every instance.

The last three state what a document or a test says of the program and the code
does not do; see section 5. `MonitorControl_live` is about the three commands it
offers, and says nothing of whether Logout, LoginByQr or CheckUpdate return; the last two
wait for servers without a timeout.

### Bounds

- **Two commands at a time.** Every race in the service is between two commands,
  or a command and a background task, over one place: the runtime, the handle, the
  store, the temporary file, the list of subscribers. The theorems of section 4
  lift the bound for the safety properties.
- **Two runs** (`Runs`): one being stopped while its successor is in service, which
  is what `stop` after its lock may meet. `RunsLeft` keeps a start from beginning
  when no run is left to spawn, so a stuck `EngineStart` is not a deadlock of the
  program.
- **One lesson** in `MonitorControl_safety`: its announcement of the end with the
  task still alive, and the task's end while the supervisor waits, are both there.
  `MonitorControl_logout` has two, so that one can end and the other go on.
- **Channels of one or two places** where the code has 128, so that full channels,
  overwritten events and lagging receivers are common rather than rare. The modules
  that have a capacity do not depend on its value.
- **Two scenes and two sessions of one user**: an old and a new one, whose
  outcomes and tokens can be confused. The third session, of another user, is there for `OneUserEach`.
- **Four inodes**: two names and two open files is the most that can be in use.
- **Chunks of two and a presentation of three**: a whole chunk and a part of one.
- **Times** (`LessonTimers`) are scaled down with their order kept: a throttle
  longer than its jitter and than a request, a window as long as the cooldown, a
  limit above and one below `ShortLimit`. `Mixes` lets a lesson send two kinds of
  messages, because each pair can get in each other's way and a third adds states
  only; `InboxCapacity` lets one message wait behind another; `MaxDanmus` leaves
  enough of them for a second reply after a cooldown.
- **Two futures** in `AppConfig`, of one program or of one each: what crosses is a
  pair. Of the session's file two documents are enough there.
- `MaxChanges` and `MaxOthers` bound the emissions of `FrontEnds`; two changes and
  another event let two emissions overlap, or meet the desktop's subscription, while a
  third waits or follows. `Rests` in `FrontEnds` and `Finished`
  in `Download` are a program that has ended or has nothing to do.

Symmetry is used in runs without liveness only, over sets whose members no
definition tells apart: commands, runs and lessons; futures and inodes; commands
and the two sessions of one user.

### Fairness

Fairness is weak unless stated, and is asked of the program's tasks, not of its
users. Nobody has to issue a command, log in, scan a code or publish a problem.

- *Tasks run.* The tokio runtime polls every task that is ready: `CommandStep`,
  `WaitStep`, `ApplyStep`, `EmissionStep`, `MainStep`, `SlideStep`, `RequestStep`,
  `SupervisorStep`.
- *Aborts and timers happen.* `Stops` and `LessonStops` are the supervisor's
  `abort_all` (`core_engine.rs:608-611`), which needs no answer from any server; `Retries` is a `sleep`; `WaitTimesOut` the deadline of
  `AwaitLogin`; `WindowStep` has the timer of the event loop; `DurationPasses` is the
  deadline of `monitor`. That the deadline is seen is assumed only of a channel that
  is empty (`WF_vars(DeadlineSeen /\ chan[Rx] = <<>>)`): the code looks at it after
  200 ms without an event.
- *Requests end*, where a timeout sees to it: the classroom's HTTP client has one, a
  slide has one of its own. A stop that meets a supervisor still asking for the lessons
  waits for that request. Three others have none: the client of the update check
  (`update/checker.rs:50-53`), the websocket of the login (`qr_login.rs:36`, `:66`, `:181`)
  and the download of the code's picture (`main.rs:175`). Of the steps of `Main` that
  await those (`Unbounded`) `Fairness` asks nothing; that their servers answer is
  `ServersAnswer`, the premise of `CommandsEnd`.
- *Strong fairness* only in `LessonMonitor`: `Handle`, because the select in the
  task's loop is not biased against the stream; and, as an assumption about the
  server that the properties name (`ServerFairness`), `CheckInDone(Tokens)`,
  `Connects` and `ConnectRefused`: tried again and again it grants the tokens and
  answers at some time, and it closes the stream of a lesson that is over.
  `StopsWhenTold` and `AwaitsReturn` need none of this: they hold when the server
  never answers at all. `CatchesUp` assumes besides that loading the slides does not
  fail for ever.
- `LessonTimers` and `AppConfig` have no fairness; what must happen by a time is an
  invariant over ages in the one.
- `MonitorControl`'s properties need no fairness of lesson tasks other than
  `LessonStops`, so `CommandsReturn` covers a run whose lesson task hangs.

## 4. Proofs

`tlapm <module>_proofs.tla` checks eight modules of proofs. Their only assumptions
are the named ones on the constants (`EngineAssumption`, `ControlAssumption`,
`LessonAssumption`, `TimersAssumption`, `QrAssumption`, `FileAssumption`,
`ConfigAssumption`, `SessionAssumption`, `AuthAssumption`, `FanoutAssumption`,
`FrontEndAssumption`, `DownloadAssumption`), which TLC evaluates in every run that
uses them. `RoomAssumption` is for the liveness of the command line; no theorem
uses it. The sets of commands, runs, lessons, problems, slides, scenes, futures,
documents, users, sessions, emitters and subscribers may have any size, the
channels any positive capacity, and times, chunks and retries any value the
assumptions allow.

| Theorem | Says |
|---|---|
| `EngineIsSafe` | `EngineSpec => []EngineInv`: types, `NoStrayRun`, `StopReturnsWhenOver` |
| `EngineKeepsContract` | the engine, driven by any callers, implements `MonitorContract` |
| `ControlUsesEngine` | the commands change the engine's state by the engine's steps only |
| `ControlKeepsContract` | so the service implements `MonitorContract` too |
| `NoRunGoesAstray`, `StopsAreComplete`, `ControlTypesHold` | `[]NoStrayRun`, `[]StopReturnsWhenOver` and types of the service |
| `ControlIsSafe`, `CommandsWaitForTheirRun` | `[]ControlInv`; a command waits in `stop` exactly while it holds a runtime |
| `LessonIsSafe`, `EachProblemOnce`, `EachCheckinOnce`, `LessonTypesHold` | `[]LessonInv`, `[]AnsweredOnce`, `[]CheckedInOnce`, types |
| `LessonKeepsContract` | the task on the stream implements `LessonContract` |
| `PageViewsGoOn`, `NothingDueIsSkipped`, `AnswersInTime`, `TimersTypesHold` | `[]KeepsReporting`, `SkipsOnlyReported`, `[]SubmitsInTime` (by the limit the task was given), types |
| `RepliesAreJustified` | `[]RepliesOnEvidence`: the code's queue decides as the history does |
| `TimersKeepContract` | the task by the clock implements `LessonContract`, as to its answers |
| `EngineLessonsKeepContract`, `LessonTasksKeepContract` | so does, as to its beginning and end, each lesson task of each run of the engine, driven by any callers or by the service's commands |
| `QrIsSafe`, `OutcomesAreKept`, `PendingScenesAreServed`, `QrTypesHold` | `[](QrInv /\ WaitersHaveScene)`, `[]OutcomeIsKept`, `[]PendingIsServed`, types |
| `QrKeepsOutcomes` | the login implements `LoginContract` |
| `FileIsSafe`, `FileTypesHold`, `LoadsAreWhole` | `[]FileInv`, `[]TypeOK`, `[]LoadsWhole` of `JsonFile` |
| `ConfigurationStays` | `FileStays`, also while saves overlap |
| `FileIsRegister` | the file implements `RegisterContract` |
| `AppUsesFile` | `AppSpec => Spec`: the programs touch the file by the steps of `JsonFile` only, so the four theorems above hold for them |
| `AppIsSafe`, `MemoryFollowsFile`, `TenantOnly`, `AppTypesHold` | `[]AppInv`, `[]MemoryIsFile`, `[]SetTenantKeepsRest`, types |
| `SessionsAreSafe`, `SessionTypesHold`, `SessionsNeverMix` | `[]StoreInv`, `[]TypeOK`, `[]OneUserEach`, whatever overlaps |
| `LoggedInHasSession` | `[]AuthHasSession` |
| `LoadsLastSaved` | `LoadReturnsLastSaved`, an action property, under its conditions on the keyring and the last save |
| `FrontEndsAreSafe`, `EmissionsAreHeard`, `SubscribersStay`, `UpdatesArePrinted`, `FrontTypesHold` | `[]FrontInv`, `[]EveryEmissionHeard`, `[]SubscribersKept`, `[]UpdateIsPrinted`, types |
| `WindowShowsState` | `[]WindowIsCurrent`: the safety half of `UiSettles`; one change that begins alone puts right what overlapping ones have left |
| `DownloadIsSafe`, `PagesAreInOrder`, `DocumentsAreWhole`, `SavedFilesAreThere`, `DownloadTypesHold` | `[]DownloadInv`, `[]PagesInOrder`, `[]PdfWhole`, `[]SavedIsThere`, types |

### The inductive invariants

**Engine.** `NoStrayRun` is not inductive: a start could put a run in the place
of one that is still in the engine, and a stop could forget one, if nothing tied
`runtime`, `took` and `task` together. `EngineInv` adds `OneOwner` (an
`EngineRuntime` is in one place) and `BooksAgree` (what is held was spawned, the
engine never keeps a run it has told to stop, and an ended supervisor has no
lesson tasks). The refinement maps a run to "serving", "retiring" or "over" by who
holds its runtime, and every step of the engine to a step of the contract or to
none. `ControlInv` adds `JoinerHoldsRun`; `ControlUsesEngine` then lets every
theorem about the engine be used for the service.

**Lesson task.** `AnsweredOnce` holds because a problem enters `answered` in the
step that detaches its answer task. `UnmetIsUntouched` says it: what is not in
`answered` has no answer on its way or sent, and what is not in `checked` has no
request. The set is never emptied while the task lives, connections or not.
`LessonInv` has also why a task may end, which is what `LessonContract` asks of it.
Of a task as the engine sees it, `RunStepOnLesson` says for every step of every run
that it begins the task with the supervision of its run, ends it when that run has
been told to stop or that lesson is in `over`, or leaves it alone; so it does not come
back. `over` grows by the classroom's step alone, so the cause is one.

**Page views and answers.** `KeepsReporting` adds up two clocks that run apart, so
it needs to be known how they are related: a page view under way is the last one
tried, and the timer has not been set again if it asked for it (`RequestInv`); a
slide is skipped only when its last success is younger than a throttle, and the
last attempt is no older than that success (`ReportedInv`). `SubmitsInTime` holds
because age and remaining wait of an answer sum to no more than the limit it was given
from the moment it is met (`AnswersInv`), and time adds to the one what it takes from the other.

**Danmus.** The code decides by the length of a queue that it prunes and clears;
`RepliesOnEvidence` counts over the whole history of a text. `TextInv` relates them
place by place from the back: the k-th last entry of the queue is within the window
exactly if the k-th last danmu of the history counts for the next reply, and then
they have the same age (`Matches`); ages fall from front to back (`Falling`), so
the pruning loop, which stops at the first that is young enough, drops exactly
those that are too old; and since the last reply as much time has passed as
`CooldownKept` says. Counting is then a matter of a bijection between two finite
sets, and needs no induction over the queue.

**QR login.** `QrInv` relates store, login task and count: a scene is pending
exactly while its task works, its outcome is in the store until taken
(`OutcomeIsKept`), nothing is taken before there is an outcome (`NotTakenEarly`),
and a scene without a task has no entry (`NoEntryBefore`). `WaitersHaveScene` says
that who waits, waits for a scene, which the steps of a wait need for their types.

**Files.** `FileInv == AnyInv /\ (~overlapped => SerialInv)`. What holds of any
overlap is little: types, and that a saver has its document. While saves do not
overlap, `SerialInv` says there is one saver, that it holds the temporary inode
(`SaverHoldsTmp`), that this is not the document's (`TmpApart`) nor one that
somebody reads (`ReadersApart`), and that the file is whole.

**Sessions.** For `OneUserEach` it is enough to know that each account of the
keyring holds a token of its own user (`KeyringOwn`) and that a step which uses
the session in hand has one (`InHand`); this needs no order between commands.
`AuthHasSession` needs `AloneInv`: while commands have not overlapped there is one
at work, the session it loaded is of the user in the file, and `auth` agrees with
the file except between the store's last write and the step that sets `auth`.
`LoadReturnsLastSaved` needs `DiskInv`: a save that runs alone has put its token into
a keyring that works before it turns to the file (`Halfway`), a keyring that never
works holds nothing (`NeverUsed`), and so, from a save that nothing crossed until the
next reaches the file, the account of the file's user holds the file's token, nothing,
or a token in `tried` (`Agrees`), and a load has the file's record in hand (`Current`).
That the last two go on to hold while later saves fail, end or overlap is what lets
the property drop every condition on what comes after the last save.

**Programs and configuration.** `MemoryIsFile` says nothing of a program that is
in the midst of a command, so it is not inductive. `AloneInv` says what a command
that nothing has crossed may rely on at each of its steps, up to the one in which
it has left the file and not yet set the memory: there the file holds what it is
about to store. `SettledInv` says what lasts until somebody else writes: the file
is there and, when no command of the program stands between file and memory, holds
what the memory does, and nobody has that inode open for writing. Both need
`TmpApart`, which holds even while saves overlap.

**Emissions.** `SubscribersKept` is about a list that every emission overwrites
with its own copy. `Owed` is the debt of each emission under way to each
subscriber that has safely subscribed: it has yet to send to it, or has sent and will
write it back. Then no order of two emissions can lose it, and what is over has been
heard. A subscription breaks it if an emission has its copy of the list, which is
what `raced` remembers and what can befall the desktop; `CliInv` says that before
the command line has subscribed there is no emission at all.
`UpdateInv` says that the event which `check-update` will print is on its way
(`OnItsWay`: owed by the emission of `Main`, or in the channel).

**Window.** `WindowIsCurrent` is about moments when nothing is under way;
`DesktopInv` says what makes them come out right. Once a change has begun alone, and
until emissions overlap again, there is one at a time (`OneAtATime`), every copy of
the state that somebody is about to send or paint is of the present one
(`CopiesAreOfState`), and the newest snapshot on its way is that of the state
(`NewestIsState`): it is carried by the emission under way, or else is the last in
the window's channel, or else held by the event loop, or else in the window already.
Older ones, also of emissions that did overlap, may still be in the channel before it.
A state that changes before the window has subscribed reaches it by the refresh of
the program's start only if that reads it; so such a change counts as overlapping,
until one begins alone (`NothingMissed`). With a subscription that met an emission the
invariant promises nothing.

**Downloads.** `CollectInv` says that what has been collected is the start of the
deck as far as the chunks are done, and that a document is built only at its end;
`RetryInv` that a task which will ask again has an attempt left. A document is
whole because, until two commands have the temporary file of a name at a time, the
one that has created it has it to itself (`OwnInv`), and because only a command that
writes has a file open (`HandleInv`): the steps of others then cannot move it.
`SavedIsThere` is inductive with these: a rename puts the document of the command
that reports it in place, and nothing else writes to the name. `HistoryInv` ties
`last` to the commands that have reported, from which `PdfWhole` follows for a name
that is not shared, since such a name is never crossed.

### What is only model-checked

- All liveness (`CommandsReturn`, `StopIsEffective`, `StopsWhenTold`,
  `EndsWithLesson`, `CatchesUp`, `HeardCheckinTried`, `AwaitsReturn`,
  `EmittersReturn`, `UiSettles`, `CommandsEnd`, `Returns`): TLAPS is used here for
  safety only.

Every safety property of the runs is proved. `EngineLessonsKeepContract` is proved
and not run, because TLC takes no temporal formula under an instance with
parameters. What a theorem says is as conditional as its property, and the conditions
exclude what the code does not promise (section 5):

| Property | Says nothing |
|---|---|
| `LoadsWhole`, `KeepsRegister` | after saves of one file have overlapped |
| `AuthHasSession` | after commands have overlapped |
| `LoadReturnsLastSaved` | with a keyring that fails now and then (`mode`), or when another command crossed the last save or clear (`crossed`); and it allows the last record with the token of a later save that did not reach the file (`tried`) |
| `SubscribersKept`, `EveryEmissionHeard` | of the desktop, if an emission had its copy of the list when it subscribed (`raced`) |
| `WindowIsCurrent` | of such a desktop, and while emissions have overlapped or a change came before the subscription, until a change begins alone |
| `PdfWhole` | of names that several commands use |
| `SavedIsThere` | of names whose temporary file two commands have had at a time (`crossed`) |
| `SubmitsInTime` | of the real limit of a problem met on the stream, nor of one met later than the margin |

## 5. Where the code and its documents disagree

Three disagreements have a run of their own that shows the counterexample.

1. **A lesson's end hides the run** (`MonitorControl_logout`). Each lesson task
   publishes `MonitorStopped` when its own lesson is over (`core_engine.rs:399`,
   `:510`); the background loop takes it for the end of the run and drops the handle
   (`background.rs:103-106`); StopMonitor and Logout then skip the engine
   (`impls.rs:214-220`) and the run goes on. `docs/02:685` says that they stop it.
2. **A problem met on the stream is never answered** (`LessonMonitor_claim`). It
   enters `answered_problems` before it is known that there is nothing to answer
   (`core_engine.rs:208-211`); the slide with its answer, loaded on the next
   connection, is skipped. `docs/02:684`: such events trigger automatic answering.
3. **A login for a scene that is no longer shown** (`QrLogin_shown`). `AwaitLogin`
   compares scenes before its wait only (`api.rs:115`). `tests.rs:1329`:
   "mismatched scene_id must not transition to LoggedIn".

The models have the following as the code has it. They are not counted as findings,
because no property of a run rests on the statement they are at odds with; several
are why a property is conditional.

| Code | Behaviour | Said elsewhere | In the models |
|---|---|---|---|
| `core_engine.rs:437` | A run that ended by itself leaves its runtime; the next StartMonitor succeeds and spawns nothing. | `docs/02:683`: start connects to each lesson | `EngineStart`, first disjunct |
| `api.rs:151` | StartMonitor is accepted while WaitingQrScan or Failed. | its message: "cannot start monitor before login" | guard of `StartMonitor` |
| `background.rs:88-98` | `Lagged` breaks the loop for good: no event reaches the application any more. | `docs/01:164`: at least once | `ReceiveLagged` |
| `core_engine.rs:225` | A detached answer task submits after the run has stopped and the user logged out. | `docs/01:26`: long tasks can be cancelled | `SubmitAnswer` has no guard on `told` |
| `core_engine.rs:110` | With random guesses a blank met on the stream is answered with an empty text, though its slide has the answer. | comment at `:61`: guesses only without a correct answer | `Resolve` |
| `impls.rs:69-95` | The setters assign the state; nothing calls `AuthState::transition`. | `state_machine.rs:62`: all others are invalid | the setters, as they are |
| `fs_impl.rs:68` | Overlapping saves share the temporary file: one may fail, or a mixture be put in place. | `docs/01:208`: atomic writes | `overlapped` in `LoadsWhole`, `KeepsRegister` |
| `bridge.rs:205-217` | The tokens are in the plain session file also when the keyring has them. | `docs/02:691`, `docs/01:182`: metadata only, no fallback to plain text | `SaveToFile` |
| `bridge.rs:137`, `:201` | A keyring that refuses one save keeps the older tokens, which load then prefers. | the warning at `:201`: "fallback to session file only" | `mode # "flaky"` in `LoadReturnsLastSaved` |
| `bridge.rs:136-156`, `:205` | A save that has written the keyring and fails at the file, or is cut short there, leaves its token in the keyring; load returns it with the record, CSRF token included, of the session that was last saved for that user. | | `tried`, `Loadable` in `LoadReturnsLastSaved` |
| `ws.rs:361-369` | The stream's problem has no limit, options or answers. The delay is then drawn for the default of 60 s (`delay.rs:74`), up to 55 s, and a guess may be submitted after the real limit. | comment at `delay.rs:84`: clamped to avoid timing out | `GivenLimit` in `SubmitsInTime` |
| `download.rs:236-241` | Two downloads of one title in one second share file and temporary file. The one may be reported as saved while its file is empty, torn or the other's document. | | `crossed` in `SavedIsThere`; `PdfWhole` is about names of one command |
| `checker.rs:50-53`, `qr_login.rs:36`, `main.rs:175` | The update check, the websocket of the login and the download of the code's picture have no timeout. | `docs/01:218`: requests to the network have a timeout throughout | `Unbounded`, `ServersAnswer` in `CommandsEnd` |
| `core_engine.rs:500-505` | A task that has been told to stop while it connects still opens its stream, unless the supervisor aborts it first. | | `Connects` has no guard on `told` |
| `impls.rs:143` | Snapshots are taken and sent apart; of two overlapping emissions the older may stay in the window, until the next change that begins alone. | `docs/01:209`: a single reducer avoids races | `overlapped` in `UiSettles`, `WindowIsCurrent` |
| `impls.rs:135` | A subscription that comes while an emission has its copy of the list is lost when that is written back. The desktop's own can be: `check_update` or another command of its start may be emitting (`ui_binding.rs:13-25`); its event loop then ends, and the window follows only its commands. A change before the subscription may go unseen too, until the next. | `docs/01:151`: the UI subscribes to the stream | `DesktopSubscribes`, `raced`, `LoopEnds`; the command line is safe: `Order`, `CliInv` |
| `impls.rs:178` | `Expired` or `Rejected` of an old scene sets Failed while the code of a new one is shown. | | `LoginFails` of `QrLogin` has no guard on the scene |
| `main.rs:295` | After a login that failed, expired or still waits, `monitor` goes on to StartMonitor. | its name, `ensure_logged_in` | `LoginReturns` |
| `main.rs:433` | StopMonitor is awaited while nobody reads the program's only channel; were it full, the program would hang, and Ctrl-C is no longer looked at. | | `RoomAssumption`, `CtrlC` |
| `main.rs:423` | The deadline of `monitor` is looked at only after 200 ms without an event. | its option: a duration in seconds | `DeadlineSeen` |
| `main.rs:456` | `set-tenant` saves the configuration it has in memory; after a load that failed these are the defaults, and the file's other settings are lost. | | `settled["cli"]` in `SetTenantKeepsRest` |
| `config_mapping.rs:23` | Saving the settings page resets what the page does not show. | | `SavesConfig` |
| `ws.rs:88` | The check-ins for the stream's tokens are made also with automatic check-in off. | its name, `auto_checkin_enabled` | `CheckInDone` has no guard on `AutoCheckin` |
| `ws.rs:257` | A connection that is dead without a close is never noticed: reading has no timeout. | | no action makes progress on such a stream; `StopsWhenTold` does not need one |
| `core_engine.rs:237` | A submission that fails is reported and never tried again. | | `SubmitAnswer` ends the task whatever the server says |
| `core_engine.rs:134` | The page-view timer runs on its own: after a slide turned just before it goes off, the next page view is up to two rounds away. | | `LongestGap` in `KeepsReporting` |
| `api.rs:138` | A Logout between a login's save and its state change: LoggedIn without a session. | | `~overlapped` in `AuthHasSession` |
| `api.rs:64` | RefreshSession that overlaps a Logout saves the session again. No front end does that today. | | `Accepted` after `ClearFile` |

Seen beside the models: the desktop shows no `UpdateAvailable`; its shutdown aborts
the commands under way before StopMonitor (`app_controller.rs:97`), after the window has
closed (`docs/01:198` has the monitor stop first); a scene is named after the
millisecond of its start (`mod.rs:729`), so two starts in one share an entry, where
`QrLogin` gives each its own; `exp(-lambda)` is 0 for a lambda above 745
(`delay.rs:101`), so the sample of a very long limit says nothing of it, though the
clamp still holds; nothing calls `DanmuTracker::cleanup`, so the queues of texts
that are not sent again stay (`danmu.rs:13`).

## 6. What is not modelled

- **Time outside `LessonTimers`.** Back-offs, the 120 ms of the window and deadlines
  are choices of when a step happens; nothing there bounds how long anything takes.
- **Content**: requests, JSON fields and their fallbacks, Slint pages, PDF drawing,
  the table of host names, logging. Requests appear as steps that succeed, fail or
  hang.
- **The disk below the process**: a crash is the end of the process, not of the machine.
- **The distribution of random delays and jitters**: they are any value of their range.
- **`AuthState::transition`**, a table that nothing calls.
- **The delivery of notifications and webhooks**: calls in order, failures logged,
  no state. What they read of the configuration file is in `AppConfig`.
- **The abort of a StartMonitor at shutdown**: between the engine's start and
  `KeepHandle` it leaves a run without a handle, in a program that is about to end.
  What an abort does to files is in `AppConfig` and `SessionCommands`.
- **The desktop's `refresh_config`** and what else its start only reads; the end of its
  event loop when the window is closed, in a program that is about to end.
- **Commands of the command line that only print**, and build tasks.

An abstraction to know of: a module sees the others' state only as far as it needs.
The session is a Boolean in `MonitorControl`, a scene in `QrLogin`, a record in
`SessionCommands`; the file is atomic in `SessionStore` and a sequence of system
calls in `JsonFile`, whose `KeepsRegister` is what justifies that while saves do not
overlap. The state of the application is a version number in `FrontEnds`. The lesson
task in `MonitorEngine` may do at any time what it does in `LessonMonitor` for a
reason, and `LessonTimers` has of the stream only when it is open; that the three are
views of one task is what their common `LessonContract` says, as far as its end, its
answers and its check-ins go.

## 7. Plan

Written, in this order, from the most to the least central: engine and service,
lesson task, QR login, files, sessions, events, downloads; then page views, danmus
and delays, the configuration of the programs, the front ends. Left:

1. **Shutdown**: an abort of a command at any await in `MonitorControl`
   (`app_controller.rs:97`), and which of its properties survive it.
