---------------------------- MODULE MonitorControl ----------------------------
(***************************************************************************)
(* AppServiceImpl's control of the monitor (rca-core/src/app/service):     *)
(* StartMonitor, StopMonitor, Logout and the login commands, executed by   *)
(* concurrent command futures, with the background loop that applies       *)
(* engine events to the application state.                                 *)
(*                                                                         *)
(* Every access to InnerState takes the mutex for one closure, so each     *)
(* closure is one action and other commands interleave between them.  The  *)
(* calls to the session store and to the engine are further interleaving   *)
(* points.  The engine is the module MonitorEngine, composed here: an      *)
(* action of a command may take a step of the engine.                      *)
(***************************************************************************)
EXTENDS MonitorEngine, FiniteSets

CONSTANTS
    Offered,           \* the commands issued: all of AppCommand that matter here,
                       \* or fewer to narrow a run
    StoreMayFail,      \* the calls to the session store may fail
    EngineMayRefuse    \* MonitorEngine::start may return an error: the trait
                       \* allows it, CoreMonitorEngine never does it

AppCommands == {"LoginByQr", "PollLogin", "RestoreSession",
                "StartMonitor", "StopMonitor", "Logout"}

ASSUME ControlAssumption ==
    /\ Offered \subseteq AppCommands
    /\ StoreMayFail \in BOOLEAN
    /\ EngineMayRefuse \in BOOLEAN

VARIABLES
    auth,              \* AppState.auth_state, without its payload
    session,           \* the session store holds a session
    sceneOpen,         \* a QR scene was opened and its outcome not yet taken
    monitorRunning,    \* AppState.monitor_running
    monitorHandle,     \* InnerState.monitor_handle is Some
    pc,                \* pc[c]: the next step of the command future c
    cmd                \* cmd[c]: the command c executes

serviceVars == <<auth, session, sceneOpen, monitorRunning, monitorHandle>>
vars == <<engineVars, serviceVars, pc, cmd>>

AuthStates == {"LoggedOut", "WaitingQrScan", "LoggedIn", "Failed"}
Steps == {"idle", "saveSession", "setRunning", "loadSession", "engineStart", "keepHandle",
          "dropHandle", "engineStop", "engineJoin", "clearSession",
          "setLoggedOut", "setLoggedIn", "setStopped"}

Init ==
    /\ EngineInit
    /\ auth = "LoggedOut"
    /\ session \in BOOLEAN
    /\ sceneOpen = FALSE
    /\ monitorRunning = FALSE
    /\ monitorHandle = FALSE
    /\ pc = [c \in Callers |-> "idle"]
    /\ cmd = [c \in Callers |-> "None"]

At(c, step) == pc[c] = step
Goto(c, step) ==
    /\ pc' = [pc EXCEPT ![c] = step]
    /\ cmd' = IF step = "idle" THEN [cmd EXCEPT ![c] = "None"] ELSE cmd
Idle(c, command) ==
    /\ command \in Offered
    /\ At(c, "idle")
Issue(c, command, step) ==
    /\ Idle(c, command)
    /\ cmd' = [cmd EXCEPT ![c] = command]
    /\ pc' = [pc EXCEPT ![c] = step]

-----------------------------------------------------------------------------
(* Login.                                                                  *)

\* LoginByQr: start_qr_login succeeded, the scene is shown.
LoginByQr(c) ==
    /\ Idle(c, "LoginByQr")
    /\ auth' = "WaitingQrScan"
    /\ sceneOpen' = TRUE
    /\ UNCHANGED <<engineVars, session, monitorRunning, monitorHandle, pc, cmd>>

\* PollLogin or AwaitLogin takes the outcome Confirmed.
ConfirmLogin(c) ==
    /\ sceneOpen
    /\ sceneOpen' = FALSE
    /\ Issue(c, "PollLogin", "saveSession")
    /\ UNCHANGED <<engineVars, auth, session, monitorRunning, monitorHandle>>

SaveSession(c) ==
    /\ At(c, "saveSession")
    /\ session' = TRUE
    /\ Goto(c, "setLoggedIn")
    /\ UNCHANGED <<engineVars, auth, sceneOpen, monitorRunning, monitorHandle>>

\* save_session fails: the outcome has been taken and nothing is set.
SaveSessionFails(c) ==
    /\ StoreMayFail
    /\ At(c, "saveSession")
    /\ Goto(c, "idle")
    /\ UNCHANGED <<engineVars, serviceVars>>

\* PollLogin or AwaitLogin takes Expired or Rejected.
RejectLogin(c) ==
    /\ Idle(c, "PollLogin")
    /\ sceneOpen
    /\ sceneOpen' = FALSE
    /\ auth' = "Failed"
    /\ UNCHANGED <<engineVars, session, monitorRunning, monitorHandle, pc, cmd>>

\* RestoreSession: load_session returned what the store holds.
RestoreSession(c) ==
    /\ Issue(c, "RestoreSession", IF session THEN "setLoggedIn" ELSE "setLoggedOut")
    /\ UNCHANGED <<engineVars, serviceVars>>

SetLoggedIn(c) ==
    /\ At(c, "setLoggedIn")
    /\ auth' = "LoggedIn"
    /\ Goto(c, "idle")
    /\ UNCHANGED <<engineVars, session, sceneOpen, monitorRunning, monitorHandle>>

-----------------------------------------------------------------------------
(* StartMonitor.                                                           *)

\* Bound of the model, not of the code: a start is issued only while a run is
\* left for it to spawn.
Starting == {c \in Callers : pc[c] \in {"setRunning", "loadSession", "engineStart"}}
RunsLeft ==
    Cardinality(Starting) < Cardinality({r \in Runs : task[r] = "unspawned"})

\* The guard: refused when LoggedOut, nothing to do when already running.
StartMonitor(c) ==
    /\ RunsLeft
    /\ auth # "LoggedOut"
    /\ ~monitorRunning
    /\ Issue(c, "StartMonitor", "setRunning")
    /\ UNCHANGED <<engineVars, serviceVars>>

SetRunning(c) ==
    /\ At(c, "setRunning")
    /\ monitorRunning' = TRUE
    /\ Goto(c, "loadSession")
    /\ UNCHANGED <<engineVars, auth, session, sceneOpen, monitorHandle>>

\* start_background_monitor: without a session, or when it cannot be loaded, it
\* returns, and so does the command, with monitor_running left true.
LoadSession(c) ==
    /\ At(c, "loadSession")
    /\ \/ session /\ Goto(c, "engineStart")
       \/ (~session \/ StoreMayFail) /\ Goto(c, "idle")
    /\ UNCHANGED <<engineVars, serviceVars>>

StartEngine(c) ==
    /\ At(c, "engineStart")
    /\ EngineStart
    /\ Goto(c, "keepHandle")
    /\ UNCHANGED serviceVars

KeepHandle(c) ==
    /\ At(c, "keepHandle")
    /\ monitorHandle' = TRUE
    /\ Goto(c, "idle")
    /\ UNCHANGED <<engineVars, auth, session, sceneOpen, monitorRunning>>

\* The engine refused: forget the handle, then clear monitor_running.
EngineRefuses(c) ==
    /\ EngineMayRefuse
    /\ At(c, "engineStart")
    /\ Goto(c, "dropHandle")
    /\ UNCHANGED <<engineVars, serviceVars>>

DropHandle(c) ==
    /\ At(c, "dropHandle")
    /\ monitorHandle' = FALSE
    /\ Goto(c, "setStopped")
    /\ UNCHANGED <<engineVars, auth, session, sceneOpen, monitorRunning>>

-----------------------------------------------------------------------------
(* StopMonitor and Logout.                                                 *)

AfterEngine(c) ==
    IF cmd'[c] = "Logout" THEN "clearSession" ELSE "setStopped"

\* stop_monitor_engine begins: take the handle.  Without one, the engine is
\* not asked to stop.
StopOrLogout(c, command) ==
    /\ Idle(c, command)
    /\ cmd' = [cmd EXCEPT ![c] = command]
    /\ pc' = [pc EXCEPT ![c] =
                IF monitorHandle THEN "engineStop" ELSE AfterEngine(c)]
    /\ monitorHandle' = FALSE
    /\ UNCHANGED <<engineVars, auth, session, sceneOpen, monitorRunning>>

StopMonitor(c) == StopOrLogout(c, "StopMonitor")
Logout(c) == StopOrLogout(c, "Logout")

\* Mutant: stop drops the EngineRuntime it took.
EngineStopTakes_Drops(c) ==
    /\ At(c, "engineStop")
    /\ runtime' = NoRun
    /\ UNCHANGED <<task, told, lessons, took, over>>
    /\ Silent
    /\ UNCHANGED cmd
    /\ pc' = [pc EXCEPT ![c] = AfterEngine(c)]
    /\ UNCHANGED serviceVars

\* MonitorEngine::stop.
EngineStopTakes(c) ==
    /\ At(c, "engineStop")
    /\ StopTake(c)
    /\ UNCHANGED cmd
    /\ pc' = [pc EXCEPT ![c] =
                IF runtime = NoRun THEN AfterEngine(c) ELSE "engineJoin"]
    /\ UNCHANGED serviceVars

EngineStopSignals(c) ==
    /\ At(c, "engineJoin")
    /\ StopSignal(c)
    /\ UNCHANGED <<serviceVars, pc, cmd>>

EngineStopReturns(c) ==
    /\ At(c, "engineJoin")
    /\ StopJoined(c)
    /\ UNCHANGED cmd
    /\ pc' = [pc EXCEPT ![c] = AfterEngine(c)]
    /\ UNCHANGED serviceVars

\* Logout: clear_session, whose failure ends the command there.
ClearSession(c) ==
    /\ At(c, "clearSession")
    /\ session' = FALSE
    /\ Goto(c, "setLoggedOut")
    /\ UNCHANGED <<engineVars, auth, sceneOpen, monitorRunning, monitorHandle>>

ClearSessionFails(c) ==
    /\ StoreMayFail
    /\ At(c, "clearSession")
    /\ Goto(c, "idle")
    /\ UNCHANGED <<engineVars, serviceVars>>

SetLoggedOut(c) ==
    /\ At(c, "setLoggedOut")
    /\ auth' = "LoggedOut"
    /\ Goto(c, IF cmd[c] = "Logout" THEN "setStopped" ELSE "idle")
    /\ UNCHANGED <<engineVars, session, sceneOpen, monitorRunning, monitorHandle>>

SetStopped(c) ==
    /\ At(c, "setStopped")
    /\ monitorRunning' = FALSE
    /\ Goto(c, "idle")
    /\ UNCHANGED <<engineVars, auth, session, sceneOpen, monitorHandle>>

-----------------------------------------------------------------------------
(* The background loop.                                                    *)

\* One event: MonitorStopped clears monitor_running and the handle, whichever
\* run and whichever lesson it came from.
BackgroundLoop ==
    /\ Receive
    /\ IF Head(feed) = "MonitorStopped"
       THEN /\ monitorRunning' = FALSE
            /\ monitorHandle' = FALSE
       ELSE UNCHANGED <<monitorRunning, monitorHandle>>
    /\ UNCHANGED <<auth, session, sceneOpen, pc, cmd>>

BackgroundLoopBreaks ==
    /\ ReceiveLagged
    /\ UNCHANGED <<serviceVars, pc, cmd>>

-----------------------------------------------------------------------------

LoginStep(c) ==
    \/ LoginByQr(c)
    \/ ConfirmLogin(c) \/ SaveSession(c) \/ SaveSessionFails(c) \/ RejectLogin(c)
    \/ RestoreSession(c) \/ SetLoggedIn(c)

StartStep(c) ==
    \/ StartMonitor(c) \/ SetRunning(c) \/ LoadSession(c)
    \/ StartEngine(c) \/ KeepHandle(c) \/ EngineRefuses(c) \/ DropHandle(c)

StopStep(c) ==
    \/ StopMonitor(c) \/ Logout(c)
    \/ EngineStopTakes(c) \/ EngineStopSignals(c) \/ EngineStopReturns(c)
    \/ ClearSession(c) \/ ClearSessionFails(c)
    \/ SetLoggedOut(c) \/ SetStopped(c)

CommandStep(c) == LoginStep(c) \/ StartStep(c) \/ StopStep(c)

MonitorStep ==
    /\ (\E r \in Runs : RunStep(r)) \/ (\E l \in Lessons : LessonOver(l))
    /\ UNCHANGED <<serviceVars, pc, cmd>>

Next ==
    \/ \E c \in Callers : CommandStep(c)
    \/ MonitorStep
    \/ BackgroundLoop
    \/ BackgroundLoopBreaks

Spec == Init /\ [][Next]_vars

\* A started command runs on, and so do the background loop and the tasks of
\* the engine.  Nobody is obliged to issue a command.
Fairness ==
    /\ \A c \in Callers : WF_vars(pc[c] # "idle" /\ CommandStep(c))
    /\ \A r \in Runs : WF_vars(SupervisorStep(r) /\ UNCHANGED <<serviceVars, pc, cmd>>)
    /\ \A r \in Runs, l \in Lessons :
          WF_vars(LessonStops(r, l) /\ UNCHANGED <<serviceVars, pc, cmd>>)
    /\ WF_vars(BackgroundLoop \/ BackgroundLoopBreaks)

FairSpec == Spec /\ Fairness

-----------------------------------------------------------------------------
(* Properties.                                                             *)

TypeOK ==
    /\ EngineTypeOK
    /\ auth \in AuthStates
    /\ session \in BOOLEAN
    /\ sceneOpen \in BOOLEAN
    /\ monitorRunning \in BOOLEAN
    /\ monitorHandle \in BOOLEAN
    /\ pc \in [Callers -> Steps]
    /\ cmd \in [Callers -> AppCommands \cup {"None"}]

\* A command waits inside the engine's stop exactly while it holds a runtime, so
\* no runtime is lost between stop_monitor_engine and the commands around it.
JoinerHoldsRun == \A c \in Callers : (pc[c] = "engineJoin") <=> (took[c] # NoRun)

\* Every command returns, with stops, starts and logouts in any order: the run a
\* stop waits for ends, whatever it was doing when it was told.
CommandsReturn == \A c \in Callers : (pc[c] # "idle") ~> (pc[c] = "idle")

\* A stop that reached the engine ends the run that was in service then, even
\* when a start or another stop comes in between.
StopIsEffective ==
    \A c \in Callers, r \in Runs :
        (pc[c] = "engineStop" /\ runtime = r) ~> (task[r] = "ended")

-----------------------------------------------------------------------------
(* What the documentation says and the code does not do.                   *)

\* "StopMonitor/Logout stop this background task": when either has dealt with
\* the engine, no task is at work any more on a lesson that is still going on.
StopsBackgroundTask ==
    \A c \in Callers :
        (cmd[c] \in {"StopMonitor", "Logout"} /\ pc[c] = "setStopped")
            => \A r \in Runs, l \in Lessons : Watching(r, l) => l \in over
=============================================================================
