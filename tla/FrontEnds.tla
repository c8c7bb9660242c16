------------------------------- MODULE FrontEnds -------------------------------
(***************************************************************************)
(* The two front ends of the service, over the emissions of EventFanout:   *)
(* the desktop, whose window follows the events while its user gives       *)
(* commands, and the command line (rca-cli), whose future Main logs in,    *)
(* subscribes, gives a command and reads the events by itself.             *)
(*                                                                         *)
(* Main awaits each command before it goes on and does not read its        *)
(* channel meanwhile, though it is the only reader, and the command's own  *)
(* emission goes there too.                                                *)
(***************************************************************************)
EXTENDS EventFanout

CONSTANTS
    Main,           \* the main future of the command line
    Rx              \* the subscriber it reads

ASSUME FrontEndAssumption ==
    /\ Main \in Background
    /\ Rx \in Subs /\ Rx # Ui

\* What is emitted while Main awaits a command finds room: the channel holds all
\* that the bounds allow, Main's two changes included.
ASSUME RoomAssumption == Capacity[Rx] >= MaxChanges + MaxOthers + 2

VARIABLES
    front,          \* the program and its subcommand
    step,           \* what Main does next, or awaits
    auth,           \* auth_state, when the command line looks at it
    engine,         \* a run of the engine has been started
    timer,          \* of the monitor's duration, if it has one
    found,          \* check_latest has come upon a newer release (history)
    printed         \* check-update has printed it

cliVars == <<step, auth, engine, timer, found, printed>>
vars == <<fanoutVars, front, cliVars>>

Fronts == {"desktop", "monitor", "check-update"}
MainSteps == {"none", "ensuring", "logging in", "awaiting", "subscribing", "starting",
              "started", "monitoring", "stopping", "stopped", "checking", "checked",
              "printing", "over"}

\* Mutant: the command line starts the monitor before it subscribes.
Order_StartsFirst ==
    [begin     |-> IF front = "monitor" THEN "ensuring" ELSE "subscribing",
     login     |-> "starting",
     start     |-> "subscribing",
     subscribe |-> IF front = "monitor" THEN "monitoring" ELSE "checking",
     check     |-> "printing"]

\* Mutant: check-update subscribes when the command is done.
Order_ChecksFirst ==
    [begin     |-> IF front = "monitor" THEN "ensuring" ELSE "checking",
     login     |-> "subscribing",
     subscribe |-> IF front = "monitor" THEN "starting" ELSE "printing",
     start     |-> "monitoring",
     check     |-> "subscribing"]

\* What a subcommand begins with, and what it does after each of its parts.
Order ==
    [begin     |-> IF front = "monitor" THEN "ensuring" ELSE "subscribing",
     login     |-> "subscribing",
     subscribe |-> IF front = "monitor" THEN "starting" ELSE "checking",
     start     |-> "monitoring",
     check     |-> "printing"]

\* RestoreSession, run before, has had nobody to tell.  On the desktop a task that
\* refreshes the window, one that may look for an update, and the event loop are about
\* to run.
Init ==
    /\ front \in Fronts
    /\ FanoutInit(IF front = "desktop" THEN "asked" ELSE "idle")
    /\ step = IF front = "desktop" THEN "none" ELSE Order.begin
    /\ auth \in {"LoggedOut", "LoggedIn"}
    /\ engine = FALSE
    /\ timer \in {"none", "set"}
    /\ front # "monitor" => auth = "LoggedIn" /\ timer = "none"
    /\ found = FALSE
    /\ printed = FALSE

-----------------------------------------------------------------------------
(* The command line: ensure_logged_in and do_login.  Their commands emit,   *)
(* but Main has not subscribed yet.                                         *)

\* The session is refreshed if there is one.
RefreshSucceeds ==
    /\ step = "ensuring"
    /\ auth = "LoggedIn"
    /\ step' = Order.login
    /\ UNCHANGED <<fanoutVars, front, auth, engine, timer, found, printed>>

NeedsLogin ==
    /\ step = "ensuring"
    /\ step' = "logging in"
    /\ UNCHANGED <<fanoutVars, front, auth, engine, timer, found, printed>>

ShowCode ==
    /\ step = "logging in"
    /\ auth' = "WaitingQrScan"
    /\ step' = "awaiting"
    /\ UNCHANGED <<fanoutVars, front, engine, timer, found, printed>>

\* AwaitLogin returns.  Also when the code has expired, been rejected or is still
\* waiting, do_login only prints as much and the subcommand goes on.
LoginReturns ==
    /\ step = "awaiting"
    /\ auth' \in {"LoggedIn", "Failed", "WaitingQrScan"}
    /\ step' = Order.login
    /\ UNCHANGED <<fanoutVars, front, engine, timer, found, printed>>

\* An error of LoginByQr, AwaitLogin or CheckUpdate ends the program.
CommandFails ==
    /\ \/ step \in {"logging in", "awaiting"} /\ UNCHANGED fanoutVars
       \/ step = "checking" /\ Close(Rx)
    /\ step' = "over"
    /\ UNCHANGED <<front, auth, engine, timer, found, printed>>

SubscribeEvents ==
    /\ step = "subscribing"
    /\ Subscribe(Rx)
    /\ step' = Order.subscribe
    /\ UNCHANGED <<front, auth, engine, timer, found, printed>>

-----------------------------------------------------------------------------
(* The command line: monitor.                                               *)

\* StartMonitor, which refuses only when logged out; without a session in the store
\* it starts no run and succeeds all the same.
StartMonitor ==
    /\ step = "starting"
    /\ auth # "LoggedOut"
    /\ engine' \in BOOLEAN
    /\ Change(Main)
    /\ step' = "started"
    /\ UNCHANGED <<front, auth, timer, found, printed>>

\* The command's emission is over, and Main goes on.
Started ==
    /\ step = "started"
    /\ at[Main] = "idle"
    /\ step' = Order.start
    /\ UNCHANGED <<fanoutVars, front, auth, engine, timer, found, printed>>

ReadEvent ==
    /\ step = "monitoring"
    /\ Receive(Rx)
    /\ UNCHANGED <<front, cliVars>>

DurationPasses ==
    /\ step = "monitoring"
    /\ timer = "set"
    /\ timer' = "due"
    /\ UNCHANGED <<fanoutVars, front, step, auth, engine, found, printed>>

\* Mutant: the deadline is looked at when an event has been handled.
DeadlineSeen_OnEvent ==
    /\ step = "monitoring"
    /\ timer = "due"
    /\ chan[Rx] # <<>>
    /\ step' = "stopping"
    /\ UNCHANGED <<fanoutVars, front, auth, engine, timer, found, printed>>

\* The sleep of 200 ms, begun anew after each event, elapses and the deadline has
\* passed.
DeadlineSeen ==
    /\ step = "monitoring"
    /\ timer = "due"
    /\ step' = "stopping"
    /\ UNCHANGED <<fanoutVars, front, auth, engine, timer, found, printed>>

\* Seen only by a select that is waiting; at any other time it is lost.
CtrlC ==
    /\ step = "monitoring"
    /\ step' = "stopping"
    /\ UNCHANGED <<fanoutVars, front, auth, engine, timer, found, printed>>

\* StopMonitor; Main no longer reads what it and the background loop emit.
StopMonitor ==
    /\ step = "stopping"
    /\ Change(Main)
    /\ step' = "stopped"
    /\ UNCHANGED <<front, auth, engine, timer, found, printed>>

\* The receiver goes when the program ends, perhaps in the midst of an emission.
Exit ==
    /\ step = "stopped"
    /\ at[Main] = "idle"
    /\ Close(Rx)
    /\ step' = "over"
    /\ UNCHANGED <<front, auth, engine, timer, found, printed>>

-----------------------------------------------------------------------------
(* The command line: check-update.                                          *)

\* A newer release is told to the subscribers before CheckUpdate returns.
FindUpdate ==
    /\ step = "checking"
    /\ EmitOther(Main)
    /\ found' = TRUE
    /\ step' = "checked"
    /\ UNCHANGED <<front, auth, engine, timer, printed>>

FindNothing ==
    /\ step = "checking"
    /\ step' = Order.check
    /\ UNCHANGED <<fanoutVars, front, auth, engine, timer, found, printed>>

Checked ==
    /\ step = "checked"
    /\ at[Main] = "idle"
    /\ step' = Order.check
    /\ UNCHANGED <<fanoutVars, front, auth, engine, timer, found, printed>>

\* recv with a timeout: an event that is there is taken.
PrintUpdate ==
    /\ step = "printing"
    /\ printed' = (chan[Rx] # <<>>)
    /\ Close(Rx)
    /\ step' = "over"
    /\ UNCHANGED <<front, auth, engine, timer, found>>

-----------------------------------------------------------------------------

\* Main goes on by itself; a deadline is seen for certain once events stop.
MainStep ==
    \/ RefreshSucceeds \/ NeedsLogin \/ ShowCode \/ LoginReturns \/ CommandFails
    \/ SubscribeEvents
    \/ StartMonitor \/ Started \/ ReadEvent \/ StopMonitor \/ Exit
    \/ FindUpdate \/ FindNothing \/ Checked \/ PrintUpdate

\* The background loop emits once there is a run; on the desktop there is one, and
\* the user gives commands.
MayEmit(e) ==
    \/ front = "desktop" /\ e # Main
    \/ engine /\ e \in Background \ {Main}

Emission(e) ==
    /\ MayEmit(e)
    /\ (Change(e) /\ version <= MaxChanges) \/ EmitOther(e)
    /\ UNCHANGED <<front, cliVars>>

EmissionStep(e) == EmitterStep(e) /\ UNCHANGED <<front, cliVars>>

\* The desktop's event loop subscribes in a task of its own, whatever the others of
\* the program's start have come to.
DesktopSubscribes ==
    /\ front = "desktop"
    /\ Subscribe(Ui)
    /\ UNCHANGED <<front, cliVars>>

\* The desktop's event loop, and its refresh task.
EventLoop == (Receive(Ui) \/ WindowStep) /\ UNCHANGED <<front, cliVars>>

\* The program has ended, or nothing is under way and it may stay like that.
Rests ==
    /\ step = "over" \/ (step \in {"none", "monitoring"} /\ Quiet)
    /\ UNCHANGED vars

Next ==
    \/ \E e \in Emitters :
          \/ Emission(e)
          \/ EmissionStep(e)
    \/ DesktopSubscribes \/ EventLoop
    \/ MainStep \/ DurationPasses \/ DeadlineSeen \/ CtrlC
    \/ Rests

\* Main awaits what has no timeout: the login's websocket and the picture of its code
\* (qr_login.rs, main.rs), or the release that is asked for (update/checker.rs).
Unbounded == step \in {"logging in", "checking"}

\* The runtime runs every task, other requests end, and timers fire: the event loop's,
\* the duration's, and the sleep of the monitor when no event comes in between.
Fairness ==
    /\ \A e \in Emitters : WF_vars(EmissionStep(e))
    /\ WF_vars(Receive(Ui) /\ UNCHANGED <<front, cliVars>>)
    /\ WF_vars(WindowStep /\ UNCHANGED <<front, cliVars>>)
    /\ WF_vars(DesktopSubscribes)
    /\ WF_vars(~Unbounded /\ MainStep)
    /\ WF_vars(DurationPasses)
    /\ WF_vars(DeadlineSeen /\ chan[Rx] = <<>>)

Spec == Init /\ [][Next]_vars /\ Fairness

\* What the code cannot see to: that the servers of these two answer or hang up.
ServersAnswer == WF_vars(Unbounded /\ MainStep)

-----------------------------------------------------------------------------
(* Properties.                                                             *)

TypeOK ==
    /\ FanoutTypeOK
    /\ front \in Fronts
    /\ step \in MainSteps
    /\ auth \in {"LoggedOut", "LoggedIn", "WaitingQrScan", "Failed"}
    /\ {engine, found, printed} \subseteq BOOLEAN
    /\ timer \in {"none", "set", "due"}

\* Those whose place in the list is safe: the command line, which subscribes before it
\* gives a command that emits, and the desktop unless an emission had its copy of the
\* list when it subscribed.
Safe(s) == link[s] = "open" /\ (s = Rx \/ s \notin raced)

\* An emission that is over has been sent to everyone who had safely subscribed when
\* it began and still listens: emit_event skips nobody because another emission, a
\* full channel or a closed receiver came in between.
EveryEmissionHeard == \A s \in Subs : Safe(s) => done \subseteq heard[s]

\* Nobody who has safely subscribed and still listens drops out of the list, whichever
\* emission writes its own copy of the list back last.
SubscribersKept == \A s \in Subs : Safe(s) => s \in Range(subscribers)

\* On the desktop, when the state has stopped changing, the window comes to show
\* it, through events, the event loop's timer and the refreshes of commands, unless
\* the window's subscription met an emission, or emissions have overlapped; the next
\* change that begins alone puts the latter right.
UiSettles == front = "desktop" => <>[](version = shown \/ overlapped \/ Ui \in raced)

\* On the desktop the window is never left with an old state: when nothing is under
\* way and the event loop has nothing to paint, it shows the last state, unless its
\* subscription met an emission, or emissions have overlapped, or the state changed
\* before it, and no change has begun alone since then.
WindowIsCurrent ==
    front = "desktop" /\ Quiet /\ ~overlapped /\ Ui \notin raced => shown = version

\* On the command line, check-update ends, and so does a monitor that has a
\* duration, whatever the background loop emits while Main awaits its commands,
\* if the servers that no timeout guards answer.
CommandsEnd ==
    ServersAnswer =>
        ((front = "check-update" \/ (front = "monitor" /\ timer # "none"))
            ~> step = "over")

\* check-update prints a release that it has been told of.
UpdateIsPrinted == front = "check-update" /\ step = "over" /\ found => printed
=============================================================================
