-------------------------------- MODULE QrLogin --------------------------------
(***************************************************************************)
(* Logging in with a QR code: the login task that talks to the server      *)
(* (api/core_port/qr_login.rs), the store in which it leaves the outcome   *)
(* (qr_state.rs), and the command futures that start a login, wait for it  *)
(* and apply it to the service's state (app/service).                      *)
(*                                                                         *)
(* The two front ends do the same: issue LoginByQr, read the scene to wait *)
(* for out of the application state, and issue AwaitLogin once, with a     *)
(* timeout.  On the desktop every click does so in a future of its own.    *)
(*                                                                         *)
(* AwaitLogin looks into the store under its lock, and if the scene is     *)
(* still pending releases the lock and only then registers with the Notify *)
(* that `set` uses: a `set` between the two wakes nobody.                  *)
(***************************************************************************)
EXTENDS Naturals

CONSTANTS
    Callers,        \* command futures
    Scenes,         \* login attempts (a bound)
    NoScene,
    PollsToo,       \* PollLogin is issued, as no front end does now
    StoreMayFail    \* saving or clearing the session may fail

ASSUME QrAssumption ==
    /\ NoScene \notin Scenes
    /\ {PollsToo, StoreMayFail} \subseteq BOOLEAN

VARIABLES
    store,          \* QrStateStore.states
    link,           \* link[s]: the login task of s, and the outcome it set
    ticketed,       \* scenes whose ticket was handed to LoginByQr
    at,             \* at[c]: how far the future of c has come
    scene,          \* scene[c]: the scene it deals with
    got,            \* got[c]: the outcome it took out of the store
    taken,          \* taken[s]: how often an outcome was taken
    auth,           \* AppState.auth_state
    authScene,      \* the scene_id of WaitingQrScan
    session         \* the scene that logged in the stored session

tasks == <<store, link, ticketed>>
calls == <<at, scene, got>>
service == <<auth, authScene, session>>
vars == <<tasks, calls, taken, service>>

Outcomes == {"Confirmed", "Expired", "Rejected"}
Working == {"connecting", "shown", "exchanging"}
Waits == {"looking", "arming", "sleeping", "woken"}
Steps == {"idle", "starting", "reading", "checking", "applying", "entering",
          "clearing", "leaving"} \cup Waits
AuthStates == {"LoggedOut", "WaitingQrScan", "LoggedIn", "Failed"}

Init ==
    /\ store = [s \in Scenes |-> "absent"]
    /\ link = [s \in Scenes |-> "unused"]
    /\ ticketed = {}
    /\ at = [c \in Callers |-> "idle"]
    /\ scene = [c \in Callers |-> NoScene]
    /\ got = [c \in Callers |-> "none"]
    /\ taken = [s \in Scenes |-> 0]
    /\ auth = "LoggedOut"
    /\ authScene = NoScene
    /\ session = NoScene

Goto(c, step) ==
    /\ at' = [at EXCEPT ![c] = step]
    /\ UNCHANGED <<scene, got>>

Return(c) ==
    /\ at' = [at EXCEPT ![c] = "idle"]
    /\ scene' = [scene EXCEPT ![c] = NoScene]
    /\ got' = [got EXCEPT ![c] = "none"]

-----------------------------------------------------------------------------
(* The login task of a scene.                                              *)

\* QrStateStore::set: the outcome is stored and those asleep are woken, whatever
\* scene they wait for.
Woken == [c \in Callers |-> IF at[c] = "sleeping" THEN "woken" ELSE at[c]]

Settle(s, outcome) ==
    /\ store' = [store EXCEPT ![s] = outcome]
    /\ link' = [link EXCEPT ![s] = outcome]
    /\ at' = Woken
    /\ UNCHANGED <<ticketed, scene, got, taken, service>>

\* The server sends the ticket of the QR code, which LoginByQr returns.
LinkShows(s) ==
    /\ link[s] = "connecting"
    /\ link' = [link EXCEPT ![s] = "shown"]
    /\ ticketed' = ticketed \cup {s}
    /\ UNCHANGED <<store, calls, taken, service>>

\* The user scans and confirms: loginsuccess.
LinkScanned(s) ==
    /\ link[s] = "shown"
    /\ link' = [link EXCEPT ![s] = "exchanging"]
    /\ UNCHANGED <<store, ticketed, calls, taken, service>>

\* Mutant: the task does not return when it has set the session.
LinkConfirms_GoesOn(s) ==
    /\ link[s] = "exchanging"
    /\ store' = [store EXCEPT ![s] = "Confirmed"]
    /\ link' = [link EXCEPT ![s] = "shown"]
    /\ at' = Woken
    /\ UNCHANGED <<ticketed, scene, got, taken, service>>

\* web_login answers with a session.
LinkConfirms(s) == link[s] = "exchanging" /\ Settle(s, "Confirmed")

\* Mutant: an error path that returns without setting an outcome.
LinkFails_Silently(s) ==
    /\ link[s] \in Working
    /\ link' = [link EXCEPT ![s] = "Rejected"]
    /\ UNCHANGED <<store, ticketed, calls, taken, service>>

\* The connection, the ticket, the confirmation or web_login is no good.
LinkFails(s) == link[s] \in Working /\ Settle(s, "Rejected")

\* The server closes the socket before the user has scanned.
LinkCloses(s) == link[s] \in {"connecting", "shown"} /\ Settle(s, "Expired")

-----------------------------------------------------------------------------
(* LoginByQr.                                                              *)

\* start_qr_login: the scene is pending before its task is spawned.
LoginByQr(c) ==
    /\ at[c] = "idle"
    /\ \E s \in Scenes :
          /\ link[s] = "unused"
          /\ store' = [store EXCEPT ![s] = "Pending"]
          /\ link' = [link EXCEPT ![s] = "connecting"]
          /\ scene' = [scene EXCEPT ![c] = s]
    /\ at' = [Woken EXCEPT ![c] = "starting"]
    /\ UNCHANGED <<ticketed, got, taken, service>>

\* The ticket is there: the application shows the QR code.
ShowCode(c) ==
    /\ at[c] = "starting"
    /\ scene[c] \in ticketed
    /\ auth' = "WaitingQrScan"
    /\ authScene' = scene[c]
    /\ Goto(c, "reading")
    /\ UNCHANGED <<tasks, taken, session>>

\* The task gave up before there was a ticket; the outcome stays in the store.
StartFails(c) ==
    /\ at[c] = "starting"
    /\ scene[c] \notin ticketed
    /\ link[scene[c]] \in Outcomes
    /\ Return(c)
    /\ UNCHANGED <<tasks, taken, service>>

-----------------------------------------------------------------------------
(* AwaitLogin and PollLogin.                                               *)

\* The front end asks for the state and finds the scene to wait for in it.
ReadScene(c) ==
    /\ at[c] = "reading"
    /\ IF auth = "WaitingQrScan"
       THEN /\ scene' = [scene EXCEPT ![c] = authScene]
            /\ at' = [at EXCEPT ![c] = "checking"]
            /\ UNCHANGED got
       ELSE Return(c)
    /\ UNCHANGED <<tasks, taken, service>>

\* AwaitLogin refuses a scene that is not the one shown.
CheckScene(c) ==
    /\ at[c] = "checking"
    /\ IF auth = "WaitingQrScan" /\ authScene = scene[c]
       THEN Goto(c, "looking")
       ELSE Return(c)
    /\ UNCHANGED <<tasks, taken, service>>

\* An outcome in the store is removed as it is read, under the store's lock.
Take(c, s) ==
    /\ store[s] \in Outcomes
    /\ store' = [store EXCEPT ![s] = "absent"]
    /\ taken' = [taken EXCEPT ![s] = @ + 1]
    /\ at' = [at EXCEPT ![c] = "applying"]
    /\ scene' = [scene EXCEPT ![c] = s]
    /\ got' = [got EXCEPT ![c] = store[s]]
    /\ UNCHANGED <<link, ticketed, service>>

WaitTakes(c) == at[c] = "looking" /\ Take(c, scene[c])

\* Somebody else took it: unknown scene_id.
WaitFindsNone(c) ==
    /\ at[c] = "looking"
    /\ store[scene[c]] = "absent"
    /\ Return(c)
    /\ UNCHANGED <<tasks, taken, service>>

\* Still pending: the lock is released, and nothing is registered yet.
WaitFindsPending(c) ==
    /\ at[c] = "looking"
    /\ store[scene[c]] = "Pending"
    /\ Goto(c, "arming")
    /\ UNCHANGED <<tasks, taken, service>>

WaitSleeps(c) ==
    /\ at[c] = "arming"
    /\ Goto(c, "sleeping")
    /\ UNCHANGED <<tasks, taken, service>>

WaitWakes(c) ==
    /\ at[c] = "woken"
    /\ Goto(c, "looking")
    /\ UNCHANGED <<tasks, taken, service>>

\* Mutant: a timeout is taken for a wake-up.
WaitTimesOut_LooksAgain(c) ==
    /\ at[c] \in {"arming", "sleeping"}
    /\ Goto(c, "looking")
    /\ UNCHANGED <<tasks, taken, service>>

\* The deadline passes: an error, without another look at the store.
WaitTimesOut(c) ==
    /\ at[c] \in {"arming", "sleeping"}
    /\ Return(c)
    /\ UNCHANGED <<tasks, taken, service>>

\* Mutant: poll leaves an outcome where it is.
PollLogin_Keeps(c) ==
    /\ PollsToo
    /\ at[c] = "idle"
    /\ \E s \in Scenes :
          /\ store[s] \in Outcomes
          /\ taken' = [taken EXCEPT ![s] = @ + 1]
          /\ at' = [at EXCEPT ![c] = "applying"]
          /\ scene' = [scene EXCEPT ![c] = s]
          /\ got' = [got EXCEPT ![c] = store[s]]
    /\ UNCHANGED <<tasks, service>>

\* PollLogin: any scene may be named; one that is pending or unknown changes
\* nothing.
PollLogin(c) == PollsToo /\ at[c] = "idle" /\ \E s \in Scenes : Take(c, s)

-----------------------------------------------------------------------------
(* apply_qr_login_progress, whatever scene is shown by now.                *)

SaveSession(c) ==
    /\ at[c] = "applying"
    /\ got[c] = "Confirmed"
    /\ session' = scene[c]
    /\ Goto(c, "entering")
    /\ UNCHANGED <<tasks, taken, auth, authScene>>

SaveFails(c) ==
    /\ StoreMayFail
    /\ at[c] = "applying"
    /\ got[c] = "Confirmed"
    /\ Return(c)
    /\ UNCHANGED <<tasks, taken, service>>

Enter(c) ==
    /\ at[c] = "entering"
    /\ auth' = "LoggedIn"
    /\ authScene' = NoScene
    /\ Return(c)
    /\ UNCHANGED <<tasks, taken, session>>

LoginFails(c) ==
    /\ at[c] = "applying"
    /\ got[c] \in {"Expired", "Rejected"}
    /\ auth' = "Failed"
    /\ authScene' = NoScene
    /\ Return(c)
    /\ UNCHANGED <<tasks, taken, session>>

-----------------------------------------------------------------------------
(* Logout, but for the monitor (module MonitorControl).                    *)

Logout(c) ==
    /\ at[c] = "idle"
    /\ Goto(c, "clearing")
    /\ UNCHANGED <<tasks, taken, service>>

ClearSession(c) ==
    /\ at[c] = "clearing"
    /\ session' = NoScene
    /\ Goto(c, "leaving")
    /\ UNCHANGED <<tasks, taken, auth, authScene>>

ClearFails(c) ==
    /\ StoreMayFail
    /\ at[c] = "clearing"
    /\ Return(c)
    /\ UNCHANGED <<tasks, taken, service>>

Leave(c) ==
    /\ at[c] = "leaving"
    /\ auth' = "LoggedOut"
    /\ authScene' = NoScene
    /\ Return(c)
    /\ UNCHANGED <<tasks, taken, session>>

-----------------------------------------------------------------------------

LinkStep(s) ==
    \/ LinkShows(s) \/ LinkScanned(s) \/ LinkConfirms(s)
    \/ LinkFails(s) \/ LinkCloses(s)

WaitStep(c) ==
    \/ ReadScene(c) \/ CheckScene(c)
    \/ WaitTakes(c) \/ WaitFindsNone(c) \/ WaitFindsPending(c)
    \/ WaitSleeps(c) \/ WaitWakes(c)

ApplyStep(c) ==
    \/ SaveSession(c) \/ SaveFails(c) \/ Enter(c) \/ LoginFails(c)

Next ==
    \/ \E s \in Scenes : LinkStep(s)
    \/ \E c \in Callers :
          \/ LoginByQr(c) \/ ShowCode(c) \/ StartFails(c)
          \/ WaitStep(c) \/ WaitTimesOut(c)
          \/ PollLogin(c) \/ ApplyStep(c)
          \/ Logout(c) \/ ClearSession(c) \/ ClearFails(c) \/ Leave(c)

Spec == Init /\ [][Next]_vars

\* A future runs when it can, and timers fire; the server owes nothing.
Fairness ==
    \A c \in Callers :
        /\ WF_vars(WaitStep(c))
        /\ WF_vars(WaitTimesOut(c))
        /\ WF_vars(ApplyStep(c))

FairSpec == Spec /\ Fairness

-----------------------------------------------------------------------------
(* Properties.                                                             *)

TypeOK ==
    /\ store \in [Scenes -> {"absent", "Pending"} \cup Outcomes]
    /\ link \in [Scenes -> {"unused"} \cup Working \cup Outcomes]
    /\ ticketed \in SUBSET Scenes
    /\ at \in [Callers -> Steps]
    /\ scene \in [Callers -> Scenes \cup {NoScene}]
    /\ got \in [Callers -> {"none"} \cup Outcomes]
    /\ taken \in [Scenes -> Nat]
    /\ auth \in AuthStates
    /\ authScene \in Scenes \cup {NoScene}
    /\ session \in Scenes \cup {NoScene}

\* Whoever finds a scene pending has a task at work on it: no way out of the
\* login task forgets to leave an outcome.
PendingIsServed == \A s \in Scenes : (store[s] = "Pending") <=> (link[s] \in Working)

\* An outcome stays in the store until somebody takes it, however many wake-ups
\* are missed and waits time out, and nobody else finds it afterwards.
OutcomeIsKept ==
    \A s \in Scenes :
        link[s] \in Outcomes => store[s] = IF taken[s] = 0 THEN link[s] ELSE "absent"

\* Each scene comes to one outcome, and that is handed out at most once.
Decided == [s \in Scenes |-> IF link[s] \in Outcomes THEN link[s] ELSE "open"]

Contract == INSTANCE LoginContract WITH outcome <- Decided, deliveries <- taken

KeepsOutcomes == Contract!Spec

\* AwaitLogin returns, though the server may never answer and wake-ups be missed.
AwaitsReturn == \A c \in Callers : (at[c] \in Waits) ~> (at[c] = "idle")

-----------------------------------------------------------------------------
(* What the repository says and the code does not do.                      *)

\* "mismatched scene_id must not transition to LoggedIn": whoever logs the
\* application in does so for the scene that it shows.
LoginIsForShownScene ==
    [][\A c \in Callers : at[c] = "entering" /\ at'[c] = "idle" => authScene = scene[c]]_vars
=============================================================================
