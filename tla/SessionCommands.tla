---------------------------- MODULE SessionCommands ----------------------------
(***************************************************************************)
(* The commands of the service that use the stored session (api.rs,        *)
(* impls.rs), and the start of the program (run_startup_actions in         *)
(* rca-app), over the session store of SessionStore.                       *)
(*                                                                         *)
(* A command is split where it awaits: the store, then the server, then    *)
(* the lock on the service's state.  Any command may run between two of    *)
(* these steps, and the process may end there.  The scene of a login is    *)
(* that of QrLogin; here a login is confirmed whenever the user does.      *)
(***************************************************************************)
EXTENDS SessionStore

CONSTANTS LoggedOut, Waiting, Failed    \* the states of AuthState but LoggedIn

ASSUME AuthAssumption == {LoggedOut, Waiting, Failed} \cap Users = {}

VARIABLES
    auth,           \* auth_state: a user when that user is logged in
    at,             \* at[c]: which await of which command c is in
    startup         \* the start-up action to run next, then "over"

appVars == <<auth, at, startup>>
vars == <<storeVars, appVars>>

Places == {"idle", "restoring", "reading", "asking", "renewing", "confirming", "clearing"}

Init ==
    /\ StoreInit
    /\ auth = LoggedOut
    /\ at = [c \in Callers |-> "idle"]
    /\ startup = "restore"

Idle == \A c \in Callers : at[c] = "idle"

\* A command begins; during start-up only the start-up action does.
Begins(c, place) ==
    /\ at[c] = "idle"
    /\ at' = [at EXCEPT ![c] = place]
    /\ overlapped' = (overlapped \/ ~Idle)
    /\ UNCHANGED <<disk, mode, latest, crossed, tried>>

Moves(c, place) == at' = [at EXCEPT ![c] = place]

\* A command returns, and a start-up action makes room for the next: the desktop
\* goes on to refresh the session, the command line does not.
Returns(c) ==
    /\ at' = [at EXCEPT ![c] = "idle"]
    /\ Goto(c, "none", NoSession)
    /\ \/ startup' = "over"
       \/ startup = "restore" /\ startup' = "refresh"
    /\ UNCHANGED <<disk, mode, history>>

\* The store has failed the command: it returns with the error.
StoreErrs(c) ==
    /\ at[c] # "idle"
    /\ op[c] = "failed"
    /\ Returns(c)
    /\ UNCHANGED auth

-----------------------------------------------------------------------------
(* RestoreSession and RefreshSession.                                      *)

RestoreSession(c) ==
    /\ startup = "restore" /\ Idle
    /\ Begins(c, "restoring")
    /\ BeginLoad(c)
    /\ UNCHANGED <<auth, startup>>

Restored(c) ==
    /\ at[c] = "restoring"
    /\ op[c] = "done"
    /\ auth' = IF arg[c] = NoSession THEN LoggedOut ELSE arg[c].user
    /\ Returns(c)

RefreshSession(c) ==
    /\ startup = "over" \/ (startup = "refresh" /\ Idle)
    /\ Begins(c, "reading")
    /\ BeginLoad(c)
    /\ UNCHANGED <<auth, startup>>

\* The token of the session that was loaded is sent to the server.
AskServer(c) ==
    /\ at[c] = "reading"
    /\ op[c] = "done"
    /\ arg[c] # NoSession
    /\ Moves(c, "asking")
    /\ Goto(c, "none", arg[c])
    /\ UNCHANGED <<disk, mode, history, auth, startup>>

\* "session missing for refresh".
NothingToRefresh(c) ==
    /\ at[c] = "reading"
    /\ op[c] = "done"
    /\ arg[c] = NoSession
    /\ Returns(c)
    /\ UNCHANGED auth

\* The server names the user of the token.  The session to save has that user, the
\* token that was sent and, as the answer has none, the CSRF token that was loaded.
Accepted(c) ==
    /\ at[c] = "asking"
    /\ BeginSave(c, [arg[c] EXCEPT !.user = Owner[arg[c].token]])
    /\ Moves(c, "renewing")
    /\ UNCHANGED <<disk, mode, history, auth, startup>>

\* The token has expired, or the server cannot be reached.
Refused(c) ==
    /\ at[c] = "asking"
    /\ Returns(c)
    /\ UNCHANGED auth

Renewed(c) ==
    /\ at[c] = "renewing"
    /\ op[c] = "done"
    /\ auth' = arg[c].user
    /\ Returns(c)

-----------------------------------------------------------------------------
(* Login and logout.                                                       *)

LoginByQr ==
    /\ startup = "over"
    /\ auth' = Waiting
    /\ UNCHANGED <<storeVars, at, startup>>

\* Expired or rejected.
LoginEnds ==
    /\ startup = "over"
    /\ auth' = Failed
    /\ UNCHANGED <<storeVars, at, startup>>

\* Mutant: the user is logged in first and the session saved after.
LoginConfirmed_SetsFirst(c) ==
    /\ startup = "over"
    /\ Begins(c, "confirming")
    /\ \E s \in Sessions : BeginSave(c, Granted(s)) /\ auth' = Owner[s]
    /\ UNCHANGED startup

\* PollLogin or AwaitLogin has come to know of a confirmed login.
LoginConfirmed(c) ==
    /\ startup = "over"
    /\ Begins(c, "confirming")
    /\ \E s \in Sessions : BeginSave(c, Granted(s))
    /\ UNCHANGED <<auth, startup>>

LoggedIn(c) ==
    /\ at[c] = "confirming"
    /\ op[c] = "done"
    /\ auth' = arg[c].user
    /\ Returns(c)

\* The monitor is stopped (MonitorControl) and the session cleared.
Logout(c) ==
    /\ startup = "over"
    /\ Begins(c, "clearing")
    /\ BeginClear(c)
    /\ UNCHANGED <<auth, startup>>

LogsOut(c) ==
    /\ at[c] = "clearing"
    /\ op[c] = "done"
    /\ auth' = LoggedOut
    /\ Returns(c)

\* The process ends, and another is started.
Crash ==
    /\ StoreCrash
    /\ auth' = LoggedOut
    /\ at' = [c \in Callers |-> "idle"]
    /\ startup' = "restore"

-----------------------------------------------------------------------------

CommandStep(c) ==
    \/ RestoreSession(c) \/ Restored(c)
    \/ RefreshSession(c) \/ AskServer(c) \/ NothingToRefresh(c)
    \/ Accepted(c) \/ Refused(c) \/ Renewed(c)
    \/ LoginConfirmed(c) \/ LoggedIn(c)
    \/ Logout(c) \/ LogsOut(c)
    \/ StoreErrs(c)

Next ==
    \/ \E c \in Callers : CommandStep(c) \/ (StoreStep(c) /\ UNCHANGED appVars)
    \/ LoginByQr \/ LoginEnds \/ Crash

Spec == Init /\ [][Next]_vars

-----------------------------------------------------------------------------
(* Properties.                                                             *)

TypeOK ==
    /\ StoreTypeOK
    /\ auth \in Users \cup {LoggedOut, Waiting, Failed}
    /\ at \in [Callers -> Places]
    /\ startup \in {"restore", "refresh", "over"}

\* Between commands, a user that the service shows as logged in has a session in
\* the file, whichever of the earlier writes, reads or requests have failed.  For
\* commands that do not overlap: a logout that does overtakes a login's save.
AuthHasSession ==
    Idle /\ ~overlapped /\ auth \in Users => file # NoSession /\ file.user = auth
=============================================================================
