------------------------- MODULE SessionCommands_proofs -------------------------
(***************************************************************************)
(* Proofs about SessionCommands, for every set of commands, users and      *)
(* sessions, and any keyring.                                              *)
(*                                                                         *)
(* StoreInv says what a session is made of wherever it is: in the file, in *)
(* a command's hands, and, as a token, in the keyring.  AloneInv says      *)
(* where a command is that runs alone, and what file and auth hold then.   *)
(* DiskInv is about the disk: how file and keyring go together while one   *)
(* is written and the other not yet, and that the file is what was saved   *)
(* last.                                                                   *)
(***************************************************************************)
EXTENDS SessionCommands, TLAPS

\* An account holds no token but one of its user.
KeyringOwn == \A u \in Users : keyring[u] # NoSession => Owner[keyring[u]] = u

\* These steps have a session in hand.
InHand ==
    \A c \in Callers :
       /\ op[c] \in {"saveKeyring", "saveFile", "loadKeyring", "backfill", "clearKeyring"}
             => arg[c] # NoSession
       /\ at[c] = "asking" => arg[c] # NoSession /\ op[c] = "none"
       /\ at[c] \in {"renewing", "confirming"}
             => arg[c] # NoSession /\ op[c] \in {"saveKeyring", "saveFile", "done", "failed"}

StoreInv == TypeOK /\ OneUserEach /\ KeyringOwn /\ InHand

-----------------------------------------------------------------------------
(* What the pieces of a step do to StoreInv.                               *)

LEMMA GrantedType ==
    ASSUME NEW s \in Sessions
    PROVE  /\ Granted(s) \in AuthSession
           /\ Granted(s) # NoSession
           /\ OneUser(Granted(s))
<1>1. Owner[s] \in Users
  BY SessionAssumption
<1>2. Granted(s) \in AuthSession
  BY <1>1 DEF Granted, AuthSession
<1>. QED
  BY <1>2, SessionAssumption DEF Granted, OneUser, AuthSession

\* A session with another token of the same user is still of one user.
LEMMA TokenChanged ==
    ASSUME NEW a \in AuthSession, OneUser(a), NEW t \in Sessions, Owner[t] = a.user
    PROVE  /\ [a EXCEPT !.token = t] \in AuthSession
           /\ [a EXCEPT !.token = t] # NoSession
           /\ [a EXCEPT !.token = t].user = a.user
           /\ OneUser([a EXCEPT !.token = t])
<1>1. [a EXCEPT !.token = t] \in AuthSession
  BY DEF AuthSession
<1>2. a # NoSession /\ [a EXCEPT !.token = t] # NoSession
  BY <1>1, SessionAssumption DEF AuthSession
<1>. QED
  BY <1>1, <1>2 DEF AuthSession, OneUser

\* The user that the server names for the token is the one on record.
LEMMA UserConfirmed ==
    ASSUME NEW a \in AuthSession, OneUser(a)
    PROVE  [a EXCEPT !.user = Owner[a.token]] = a
<1>1. a # NoSession
  BY SessionAssumption DEF AuthSession
<1>. QED
  BY <1>1 DEF AuthSession, OneUser

LEMMA KeyringKept ==
    ASSUME StoreInv, NEW u \in Users, NEW t \in Sessions \cup {NoSession},
           t # NoSession => Owner[t] = u, TryKeyring(u, t)
    PROVE  /\ keyring' \in [Users -> Sessions \cup {NoSession}]
           /\ KeyringOwn'
BY DEF StoreInv, TypeOK, StoreTypeOK, KeyringOwn, TryKeyring

LEMMA StoreInvInit ==
    Init => StoreInv
BY DEF Init, StoreInit, StoreInv, TypeOK, StoreTypeOK, OneUserEach, OneUser, KeyringOwn,
       InHand, MaybeSession, Places, Ops

\* A caller is moved to another step and another session, and nothing else of what
\* StoreInv is about changes.
LEMMA HandsKept ==
    ASSUME StoreInv, NEW c \in Callers, NEW step \in Ops, NEW session \in MaybeSession,
           NEW place \in Places,
           OneUser(session),
           step \in {"saveKeyring", "saveFile", "loadKeyring", "backfill", "clearKeyring"}
              => session # NoSession,
           place = "asking" => session # NoSession /\ step = "none",
           place \in {"renewing", "confirming"}
              => session # NoSession /\ step \in {"saveKeyring", "saveFile", "done", "failed"},
           Goto(c, step, session), at' = [at EXCEPT ![c] = place]
    PROVE  /\ op' \in [Callers -> Ops]
           /\ arg' \in [Callers -> MaybeSession]
           /\ at' \in [Callers -> Places]
           /\ \A d \in Callers : OneUser(arg'[d])
           /\ InHand'
<1>1. \A d \in Callers : /\ op'[d] = IF d = c THEN step ELSE op[d]
                         /\ arg'[d] = IF d = c THEN session ELSE arg[d]
                         /\ at'[d] = IF d = c THEN place ELSE at[d]
  BY DEF StoreInv, TypeOK, StoreTypeOK, Goto
<1>2. /\ op' \in [Callers -> Ops]
      /\ arg' \in [Callers -> MaybeSession]
      /\ at' \in [Callers -> Places]
  BY DEF StoreInv, TypeOK, StoreTypeOK, Goto
<1>3. \A d \in Callers : OneUser(arg'[d])
  <2>. TAKE d \in Callers
  <2>1. CASE d = c
    BY <1>1, <2>1
  <2>2. CASE d # c
    BY <1>1, <2>2 DEF StoreInv, OneUserEach
  <2>. QED
    BY <2>1, <2>2
<1>4. InHand'
  BY <1>1 DEF StoreInv, InHand
<1>. QED
  BY <1>2, <1>3, <1>4

-----------------------------------------------------------------------------
(* Every step keeps StoreInv.                                              *)

\* What is left to show once the file, the keyring and the hands are in order.
LEMMA Together ==
    ASSUME file' \in MaybeSession, OneUser(file'),
           keyring' \in [Users -> Sessions \cup {NoSession}], KeyringOwn',
           op' \in [Callers -> Ops], arg' \in [Callers -> MaybeSession],
           at' \in [Callers -> Places], \A d \in Callers : OneUser(arg'[d]), InHand',
           mode' \in Modes, latest' \in MaybeSession,
           overlapped' \in BOOLEAN, crossed' \in BOOLEAN, tried' \subseteq Sessions,
           auth' \in Users \cup {LoggedOut, Waiting, Failed},
           startup' \in {"restore", "refresh", "over"}
    PROVE  StoreInv'
BY DEF StoreInv, TypeOK, StoreTypeOK, OneUserEach, OneUser

\* What StoreInv says of everything but the hands.
LEMMA Parts ==
    ASSUME StoreInv
    PROVE  /\ file \in MaybeSession /\ OneUser(file) /\ latest \in MaybeSession
           /\ keyring \in [Users -> Sessions \cup {NoSession}] /\ KeyringOwn
           /\ mode \in Modes /\ overlapped \in BOOLEAN /\ crossed \in BOOLEAN
           /\ tried \subseteq Sessions
           /\ auth \in Users \cup {LoggedOut, Waiting, Failed}
           /\ startup \in {"restore", "refresh", "over"}
           /\ OneUser(NoSession) /\ NoSession \in MaybeSession
           /\ KeyringOwn /\ (keyring' = keyring => KeyringOwn')
BY DEF StoreInv, TypeOK, StoreTypeOK, OneUserEach, OneUser, MaybeSession, KeyringOwn

LEMMA StoreStepKeeps ==
    ASSUME StoreInv, NEW c \in Callers, StoreStep(c), UNCHANGED appVars
    PROVE  StoreInv'
<1>1. /\ arg[c] \in MaybeSession /\ OneUser(arg[c]) /\ at[c] \in Places
      /\ at' = [at EXCEPT ![c] = at[c]] /\ auth' = auth /\ startup' = startup
  BY DEF StoreInv, TypeOK, StoreTypeOK, OneUserEach, appVars
<1>2. op[c] \in {"saveKeyring", "saveFile", "loadKeyring", "backfill", "clearKeyring"}
         => /\ arg[c] \in AuthSession /\ arg[c] # NoSession
            /\ arg[c].user \in Users /\ arg[c].token \in Sessions
            /\ Owner[arg[c].token] = arg[c].user
  BY <1>1 DEF StoreInv, InHand, MaybeSession, OneUser, AuthSession
<1>3. /\ op[c] \in {"loadKeyring", "backfill", "clearKeyring", "clearFile"}
            => at[c] \notin {"asking", "renewing", "confirming"}
      /\ op[c] \in {"saveKeyring", "saveFile"} => at[c] # "asking"
  BY DEF StoreInv, InHand
<1>4. {"none", "loadKeyring", "backfill", "saveKeyring", "saveFile", "clearKeyring",
       "clearFile", "done", "failed"} \subseteq Ops
  BY DEF Ops
<1>5. CASE SaveToKeyring(c)
  <2>1. /\ op[c] = "saveKeyring" /\ TryKeyring(arg[c].user, arg[c].token)
        /\ Goto(c, "saveFile", arg[c]) /\ Tries(arg[c].token) /\ UNCHANGED <<file, mode>>
    BY <1>5 DEF SaveToKeyring
  <2>2. /\ keyring' \in [Users -> Sessions \cup {NoSession}] /\ KeyringOwn'
    BY <2>1, <1>2, KeyringKept
  <2>3. /\ op' \in [Callers -> Ops] /\ arg' \in [Callers -> MaybeSession]
        /\ at' \in [Callers -> Places] /\ (\A d \in Callers : OneUser(arg'[d])) /\ InHand'
    BY <2>1, <1>1, <1>2, <1>3, <1>4, HandsKept
  <2>4. tried' \subseteq Sessions /\ UNCHANGED <<latest, overlapped, crossed>>
    BY <2>1, <1>2, Parts DEF Tries
  <2>. QED
    BY <2>1, <2>2, <2>3, <2>4, <1>1, Parts, Together
<1>6. CASE SaveToFile(c)
  <2>1. /\ op[c] = "saveFile" /\ Keeps(arg[c]) /\ Goto(c, "done", arg[c])
        /\ UNCHANGED <<keyring, mode, overlapped>>
    BY <1>6 DEF SaveToFile
  <2>2. /\ op' \in [Callers -> Ops] /\ arg' \in [Callers -> MaybeSession]
        /\ at' \in [Callers -> Places] /\ (\A d \in Callers : OneUser(arg'[d])) /\ InHand'
    BY <2>1, <1>1, <1>2, <1>3, <1>4, HandsKept
  <2>3. /\ file' = arg[c] /\ latest' = arg[c] /\ crossed' \in BOOLEAN /\ tried' = {}
    BY <2>1, Parts DEF Keeps
  <2>. QED
    BY <2>1, <2>2, <2>3, <1>1, Parts, Together
<1>7. CASE SaveFails(c) \/ ClearFails(c)
  <2>1. /\ op[c] \in {"saveFile", "clearFile"} /\ Goto(c, "failed", arg[c])
        /\ UNCHANGED <<disk, mode, history>>
    BY <1>7 DEF SaveFails, ClearFails, WriteFails
  <2>2. /\ op' \in [Callers -> Ops] /\ arg' \in [Callers -> MaybeSession]
        /\ at' \in [Callers -> Places] /\ (\A d \in Callers : OneUser(arg'[d])) /\ InHand'
    BY <2>1, <1>1, <1>2, <1>3, <1>4, HandsKept
  <2>. QED
    BY <2>1, <2>2, <1>1, Parts, Together DEF disk, history
<1>8. CASE LoadFromKeyring(c)
  <2>1. /\ op[c] = "loadKeyring" /\ UNCHANGED <<disk, mode, history>>
    BY <1>8 DEF LoadFromKeyring
  <2>2. PICK step \in {"done", "backfill"}, session \in MaybeSession :
           OneUser(session) /\ session # NoSession /\ Goto(c, step, session)
    <3>1. CASE Goto(c, "backfill", arg[c])
      BY <3>1, <2>1, <1>1, <1>2
    <3>2. CASE /\ keyring[arg[c].user] # NoSession
               /\ Goto(c, "done", [arg[c] EXCEPT !.token = keyring[arg[c].user]])
      <4>1. /\ keyring[arg[c].user] \in Sessions
            /\ Owner[keyring[arg[c].user]] = arg[c].user
        BY <3>2, <2>1, <1>2, Parts DEF KeyringOwn
      <4>2. /\ [arg[c] EXCEPT !.token = keyring[arg[c].user]] \in AuthSession
            /\ [arg[c] EXCEPT !.token = keyring[arg[c].user]] # NoSession
            /\ OneUser([arg[c] EXCEPT !.token = keyring[arg[c].user]])
        BY <4>1, <2>1, <1>1, <1>2, TokenChanged
      <4>. QED
        BY <4>2, <3>2 DEF MaybeSession
    <3>. QED
      BY <3>1, <3>2, <1>8 DEF LoadFromKeyring
  <2>3. /\ op' \in [Callers -> Ops] /\ arg' \in [Callers -> MaybeSession]
        /\ at' \in [Callers -> Places] /\ (\A d \in Callers : OneUser(arg'[d])) /\ InHand'
    <3>1. step \in Ops
      BY <1>4
    <3>. QED
      BY <3>1, <2>1, <2>2, <1>1, <1>3, HandsKept
  <2>. QED
    BY <2>1, <2>3, <1>1, Parts, Together DEF disk, history
<1>9. CASE Backfill(c)
  <2>1. /\ op[c] = "backfill" /\ TryKeyring(arg[c].user, arg[c].token)
        /\ Goto(c, "done", arg[c]) /\ UNCHANGED <<file, mode, history>>
    BY <1>9 DEF Backfill
  <2>2. /\ keyring' \in [Users -> Sessions \cup {NoSession}] /\ KeyringOwn'
    BY <2>1, <1>2, KeyringKept
  <2>3. /\ op' \in [Callers -> Ops] /\ arg' \in [Callers -> MaybeSession]
        /\ at' \in [Callers -> Places] /\ (\A d \in Callers : OneUser(arg'[d])) /\ InHand'
    BY <2>1, <1>1, <1>2, <1>3, <1>4, HandsKept
  <2>. QED
    BY <2>1, <2>2, <2>3, <1>1, Parts, Together DEF history
<1>10. CASE ClearKeyring(c)
  <2>1. /\ op[c] = "clearKeyring" /\ TryKeyring(arg[c].user, NoSession)
        /\ Goto(c, "clearFile", NoSession) /\ UNCHANGED <<file, mode, history>>
    BY <1>10 DEF ClearKeyring
  <2>2. /\ keyring' \in [Users -> Sessions \cup {NoSession}] /\ KeyringOwn'
    BY <2>1, <1>2, KeyringKept
  <2>3. /\ op' \in [Callers -> Ops] /\ arg' \in [Callers -> MaybeSession]
        /\ at' \in [Callers -> Places] /\ (\A d \in Callers : OneUser(arg'[d])) /\ InHand'
    BY <2>1, <1>1, <1>3, <1>4, Parts, HandsKept
  <2>. QED
    BY <2>1, <2>2, <2>3, <1>1, Parts, Together DEF history
<1>11. CASE ClearFile(c)
  <2>1. /\ op[c] = "clearFile" /\ Keeps(NoSession) /\ Goto(c, "done", NoSession)
        /\ UNCHANGED <<keyring, mode, overlapped>>
    BY <1>11 DEF ClearFile
  <2>2. /\ op' \in [Callers -> Ops] /\ arg' \in [Callers -> MaybeSession]
        /\ at' \in [Callers -> Places] /\ (\A d \in Callers : OneUser(arg'[d])) /\ InHand'
    BY <2>1, <1>1, <1>3, <1>4, Parts, HandsKept
  <2>3. /\ file' = NoSession /\ latest' = NoSession /\ crossed' \in BOOLEAN /\ tried' = {}
    BY <2>1, Parts DEF Keeps
  <2>. QED
    BY <2>1, <2>2, <2>3, <1>1, Parts, Together
<1>. QED
  BY <1>5, <1>6, <1>7, <1>8, <1>9, <1>10, <1>11 DEF StoreStep

LEMMA LoadBegins ==
    ASSUME StoreInv, NEW c \in Callers, BeginLoad(c)
    PROVE  \E step \in Ops, session \in MaybeSession :
              /\ OneUser(session) /\ Goto(c, step, session)
              /\ step \in {"done", "loadKeyring", "failed"}
              /\ step = "loadKeyring" => session # NoSession
<1>1. {"done", "loadKeyring", "failed"} \subseteq Ops
  BY DEF Ops
<1>. QED
  BY <1>1, Parts DEF BeginLoad

LEMMA ClearBegins ==
    ASSUME StoreInv, NEW c \in Callers, BeginClear(c)
    PROVE  \E step \in Ops, session \in MaybeSession :
              /\ OneUser(session) /\ Goto(c, step, session)
              /\ step \in {"clearFile", "clearKeyring", "failed"}
              /\ step = "clearKeyring" => session # NoSession
<1>1. {"clearFile", "clearKeyring", "failed"} \subseteq Ops
  BY DEF Ops
<1>. QED
  BY <1>1, Parts DEF BeginClear

\* A command that returns leaves nothing in its hands.
LEMMA ReturnKeeps ==
    ASSUME StoreInv, NEW c \in Callers, Returns(c),
           auth' \in Users \cup {LoggedOut, Waiting, Failed}
    PROVE  StoreInv'
<1>1. /\ at' = [at EXCEPT ![c] = "idle"] /\ Goto(c, "none", NoSession)
      /\ startup' \in {"restore", "refresh", "over"}
      /\ UNCHANGED <<disk, mode, history>>
  BY DEF Returns
<1>2. "idle" \in Places /\ "none" \in Ops
  BY DEF Places, Ops
<1>3. /\ op' \in [Callers -> Ops] /\ arg' \in [Callers -> MaybeSession]
      /\ at' \in [Callers -> Places] /\ (\A d \in Callers : OneUser(arg'[d])) /\ InHand'
  BY <1>1, <1>2, Parts, HandsKept
<1>. QED
  BY <1>1, <1>3, Parts, Together DEF disk, history

LEMMA CommandStepKeeps ==
    ASSUME StoreInv, NEW c \in Callers, CommandStep(c)
    PROVE  StoreInv'
<1>1. /\ arg[c] \in MaybeSession /\ OneUser(arg[c])
      /\ arg[c] # NoSession => arg[c] \in AuthSession /\ arg[c].user \in Users
  BY DEF StoreInv, TypeOK, StoreTypeOK, OneUserEach, MaybeSession, AuthSession
<1>2. /\ {"restoring", "reading", "asking", "renewing", "confirming", "clearing"}
            \subseteq Places
      /\ {"none", "saveKeyring"} \subseteq Ops
  BY DEF Places, Ops
<1>3. ASSUME NEW place \in Places, Begins(c, place)
      PROVE  /\ at' = [at EXCEPT ![c] = place] /\ overlapped' \in BOOLEAN
             /\ UNCHANGED <<disk, mode, latest, crossed, tried>>
  BY <1>3 DEF Begins
<1>4. CASE RestoreSession(c) \/ RefreshSession(c) \/ Logout(c)
  <2>1. PICK place \in {"restoring", "reading", "clearing"} :
           Begins(c, place) /\ UNCHANGED <<auth, startup>>
    BY <1>4 DEF RestoreSession, RefreshSession, Logout
  <2>2. PICK step \in Ops, session \in MaybeSession :
           /\ OneUser(session) /\ Goto(c, step, session)
           /\ step \notin {"saveKeyring", "saveFile", "backfill"}
           /\ step \in {"loadKeyring", "clearKeyring"} => session # NoSession
    BY <1>4, LoadBegins, ClearBegins DEF RestoreSession, RefreshSession, Logout
  <2>3. /\ op' \in [Callers -> Ops] /\ arg' \in [Callers -> MaybeSession]
        /\ at' \in [Callers -> Places] /\ (\A d \in Callers : OneUser(arg'[d])) /\ InHand'
    BY <2>1, <2>2, <1>2, <1>3, HandsKept
  <2>. QED
    BY <2>1, <2>3, <1>2, <1>3, Parts, Together DEF disk
<1>5. CASE LoginConfirmed(c)
  <2>1. PICK s \in Sessions : BeginSave(c, Granted(s))
    BY <1>5 DEF LoginConfirmed
  <2>2. Begins(c, "confirming") /\ UNCHANGED <<auth, startup>>
    BY <1>5 DEF LoginConfirmed
  <2>3. /\ op' \in [Callers -> Ops] /\ arg' \in [Callers -> MaybeSession]
        /\ at' \in [Callers -> Places] /\ (\A d \in Callers : OneUser(arg'[d])) /\ InHand'
    <3>1. /\ Granted(s) \in MaybeSession /\ Granted(s) # NoSession /\ OneUser(Granted(s))
          /\ Goto(c, "saveKeyring", Granted(s))
      BY <2>1, GrantedType DEF MaybeSession, BeginSave
    <3>. QED
      BY <3>1, <2>2, <1>2, <1>3, HandsKept
  <2>. QED
    BY <2>2, <2>3, <1>2, <1>3, Parts, Together DEF disk
<1>6. CASE AskServer(c)
  <2>1. /\ at' = [at EXCEPT ![c] = "asking"] /\ Goto(c, "none", arg[c]) /\ arg[c] # NoSession
        /\ UNCHANGED <<disk, mode, history, auth, startup>>
    BY <1>6 DEF AskServer, Moves
  <2>2. /\ op' \in [Callers -> Ops] /\ arg' \in [Callers -> MaybeSession]
        /\ at' \in [Callers -> Places] /\ (\A d \in Callers : OneUser(arg'[d])) /\ InHand'
    BY <2>1, <1>1, <1>2, HandsKept
  <2>. QED
    BY <2>1, <2>2, Parts, Together DEF disk, history
<1>7. CASE Accepted(c)
  <2>1. /\ at[c] = "asking" /\ at' = [at EXCEPT ![c] = "renewing"]
        /\ Goto(c, "saveKeyring", [arg[c] EXCEPT !.user = Owner[arg[c].token]])
        /\ UNCHANGED <<disk, mode, history, auth, startup>>
    BY <1>7 DEF Accepted, Moves, BeginSave
  <2>2. arg[c] \in AuthSession /\ arg[c] # NoSession
    BY <2>1, <1>1 DEF StoreInv, InHand
  <2>3. Goto(c, "saveKeyring", arg[c])
    BY <2>1, <2>2, <1>1, UserConfirmed
  <2>4. /\ op' \in [Callers -> Ops] /\ arg' \in [Callers -> MaybeSession]
        /\ at' \in [Callers -> Places] /\ (\A d \in Callers : OneUser(arg'[d])) /\ InHand'
    BY <2>1, <2>2, <2>3, <1>1, <1>2, HandsKept
  <2>. QED
    BY <2>1, <2>4, Parts, Together DEF disk, history
<1>8. CASE Restored(c)
  <2>1. auth' \in Users \cup {LoggedOut, Waiting, Failed}
    BY <1>8, <1>1 DEF Restored
  <2>. QED
    BY <1>8, <2>1, ReturnKeeps DEF Restored
<1>9. CASE Renewed(c) \/ LoggedIn(c)
  <2>1. at[c] \in {"renewing", "confirming"} /\ auth' = arg[c].user
    BY <1>9 DEF Renewed, LoggedIn
  <2>2. auth' \in Users
    BY <2>1, <1>1 DEF StoreInv, InHand
  <2>. QED
    BY <1>9, <2>2, ReturnKeeps DEF Renewed, LoggedIn
<1>10. CASE LogsOut(c) \/ NothingToRefresh(c) \/ Refused(c) \/ StoreErrs(c)
  BY <1>10, Parts, ReturnKeeps DEF LogsOut, NothingToRefresh, Refused, StoreErrs
<1>. QED
  BY <1>4, <1>5, <1>6, <1>7, <1>8, <1>9, <1>10 DEF CommandStep

LEMMA CrashKeeps ==
    ASSUME StoreInv, Crash
    PROVE  StoreInv'
<1>1. /\ op' = [c \in Callers |-> "none"] /\ arg' = [c \in Callers |-> NoSession]
      /\ at' = [c \in Callers |-> "idle"] /\ overlapped' = FALSE /\ crossed' = crossed /\ tried' = tried
      /\ auth' = LoggedOut /\ startup' = "restore" /\ UNCHANGED <<disk, mode, latest>>
  BY DEF Crash, StoreCrash
<1>2. "idle" \in Places /\ "none" \in Ops
  BY DEF Places, Ops
<1>3. /\ op' \in [Callers -> Ops] /\ arg' \in [Callers -> MaybeSession]
      /\ at' \in [Callers -> Places] /\ (\A d \in Callers : OneUser(arg'[d])) /\ InHand'
  BY <1>1, <1>2, Parts DEF InHand
<1>. QED
  BY <1>1, <1>3, Parts, Together DEF disk

LEMMA StoreInvStep ==
    StoreInv /\ [Next]_vars => StoreInv'
<1>. SUFFICES ASSUME StoreInv, [Next]_vars
              PROVE  StoreInv'
  OBVIOUS
<1>1. CASE UNCHANGED vars
  BY <1>1 DEF vars, storeVars, appVars, disk, calls, history, StoreInv, TypeOK, StoreTypeOK,
       OneUserEach, OneUser, KeyringOwn, InHand
<1>2. CASE LoginByQr \/ LoginEnds
  <2>1. /\ UNCHANGED <<storeVars, at, startup>>
        /\ auth' \in Users \cup {LoggedOut, Waiting, Failed}
    BY <1>2 DEF LoginByQr, LoginEnds
  <2>. QED
    BY <2>1 DEF storeVars, disk, calls, history, StoreInv, TypeOK, StoreTypeOK,
         OneUserEach, OneUser, KeyringOwn, InHand
<1>. QED
  BY <1>1, <1>2, StoreStepKeeps, CommandStepKeeps, CrashKeeps DEF Next

\* StoreInv holds in every state: the variables have their types, and a session is
\* of one user wherever it is.
THEOREM SessionsAreSafe ==
    Spec => []StoreInv
BY StoreInvInit, StoreInvStep, PTL DEF Spec

\* The variables of the session store and of its commands keep their types.
THEOREM SessionTypesHold ==
    Spec => []TypeOK
<1>1. StoreInv => TypeOK
  BY DEF StoreInv
<1>. QED
  BY <1>1, SessionsAreSafe, PTL

\* No command of the service ever holds or stores a session that mixes two users,
\* neither by joining the file's record with the keyring's token (bridge.rs) nor by
\* refreshing (api.rs), whatever overlaps, fails or is cut short.
THEOREM SessionsNeverMix ==
    Spec => []OneUserEach
<1>1. StoreInv => OneUserEach
  BY DEF StoreInv
<1>. QED
  BY <1>1, SessionsAreSafe, PTL

-----------------------------------------------------------------------------
(* Commands that do not overlap.                                           *)

Stored(u) == file # NoSession /\ file.user = u

\* Where a command is in the operation that it has called.
Calling ==
    \A c \in Callers :
       /\ at[c] = "idle" => op[c] = "none"
       /\ at[c] \in {"restoring", "reading"} => op[c] \in {"loadKeyring", "backfill", "done", "failed"}
       /\ at[c] = "clearing" => op[c] \in {"clearKeyring", "clearFile", "done", "failed"}

\* The store has just been written, and auth is about to be set.
Behind(c) == at[c] \in {"confirming", "clearing"} /\ op[c] = "done"

AloneInv ==
    ~overlapped =>
       /\ \A c, d \in Callers : at[c] # "idle" /\ at[d] # "idle" => c = d
       /\ \A c \in Callers :
             /\ at[c] \in {"restoring", "reading", "asking", "renewing"}
                   => arg[c] = NoSession \/ Stored(arg[c].user)
             /\ at[c] = "confirming" /\ op[c] = "done" => Stored(arg[c].user)
       /\ (\A c \in Callers : ~Behind(c)) /\ auth \in Users => Stored(auth)

AuthInv == StoreInv /\ Calling /\ AloneInv

LEMMA AuthInvInit ==
    Init => AuthInv
<1>1. Init => StoreInv
  BY StoreInvInit
<1>2. Init => Calling /\ AloneInv
  BY AuthAssumption DEF Init, StoreInit, Calling, AloneInv, Behind
<1>. QED
  BY <1>1, <1>2 DEF AuthInv

\* A step of c, which runs alone, leaves AloneInv true if c's new place, and what
\* is in the file and in auth, go together.
LEMMA AloneKept ==
    ASSUME StoreInv, NEW c \in Callers, \A d \in Callers : d # c => at[d] = "idle",
           NEW step, NEW session, NEW place,
           Goto(c, step, session), at' = [at EXCEPT ![c] = place],
           place \in {"restoring", "reading", "asking", "renewing"}
              => session = NoSession \/ (file' # NoSession /\ file'.user = session.user),
           place = "confirming" /\ step = "done"
              => file' # NoSession /\ file'.user = session.user,
           ~(place \in {"confirming", "clearing"} /\ step = "done") /\ auth' \in Users
              => file' # NoSession /\ file'.user = auth'
    PROVE  AloneInv'
<1>1. \A d \in Callers : /\ op'[d] = IF d = c THEN step ELSE op[d]
                         /\ arg'[d] = IF d = c THEN session ELSE arg[d]
                         /\ at'[d] = IF d = c THEN place ELSE at[d]
  BY DEF StoreInv, TypeOK, StoreTypeOK, Goto
<1>. QED
  BY <1>1 DEF AloneInv, Behind, Stored

LEMMA CallingKept ==
    ASSUME StoreInv, Calling, NEW c \in Callers, NEW step, NEW session, NEW place,
           Goto(c, step, session), at' = [at EXCEPT ![c] = place],
           place = "idle" => step = "none",
           place \in {"restoring", "reading"} => step \in {"loadKeyring", "backfill", "done", "failed"},
           place = "clearing" => step \in {"clearKeyring", "clearFile", "done", "failed"}
    PROVE  Calling'
<1>1. \A d \in Callers : /\ op'[d] = IF d = c THEN step ELSE op[d]
                         /\ at'[d] = IF d = c THEN place ELSE at[d]
  BY DEF StoreInv, TypeOK, StoreTypeOK, Goto
<1>. QED
  BY <1>1 DEF Calling

\* What a command knows that has begun and runs alone.
LEMMA AloneFacts ==
    ASSUME AuthInv, NEW c \in Callers, ~overlapped, at[c] # "idle"
    PROVE  /\ \A d \in Callers : d # c => at[d] = "idle"
           /\ at[c] \in {"restoring", "reading", "asking", "renewing"}
                 => arg[c] = NoSession \/ Stored(arg[c].user)
           /\ at[c] = "confirming" /\ op[c] = "done" => Stored(arg[c].user)
           /\ ~Behind(c) /\ auth \in Users => Stored(auth)
BY DEF AuthInv, AloneInv, Behind

LEMMA StoreStepAlone ==
    ASSUME AuthInv, NEW c \in Callers, StoreStep(c), UNCHANGED appVars
    PROVE  Calling' /\ AloneInv'
<1>1. /\ at' = [at EXCEPT ![c] = at[c]] /\ auth' = auth /\ overlapped' = overlapped
      /\ StoreInv /\ Calling
  BY DEF AuthInv, StoreInv, TypeOK, StoreTypeOK, appVars, StoreStep, SaveToKeyring, Tries, SaveToFile,
         SaveFails, ClearFails, WriteFails, LoadFromKeyring, Backfill, ClearKeyring, ClearFile,
         history
<1>2. op[c] # "none" /\ at[c] # "idle"
  BY DEF AuthInv, Calling, StoreStep, SaveToKeyring, SaveToFile, SaveFails, ClearFails,
         LoadFromKeyring, Backfill, ClearKeyring, ClearFile
<1>3. at[c] \in Places
  BY <1>1 DEF StoreInv, TypeOK
<1>4. /\ op[c] \in {"saveKeyring", "saveFile"} => at[c] \in {"renewing", "confirming"}
      /\ op[c] \in {"loadKeyring", "backfill"} => at[c] \in {"restoring", "reading"}
      /\ op[c] \in {"clearKeyring", "clearFile"} => at[c] = "clearing"
  BY <1>1, <1>2, <1>3 DEF StoreInv, InHand, Calling, Places
<1>5. op[c] \in {"saveKeyring", "saveFile", "loadKeyring", "backfill"}
         => arg[c] # NoSession /\ arg[c] \in AuthSession
  BY <1>1 DEF StoreInv, InHand, TypeOK, StoreTypeOK, MaybeSession
<1>6. SUFFICES Calling' /\ (~overlapped => AloneInv')
  BY <1>1 DEF AloneInv
<1>7. CASE SaveToKeyring(c)
  <2>1. /\ op[c] = "saveKeyring" /\ Goto(c, "saveFile", arg[c]) /\ file' = file
    BY <1>7 DEF SaveToKeyring
  <2>2. Calling'
    BY <2>1, <1>1, <1>4, CallingKept
  <2>3. ASSUME ~overlapped
        PROVE  AloneInv'
    BY <2>1, <2>3, <1>1, <1>2, <1>4, AloneFacts, AloneKept DEF Stored, Behind
  <2>. QED
    BY <2>2, <2>3
<1>8. CASE SaveToFile(c)
  <2>1. /\ op[c] = "saveFile" /\ Goto(c, "done", arg[c]) /\ file' = arg[c]
    BY <1>8 DEF SaveToFile, Keeps
  <2>2. Calling'
    BY <2>1, <1>1, <1>4, CallingKept
  <2>3. ASSUME ~overlapped
        PROVE  AloneInv'
    BY <2>1, <2>3, <1>1, <1>2, <1>4, <1>5, AloneFacts, AloneKept DEF Stored, Behind
  <2>. QED
    BY <2>2, <2>3
<1>9. CASE SaveFails(c) \/ ClearFails(c)
  <2>1. /\ op[c] \in {"saveFile", "clearFile"} /\ Goto(c, "failed", arg[c]) /\ file' = file
    BY <1>9 DEF SaveFails, ClearFails, WriteFails, disk
  <2>2. Calling'
    BY <2>1, <1>1, <1>4, CallingKept
  <2>3. ASSUME ~overlapped
        PROVE  AloneInv'
    BY <2>1, <2>3, <1>1, <1>2, <1>4, AloneFacts, AloneKept DEF Stored, Behind
  <2>. QED
    BY <2>2, <2>3
<1>10. CASE LoadFromKeyring(c)
  <2>1. /\ op[c] = "loadKeyring" /\ file' = file
    BY <1>10 DEF LoadFromKeyring, disk
  <2>2. PICK step \in {"done", "backfill"}, session \in {arg[c], [arg[c] EXCEPT !.token = keyring[arg[c].user]]} :
           Goto(c, step, session)
    BY <1>10 DEF LoadFromKeyring
  <2>3. session.user = arg[c].user
    BY <2>1, <1>5 DEF AuthSession
  <2>4. Calling'
    BY <2>1, <2>2, <1>1, <1>4, CallingKept
  <2>5. ASSUME ~overlapped
        PROVE  AloneInv'
    BY <2>1, <2>2, <2>3, <2>5, <1>1, <1>2, <1>4, <1>5, AloneFacts, AloneKept DEF Stored, Behind
  <2>. QED
    BY <2>4, <2>5
<1>11. CASE Backfill(c)
  <2>1. /\ op[c] = "backfill" /\ Goto(c, "done", arg[c]) /\ file' = file
    BY <1>11 DEF Backfill
  <2>2. Calling'
    BY <2>1, <1>1, <1>4, CallingKept
  <2>3. ASSUME ~overlapped
        PROVE  AloneInv'
    BY <2>1, <2>3, <1>1, <1>2, <1>4, AloneFacts, AloneKept DEF Stored, Behind
  <2>. QED
    BY <2>2, <2>3
<1>12. CASE ClearKeyring(c)
  <2>1. /\ op[c] = "clearKeyring" /\ Goto(c, "clearFile", NoSession) /\ file' = file
    BY <1>12 DEF ClearKeyring
  <2>2. Calling'
    BY <2>1, <1>1, <1>4, CallingKept
  <2>3. ASSUME ~overlapped
        PROVE  AloneInv'
    BY <2>1, <2>3, <1>1, <1>2, <1>4, AloneFacts, AloneKept DEF Stored, Behind
  <2>. QED
    BY <2>2, <2>3
<1>13. CASE ClearFile(c)
  <2>1. /\ op[c] = "clearFile" /\ Goto(c, "done", NoSession)
    BY <1>13 DEF ClearFile
  <2>2. Calling'
    BY <2>1, <1>1, <1>4, CallingKept
  <2>3. ASSUME ~overlapped
        PROVE  AloneInv'
    BY <2>1, <2>3, <1>1, <1>2, <1>4, AloneFacts, AloneKept DEF Stored, Behind
  <2>. QED
    BY <2>2, <2>3
<1>. QED
  BY <1>7, <1>8, <1>9, <1>10, <1>11, <1>12, <1>13 DEF StoreStep

\* A command that returns leaves nobody behind, and auth as the file has it.
LEMMA ReturnAlone ==
    ASSUME AuthInv, NEW c \in Callers, Returns(c), at[c] # "idle",
           ~overlapped /\ auth' \in Users => Stored(auth')
    PROVE  Calling' /\ AloneInv'
<1>1. /\ at' = [at EXCEPT ![c] = "idle"] /\ Goto(c, "none", NoSession)
      /\ file' = file /\ overlapped' = overlapped /\ StoreInv /\ Calling
  BY DEF Returns, disk, history, AuthInv
<1>2. Calling'
  BY <1>1, CallingKept
<1>3. ASSUME ~overlapped
      PROVE  AloneInv'
  BY <1>1, <1>3, AloneFacts, AloneKept DEF Stored
<1>. QED
  BY <1>1, <1>2, <1>3 DEF AloneInv

LEMMA CommandStepAlone ==
    ASSUME AuthInv, NEW c \in Callers, CommandStep(c)
    PROVE  Calling' /\ AloneInv'
<1>1. /\ StoreInv /\ Calling /\ AloneInv
      /\ arg[c] # NoSession => arg[c] \in AuthSession
  BY DEF AuthInv, StoreInv, TypeOK, StoreTypeOK, MaybeSession
<1>2. ASSUME NEW place, Begins(c, place), auth' = auth, ~overlapped'
      PROVE  /\ ~overlapped /\ (\A d \in Callers : d # c => at[d] = "idle")
             /\ at' = [at EXCEPT ![c] = place] /\ file' = file
             /\ auth' \in Users => Stored(auth')
  <2>1. ~overlapped /\ Idle /\ at' = [at EXCEPT ![c] = place] /\ file' = file
    BY <1>2, <1>1 DEF Begins, disk, StoreInv, TypeOK, StoreTypeOK
  <2>. QED
    BY <2>1, <1>1, <1>2 DEF Idle, AloneInv, Behind
<1>3. CASE RestoreSession(c) \/ RefreshSession(c)
  <2>1. PICK place \in {"restoring", "reading"} : Begins(c, place)
    BY <1>3 DEF RestoreSession, RefreshSession
  <2>2. PICK step \in {"done", "loadKeyring", "failed"}, session \in {file, NoSession} :
           Goto(c, step, session)
    BY <1>3 DEF RestoreSession, RefreshSession, BeginLoad
  <2>3. auth' = auth /\ at' = [at EXCEPT ![c] = place]
    BY <1>3, <2>1 DEF RestoreSession, RefreshSession, Begins
  <2>4. Calling'
    BY <2>2, <2>3, <1>1, CallingKept
  <2>5. ASSUME ~overlapped'
        PROVE  AloneInv'
    BY <2>1, <2>2, <2>3, <2>5, <1>1, <1>2, AloneKept DEF Stored
  <2>. QED
    BY <2>4, <2>5 DEF AloneInv
<1>4. CASE Logout(c)
  <2>1. PICK step \in {"clearFile", "clearKeyring", "failed"}, session \in {file, NoSession} :
           Goto(c, step, session)
    BY <1>4 DEF Logout, BeginClear
  <2>2. Begins(c, "clearing") /\ auth' = auth /\ at' = [at EXCEPT ![c] = "clearing"]
    BY <1>4 DEF Logout, Begins
  <2>3. Calling'
    BY <2>1, <2>2, <1>1, CallingKept
  <2>4. ASSUME ~overlapped'
        PROVE  AloneInv'
    BY <2>1, <2>2, <2>4, <1>1, <1>2, AloneKept DEF Stored
  <2>. QED
    BY <2>3, <2>4 DEF AloneInv
<1>5. CASE LoginConfirmed(c)
  <2>1. PICK s \in Sessions : Goto(c, "saveKeyring", Granted(s))
    BY <1>5 DEF LoginConfirmed, BeginSave
  <2>2. Begins(c, "confirming") /\ auth' = auth /\ at' = [at EXCEPT ![c] = "confirming"]
    BY <1>5 DEF LoginConfirmed, Begins
  <2>3. Calling'
    BY <2>1, <2>2, <1>1, CallingKept
  <2>4. ASSUME ~overlapped'
        PROVE  AloneInv'
    BY <2>1, <2>2, <2>4, <1>1, <1>2, AloneKept DEF Stored
  <2>. QED
    BY <2>3, <2>4 DEF AloneInv
<1>6. CASE AskServer(c) \/ Accepted(c)
  <2>1. /\ at[c] \in {"reading", "asking"} /\ arg[c] # NoSession
        /\ file' = file /\ auth' = auth /\ overlapped' = overlapped
    BY <1>6, <1>1 DEF AskServer, Accepted, disk, history, StoreInv, InHand
  <2>2. PICK step \in {"none", "saveKeyring"}, place \in {"asking", "renewing"} :
           Goto(c, step, arg[c]) /\ at' = [at EXCEPT ![c] = place]
    <3>1. CASE AskServer(c)
      BY <3>1 DEF AskServer, Moves
    <3>2. CASE Accepted(c)
      <4>1. OneUser(arg[c])
        BY <1>1 DEF StoreInv, OneUserEach
      <4>. QED
        BY <3>2, <4>1, <2>1, <1>1, UserConfirmed DEF Accepted, BeginSave, Moves
    <3>. QED
      BY <3>1, <3>2, <1>6
  <2>3. Calling'
    BY <2>2, <1>1, CallingKept
  <2>4. ASSUME ~overlapped
        PROVE  AloneInv'
    BY <2>1, <2>2, <2>4, <1>1, AloneFacts, AloneKept DEF Stored, Behind
  <2>. QED
    BY <2>1, <2>3, <2>4 DEF AloneInv
<1>7. CASE Restored(c) \/ Renewed(c) \/ LoggedIn(c)
  <2>1. /\ at[c] \in {"restoring", "renewing", "confirming"} /\ op[c] = "done" /\ Returns(c)
        /\ \/ arg[c] = NoSession /\ auth' = LoggedOut
           \/ arg[c] # NoSession /\ auth' = arg[c].user
    BY <1>7, <1>1 DEF Restored, Renewed, LoggedIn, StoreInv, InHand
  <2>2. ~overlapped /\ auth' \in Users => Stored(auth')
    BY <2>1, AloneFacts, AuthAssumption DEF Stored
  <2>. QED
    BY <2>1, <2>2, ReturnAlone
<1>8. CASE LogsOut(c)
  BY <1>8, ReturnAlone, AuthAssumption DEF LogsOut
<1>9. CASE NothingToRefresh(c) \/ Refused(c) \/ StoreErrs(c)
  <2>1. at[c] # "idle" /\ ~Behind(c) /\ auth' = auth /\ Returns(c)
    BY <1>9 DEF NothingToRefresh, Refused, StoreErrs, Behind
  <2>2. ~overlapped /\ auth' \in Users => Stored(auth')
    BY <2>1, AloneFacts DEF Stored
  <2>. QED
    BY <2>1, <2>2, ReturnAlone
<1>. QED
  BY <1>3, <1>4, <1>5, <1>6, <1>7, <1>8, <1>9 DEF CommandStep

LEMMA CrashAlone ==
    ASSUME Crash
    PROVE  Calling' /\ AloneInv'
<1>1. /\ op' = [c \in Callers |-> "none"] /\ at' = [c \in Callers |-> "idle"]
      /\ auth' = LoggedOut
  BY DEF Crash, StoreCrash
<1>. QED
  BY <1>1, AuthAssumption DEF Calling, AloneInv, Behind

LEMMA AuthInvStep ==
    AuthInv /\ [Next]_vars => AuthInv'
<1>. SUFFICES ASSUME AuthInv, [Next]_vars
              PROVE  AuthInv'
  OBVIOUS
<1>1. StoreInv'
  BY StoreInvStep DEF AuthInv
<1>2. CASE UNCHANGED vars
  BY <1>1, <1>2 DEF vars, storeVars, appVars, disk, calls, history, AuthInv, Calling, AloneInv,
       Behind, Stored
<1>3. CASE LoginByQr \/ LoginEnds
  <2>1. auth' \notin Users /\ UNCHANGED <<storeVars, at>>
    BY <1>3, AuthAssumption DEF LoginByQr, LoginEnds
  <2>. QED
    BY <2>1, <1>1 DEF storeVars, disk, calls, history, AuthInv, Calling, AloneInv, Behind, Stored
<1>. QED
  BY <1>1, <1>2, <1>3, StoreStepAlone, CommandStepAlone, CrashAlone DEF Next, AuthInv

\* Between commands, a user that the service shows as logged in has a session in
\* the file: no failure of the file, the keyring or the server, at start-up, in a
\* refresh, a login or a logout, and no crash, leaves one without the other, as
\* long as commands do not overlap.
THEOREM LoggedInHasSession ==
    Spec => []AuthHasSession
<1>1. AuthInv => AuthHasSession
  BY DEF AuthInv, AloneInv, AuthHasSession, Idle, Behind, Stored
<1>2. Spec => []AuthInv
  BY AuthInvInit, AuthInvStep, PTL DEF Spec
<1>. QED
  BY <1>1, <1>2, PTL

-----------------------------------------------------------------------------
(* What a load returns.                                                    *)

\* What the file holds is what was last saved.
Remembered == file = latest

\* A keyring that never works holds nothing.
NeverUsed == mode = "broken" => \A u \in Users : keyring[u] = NoSession

\* A save that runs alone has put its token into a keyring that works before it
\* turns to the file.
Halfway ==
    ~overlapped /\ mode = "works" =>
       \A c \in Callers : op[c] = "saveFile" => keyring[arg[c].user] = arg[c].token

\* The account of the user in the file holds the file's token, nothing, or a token
\* whose save has not reached the file.
Agrees ==
    ~crossed /\ mode # "flaky" /\ file # NoSession =>
       keyring[file.user] \in {NoSession, file.token} \cup tried

\* A load has the file's record in hand.
Current ==
    ~crossed => \A c \in Callers : op[c] \in {"loadKeyring", "backfill"} => arg[c] = file

DiskInv == Remembered /\ NeverUsed /\ Halfway /\ Agrees /\ Current

LEMMA DiskInvInit ==
    Init => DiskInv
BY DEF Init, StoreInit, DiskInv, Remembered, NeverUsed, Halfway, Agrees, Current

LEMMA HandsMoved ==
    ASSUME StoreInv, NEW c \in Callers, NEW step, NEW session, Goto(c, step, session)
    PROVE  \A d \in Callers : /\ op'[d] = IF d = c THEN step ELSE op[d]
                              /\ arg'[d] = IF d = c THEN session ELSE arg[d]
BY DEF StoreInv, TypeOK, StoreTypeOK, Goto

\* As long as commands do not overlap, one that has begun finds the others idle.
LEMMA OthersIdle ==
    ASSUME AuthInv, NEW c \in Callers, ~overlapped, at[c] # "idle"
    PROVE  \A d \in Callers : d # c => op[d] = "none"
BY AloneFacts DEF AuthInv, Calling

LEMMA StepperBegan ==
    ASSUME AuthInv, NEW c \in Callers, op[c] # "none"
    PROVE  at[c] # "idle"
BY DEF AuthInv, Calling

\* A step that touches neither place, and ends no write.
LEMMA DiskKept ==
    ASSUME StoreInv, DiskInv, NEW c \in Callers, NEW step, NEW session,
           Goto(c, step, session), UNCHANGED <<disk, mode, latest, crossed, tried>>,
           overlapped => overlapped',
           overlapped \in BOOLEAN, overlapped' \in BOOLEAN,
           step # "saveFile",
           step \in {"loadKeyring", "backfill"}
              => session = file \/ (op[c] = "loadKeyring" /\ session = arg[c])
    PROVE  DiskInv'
<1>1. \A d \in Callers : /\ op'[d] = IF d = c THEN step ELSE op[d]
                         /\ arg'[d] = IF d = c THEN session ELSE arg[d]
  BY HandsMoved
<1>2. Remembered' /\ NeverUsed'
  BY DEF DiskInv, Remembered, NeverUsed, disk
<1>3. Halfway'
  BY <1>1 DEF DiskInv, Halfway, disk
<1>4. Agrees' /\ Current'
  BY <1>1 DEF DiskInv, Agrees, Current, disk
<1>. QED
  BY <1>2, <1>3, <1>4 DEF DiskInv

LEMMA StoreStepDisk ==
    ASSUME AuthInv, DiskInv, NEW c \in Callers, StoreStep(c)
    PROVE  DiskInv'
<1>1. StoreInv /\ overlapped \in BOOLEAN
  BY DEF AuthInv, StoreInv, TypeOK, StoreTypeOK
<1>2. op[c] # "none" /\ at[c] # "idle"
  BY StepperBegan DEF StoreStep, SaveToKeyring, SaveToFile, SaveFails, ClearFails,
     LoadFromKeyring, Backfill, ClearKeyring, ClearFile
<1>3. ~overlapped => \A d \in Callers : d # c => op[d] = "none"
  BY <1>2, OthersIdle
<1>4. op[c] \in {"saveKeyring", "saveFile", "loadKeyring", "backfill", "clearKeyring"}
         => /\ arg[c] \in AuthSession /\ arg[c] # NoSession
            /\ arg[c].user \in Users /\ arg[c].token \in Sessions
  BY <1>1 DEF StoreInv, InHand, TypeOK, StoreTypeOK, MaybeSession, AuthSession
<1>5. /\ keyring \in [Users -> Sessions \cup {NoSession}] /\ mode \in Modes
      /\ file # NoSession => file.user \in Users
  BY <1>1 DEF StoreInv, TypeOK, StoreTypeOK, MaybeSession, AuthSession
<1>6. CASE SaveToKeyring(c)
  <2>1. /\ op[c] = "saveKeyring" /\ TryKeyring(arg[c].user, arg[c].token)
        /\ Goto(c, "saveFile", arg[c])
        /\ tried' = IF KeyringAnswers THEN tried \cup {arg[c].token} ELSE tried
        /\ UNCHANGED <<file, mode, latest, overlapped, crossed>>
    BY <1>6 DEF SaveToKeyring, Tries
  <2>2. \A d \in Callers : /\ op'[d] = IF d = c THEN "saveFile" ELSE op[d]
                           /\ arg'[d] = arg[d]
    BY <2>1, <1>1, HandsMoved
  <2>3. Remembered' /\ NeverUsed'
    BY <2>1 DEF DiskInv, Remembered, NeverUsed, TryKeyring, KeyringAnswers
  <2>4. Halfway'
    BY <2>1, <2>2, <1>3, <1>4, <1>5 DEF Halfway, TryKeyring, KeyringFails
  <2>5. ASSUME file # NoSession
        PROVE  keyring'[file.user] = keyring[file.user] \/ keyring'[file.user] \in tried'
    BY <2>1, <2>5, <1>4, <1>5 DEF TryKeyring
  <2>6. Agrees'
    BY <2>1, <2>5, <1>5 DEF DiskInv, Agrees
  <2>7. Current'
    BY <2>1, <2>2 DEF DiskInv, Current
  <2>. QED
    BY <2>3, <2>4, <2>6, <2>7 DEF DiskInv
<1>7. CASE SaveToFile(c)
  <2>1. /\ op[c] = "saveFile" /\ Goto(c, "done", arg[c]) /\ UNCHANGED <<keyring, mode, overlapped>>
        /\ file' = arg[c] /\ latest' = arg[c] /\ crossed' = overlapped
    BY <1>7 DEF SaveToFile, Keeps
  <2>2. \A d \in Callers : /\ op'[d] = IF d = c THEN "done" ELSE op[d]
                           /\ arg'[d] = arg[d]
    BY <2>1, <1>1, HandsMoved
  <2>3. Remembered' /\ NeverUsed'
    BY <2>1 DEF DiskInv, Remembered, NeverUsed
  <2>4. Halfway'
    BY <2>1, <2>2 DEF DiskInv, Halfway
  <2>5. Agrees'
    BY <2>1, <1>4, <1>5 DEF DiskInv, Halfway, NeverUsed, Agrees, Modes
  <2>6. Current'
    BY <2>1, <2>2, <1>3 DEF Current
  <2>. QED
    BY <2>3, <2>4, <2>5, <2>6 DEF DiskInv
<1>8. CASE SaveFails(c) \/ ClearFails(c)
  <2>1. Goto(c, "failed", arg[c]) /\ UNCHANGED <<disk, mode, latest, overlapped, crossed, tried>>
    BY <1>8 DEF SaveFails, ClearFails, WriteFails, history
  <2>. QED
    BY <2>1, <1>1, DiskKept
<1>9. CASE LoadFromKeyring(c)
  <2>1. op[c] = "loadKeyring" /\ UNCHANGED <<disk, mode, latest, overlapped, crossed, tried>>
    BY <1>9 DEF LoadFromKeyring, history
  <2>2. PICK step \in {"done", "backfill"} : \E session :
           Goto(c, step, session) /\ (step = "backfill" => session = arg[c])
    BY <1>9 DEF LoadFromKeyring
  <2>. QED
    BY <2>1, <2>2, <1>1, DiskKept
<1>10. CASE Backfill(c)
  <2>1. /\ op[c] = "backfill" /\ TryKeyring(arg[c].user, arg[c].token)
        /\ Goto(c, "done", arg[c])
        /\ UNCHANGED <<file, mode, latest, overlapped, crossed, tried>>
    BY <1>10 DEF Backfill, history
  <2>2. \A d \in Callers : /\ op'[d] = IF d = c THEN "done" ELSE op[d]
                           /\ arg'[d] = arg[d]
    BY <2>1, <1>1, HandsMoved
  <2>3. Remembered' /\ NeverUsed'
    BY <2>1 DEF DiskInv, Remembered, NeverUsed, TryKeyring, KeyringAnswers
  <2>4. Halfway'
    BY <2>1, <2>2, <1>3 DEF Halfway
  <2>5. ~crossed => arg[c] = file
    BY <2>1 DEF DiskInv, Current
  <2>6. Agrees'
    BY <2>1, <2>5, <1>4, <1>5 DEF DiskInv, Agrees, TryKeyring
  <2>7. Current'
    BY <2>1, <2>2 DEF DiskInv, Current
  <2>. QED
    BY <2>3, <2>4, <2>6, <2>7 DEF DiskInv
<1>11. CASE ClearKeyring(c)
  <2>1. /\ op[c] = "clearKeyring" /\ TryKeyring(arg[c].user, NoSession)
        /\ Goto(c, "clearFile", NoSession)
        /\ UNCHANGED <<file, mode, latest, overlapped, crossed, tried>>
    BY <1>11 DEF ClearKeyring, history
  <2>2. \A d \in Callers : /\ op'[d] = IF d = c THEN "clearFile" ELSE op[d]
                           /\ arg'[d] = IF d = c THEN NoSession ELSE arg[d]
    BY <2>1, <1>1, HandsMoved
  <2>3. Remembered' /\ NeverUsed'
    BY <2>1, <1>4, <1>5 DEF DiskInv, Remembered, NeverUsed, TryKeyring, KeyringAnswers
  <2>4. Halfway'
    BY <2>1, <2>2, <1>3 DEF Halfway
  <2>5. ASSUME file # NoSession
        PROVE  keyring'[file.user] \in {keyring[file.user], NoSession}
    BY <2>1, <2>5, <1>4, <1>5 DEF TryKeyring
  <2>6. Agrees'
    BY <2>1, <2>5, <1>5 DEF DiskInv, Agrees
  <2>7. Current'
    BY <2>1, <2>2 DEF DiskInv, Current
  <2>. QED
    BY <2>3, <2>4, <2>6, <2>7 DEF DiskInv
<1>12. CASE ClearFile(c)
  <2>1. /\ op[c] = "clearFile" /\ Goto(c, "done", NoSession)
        /\ UNCHANGED <<keyring, mode, overlapped>>
        /\ file' = NoSession /\ latest' = NoSession /\ crossed' = overlapped
    BY <1>12 DEF ClearFile, Keeps
  <2>2. \A d \in Callers : op'[d] = IF d = c THEN "done" ELSE op[d]
    BY <2>1, <1>1, HandsMoved
  <2>3. Remembered' /\ NeverUsed' /\ Agrees'
    BY <2>1 DEF DiskInv, Remembered, NeverUsed, Agrees
  <2>4. Halfway'
    BY <2>1, <2>2, <1>3 DEF Halfway
  <2>5. Current'
    BY <2>1, <2>2, <1>3 DEF Current
  <2>. QED
    BY <2>3, <2>4, <2>5 DEF DiskInv
<1>. QED
  BY <1>6, <1>7, <1>8, <1>9, <1>10, <1>11, <1>12 DEF StoreStep

LEMMA CommandStepDisk ==
    ASSUME AuthInv, DiskInv, NEW c \in Callers, CommandStep(c)
    PROVE  DiskInv'
<1>1. StoreInv /\ overlapped \in BOOLEAN
  BY DEF AuthInv, StoreInv, TypeOK, StoreTypeOK
<1>2. ASSUME NEW place, Begins(c, place)
      PROVE  /\ UNCHANGED <<disk, mode, latest, crossed, tried>>
             /\ overlapped => overlapped'
             /\ overlapped' \in BOOLEAN
  BY <1>1, <1>2 DEF Begins
<1>3. CASE RestoreSession(c) \/ RefreshSession(c)
  <2>1. PICK place : Begins(c, place)
    BY <1>3 DEF RestoreSession, RefreshSession
  <2>2. PICK step \in {"done", "loadKeyring", "failed"} : \E session :
           Goto(c, step, session) /\ (step = "loadKeyring" => session = file)
    BY <1>3 DEF RestoreSession, RefreshSession, BeginLoad
  <2>. QED
    BY <2>1, <2>2, <1>1, <1>2, DiskKept
<1>4. CASE Logout(c)
  <2>1. Begins(c, "clearing")
    BY <1>4 DEF Logout
  <2>2. PICK step \in {"clearFile", "clearKeyring", "failed"} : \E session : Goto(c, step, session)
    BY <1>4 DEF Logout, BeginClear
  <2>. QED
    BY <2>1, <2>2, <1>1, <1>2, DiskKept
<1>5. CASE LoginConfirmed(c)
  <2>1. Begins(c, "confirming")
    BY <1>5 DEF LoginConfirmed
  <2>2. PICK s \in Sessions : Goto(c, "saveKeyring", Granted(s))
    BY <1>5 DEF LoginConfirmed, BeginSave
  <2>. QED
    BY <2>1, <2>2, <1>1, <1>2, DiskKept
<1>6. CASE AskServer(c) \/ Accepted(c)
  <2>1. PICK step \in {"none", "saveKeyring"} : \E session : Goto(c, step, session)
    BY <1>6 DEF AskServer, Accepted, BeginSave
  <2>2. UNCHANGED <<disk, mode, latest, overlapped, crossed, tried>>
    BY <1>6 DEF AskServer, Accepted, history
  <2>. QED
    BY <2>1, <2>2, <1>1, DiskKept
<1>7. CASE \/ Restored(c) \/ NothingToRefresh(c) \/ Refused(c) \/ Renewed(c) \/ LoggedIn(c)
           \/ LogsOut(c) \/ StoreErrs(c)
  <2>1. Returns(c)
    BY <1>7 DEF Restored, NothingToRefresh, Refused, Renewed, LoggedIn, LogsOut, StoreErrs
  <2>2. Goto(c, "none", NoSession) /\ UNCHANGED <<disk, mode, latest, overlapped, crossed, tried>>
    BY <2>1 DEF Returns, history
  <2>. QED
    BY <2>2, <1>1, DiskKept
<1>. QED
  BY <1>3, <1>4, <1>5, <1>6, <1>7 DEF CommandStep

LEMMA CrashDisk ==
    ASSUME DiskInv, Crash
    PROVE  DiskInv'
<1>1. /\ op' = [c \in Callers |-> "none"]
      /\ UNCHANGED <<file, keyring, mode, latest, crossed, tried>>
  BY DEF Crash, StoreCrash, disk
<1>2. Remembered' /\ NeverUsed' /\ Halfway'
  BY <1>1 DEF DiskInv, Remembered, NeverUsed, Halfway
<1>3. Agrees' /\ Current'
  BY <1>1 DEF DiskInv, Agrees, Current
<1>. QED
  BY <1>2, <1>3 DEF DiskInv

LEMMA DiskInvStep ==
    AuthInv /\ DiskInv /\ [Next]_vars => DiskInv'
<1>. SUFFICES ASSUME AuthInv, DiskInv, [Next]_vars
              PROVE  DiskInv'
  OBVIOUS
<1>1. CASE UNCHANGED storeVars
  BY <1>1 DEF storeVars, disk, calls, history, DiskInv, Remembered, NeverUsed, Halfway,
     Agrees, Current
<1>2. CASE LoginByQr \/ LoginEnds \/ UNCHANGED vars
  BY <1>1, <1>2 DEF LoginByQr, LoginEnds, vars
<1>. QED
  BY <1>2, StoreStepDisk, CommandStepDisk, CrashDisk DEF Next

\* In DiskInv, a load ends with what was last saved, or shows the token of a save that
\* has not reached the file.
LEMMA LoadEnds ==
    ASSUME AuthInv, DiskInv, [Next]_vars, NEW c \in Callers,
           op[c] \in {"none", "loadKeyring", "backfill"}, op'[c] = "done",
           ~crossed, mode # "flaky"
    PROVE  arg'[c] \in Loadable
<1>1. StoreInv /\ file = latest
  BY DEF AuthInv, DiskInv, Remembered
<1>2. /\ ~UNCHANGED vars /\ ~LoginByQr /\ ~LoginEnds /\ ~Crash
  BY DEF vars, storeVars, calls, LoginByQr, LoginEnds, Crash, StoreCrash
<1>3. PICK d \in Callers : CommandStep(d) \/ StoreStep(d)
  BY <1>2 DEF Next
<1>4. \E step, session : Goto(d, step, session)
  BY <1>3 DEF CommandStep, StoreStep, SaveToKeyring, SaveToFile, SaveFails, ClearFails,
     WriteFails, LoadFromKeyring, Backfill, ClearKeyring, ClearFile, RestoreSession, Restored,
     RefreshSession, AskServer, NothingToRefresh, Accepted, Refused, Renewed, LoginConfirmed,
     LoggedIn, Logout, LogsOut, StoreErrs, Returns, BeginLoad, BeginClear, BeginSave
<1>5. d = c
  BY <1>1, <1>4, HandsMoved
<1>6. op[c] # "none" => arg[c] = file
  BY DEF DiskInv, Current
<1>7. ASSUME NEW step, NEW session, Goto(c, step, session)
      PROVE  step = "done" /\ arg'[c] = session
  BY <1>7, <1>1, HandsMoved
<1>8. CASE StoreStep(c)
  <2>1. LoadFromKeyring(c) \/ Backfill(c)
    BY <1>8 DEF StoreStep, SaveToKeyring, SaveToFile, SaveFails, ClearFails, ClearKeyring,
       ClearFile
  <2>2. CASE LoadFromKeyring(c)
    <3>1. op[c] = "loadKeyring"
      BY <2>2 DEF LoadFromKeyring
    <3>2. /\ arg[c] = file /\ file # NoSession /\ file \in AuthSession
          /\ keyring[file.user] \in {NoSession, file.token} \cup tried
      BY <3>1, <1>1, <1>6 DEF StoreInv, InHand, TypeOK, StoreTypeOK, MaybeSession, DiskInv,
         Agrees
    <3>3. /\ keyring[file.user] # NoSession
          /\ arg'[c] = [file EXCEPT !.token = keyring[file.user]]
      BY <2>2, <3>2, <1>7 DEF LoadFromKeyring
    <3>4. CASE keyring[file.user] = file.token
      <4>1. [file EXCEPT !.token = file.token] = file
        BY <3>2 DEF AuthSession
      <4>. QED
        BY <3>3, <3>4, <4>1, <1>1 DEF Loadable
    <3>5. CASE keyring[file.user] \in tried
      <4>1. Owner[keyring[file.user]] = file.user
        BY <3>2, <3>3, <1>1 DEF StoreInv, KeyringOwn, AuthSession
      <4>. QED
        BY <3>2, <3>3, <3>5, <4>1, <1>1 DEF Loadable
    <3>. QED
      BY <3>2, <3>3, <3>4, <3>5
  <2>3. CASE Backfill(c)
    BY <2>3, <1>1, <1>6, <1>7 DEF Backfill, Loadable
  <2>. QED
    BY <2>1, <2>2, <2>3
<1>9. CASE CommandStep(c)
  <2>1. RestoreSession(c) \/ RefreshSession(c)
    BY <1>9, <1>7 DEF CommandStep, Restored, AskServer, NothingToRefresh, Accepted, Refused,
       Renewed, LoginConfirmed, LoggedIn, Logout, LogsOut, StoreErrs, Returns, BeginClear,
       BeginSave
  <2>. QED
    BY <2>1, <1>1, <1>7 DEF RestoreSession, RefreshSession, BeginLoad, Loadable
<1>. QED
  BY <1>3, <1>5, <1>8, <1>9

\* What RestoreSession and RefreshSession load is the session that was last saved,
\* token and record, and nothing after a logout; only a save that has written the
\* keyring and then not reached the file, by failing or by the end of the process,
\* may show in it, by its token with the record of the same user.  For a keyring that
\* works or never does, and a last save or logout that no other command has crossed
\* (load_session, save_session, clear_session).
THEOREM LoadsLastSaved ==
    Spec => LoadReturnsLastSaved
<1>1. Init => AuthInv /\ DiskInv
  BY AuthInvInit, DiskInvInit
<1>2. AuthInv /\ DiskInv /\ [Next]_vars => AuthInv' /\ DiskInv'
  BY AuthInvStep, DiskInvStep
<1>3. AuthInv /\ DiskInv /\ [Next]_vars =>
         [\A c \in Callers :
             /\ op[c] \in {"none", "loadKeyring", "backfill"} /\ op'[c] = "done"
             /\ ~crossed /\ mode # "flaky"
             => arg'[c] \in Loadable]_storeVars
  BY LoadEnds
<1>. QED
  BY <1>1, <1>2, <1>3, PTL DEF Spec, LoadReturnsLastSaved
=============================================================================
