----------------------------- MODULE SessionStore -----------------------------
(***************************************************************************)
(* Where a session is kept (CoreSessionStoreAdapter in rca-infra's         *)
(* bridge.rs): a record in the session file and, next to it, the tokens in *)
(* the system's keyring, under the user's account.                         *)
(*                                                                         *)
(* An operation is a sequence of accesses to the two, each of which may    *)
(* fail.  What the keyring answers is mostly ignored: save goes on without *)
(* it, load turns to the file, clear goes on.  The session file is the one *)
(* of JsonFile, here with whole documents only.  SessionCommands has the   *)
(* commands that call the operations, and the end of the process.          *)
(***************************************************************************)
CONSTANTS
    Callers,        \* command futures
    Users,
    Sessions,       \* sessions that the server grants by QR login
    Owner,          \* Owner[s]: the user that s is a session of
    NoSession

ASSUME SessionAssumption ==
    /\ Owner \in [Sessions -> Users]
    /\ NoSession \notin [user : Users, token : Sessions, csrf : Sessions]
    /\ NoSession \notin Sessions

VARIABLES
    file,           \* the record in the session file, tokens included
    keyring,        \* keyring[u]: whose token the account of u holds
    mode,           \* how the keyring behaves in this environment
    op,             \* op[c]: what c's operation does next, or how it ended
    arg,            \* arg[c]: the session c has in hand
    latest,         \* the session last saved, none if cleared since
    overlapped,     \* commands have overlapped in this process
    crossed,        \* they had when `latest` was saved or cleared
    tried           \* tokens put into the keyring since then by saves that have
                    \* not reached the file (history, as are the three before)

disk == <<file, keyring>>
calls == <<op, arg>>
history == <<latest, overlapped, crossed, tried>>
storeVars == <<disk, mode, calls, history>>

\* AuthSession: the user, the token and the CSRF token (with original_id), the
\* last two named after the granted session that they come from.
AuthSession == [user : Users, token : Sessions, csrf : Sessions]
MaybeSession == AuthSession \cup {NoSession}

Granted(s) == [user |-> Owner[s], token |-> s, csrf |-> s]

Ops == {"none", "loadKeyring", "backfill", "saveKeyring", "saveFile",
        "clearKeyring", "clearFile", "done", "failed"}
Modes == {"works", "broken", "flaky"}

StoreInit ==
    /\ file = NoSession
    /\ keyring = [u \in Users |-> NoSession]
    /\ mode \in Modes
    /\ op = [c \in Callers |-> "none"]
    /\ arg = [c \in Callers |-> NoSession]
    /\ latest = NoSession
    /\ overlapped = FALSE
    /\ crossed = FALSE
    /\ tried = {}

KeyringAnswers == mode \in {"works", "flaky"}
KeyringFails == mode \in {"broken", "flaky"}

Goto(c, step, session) ==
    /\ op' = [op EXCEPT ![c] = step]
    /\ arg' = [arg EXCEPT ![c] = session]

\* The account of user u is set to a token, or emptied, if the keyring answers;
\* otherwise a warning is logged.
TryKeyring(u, token) ==
    \/ KeyringAnswers /\ keyring' = [keyring EXCEPT ![u] = token]
    \/ KeyringFails /\ UNCHANGED keyring

\* The file now holds what the store is asked to keep.
Keeps(session) ==
    /\ file' = session
    /\ latest' = session
    /\ crossed' = overlapped
    /\ tried' = {}

\* The file could not be written.
WriteFails(c) ==
    /\ Goto(c, "failed", arg[c])
    /\ UNCHANGED <<disk, mode, history>>

-----------------------------------------------------------------------------
(* save_session.                                                           *)

BeginSave(c, session) == Goto(c, "saveKeyring", session)

\* What the keyring may have taken counts as tried.
Tries(token) ==
    /\ tried' = IF KeyringAnswers THEN tried \cup {token} ELSE tried
    /\ UNCHANGED <<latest, overlapped, crossed>>

\* Mutant: an account that holds a token is left as it is.
SaveToKeyring_KeepsOld(c) ==
    /\ op[c] = "saveKeyring"
    /\ IF keyring[arg[c].user] = NoSession THEN TryKeyring(arg[c].user, arg[c].token)
                                             ELSE UNCHANGED keyring
    /\ Tries(arg[c].token)
    /\ Goto(c, "saveFile", arg[c])
    /\ UNCHANGED <<file, mode>>

\* Mutant: the account is that of the user who was logged in before.
SaveToKeyring_OldAccount(c) ==
    LET user == IF file = NoSession THEN arg[c].user ELSE file.user
    IN  /\ op[c] = "saveKeyring"
        /\ TryKeyring(user, arg[c].token)
        /\ Tries(arg[c].token)
        /\ Goto(c, "saveFile", arg[c])
        /\ UNCHANGED <<file, mode>>

\* save_token_pair; a failure is logged, and the save goes on.
SaveToKeyring(c) ==
    /\ op[c] = "saveKeyring"
    /\ TryKeyring(arg[c].user, arg[c].token)
    /\ Tries(arg[c].token)
    /\ Goto(c, "saveFile", arg[c])
    /\ UNCHANGED <<file, mode>>

\* The record goes to the file with its tokens, and the save succeeds.
SaveToFile(c) ==
    /\ op[c] = "saveFile"
    /\ Keeps(arg[c])
    /\ Goto(c, "done", arg[c])
    /\ UNCHANGED <<keyring, mode, overlapped>>

SaveFails(c) == op[c] = "saveFile" /\ WriteFails(c)

-----------------------------------------------------------------------------
(* load_session.                                                           *)

\* The file is absent, or read, or cannot be read.
BeginLoad(c) ==
    \/ file = NoSession /\ Goto(c, "done", NoSession)
    \/ file # NoSession /\ Goto(c, "loadKeyring", file)
    \/ Goto(c, "failed", NoSession)

\* The keyring's token, if there is one, is returned with the file's record.
LoadFromKeyring(c) ==
    LET token == keyring[arg[c].user]
    IN  /\ op[c] = "loadKeyring"
        /\ \/ /\ KeyringAnswers
              /\ token # NoSession
              /\ Goto(c, "done", [arg[c] EXCEPT !.token = token])
           \/ /\ KeyringFails \/ token = NoSession
              /\ Goto(c, "backfill", arg[c])
        /\ UNCHANGED <<disk, mode, history>>

\* Otherwise the file's tokens are returned, and put into the keyring if it takes
\* them.
Backfill(c) ==
    /\ op[c] = "backfill"
    /\ TryKeyring(arg[c].user, arg[c].token)
    /\ Goto(c, "done", arg[c])
    /\ UNCHANGED <<file, mode, history>>

-----------------------------------------------------------------------------
(* clear_session.                                                          *)

BeginClear(c) ==
    \/ file = NoSession /\ Goto(c, "clearFile", NoSession)
    \/ file # NoSession /\ Goto(c, "clearKeyring", file)
    \/ Goto(c, "failed", NoSession)

\* delete_token_pair; a failure is logged, and the clear goes on.
ClearKeyring(c) ==
    /\ op[c] = "clearKeyring"
    /\ TryKeyring(arg[c].user, NoSession)
    /\ Goto(c, "clearFile", NoSession)
    /\ UNCHANGED <<file, mode, history>>

ClearFile(c) ==
    /\ op[c] = "clearFile"
    /\ Keeps(NoSession)
    /\ Goto(c, "done", NoSession)
    /\ UNCHANGED <<keyring, mode, overlapped>>

ClearFails(c) == op[c] = "clearFile" /\ WriteFails(c)

-----------------------------------------------------------------------------

\* A step of an operation under way.
StoreStep(c) ==
    \/ SaveToKeyring(c) \/ SaveToFile(c) \/ SaveFails(c)
    \/ LoadFromKeyring(c) \/ Backfill(c)
    \/ ClearKeyring(c) \/ ClearFile(c) \/ ClearFails(c)

\* What the end of the process does to the operations under way.
StoreCrash ==
    /\ op' = [c \in Callers |-> "none"]
    /\ arg' = [c \in Callers |-> NoSession]
    /\ overlapped' = FALSE
    /\ UNCHANGED <<disk, mode, latest, crossed, tried>>

-----------------------------------------------------------------------------
(* Properties.                                                             *)

StoreTypeOK ==
    /\ file \in MaybeSession
    /\ keyring \in [Users -> Sessions \cup {NoSession}]
    /\ mode \in Modes
    /\ op \in [Callers -> Ops]
    /\ arg \in [Callers -> MaybeSession]
    /\ latest \in MaybeSession
    /\ {overlapped, crossed} \subseteq BOOLEAN
    /\ tried \subseteq Sessions

\* What a load may return: what was last saved, token and record, and nothing after
\* a clear.  A save that has written the keyring and then failed at the file, or was
\* cut short there, shows: its token may come with the record of the same user that
\* was last saved.
Loadable ==
    LET shown == {t \in tried : latest # NoSession /\ Owner[t] = latest.user}
    IN  {latest} \cup {[latest EXCEPT !.token = t] : t \in shown}

\* Nothing older and nothing of another user is ever loaded, whatever earlier
\* operations have left behind in either place by failing or being cut short, and
\* nothing but what was last saved if every save since has reached the file.  For a
\* keyring that works or never does, and a last save or clear that no other command
\* has crossed.
LoadReturnsLastSaved ==
    [][\A c \in Callers :
          /\ op[c] \in {"none", "loadKeyring", "backfill"} /\ op'[c] = "done"
          /\ ~crossed /\ mode # "flaky"
          => arg'[c] \in Loadable]_storeVars

\* Of one user: the account, the token and the CSRF token.
OneUser(session) ==
    session # NoSession => /\ Owner[session.token] = session.user
                           /\ Owner[session.csrf] = session.user

\* Whatever overlaps, fails or is cut short, no command ever holds or stores a
\* session that mixes two users: load_session joins the file's record with the
\* keyring's token, and a refreshed session joins the server's answer with the CSRF
\* token of the record that was loaded.
OneUserEach == OneUser(file) /\ \A c \in Callers : OneUser(arg[c])
=============================================================================
