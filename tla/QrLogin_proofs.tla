----------------------------- MODULE QrLogin_proofs -----------------------------
(***************************************************************************)
(* Proofs about QrLogin, for every set of callers and scenes.              *)
(*                                                                         *)
(* That an outcome is kept until it is taken is not inductive by itself:   *)
(* it must also be known that nothing is taken from a scene that is not    *)
(* decided, and that a scene without a task has no entry in the store.     *)
(***************************************************************************)
EXTENDS QrLogin, TLAPS

\* Nothing is handed out of a scene before its task has set an outcome.
NotTakenEarly == \A s \in Scenes : link[s] \notin Outcomes => taken[s] = 0

\* A scene enters the store with its task.
NoEntryBefore == \A s \in Scenes : link[s] = "unused" => store[s] = "absent"

QrInv == TypeOK /\ PendingIsServed /\ OutcomeIsKept /\ NotTakenEarly /\ NoEntryBefore

\* Whoever waits, waits for a scene.
HasScene(c) == at[c] \in {"starting", "checking"} \cup Waits => scene[c] \in Scenes

WaitersHaveScene ==
    /\ auth = "WaitingQrScan" => authScene \in Scenes
    /\ \A c \in Callers : HasScene(c)

\* The store, the login tasks and the count of what was taken are all that QrInv
\* relates; a step that leaves them alone has only types to respect.
Untouched == UNCHANGED <<store, link, taken>>

LEMMA QuietStepsKeepInv ==
    ASSUME QrInv, Untouched, TypeOK'
    PROVE  QrInv'
BY DEF QrInv, Untouched, PendingIsServed, OutcomeIsKept, NotTakenEarly, NoEntryBefore

LEMMA WokenType ==
    ASSUME TypeOK
    PROVE  Woken \in [Callers -> Steps]
BY DEF TypeOK, Woken, Steps, Waits

\* An outcome is set for a scene that has a task, and so was pending.
LEMMA SettleKeepsInv ==
    ASSUME QrInv, NEW s \in Scenes, NEW outcome \in Outcomes,
           link[s] \in Working, Settle(s, outcome)
    PROVE  QrInv'
<1>1. TypeOK'
  BY WokenType DEF QrInv, TypeOK, Settle, Outcomes, service
<1>2. PendingIsServed' /\ NoEntryBefore'
  BY DEF QrInv, TypeOK, PendingIsServed, NoEntryBefore, Settle, Outcomes, Working
<1>3. OutcomeIsKept' /\ NotTakenEarly'
  BY DEF QrInv, TypeOK, OutcomeIsKept, NotTakenEarly, Settle, Outcomes, Working
<1> QED BY <1>1, <1>2, <1>3 DEF QrInv

\* An outcome is removed as it is counted.
LEMMA TakeKeepsInv ==
    ASSUME QrInv, NEW c \in Callers, NEW s \in Scenes, Take(c, s)
    PROVE  QrInv'
<1>1. link[s] \in Outcomes /\ taken[s] = 0 /\ taken[s] \in Nat
  BY DEF QrInv, TypeOK, PendingIsServed, OutcomeIsKept, NoEntryBefore, Take, Outcomes, Working
<1>2. TypeOK'
  BY DEF QrInv, TypeOK, Take, service, Steps, Outcomes
<1>3. PendingIsServed' /\ NoEntryBefore'
  BY <1>1 DEF QrInv, TypeOK, PendingIsServed, NoEntryBefore, Take, Outcomes, Working
<1>4. OutcomeIsKept' /\ NotTakenEarly'
  BY <1>1 DEF QrInv, TypeOK, OutcomeIsKept, NotTakenEarly, Take, Outcomes, Working
<1> QED BY <1>2, <1>3, <1>4 DEF QrInv

\* The store gets an entry and the scene a task in one step.
LEMMA LoginByQrKeepsInv ==
    ASSUME QrInv, NEW c \in Callers, LoginByQr(c)
    PROVE  QrInv'
<1>1. PICK s \in Scenes :
         /\ link[s] = "unused"
         /\ store' = [store EXCEPT ![s] = "Pending"]
         /\ link' = [link EXCEPT ![s] = "connecting"]
         /\ scene' = [scene EXCEPT ![c] = s]
  BY DEF LoginByQr
<1>2. TypeOK'
  BY <1>1, WokenType DEF QrInv, TypeOK, LoginByQr, service, Steps, Working
<1>3. PendingIsServed' /\ NoEntryBefore'
  BY <1>1 DEF QrInv, TypeOK, PendingIsServed, NoEntryBefore, LoginByQr, Working, Outcomes
<1>4. OutcomeIsKept' /\ NotTakenEarly'
  BY <1>1 DEF QrInv, TypeOK, OutcomeIsKept, NotTakenEarly, LoginByQr, Working, Outcomes
<1> QED BY <1>2, <1>3, <1>4 DEF QrInv

\* The task of a scene goes on without an outcome.
LEMMA LinkProgressKeepsInv ==
    ASSUME QrInv, NEW s \in Scenes, LinkShows(s) \/ LinkScanned(s)
    PROVE  QrInv'
<1>1. TypeOK'
  BY DEF QrInv, TypeOK, LinkShows, LinkScanned, calls, service, Working
<1>2. PendingIsServed' /\ NoEntryBefore'
  BY DEF QrInv, TypeOK, PendingIsServed, NoEntryBefore, LinkShows, LinkScanned, Working
<1>3. OutcomeIsKept' /\ NotTakenEarly'
  BY DEF QrInv, TypeOK, OutcomeIsKept, NotTakenEarly, LinkShows, LinkScanned, Working, Outcomes
<1> QED BY <1>1, <1>2, <1>3 DEF QrInv

LEMMA LinkKeepsInv ==
    ASSUME QrInv, NEW s \in Scenes, LinkStep(s)
    PROVE  QrInv'
<1>1. CASE LinkShows(s) \/ LinkScanned(s)
  BY <1>1, LinkProgressKeepsInv
<1>2. CASE LinkConfirms(s)
  BY <1>2, SettleKeepsInv DEF LinkConfirms, Outcomes, Working
<1>3. CASE LinkFails(s)
  BY <1>3, SettleKeepsInv DEF LinkFails, Outcomes
<1>4. CASE LinkCloses(s)
  BY <1>4, SettleKeepsInv DEF LinkCloses, Outcomes, Working
<1> QED BY <1>1, <1>2, <1>3, <1>4 DEF LinkStep

\* Waiting, short of taking an outcome, is the callers' own business.
LEMMA WaitingKeepsInv ==
    ASSUME QrInv, NEW c \in Callers,
           \/ ReadScene(c) \/ CheckScene(c) \/ WaitFindsNone(c) \/ WaitFindsPending(c)
           \/ WaitSleeps(c) \/ WaitWakes(c) \/ WaitTimesOut(c)
    PROVE  QrInv'
<1>1. Untouched
  BY DEF ReadScene, CheckScene, WaitFindsNone, WaitFindsPending, WaitSleeps, WaitWakes,
         WaitTimesOut, tasks, Untouched
<1>2. TypeOK'
  BY DEF QrInv, TypeOK, ReadScene, CheckScene, WaitFindsNone, WaitFindsPending, WaitSleeps,
         WaitWakes, WaitTimesOut, tasks, service, Goto, Return, Steps, Waits, Outcomes
<1> QED BY <1>1, <1>2, QuietStepsKeepInv

\* So is what a caller does to the application's state.
LEMMA ServiceKeepsInv ==
    ASSUME QrInv, NEW c \in Callers,
           \/ ShowCode(c) \/ StartFails(c) \/ ApplyStep(c)
           \/ Logout(c) \/ ClearSession(c) \/ ClearFails(c) \/ Leave(c)
    PROVE  QrInv'
<1> USE DEF QrInv, TypeOK, tasks, service, Goto, Return, Steps, AuthStates, Outcomes
<1>1. Untouched
  BY DEF ShowCode, StartFails, ApplyStep, SaveSession, SaveFails, Enter, LoginFails, Logout,
         ClearSession, ClearFails, Leave, Untouched
<1>2. CASE ShowCode(c) \/ StartFails(c)
  <2>1. TypeOK' BY <1>2 DEF ShowCode, StartFails
  <2> QED BY <1>1, <2>1, QuietStepsKeepInv
<1>3. CASE ApplyStep(c)
  <2>1. TypeOK' BY <1>3 DEF ApplyStep, SaveSession, SaveFails, Enter, LoginFails
  <2> QED BY <1>1, <2>1, QuietStepsKeepInv
<1>4. CASE Logout(c) \/ ClearSession(c) \/ ClearFails(c) \/ Leave(c)
  <2>1. TypeOK' BY <1>4 DEF Logout, ClearSession, ClearFails, Leave
  <2> QED BY <1>1, <2>1, QuietStepsKeepInv
<1> QED BY <1>2, <1>3, <1>4

LEMMA InitHasInv == Init => QrInv
BY QrAssumption DEF Init, QrInv, TypeOK, PendingIsServed, OutcomeIsKept, NotTakenEarly,
    NoEntryBefore, Steps, AuthStates, Working, Outcomes

\* Who waits keeps the scene that was looked up under the lock.
LEMMA ScenesStayKnown ==
    ASSUME TypeOK, WaitersHaveScene, [Next]_vars
    PROVE  WaitersHaveScene'
<1> USE DEF TypeOK, WaitersHaveScene, HasScene, Waits
<1>1. CASE UNCHANGED vars
  BY <1>1 DEF vars, calls, service
<1>2. CASE \E s \in Scenes : LinkStep(s)
  BY <1>2 DEF LinkStep, LinkShows, LinkScanned, LinkConfirms, LinkFails, LinkCloses, Settle,
              Woken, calls, service
<1>3. ASSUME NEW c \in Callers, LoginByQr(c) PROVE WaitersHaveScene'
  BY <1>3 DEF LoginByQr, Woken, service
<1>4. ASSUME NEW c \in Callers,
             ShowCode(c) \/ StartFails(c) \/ ReadScene(c) \/ CheckScene(c)
      PROVE  WaitersHaveScene'
  BY <1>4 DEF ShowCode, StartFails, ReadScene, CheckScene, Goto, Return, service
<1>5. ASSUME NEW c \in Callers,
             \/ WaitFindsNone(c) \/ WaitFindsPending(c)
             \/ WaitSleeps(c) \/ WaitWakes(c) \/ WaitTimesOut(c)
      PROVE  WaitersHaveScene'
  BY <1>5 DEF WaitFindsNone, WaitFindsPending, WaitSleeps, WaitWakes, WaitTimesOut,
              Goto, Return, service
<1>6. ASSUME NEW c \in Callers, WaitTakes(c) \/ PollLogin(c)
      PROVE  WaitersHaveScene'
  BY <1>6 DEF WaitTakes, PollLogin, Take, service
<1>7. ASSUME NEW c \in Callers, ApplyStep(c) PROVE WaitersHaveScene'
  BY <1>7 DEF ApplyStep, SaveSession, SaveFails, Enter, LoginFails, Goto, Return, service
<1>8. ASSUME NEW c \in Callers,
             Logout(c) \/ ClearSession(c) \/ ClearFails(c) \/ Leave(c)
      PROVE  WaitersHaveScene'
  BY <1>8 DEF Logout, ClearSession, ClearFails, Leave, Goto, Return, service
<1> QED BY <1>1, <1>2, <1>3, <1>4, <1>5, <1>6, <1>7, <1>8 DEF Next, WaitStep

\* What a waiting or polling caller does to the store is to take.
LEMMA TakersTake ==
    ASSUME NEW c \in Callers, WaitersHaveScene, WaitTakes(c) \/ PollLogin(c)
    PROVE  \E s \in Scenes : Take(c, s)
BY DEF WaitersHaveScene, HasScene, Waits, WaitTakes, PollLogin

LEMMA StepKeepsInv ==
    ASSUME QrInv, WaitersHaveScene, [Next]_vars
    PROVE  QrInv'
<1>1. CASE UNCHANGED vars
  BY <1>1 DEF vars, tasks, calls, service, QrInv, TypeOK, PendingIsServed, OutcomeIsKept,
              NotTakenEarly, NoEntryBefore
<1>2. CASE \E s \in Scenes : LinkStep(s)
  BY <1>2, LinkKeepsInv
<1>3. ASSUME NEW c \in Callers, LoginByQr(c) PROVE QrInv'
  BY <1>3, LoginByQrKeepsInv
<1>4. ASSUME NEW c \in Callers, WaitTakes(c) \/ PollLogin(c) PROVE QrInv'
  BY <1>4, TakersTake, TakeKeepsInv
<1>5. ASSUME NEW c \in Callers, (WaitStep(c) /\ ~WaitTakes(c)) \/ WaitTimesOut(c) PROVE QrInv'
  BY <1>5, WaitingKeepsInv DEF WaitStep
<1>6. ASSUME NEW c \in Callers,
             \/ ShowCode(c) \/ StartFails(c) \/ ApplyStep(c)
             \/ Logout(c) \/ ClearSession(c) \/ ClearFails(c) \/ Leave(c)
      PROVE  QrInv'
  BY <1>6, ServiceKeepsInv
<1> QED BY <1>1, <1>2, <1>3, <1>4, <1>5, <1>6 DEF Next

LEMMA InitHasScenes == Init => WaitersHaveScene
BY DEF Init, WaitersHaveScene, HasScene, Waits

\* The login tasks, the store and the waiting commands agree, for every number of
\* commands and login attempts (QrStateStore, start_qr_login, AwaitLogin, PollLogin).
THEOREM QrIsSafe == Spec => [](QrInv /\ WaitersHaveScene)
<1>1. Init => QrInv /\ WaitersHaveScene
  BY InitHasInv, InitHasScenes
<1>2. (QrInv /\ WaitersHaveScene) /\ [Next]_vars => (QrInv /\ WaitersHaveScene)'
  BY StepKeepsInv, ScenesStayKnown DEF QrInv
<1> QED BY <1>1, <1>2, PTL DEF Spec

\* An outcome waits in the store until somebody takes it: a missed wake-up or a
\* timeout of `wait` loses none (QrStateStore::set, poll, wait).
THEOREM OutcomesAreKept == Spec => []OutcomeIsKept
BY QrIsSafe, PTL DEF QrInv

\* Every scene that is found pending has a login task at work on it.
THEOREM PendingScenesAreServed == Spec => []PendingIsServed
BY QrIsSafe, PTL DEF QrInv

\* A step of the login task decides an open scene, or none.
LEMMA LinkStepDecides ==
    ASSUME QrInv, NEW s \in Scenes, LinkStep(s)
    PROVE  Contract!Next \/ UNCHANGED Contract!vars
<1> USE DEF QrInv, TypeOK, Contract!Next, Contract!Decide, Contract!Outcomes, Contract!vars,
            Decided, Outcomes, Working
<1>1. CASE LinkShows(s) \/ LinkScanned(s)
  BY <1>1 DEF LinkShows, LinkScanned
<1>2. CASE LinkConfirms(s) \/ LinkFails(s) \/ LinkCloses(s)
  <2>1. PICK outcome \in Outcomes : link[s] \in Working /\ Settle(s, outcome)
    BY <1>2 DEF LinkConfirms, LinkFails, LinkCloses
  <2>2. Decided[s] = "open" /\ Decided' = [Decided EXCEPT ![s] = outcome]
    BY <2>1 DEF Settle
  <2>3. taken' = taken
    BY <2>1 DEF Settle
  <2> QED BY <2>1, <2>2, <2>3
<1> QED BY <1>1, <1>2 DEF LinkStep

\* Taking an outcome out of the store hands it out.
LEMMA TakeDelivers ==
    ASSUME QrInv, NEW c \in Callers, NEW s \in Scenes, Take(c, s)
    PROVE  Contract!Deliver(s)
<1>1. link[s] \in Outcomes /\ taken[s] = 0
  BY DEF QrInv, TypeOK, PendingIsServed, OutcomeIsKept, NoEntryBefore, Take, Outcomes, Working
<1>2. Decided[s] \in Outcomes /\ Decided' = Decided
  BY <1>1 DEF Decided, Take
<1>3. taken' = [taken EXCEPT ![s] = 1]
  BY <1>1 DEF Take
<1> QED BY <1>1, <1>2, <1>3 DEF Contract!Deliver, Contract!Outcomes, Outcomes

LEMMA StepKeepsContract ==
    ASSUME QrInv, WaitersHaveScene, [Next]_vars
    PROVE  [Contract!Next]_(Contract!vars)
<1>1. CASE UNCHANGED vars
  BY <1>1 DEF vars, tasks, Contract!vars, Decided
<1>2. CASE \E s \in Scenes : LinkStep(s)
  BY <1>2, LinkStepDecides
<1>3. ASSUME NEW c \in Callers, LoginByQr(c) PROVE UNCHANGED Contract!vars
  BY <1>3 DEF LoginByQr, Contract!vars, Decided, QrInv, TypeOK, Outcomes
<1>4. ASSUME NEW c \in Callers, WaitTakes(c) \/ PollLogin(c) PROVE Contract!Next
  BY <1>4, TakersTake, TakeDelivers DEF Contract!Next
<1>5. ASSUME NEW c \in Callers, (WaitStep(c) /\ ~WaitTakes(c)) \/ WaitTimesOut(c)
      PROVE  UNCHANGED Contract!vars
  BY <1>5 DEF WaitStep, ReadScene, CheckScene, WaitFindsNone, WaitFindsPending, WaitSleeps,
              WaitWakes, WaitTimesOut, tasks, Contract!vars, Decided
<1>6. ASSUME NEW c \in Callers,
             \/ ShowCode(c) \/ StartFails(c) \/ ApplyStep(c)
             \/ Logout(c) \/ ClearSession(c) \/ ClearFails(c) \/ Leave(c)
      PROVE  UNCHANGED Contract!vars
  BY <1>6 DEF ShowCode, StartFails, ApplyStep, SaveSession, SaveFails, Enter, LoginFails,
              Logout, ClearSession, ClearFails, Leave, tasks, Contract!vars, Decided
<1> QED BY <1>1, <1>2, <1>3, <1>4, <1>5, <1>6 DEF Next

\* The login tasks and their store implement LoginContract: one outcome for each
\* scene, handed out at most once, whoever polls and waits.
THEOREM QrKeepsOutcomes == Spec => KeepsOutcomes
<1>1. Init => Contract!Init
  BY DEF Init, Contract!Init, Decided, Outcomes
<1>2. QrInv /\ WaitersHaveScene /\ [Next]_vars => [Contract!Next]_(Contract!vars)
  BY StepKeepsContract
<1> QED BY <1>1, <1>2, QrIsSafe, PTL DEF Spec, KeepsOutcomes, Contract!Spec

(***************************************************************************)
(* The service, the port's store and the login tasks keep to their types.  *)
(***************************************************************************)
THEOREM QrTypesHold == Spec => []TypeOK
BY QrIsSafe, PTL DEF QrInv
=============================================================================
