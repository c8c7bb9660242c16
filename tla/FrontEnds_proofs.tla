---------------------------- MODULE FrontEnds_proofs ----------------------------
(***************************************************************************)
(* For any emitters, channels and bounds: whoever has subscribed while no  *)
(* emission had its copy of the list, as the command line always does,     *)
(* stays in the list and hears every emission until it closes its channel; *)
(* check-update prints the release that it has been told of; and the       *)
(* window of the desktop, if its subscription has met no emission, comes   *)
(* to rest on the last state unless emissions overlap, and does so again   *)
(* after a change that has begun alone.                                    *)
(***************************************************************************)
EXTENDS FrontEnds, TLAPS

LEMMA RangeOfAppend ==
    ASSUME NEW S, NEW q \in Seq(S), NEW x \in S
    PROVE  Range(Append(q, x)) = Range(q) \cup {x}
<1>1. DOMAIN q = 1 .. Len(q) /\ DOMAIN Append(q, x) = 1 .. Len(q) + 1
  OBVIOUS
<1>2. \A i \in 1 .. Len(q) : Append(q, x)[i] = q[i]
  OBVIOUS
<1>3. Append(q, x)[Len(q) + 1] = x
  OBVIOUS
<1>. QED  BY <1>1, <1>2, <1>3 DEF Range

LEMMA RangeOfTail ==
    ASSUME NEW S, NEW q \in Seq(S), q # <<>>
    PROVE  Range(q) \subseteq {Head(q)} \cup Range(Tail(q))
<1> SUFFICES ASSUME NEW i \in 1 .. Len(q), i # 1
             PROVE  q[i] \in Range(Tail(q))
  BY DEF Range
<1>1. DOMAIN Tail(q) = 1 .. Len(q) - 1 /\ i - 1 \in 1 .. Len(q) - 1
  OBVIOUS
<1>2. Tail(q)[i - 1] = q[i]
  OBVIOUS
<1>. QED  BY <1>1, <1>2 DEF Range

(***************************************************************************)
(* What every emission owes to a subscriber that listens.  An emission     *)
(* under way has yet to send to it, or has sent to it and will write it    *)
(* back into the list; so no order of two emissions can lose it.           *)
(***************************************************************************)
Owed(s) ==
    /\ s \in Range(subscribers)
    /\ done \subseteq heard[s]
    /\ \A e \in Emitters : at[e] = "sending" =>
          s \in Range(todo[e]) \/ (s \in Range(active[e]) /\ event[e].id \in heard[s])

FanoutInv ==
    FanoutTypeOK /\ \A s \in Subs : link[s] = "open" /\ s \notin raced => Owed(s)

LEMMA BeginInv ==
    ASSUME FanoutInv, NEW e \in Emitters, Change(e) \/ EmitOther(e)
    PROVE  FanoutInv'
<1>1. at[e] = "idle" /\ at' \in [Emitters -> Steps] /\ at'[e] # "sending"
      /\ \A d \in Emitters \ {e} : at'[d] = at[d] /\ event'[d] = event[d]
  BY DEF Change, EmitOther, Emits, Goes, FanoutInv, FanoutTypeOK, Steps
<1>2. event' \in [Emitters -> Events] /\ version' \in Nat /\ others' \in Nat
  <2>1. version \in Nat /\ others \in Nat
    BY DEF FanoutInv, FanoutTypeOK
  <2>2. [snap |-> None, id |-> version + others] \in Events
    BY <2>1 DEF Events, None
  <2>3. event' = [event EXCEPT ![e] = [snap |-> None, id |-> version + others]]
    BY DEF Change, EmitOther, Emits
  <2>4. version' \in Nat /\ others' \in Nat
    BY <2>1 DEF Change, EmitOther
  <2>. QED  BY <2>2, <2>3, <2>4 DEF FanoutInv, FanoutTypeOK
<1>3. UNCHANGED <<subscribers, chan, link, todo, active, heard, done, raced>>
  BY DEF Change, EmitOther
<1>4. FanoutTypeOK'
  BY <1>1, <1>2, <1>3 DEF FanoutInv, FanoutTypeOK
<1>. QED  BY <1>1, <1>3, <1>4 DEF FanoutInv, Owed

LEMMA SnapshotInv ==
    ASSUME FanoutInv, NEW e \in Emitters, TakeSnapshot(e) \/ ReadState(e) \/ PaintState(e)
    PROVE  FanoutInv'
<1>1. at'[e] # "sending" /\ at' \in [Emitters -> Steps]
      /\ \A d \in Emitters \ {e} : at'[d] = at[d] /\ event'[d] = event[d]
  BY DEF TakeSnapshot, ReadState, PaintState, Goes, FanoutInv, FanoutTypeOK, Steps
<1>2. event' \in [Emitters -> Events]
  BY DEF TakeSnapshot, ReadState, PaintState, FanoutInv, FanoutTypeOK, Events
<1>3. UNCHANGED <<version, others, subscribers, chan, link, todo, active, heard, done, raced>>
  BY DEF TakeSnapshot, ReadState, PaintState, history
<1>4. FanoutTypeOK'
  BY <1>1, <1>2, <1>3 DEF FanoutInv, FanoutTypeOK
<1>. QED  BY <1>1, <1>3, <1>4 DEF FanoutInv, Owed

LEMMA CloneInv ==
    ASSUME FanoutInv, NEW e \in Emitters, CloneSubscribers(e)
    PROVE  FanoutInv'
<1>1. /\ at' = [at EXCEPT ![e] = "sending"]
      /\ todo' = [todo EXCEPT ![e] = subscribers]
      /\ active' = [active EXCEPT ![e] = <<>>]
      /\ UNCHANGED <<version, others, subscribers, chan, link, event, heard, done, raced>>
  BY DEF CloneSubscribers, Goes, history
<1>2. <<>> \in Seq(Subs)
  OBVIOUS
<1>3. FanoutTypeOK'
  BY <1>1, <1>2 DEF FanoutInv, FanoutTypeOK, Steps
<1>4. ASSUME NEW s \in Subs, link[s] = "open", s \notin raced PROVE Owed(s)'
  BY <1>1, <1>4 DEF FanoutInv, FanoutTypeOK, Owed
<1>. QED  BY <1>1, <1>3, <1>4 DEF FanoutInv

LEMMA SendInv ==
    ASSUME FanoutInv, NEW e \in Emitters, Send(e)
    PROVE  FanoutInv'
<1> DEFINE s0 == Head(todo[e])
<1>1. /\ at[e] = "sending" /\ todo[e] # <<>> /\ link[s0] = "open"
      /\ Len(chan[s0]) < Capacity[s0]
      /\ chan' = [chan EXCEPT ![s0] = Append(chan[s0], event[e])]
      /\ heard' = [heard EXCEPT ![s0] = heard[s0] \cup {event[e].id}]
      /\ active' = [active EXCEPT ![e] = Append(active[e], s0)]
      /\ todo' = [todo EXCEPT ![e] = Tail(todo[e])]
      /\ UNCHANGED <<version, others, subscribers, link, at, event, done, raced>>
  BY DEF Send
<1>2. s0 \in Subs /\ Tail(todo[e]) \in Seq(Subs) /\ todo[e] \in Seq(Subs)
  <2>1. todo[e] \in Seq(Subs)
    BY DEF FanoutInv, FanoutTypeOK
  <2>. QED  BY <1>1, <2>1
<1>3. active[e] \in Seq(Subs) /\ Append(active[e], s0) \in Seq(Subs)
  <2>1. active[e] \in Seq(Subs)
    BY DEF FanoutInv, FanoutTypeOK
  <2>. QED  BY <1>2, <2>1
<1> HIDE DEF s0
<1>4. chan' \in [Subs -> Seq(Events)] /\ \A s \in Subs : Len(chan'[s]) <= Capacity[s]
  <2>1. chan[s0] \in Seq(Events) /\ event[e] \in Events /\ Capacity[s0] \in Nat
    BY <1>2, FanoutAssumption DEF FanoutInv, FanoutTypeOK
  <2>2. Append(chan[s0], event[e]) \in Seq(Events)
        /\ Len(Append(chan[s0], event[e])) <= Capacity[s0]
    BY <1>1, <2>1
  <2>. QED  BY <1>1, <1>2, <2>2 DEF FanoutInv, FanoutTypeOK
<1>5. heard' \in [Subs -> SUBSET Nat]
  <2>1. event[e].id \in Nat
    BY DEF FanoutInv, FanoutTypeOK, Events
  <2>. QED  BY <1>1, <1>2, <2>1 DEF FanoutInv, FanoutTypeOK
<1>6. FanoutTypeOK'
  BY <1>1, <1>2, <1>3, <1>4, <1>5 DEF FanoutInv, FanoutTypeOK
<1>7. \A s \in Subs : heard[s] \subseteq heard'[s]
  BY <1>1, <1>2 DEF FanoutInv, FanoutTypeOK
<1>8. event[e].id \in heard'[s0]
  BY <1>1, <1>2 DEF FanoutInv, FanoutTypeOK
<1>9. ASSUME NEW s \in Subs, link[s] = "open", s \notin raced PROVE Owed(s)'
  <2>1. Owed(s)
    BY <1>9 DEF FanoutInv
  <2>2. s \in Range(todo'[e]) \/ (s \in Range(active'[e]) /\ event'[e].id \in heard'[s])
    <3>1. todo'[e] = Tail(todo[e]) /\ active'[e] = Append(active[e], s0)
      BY <1>1 DEF FanoutInv, FanoutTypeOK
    <3>2. Range(active'[e]) = Range(active[e]) \cup {s0}
      BY <3>1, <1>2, <1>3, RangeOfAppend
    <3>3. Range(todo[e]) \subseteq {s0} \cup Range(todo'[e])
      BY <3>1, <1>1, <1>2, RangeOfTail DEF s0
    <3>. QED  BY <2>1, <1>1, <1>7, <1>8, <3>2, <3>3 DEF Owed
  <2>3. ASSUME NEW d \in Emitters \ {e} PROVE todo'[d] = todo[d] /\ active'[d] = active[d]
    BY <1>1 DEF FanoutInv, FanoutTypeOK
  <2>. QED  BY <1>1, <1>7, <2>1, <2>2, <2>3 DEF Owed
<1>. QED  BY <1>1, <1>6, <1>9 DEF FanoutInv

LEMMA SkipInv ==
    ASSUME FanoutInv, NEW e \in Emitters, SkipClosed(e)
    PROVE  FanoutInv'
<1>1. /\ at[e] = "sending" /\ todo[e] # <<>> /\ link[Head(todo[e])] = "closed"
      /\ todo' = [todo EXCEPT ![e] = Tail(todo[e])]
      /\ UNCHANGED <<version, others, subscribers, chan, link, at, event, active, heard, done,
                     raced>>
  BY DEF SkipClosed, history
<1>2. todo[e] \in Seq(Subs) /\ Tail(todo[e]) \in Seq(Subs)
  <2>1. todo[e] \in Seq(Subs)
    BY DEF FanoutInv, FanoutTypeOK
  <2>. QED  BY <1>1, <2>1
<1>3. FanoutTypeOK'
  BY <1>1, <1>2 DEF FanoutInv, FanoutTypeOK
<1>4. ASSUME NEW s \in Subs, link[s] = "open", s \notin raced PROVE Owed(s)'
  <2>1. Owed(s) /\ s # Head(todo[e])
    BY <1>1, <1>4 DEF FanoutInv
  <2>2. Range(todo[e]) \subseteq {Head(todo[e])} \cup Range(todo'[e])
    BY <1>1, <1>2, RangeOfTail DEF FanoutInv, FanoutTypeOK
  <2>3. ASSUME NEW d \in Emitters \ {e} PROVE todo'[d] = todo[d]
    BY <1>1 DEF FanoutInv, FanoutTypeOK
  <2>. QED  BY <1>1, <2>1, <2>2, <2>3 DEF Owed
<1>. QED  BY <1>1, <1>3, <1>4 DEF FanoutInv

LEMMA WriteBackInv ==
    ASSUME FanoutInv, NEW e \in Emitters, WriteBack(e)
    PROVE  FanoutInv'
<1>1. /\ at[e] = "sending" /\ todo[e] = <<>>
      /\ subscribers' = active[e]
      /\ done' = done \cup {event[e].id}
      /\ at' \in [Emitters -> Steps] /\ at'[e] # "sending"
      /\ \A d \in Emitters \ {e} : at'[d] = at[d]
      /\ UNCHANGED <<version, others, chan, link, event, todo, active, heard, raced>>
  BY DEF WriteBack, Goes, FanoutInv, FanoutTypeOK, Steps
<1>2. FanoutTypeOK'
  <2>1. event[e].id \in Nat
    BY DEF FanoutInv, FanoutTypeOK, Events
  <2>. QED  BY <1>1, <2>1 DEF FanoutInv, FanoutTypeOK
<1>3. ASSUME NEW s \in Subs, link[s] = "open", s \notin raced PROVE Owed(s)'
  <2>1. Owed(s) /\ s \notin Range(todo[e])
    BY <1>1, <1>3 DEF FanoutInv, Range
  <2>. QED  BY <1>1, <2>1 DEF Owed
<1>. QED  BY <1>1, <1>2, <1>3 DEF FanoutInv

(***************************************************************************)
(* A subscription is safe when no emission has its copy of the list.       *)
(***************************************************************************)
LEMMA SubscribeInv ==
    ASSUME FanoutInv, NEW s0 \in Subs, Subscribe(s0)
    PROVE  FanoutInv'
<1>1. /\ link[s0] = "none"
      /\ link' = [link EXCEPT ![s0] = "open"]
      /\ subscribers' = Append(subscribers, s0)
      /\ heard' = [heard EXCEPT ![s0] = done]
      /\ raced' = IF \E e \in Emitters : at[e] = "sending" THEN raced \cup {s0} ELSE raced
      /\ UNCHANGED <<version, others, chan, at, event, todo, active, done>>
  BY DEF Subscribe, emitters
<1>2. subscribers \in Seq(Subs) /\ subscribers' \in Seq(Subs)
  <2>1. subscribers \in Seq(Subs)
    BY DEF FanoutInv, FanoutTypeOK
  <2>. QED  BY <1>1, <2>1
<1>3. Range(subscribers') = Range(subscribers) \cup {s0}
  BY <1>1, <1>2, RangeOfAppend
<1>4. FanoutTypeOK'
  BY <1>1, <1>2 DEF FanoutInv, FanoutTypeOK
<1>5. ASSUME NEW s \in Subs, link'[s] = "open", s \notin raced' PROVE Owed(s)'
  <2>1. CASE s = s0
    <3>1. heard'[s] = done /\ \A e \in Emitters : at[e] # "sending"
      BY <1>1, <1>5, <2>1 DEF FanoutInv, FanoutTypeOK
    <3>. QED  BY <1>1, <1>3, <2>1, <3>1 DEF Owed
  <2>2. CASE s # s0
    <3>1. link[s] = "open" /\ s \notin raced /\ heard'[s] = heard[s]
      BY <1>1, <1>5, <2>2 DEF FanoutInv, FanoutTypeOK
    <3>. QED  BY <1>1, <1>3, <3>1 DEF FanoutInv, Owed
  <2>. QED  BY <2>1, <2>2
<1>. QED  BY <1>4, <1>5 DEF FanoutInv

LEMMA ReceiverInv ==
    ASSUME FanoutInv, NEW s0 \in Subs, Close(s0) \/ Receive(s0)
    PROVE  FanoutInv'
<1>1. UNCHANGED <<version, others, subscribers, at, event, todo, active, heard, done, raced>>
  BY DEF Close, Receive, emitters, history
<1>2. /\ chan' \in [Subs -> Seq(Events)]
      /\ \A s \in Subs : Len(chan'[s]) <= Len(chan[s])
  <2>1. chan[s0] \in Seq(Events) /\ <<>> \in Seq(Events) /\ Len(<<>>) <= Len(chan[s0])
    BY DEF FanoutInv, FanoutTypeOK
  <2>2. CASE Close(s0)
    BY <2>1, <2>2 DEF Close, FanoutInv, FanoutTypeOK
  <2>3. CASE Receive(s0)
    <3>1. chan[s0] # <<>> /\ chan' = [chan EXCEPT ![s0] = Tail(chan[s0])]
      BY <2>3 DEF Receive
    <3>2. Tail(chan[s0]) \in Seq(Events) /\ Len(Tail(chan[s0])) <= Len(chan[s0])
      BY <2>1, <3>1
    <3>. QED  BY <3>1, <3>2 DEF FanoutInv, FanoutTypeOK
  <2>. QED  BY <2>2, <2>3
<1>3. link' \in [Subs -> {"none", "open", "closed"}]
      /\ \A s \in Subs : link'[s] = "open" => link[s] = "open"
  BY DEF Close, Receive, FanoutInv, FanoutTypeOK
<1>4. \A s \in Subs : Len(chan'[s]) <= Capacity[s]
  <2>1. ASSUME NEW s \in Subs PROVE Len(chan'[s]) <= Capacity[s]
    <3>1. Len(chan[s]) \in Nat /\ Len(chan'[s]) \in Nat /\ Capacity[s] \in Nat
      BY <1>2, FanoutAssumption DEF FanoutInv, FanoutTypeOK
    <3>. QED  BY <3>1, <1>2 DEF FanoutInv, FanoutTypeOK
  <2>. QED  BY <2>1
<1>. QED  BY <1>1, <1>2, <1>3, <1>4 DEF FanoutInv, FanoutTypeOK, Owed

LEMMA UntouchedInv ==
    ASSUME FanoutInv,
           UNCHANGED <<version, others, subscribers, chan, link, emitters, heard, done, raced>>
    PROVE  FanoutInv'
BY DEF FanoutInv, FanoutTypeOK, Owed, emitters

LEMMA EmitterStepInv ==
    ASSUME FanoutInv, NEW e \in Emitters, EmitterStep(e)
    PROVE  FanoutInv'
BY SnapshotInv, CloneInv, SendInv, SkipInv, WriteBackInv DEF EmitterStep

LEMMA LoopEndsInv == FanoutInv /\ LoopEnds => FanoutInv'
BY DEF LoopEnds, FanoutInv, FanoutTypeOK, Owed, emitters, history

LEMMA WindowStepInv == FanoutInv /\ WindowStep => FanoutInv'
BY UntouchedInv, LoopEndsInv
   DEF WindowStep, PaintLatest, StartRefresh, RefreshReads, RefreshPaints, history

(***************************************************************************)
(* The front ends.  The command line subscribes when nothing is emitted:   *)
(* no run has been started, and Main has awaited its commands.             *)
(***************************************************************************)
Before == {"ensuring", "logging in", "awaiting", "subscribing"}
Listening == {"starting", "started", "monitoring", "stopping", "stopped", "checking",
              "checked", "printing"}

CliInv ==
    /\ TypeOK
    /\ front = "desktop" <=> step = "none"
    /\ step \in Before => ~engine /\ \A e \in Emitters : at[e] = "idle"
    /\ step \in Listening => link[Rx] = "open"
    /\ Rx \notin raced

\* Main's emission has yet to reach Main, or is in its channel.
OnItsWay ==
    /\ at[Main] \in {"cloning", "sending", "idle"}
    /\ at[Main] = "sending" => Rx \in Range(todo[Main]) \/ chan[Rx] # <<>>
    /\ at[Main] = "idle" => chan[Rx] # <<>>

\* check-update: the release that was found is on its way to Main, or there.
UpdateInv ==
    /\ found => step \in {"checked", "printing", "over"}
    /\ step \in {"checking", "checked", "printing"} => front = "check-update" /\ ~engine
    /\ step = "checking" => at[Main] = "idle"
    /\ step = "checked" => OnItsWay
    /\ found /\ step = "printing" => chan[Rx] # <<>>
    /\ UpdateIsPrinted

FrontInv == FanoutInv /\ CliInv /\ UpdateInv

LEMMA FanoutNextInv == FrontInv /\ [Next]_vars => FanoutInv'
<1> SUFFICES ASSUME FrontInv, [Next]_vars PROVE FanoutInv'
  OBVIOUS
<1> USE DEF FrontInv
<1>0. Main \in Emitters /\ Rx \in Subs /\ Ui \in Subs
  BY FrontEndAssumption, FanoutAssumption DEF Emitters
<1>1. ASSUME NEW e \in Emitters, Emission(e) PROVE FanoutInv'
  BY <1>1, BeginInv DEF Emission
<1>2. ASSUME NEW e \in Emitters, EmissionStep(e) PROVE FanoutInv'
  BY <1>2, EmitterStepInv DEF EmissionStep
<1>3. CASE EventLoop
  BY <1>0, <1>3, ReceiverInv, WindowStepInv DEF EventLoop
<1>4. CASE StartMonitor \/ StopMonitor \/ FindUpdate
  BY <1>0, <1>4, BeginInv DEF StartMonitor, StopMonitor, FindUpdate
<1>5. CASE SubscribeEvents \/ DesktopSubscribes
  BY <1>0, <1>5, SubscribeInv DEF SubscribeEvents, DesktopSubscribes
<1>6. CASE ReadEvent \/ Exit \/ PrintUpdate
  BY <1>0, <1>6, ReceiverInv DEF ReadEvent, Exit, PrintUpdate
<1>7. CASE CommandFails
  BY <1>0, <1>7, ReceiverInv, UntouchedInv DEF CommandFails, fanoutVars, history
<1>8. CASE UNCHANGED fanoutVars
  BY <1>8, UntouchedInv DEF fanoutVars, history
<1>. QED  BY <1>1, <1>2, <1>3, <1>4, <1>5, <1>6, <1>7, <1>8
             DEF Next, MainStep, RefreshSucceeds, NeedsLogin, ShowCode, LoginReturns,
                 Started, DurationPasses, DeadlineSeen, CtrlC, FindNothing, Checked, Rests,
                 vars

(***************************************************************************)
(* What an emission does to the channel of Main, and to Main's own.        *)
(***************************************************************************)
LEMMA NothingIsTaken ==
    ASSUME FanoutInv, NEW e \in Emitters, EmitterStep(e), chan[Rx] # <<>>
    PROVE  chan'[Rx] # <<>>
<1>1. CASE Send(e)
  <2> DEFINE s0 == Head(todo[e])
  <2>1. chan' = [chan EXCEPT ![s0] = Append(chan[s0], event[e])]
    BY <1>1 DEF Send
  <2>2. Rx \in Subs /\ chan[Rx] \in Seq(Events) /\ event[e] \in Events
    BY FrontEndAssumption DEF FanoutInv, FanoutTypeOK
  <2>3. Append(chan[Rx], event[e]) # <<>>
    BY <2>2
  <2>. QED  BY <2>1, <2>2, <2>3 DEF FanoutInv, FanoutTypeOK
<1>2. CASE UNCHANGED chan
  BY <1>2
<1>. QED  BY <1>1, <1>2 DEF EmitterStep, TakeSnapshot, CloneSubscribers, SkipClosed, WriteBack,
                            ReadState, PaintState

LEMMA UpdateGoesOn ==
    ASSUME FanoutInv, link[Rx] = "open", Rx \notin raced, OnItsWay, NEW e \in Emitters, EmitterStep(e)
    PROVE  OnItsWay'
<1>0. Main \in Emitters /\ Main \notin Commands /\ Rx \in Subs
  BY FrontEndAssumption, FanoutAssumption DEF Emitters
<1>1. CASE e # Main
  <2>1. at'[Main] = at[Main] /\ todo'[Main] = todo[Main]
    BY <1>0, <1>1 DEF EmitterStep, TakeSnapshot, CloneSubscribers, Send, SkipClosed, WriteBack,
                      ReadState, PaintState, Goes, FanoutInv, FanoutTypeOK
  <2>. QED  BY <2>1, NothingIsTaken DEF OnItsWay
<1>2. CASE e = Main /\ CloneSubscribers(Main)
  <2>1. todo'[Main] = subscribers /\ at'[Main] = "sending"
    BY <1>0, <1>2 DEF CloneSubscribers, Goes, FanoutInv, FanoutTypeOK
  <2>. QED  BY <1>0, <2>1 DEF OnItsWay, FanoutInv, Owed
<1>3. CASE e = Main /\ (Send(Main) \/ SkipClosed(Main))
  <2>1. /\ at[Main] = "sending" /\ at' = at /\ todo[Main] # <<>>
        /\ todo[Main] \in Seq(Subs) /\ todo'[Main] = Tail(todo[Main])
    BY <1>0, <1>3 DEF Send, SkipClosed, FanoutInv, FanoutTypeOK
  <2>2. Range(todo[Main]) \subseteq {Head(todo[Main])} \cup Range(todo'[Main])
    BY <2>1, RangeOfTail
  <2>3. CASE Rx = Head(todo[Main])
    <3>1. chan' = [chan EXCEPT ![Rx] = Append(chan[Rx], event[Main])]
      BY <1>3, <2>3 DEF Send, SkipClosed
    <3>2. chan[Rx] \in Seq(Events) /\ event[Main] \in Events
      BY <1>0 DEF FanoutInv, FanoutTypeOK
    <3>3. Append(chan[Rx], event[Main]) # <<>>
      BY <3>2
    <3>. QED  BY <1>0, <2>1, <3>1, <3>3 DEF OnItsWay, FanoutInv, FanoutTypeOK
  <2>4. CASE Rx # Head(todo[Main])
    BY <1>0, <1>3, <2>1, <2>2, <2>4, NothingIsTaken DEF OnItsWay, EmitterStep
  <2>. QED  BY <2>3, <2>4
<1>4. CASE e = Main /\ WriteBack(Main)
  <2>1. Rx \notin Range(todo[Main]) /\ chan' = chan /\ at'[Main] = "idle" /\ at[Main] = "sending"
    BY <1>0, <1>4 DEF WriteBack, Goes, FanoutInv, FanoutTypeOK, Range
  <2>. QED  BY <2>1 DEF OnItsWay
<1>5. CASE e = Main /\ (TakeSnapshot(Main) \/ ReadState(Main) \/ PaintState(Main))
  BY <1>5 DEF TakeSnapshot, ReadState, PaintState, OnItsWay
<1>. QED  BY <1>1, <1>2, <1>3, <1>4, <1>5 DEF EmitterStep

(***************************************************************************)
(* Steps of Main, and steps in which it has no part.                       *)
(***************************************************************************)
MainActs ==
    MainStep \/ DurationPasses \/ DeadlineSeen \/ CtrlC

LEMMA OthersInv ==
    ASSUME FrontInv, [Next]_vars, ~MainActs, FanoutInv'
    PROVE  CliInv' /\ UpdateInv'
<1> USE DEF FrontInv
<1>1. UNCHANGED <<front, cliVars>>
  BY DEF Next, MainActs, Emission, EmissionStep, EventLoop, DesktopSubscribes, Rests, vars
<1>2. TypeOK'
  BY <1>1 DEF FanoutInv, CliInv, TypeOK, cliVars
<1>3. link'[Rx] = link[Rx] /\ (Rx \in raced' => Rx \in raced)
  <2>1. Rx # Ui /\ Rx \in Subs
    BY FrontEndAssumption
  <2>. QED  BY <2>1
     DEF Next, MainActs, Emission, EmissionStep, EventLoop, DesktopSubscribes, Subscribe, Rests,
         vars, fanoutVars, history, Change, EmitOther, EmitterStep, TakeSnapshot,
         CloneSubscribers, Send, SkipClosed, WriteBack, ReadState, PaintState, Receive,
         WindowStep, PaintLatest, StartRefresh, RefreshReads, RefreshPaints, LoopEnds,
         FanoutInv, FanoutTypeOK
<1>4. CASE UNCHANGED <<chan, at, todo>>
  BY <1>1, <1>2, <1>3, <1>4
     DEF OnItsWay, CliInv, UpdateInv, UpdateIsPrinted, cliVars
<1>5. ASSUME NEW e \in Emitters, Emission(e) PROVE CliInv' /\ UpdateInv'
  <2>1. step \notin Before /\ step \notin {"checking", "checked", "printing"}
    BY <1>5 DEF Emission, MayEmit, CliInv, UpdateInv, Before
  <2>. QED  BY <1>1, <1>2, <1>3, <2>1
               DEF CliInv, UpdateInv, UpdateIsPrinted, cliVars
<1>6. ASSUME NEW e \in Emitters, EmissionStep(e) PROVE CliInv' /\ UpdateInv'
  <2>1. at[e] # "idle" /\ step \notin Before /\ EmitterStep(e)
    BY <1>6 DEF EmissionStep, EmitterStep, TakeSnapshot, CloneSubscribers, Send, SkipClosed,
                WriteBack, ReadState, PaintState, CliInv
  <2>2. CliInv'
    BY <1>1, <1>2, <1>3, <2>1 DEF CliInv, cliVars
  <2>3. step = "checking" => at'[Main] = "idle"
    <3>1. Main \in Emitters
      BY FrontEndAssumption DEF Emitters
    <3>. QED  BY <2>1, <3>1 DEF UpdateInv, EmitterStep, TakeSnapshot, CloneSubscribers, Send,
                 SkipClosed, WriteBack, ReadState, PaintState, Goes, FanoutInv, FanoutTypeOK
  <2>4. step = "checked" => OnItsWay'
    BY <2>1, UpdateGoesOn DEF UpdateInv, CliInv, Listening
  <2>5. chan[Rx] # <<>> => chan'[Rx] # <<>>
    BY <2>1, NothingIsTaken
  <2>. QED  BY <1>1, <2>2, <2>3, <2>4, <2>5 DEF UpdateInv, UpdateIsPrinted, cliVars
<1>7. CASE EventLoop
  <2>1. UNCHANGED <<at, todo>> /\ chan'[Rx] = chan[Rx]
    BY <1>7, FrontEndAssumption
       DEF EventLoop, Receive, WindowStep, PaintLatest, StartRefresh, RefreshReads,
           RefreshPaints, LoopEnds, emitters, FanoutInv, FanoutTypeOK
  <2>. QED  BY <1>1, <1>2, <1>3, <2>1
               DEF CliInv, UpdateInv, UpdateIsPrinted, OnItsWay, cliVars
<1>8. CASE DesktopSubscribes
  BY <1>4, <1>8 DEF DesktopSubscribes, Subscribe, emitters
<1>. QED  BY <1>4, <1>5, <1>6, <1>7, <1>8 DEF Next, MainActs, Rests, vars, fanoutVars, emitters

LEMMA OrderOfParts ==
    /\ Order.login = "subscribing" /\ Order.start = "monitoring" /\ Order.check = "printing"
    /\ Order.begin \in {"ensuring", "subscribing"}
    /\ Order.subscribe \in {"starting", "checking"}
    /\ Order.subscribe = "checking" <=> front # "monitor"
BY DEF Order

LEMMA MainInv ==
    ASSUME FrontInv, MainActs, FanoutInv'
    PROVE  CliInv' /\ UpdateInv'
<1> USE DEF FrontInv
<1>0. Main \in Emitters /\ Rx \in Subs /\ front' = front /\ front # "desktop"
  <2>1. front' = front
    BY DEF MainActs, MainStep, RefreshSucceeds, NeedsLogin, ShowCode, LoginReturns, CommandFails,
           SubscribeEvents, StartMonitor, Started, ReadEvent, StopMonitor, Exit, FindUpdate,
           FindNothing, Checked, PrintUpdate, DurationPasses, DeadlineSeen, CtrlC
  <2>2. step # "none"
    BY DEF MainActs, MainStep, RefreshSucceeds, NeedsLogin, ShowCode, LoginReturns, CommandFails,
           SubscribeEvents, StartMonitor, Started, ReadEvent, StopMonitor, Exit, FindUpdate,
           FindNothing, Checked, PrintUpdate, DurationPasses, DeadlineSeen, CtrlC
  <2>. QED  BY <2>1, <2>2, FrontEndAssumption DEF Emitters, CliInv
<1> USE <1>0
<1>1. CASE RefreshSucceeds \/ NeedsLogin \/ ShowCode \/ LoginReturns
  <2>1. /\ step \in Before /\ step' \in Before /\ ~found
        /\ UNCHANGED <<fanoutVars, front, engine, timer, found, printed>>
        /\ auth' \in {"LoggedOut", "LoggedIn", "WaitingQrScan", "Failed"}
    BY <1>1, OrderOfParts DEF RefreshSucceeds, NeedsLogin, ShowCode, LoginReturns, Before,
                              UpdateInv, CliInv, TypeOK
  <2>2. TypeOK'
    BY <2>1 DEF TypeOK, CliInv, FanoutInv, MainSteps, Before
  <2>. QED  BY <2>1, <2>2 DEF CliInv, UpdateInv, UpdateIsPrinted, Before, Listening, fanoutVars,
                              emitters, history
<1>2. CASE CommandFails
  BY <1>2 DEF CommandFails, Close, CliInv, UpdateInv,
              UpdateIsPrinted, TypeOK, MainSteps, Before, Listening, FanoutInv, fanoutVars,
              emitters, history
<1>3. CASE SubscribeEvents
  <2>1. /\ step = "subscribing" /\ step' \in {"starting", "checking"} /\ ~found /\ ~engine
        /\ step' = "checking" => front = "check-update"
        /\ UNCHANGED <<front, auth, engine, timer, found, printed, at>>
        /\ at[Main] = "idle"
    BY <1>3, OrderOfParts DEF SubscribeEvents, Subscribe, emitters, UpdateInv, CliInv, TypeOK,
                              Before, Fronts
  <2>2. TypeOK'
    BY <2>1 DEF TypeOK, CliInv, FanoutInv, MainSteps
  <2>3. link'[Rx] = "open" /\ raced' = raced
    <3>1. \A e \in Emitters : at[e] # "sending"
      BY <2>1 DEF CliInv, Before
    <3>. QED  BY <1>3, <3>1 DEF SubscribeEvents, Subscribe, FanoutInv, FanoutTypeOK
  <2>. QED  BY <2>1, <2>2, <2>3 DEF CliInv, UpdateInv, UpdateIsPrinted, Before, Listening
<1>4. CASE StartMonitor
  BY <1>4 DEF StartMonitor, Change, CliInv, UpdateInv, UpdateIsPrinted, TypeOK, MainSteps,
              Before, Listening, FanoutInv
<1>5. CASE Started \/ DurationPasses \/ DeadlineSeen \/ CtrlC
  <2>1. /\ step \in {"started", "monitoring"} /\ step' \in {"monitoring", "stopping"}
        /\ UNCHANGED <<fanoutVars, front, auth, engine, found, printed>>
        /\ timer' \in {"none", "set", "due"}
    BY <1>5, OrderOfParts DEF Started, DurationPasses, DeadlineSeen, CtrlC, CliInv, TypeOK
  <2>2. TypeOK' /\ ~found
    BY <2>1 DEF TypeOK, CliInv, UpdateInv, FanoutInv, MainSteps
  <2>. QED  BY <2>1, <2>2 DEF CliInv, UpdateInv, UpdateIsPrinted, Before, Listening, fanoutVars,
                              history
<1>6. CASE ReadEvent
  BY <1>6 DEF ReadEvent, Receive, cliVars, CliInv, UpdateInv,
              UpdateIsPrinted, TypeOK, Before, Listening, FanoutInv, history
<1>7. CASE StopMonitor \/ Exit
  <2>1. /\ step \in {"stopping", "stopped"} /\ step' \in {"stopped", "over"}
        /\ step' = "stopped" => link' = link
        /\ UNCHANGED <<front, auth, engine, timer, found, printed, raced>>
    BY <1>7 DEF StopMonitor, Exit, Change, Close, history
  <2>2. TypeOK' /\ ~found
    BY <2>1 DEF TypeOK, CliInv, UpdateInv, FanoutInv, MainSteps
  <2>. QED  BY <2>1, <2>2 DEF CliInv, UpdateInv, UpdateIsPrinted, Before, Listening
<1>8. CASE FindUpdate
  <2>1. at'[Main] = "cloning"
    BY <1>8 DEF FindUpdate, EmitOther, Emits, Goes, FanoutInv, FanoutTypeOK
  <2>. QED  BY <1>8, <2>1 DEF FindUpdate, EmitOther, OnItsWay, CliInv, UpdateInv, UpdateIsPrinted,
                   TypeOK, MainSteps, Before, Listening, FanoutInv
<1>9. CASE FindNothing \/ Checked
  <2>1. /\ step \in {"checking", "checked"} /\ step' = "printing"
        /\ UNCHANGED <<fanoutVars, front, auth, engine, timer, found, printed>>
        /\ step = "checked" => at[Main] = "idle"
    BY <1>9, OrderOfParts DEF FindNothing, Checked
  <2>2. TypeOK' /\ (found => step = "checked")
    BY <2>1 DEF TypeOK, CliInv, UpdateInv, FanoutInv, MainSteps
  <2>. QED  BY <2>1, <2>2 DEF CliInv, UpdateInv, UpdateIsPrinted, OnItsWay, Before, Listening,
                              fanoutVars, history
<1>10. CASE PrintUpdate
  BY <1>10 DEF PrintUpdate, Close, CliInv, UpdateInv,
              UpdateIsPrinted, TypeOK, MainSteps, Before, Listening, FanoutInv, history
<1>. QED  BY <1>1, <1>2, <1>3, <1>4, <1>5, <1>6, <1>7, <1>8, <1>9, <1>10 DEF MainActs, MainStep

LEMMA FrontInit == Init => FrontInv
<1> SUFFICES ASSUME Init PROVE FrontInv
  OBVIOUS
<1>1. PICK first \in {"asked", "idle"} : FanoutInit(first)
  BY DEF Init
<1>2. Main \in Emitters /\ Rx \in Subs
  BY FrontEndAssumption DEF Emitters
<1>3. FanoutTypeOK
  <2>1. <<>> \in Seq(Subs) /\ <<>> \in Seq(Events) /\ Len(<<>>) = 0
    OBVIOUS
  <2>2. \A s \in Subs : 0 <= Capacity[s]
    BY FanoutAssumption
  <2>3. [snap |-> None, id |-> 0] \in Events
    BY DEF Events, None
  <2>. QED  BY <1>1, <2>1, <2>2, <2>3 DEF FanoutInit, FanoutTypeOK, Steps
<1>4. FanoutInv
  BY <1>1, <1>3 DEF FanoutInit, FanoutInv
<1>5. TypeOK
  BY <1>3 DEF Init, TypeOK, Order, MainSteps
<1>6. CliInv
  BY <1>1, <1>2, <1>5 DEF Init, FanoutInit, CliInv, Before, Listening, Order, Fronts
<1>7. UpdateInv
  BY <1>1 DEF Init, UpdateInv, UpdateIsPrinted, Order
<1>. QED  BY <1>4, <1>6, <1>7 DEF FrontInv

(***************************************************************************)
(* The inductive invariant: the emissions' debts to whoever has safely     *)
(* subscribed and listens, a command line that subscribes before there is  *)
(* anything to hear, and the way of an update to Main.                     *)
(***************************************************************************)
THEOREM FrontEndsAreSafe == Spec => []FrontInv
<1>1. FrontInv /\ [Next]_vars => FrontInv'
  <2> SUFFICES ASSUME FrontInv, [Next]_vars PROVE FrontInv'
    OBVIOUS
  <2>1. FanoutInv'
    BY FanoutNextInv
  <2>. QED  BY <2>1, OthersInv, MainInv DEF FrontInv
<1>. QED  BY <1>1, FrontInit, PTL DEF Spec

(***************************************************************************)
(* An emission that is over has been sent to everyone who had safely       *)
(* subscribed and still listens, for any number of emissions at once.      *)
(***************************************************************************)
THEOREM EmissionsAreHeard == Spec => []EveryEmissionHeard
<1>1. FrontInv => EveryEmissionHeard
  BY DEF FrontInv, FanoutInv, CliInv, Owed, Safe, EveryEmissionHeard
<1>. QED  BY <1>1, FrontEndsAreSafe, PTL

(***************************************************************************)
(* No subscriber that listens drops out of the list, whichever emission    *)
(* writes its copy back last: the command line never, the desktop unless   *)
(* an emission had its copy of the list when it subscribed.                *)
(***************************************************************************)
THEOREM SubscribersStay == Spec => []SubscribersKept
<1>1. FrontInv => SubscribersKept
  BY DEF FrontInv, FanoutInv, CliInv, Owed, Safe, SubscribersKept
<1>. QED  BY <1>1, FrontEndsAreSafe, PTL

(***************************************************************************)
(* check-update prints the release that it has been told of.               *)
(***************************************************************************)
THEOREM UpdatesArePrinted == Spec => []UpdateIsPrinted
<1>1. FrontInv => UpdateIsPrinted
  BY DEF FrontInv, UpdateInv
<1>. QED  BY <1>1, FrontEndsAreSafe, PTL

(***************************************************************************)
(* The front ends and the emissions keep to their types; no channel holds  *)
(* more than its places.                                                   *)
(***************************************************************************)
THEOREM FrontTypesHold == Spec => []TypeOK
<1>1. FrontInv => TypeOK
  BY DEF FrontInv, CliInv
<1>. QED  BY <1>1, FrontEndsAreSafe, PTL

(***************************************************************************)
(* The window of the desktop.  Once a change has begun alone, and while    *)
(* emissions do not overlap again, the newest snapshot that is on its way  *)
(* is that of the state, whatever older ones are before it: it is with     *)
(* the emission under way, or last in the window's channel, or held by the *)
(* event loop; and if there is none, the window shows the state, or a      *)
(* refresh is about to paint it.  A subscription that met an emission is   *)
(* another matter.                                                         *)
(***************************************************************************)
Carries(e) ==
    \/ at[e] = "snapping"
    \/ /\ at[e] = "cloning" \/ (at[e] = "sending" /\ Ui \in Range(todo[e]))
       /\ event[e].snap # None

Bare(q) == \A i \in DOMAIN q : q[i].snap = None

\* The last snapshot in a channel, if it has one, is v.
EndsWith(q, v) ==
    \A i \in DOMAIN q :
        q[i].snap # None /\ (\A j \in DOMAIN q : j > i => q[j].snap = None)
            => q[i].snap = v

OneAtATime == \A d, e \in Emitters : at[d] # "idle" /\ at[e] # "idle" => d = e

CopiesAreOfState ==
    /\ \A e \in Emitters :
          /\ at[e] \in {"cloning", "sending"} => event[e].snap \in {None, version}
          /\ at[e] = "painting" => event[e].snap = version
    /\ query.at = "read" => query.snap = version

NewestIsState ==
    (\A e \in Emitters : ~Carries(e)) =>
        /\ EndsWith(chan[Ui], version)
        /\ Bare(chan[Ui]) => IF latest = None THEN shown = version \/ query.at # "idle"
                                               ELSE latest = version

\* Nothing with a snapshot is emitted before the window has subscribed.
NothingMissed ==
    link[Ui] = "none" => \A e \in Emitters :
        at[e] # "snapping" /\ (at[e] = "cloning" => event[e].snap = None)

WindowTypeOK ==
    /\ version # None
    /\ latest # None => dirty
    /\ query \in [at : {"idle", "asked", "read"}, snap : Nat]

DesktopInv ==
    /\ WindowTypeOK
    /\ Ui \notin raced => link[Ui] # "closed"
    /\ ~overlapped /\ Ui \notin raced =>
          OneAtATime /\ CopiesAreOfState /\ NewestIsState /\ NothingMissed

WindowInv == front = "desktop" => DesktopInv

LEMMA SentBare ==
    ASSUME NEW q \in Seq(Events), NEW x \in Events, x.snap = None, NEW v
    PROVE  /\ EndsWith(q, v) => EndsWith(Append(q, x), v)
           /\ Bare(Append(q, x)) => Bare(q)
<1>1. /\ DOMAIN q = 1 .. Len(q) /\ DOMAIN Append(q, x) = 1 .. Len(q) + 1 /\ Len(q) \in Nat
      /\ \A i \in 1 .. Len(q) : Append(q, x)[i] = q[i]
      /\ Append(q, x)[Len(q) + 1] = x
  OBVIOUS
<1> DEFINE r == Append(q, x)
<1> HIDE DEF r
<1>2. ASSUME EndsWith(q, v), NEW i \in DOMAIN r, r[i].snap # None,
             \A j \in DOMAIN r : j > i => r[j].snap = None
      PROVE  r[i].snap = v
  <2>1. i \in DOMAIN q /\ r[i] = q[i]
    BY <1>1, <1>2 DEF r
  <2>2. \A j \in DOMAIN q : j > i => q[j].snap = None
    BY <1>1, <1>2 DEF r
  <2>. QED  BY <1>2, <2>1, <2>2 DEF EndsWith
<1>3. Bare(r) => Bare(q)
  BY <1>1 DEF Bare, r
<1>. QED  BY <1>2, <1>3 DEF EndsWith, r

LEMMA SentSnapshot ==
    ASSUME NEW q \in Seq(Events), NEW x \in Events, x.snap # None
    PROVE  EndsWith(Append(q, x), x.snap) /\ ~Bare(Append(q, x))
<1>1. /\ DOMAIN Append(q, x) = 1 .. Len(q) + 1 /\ Len(q) \in Nat
      /\ Append(q, x)[Len(q) + 1] = x
  OBVIOUS
<1> DEFINE r == Append(q, x)
<1> HIDE DEF r
<1>2. ASSUME NEW i \in DOMAIN r, \A j \in DOMAIN r : j > i => r[j].snap = None
      PROVE  r[i].snap = x.snap
  BY <1>1, <1>2 DEF r
<1>3. ~Bare(r)
  BY <1>1 DEF Bare, r
<1>. QED  BY <1>2, <1>3 DEF EndsWith, r

LEMMA TakenFirst ==
    ASSUME NEW q \in Seq(Events), q # <<>>, NEW v, EndsWith(q, v)
    PROVE  /\ EndsWith(Tail(q), v)
           /\ Bare(Tail(q)) /\ Head(q).snap = None => Bare(q)
           /\ Bare(Tail(q)) /\ Head(q).snap # None => Head(q).snap = v
<1>1. /\ DOMAIN q = 1 .. Len(q) /\ DOMAIN Tail(q) = 1 .. Len(q) - 1 /\ Len(q) \in Nat \ {0}
      /\ \A i \in 1 .. Len(q) - 1 : Tail(q)[i] = q[i + 1]
      /\ Head(q) = q[1]
  OBVIOUS
<1> DEFINE r == Tail(q)
<1> HIDE DEF r
<1>2. \A i \in DOMAIN q : i > 1 => i - 1 \in DOMAIN r /\ r[i - 1] = q[i]
  BY <1>1 DEF r
<1>3. ASSUME NEW i \in DOMAIN r, r[i].snap # None,
             \A j \in DOMAIN r : j > i => r[j].snap = None
      PROVE  r[i].snap = v
  <2>1. i + 1 \in DOMAIN q /\ r[i] = q[i + 1]
    BY <1>1 DEF r
  <2>2. ASSUME NEW j \in DOMAIN q, j > i + 1 PROVE q[j].snap = None
    <3>1. j > 1 /\ j - 1 > i
      BY <1>1, <2>2 DEF r
    <3>. QED  BY <1>2, <1>3, <3>1
  <2>. QED  BY <1>3, <2>1, <2>2 DEF EndsWith
<1>4. ASSUME Bare(r), Head(q).snap = None PROVE Bare(q)
  BY <1>1, <1>2, <1>4 DEF Bare
<1>5. ASSUME Bare(r), Head(q).snap # None PROVE Head(q).snap = v
  <2>1. 1 \in DOMAIN q /\ \A j \in DOMAIN q : j > 1 => q[j].snap = None
    BY <1>1, <1>2, <1>5 DEF Bare
  <2>. QED  BY <1>1, <1>5, <2>1 DEF EndsWith
<1>. QED  BY <1>3, <1>4, <1>5 DEF EndsWith, r

LEMMA WindowBegins ==
    ASSUME FanoutInv, DesktopInv, NEW e \in Emitters, Change(e) \/ EmitOther(e)
    PROVE  DesktopInv'
<1>1. /\ at[e] = "idle" /\ at'[e] \in {"snapping", "cloning"}
      /\ \A d \in Emitters \ {e} : at'[d] = at[d]
      /\ UNCHANGED <<link, chan, todo, latest, dirty, query, shown, raced>>
  BY DEF Change, EmitOther, Emits, Goes, FanoutInv, FanoutTypeOK, window
<1>2. event'[e].snap = None /\ \A d \in Emitters \ {e} : event'[d] = event[d]
  <2>1. event' = [event EXCEPT ![e] = [snap |-> None, id |-> version + others]]
    BY DEF Change, EmitOther, Emits
  <2>. QED  BY <2>1 DEF FanoutInv, FanoutTypeOK
<1>3. WindowTypeOK'
  <2>1. version' \in {version, version + 1} /\ version \in Nat /\ version # 0
    BY DEF Change, EmitOther, FanoutInv, FanoutTypeOK, DesktopInv, WindowTypeOK, None
  <2>2. version' # 0
    BY <2>1
  <2>. QED  BY <1>1, <2>2 DEF DesktopInv, WindowTypeOK, None
<1>4. ASSUME ~overlapped', Ui \notin raced'
      PROVE  OneAtATime' /\ CopiesAreOfState' /\ NewestIsState' /\ NothingMissed'
  <2>1. query.at = "idle" /\ \A d \in Emitters : at[d] = "idle"
    BY <1>4 DEF Change, EmitOther, Busy
  <2>2. OneAtATime'
    BY <1>1, <2>1 DEF OneAtATime
  <2>3. CopiesAreOfState'
    BY <1>1, <1>2, <2>1 DEF CopiesAreOfState
  <2>6. NothingMissed'
    BY <1>1, <1>2, <1>4, <2>1 DEF NothingMissed, Change, EmitOther, Emits, Goes, FanoutInv,
                                  FanoutTypeOK
  <2>4. CASE Change(e)
    <3>1. Carries(e)'
      BY <2>4 DEF Change, Emits, Goes, Carries, FanoutInv, FanoutTypeOK
    <3>. QED  BY <2>2, <2>3, <2>6, <3>1 DEF NewestIsState
  <2>5. CASE EmitOther(e)
    <3>1. version' = version
      BY <2>5 DEF EmitOther
    <3>2. \A d \in Emitters : ~Carries(d)
      BY <2>1 DEF Carries
    <3>3. NewestIsState
      BY <1>1, <1>4, <2>5 DEF EmitOther, DesktopInv
    <3>. QED  BY <1>1, <2>2, <2>3, <2>6, <3>1, <3>2, <3>3 DEF NewestIsState
  <2>. QED  BY <2>4, <2>5
<1>. QED  BY <1>1, <1>3, <1>4 DEF DesktopInv

LEMMA WindowCopies ==
    ASSUME FanoutInv, DesktopInv, NEW e \in Emitters,
           TakeSnapshot(e) \/ ReadState(e) \/ PaintState(e) \/ CloneSubscribers(e)
           \/ WriteBack(e)
    PROVE  DesktopInv'
<1>1. /\ at[e] # "idle"
      /\ \A d \in Emitters \ {e} :
            at'[d] = at[d] /\ event'[d] = event[d] /\ todo'[d] = todo[d]
      /\ UNCHANGED <<version, link, chan, latest, dirty, query, raced, overlapped>>
  BY DEF TakeSnapshot, ReadState, PaintState, CloneSubscribers, WriteBack, Goes, FanoutInv,
         FanoutTypeOK, window, history
<1>2. WindowTypeOK' /\ version # None
  BY <1>1 DEF DesktopInv, WindowTypeOK
<1>3. ASSUME ~overlapped', Ui \notin raced'
      PROVE  OneAtATime' /\ CopiesAreOfState' /\ NewestIsState' /\ NothingMissed'
  <2>1. OneAtATime /\ CopiesAreOfState /\ NewestIsState /\ NothingMissed
    BY <1>1, <1>3 DEF DesktopInv
  <2>2. OneAtATime' /\ NothingMissed'
    <3>1. OneAtATime'
      BY <1>1, <2>1 DEF OneAtATime
    <3>2. link[Ui] = "none" => at[e] # "snapping" /\ at'[e] \notin {"snapping", "cloning"}
      BY <2>1 DEF NothingMissed, TakeSnapshot, ReadState, PaintState, CloneSubscribers,
                  WriteBack, Goes, FanoutInv, FanoutTypeOK
    <3>. QED  BY <1>1, <2>1, <3>1, <3>2 DEF NothingMissed
  <2>3. CASE TakeSnapshot(e)
    <3>1. at'[e] = "cloning" /\ event'[e].snap = version /\ shown' = shown
      BY <2>3 DEF TakeSnapshot, Goes, FanoutInv, FanoutTypeOK, Events, window
    <3>2. Carries(e)'
      BY <1>2, <3>1 DEF Carries
    <3>. QED  BY <1>1, <2>1, <2>2, <3>1, <3>2 DEF CopiesAreOfState, NewestIsState
  <2>4. CASE ReadState(e)
    <3>1. at[e] = "reading" /\ at'[e] = "painting" /\ event'[e].snap = version /\ shown' = shown
      BY <2>4 DEF ReadState, Goes, FanoutInv, FanoutTypeOK, Events, window
    <3>2. ~Carries(e)
      BY <3>1 DEF Carries
    <3>3. (\A d \in Emitters : ~Carries(d)') => \A d \in Emitters : ~Carries(d)
      BY <1>1, <3>2 DEF Carries
    <3>. QED  BY <1>1, <2>1, <2>2, <3>1, <3>3 DEF CopiesAreOfState, NewestIsState
  <2>5. CASE PaintState(e)
    <3>1. at[e] = "painting" /\ at'[e] = "idle" /\ event' = event /\ shown' = version
      BY <2>1, <2>5 DEF PaintState, Goes, FanoutInv, FanoutTypeOK, CopiesAreOfState
    <3>2. ~Carries(e)
      BY <3>1 DEF Carries
    <3>3. (\A d \in Emitters : ~Carries(d)') => \A d \in Emitters : ~Carries(d)
      BY <1>1, <3>2 DEF Carries
    <3>. QED  BY <1>1, <2>1, <2>2, <3>1, <3>3 DEF CopiesAreOfState, NewestIsState
  <2>6. CASE CloneSubscribers(e)
    <3>1. /\ at[e] = "cloning" /\ at'[e] = "sending" /\ event' = event /\ shown' = shown
          /\ todo'[e] = subscribers
      BY <2>6 DEF CloneSubscribers, Goes, FanoutInv, FanoutTypeOK, window
    <3>2. Ui \in Range(subscribers) \/ event[e].snap = None
      <4>1. link[Ui] \in {"none", "open"} /\ Ui \in Subs /\ Ui \notin raced
        BY <1>1, <1>3, FanoutAssumption DEF DesktopInv, FanoutInv, FanoutTypeOK
      <4>2. CASE link[Ui] = "open"
        BY <4>1, <4>2 DEF FanoutInv, Owed
      <4>3. CASE link[Ui] = "none"
        BY <2>1, <3>1, <4>3 DEF NothingMissed
      <4>. QED  BY <4>1, <4>2, <4>3
    <3>3. (\A d \in Emitters : ~Carries(d)') => \A d \in Emitters : ~Carries(d)
      BY <1>1, <3>1, <3>2 DEF Carries
    <3>. QED  BY <1>1, <2>1, <2>2, <3>1, <3>3 DEF CopiesAreOfState, NewestIsState
  <2>7. CASE WriteBack(e)
    <3>1. /\ at[e] = "sending" /\ at'[e] \in {"idle", "reading"} /\ event' = event
          /\ shown' = shown /\ todo[e] = <<>>
      BY <2>7 DEF WriteBack, Goes, FanoutInv, FanoutTypeOK, window
    <3>2. ~Carries(e)
      BY <3>1 DEF Carries, Range
    <3>3. (\A d \in Emitters : ~Carries(d)') => \A d \in Emitters : ~Carries(d)
      BY <1>1, <3>2 DEF Carries
    <3>. QED  BY <1>1, <2>1, <2>2, <3>1, <3>3 DEF CopiesAreOfState, NewestIsState
  <2>. QED  BY <2>3, <2>4, <2>5, <2>6, <2>7
<1>. QED  BY <1>1, <1>2, <1>3 DEF DesktopInv

LEMMA WindowIsSent ==
    ASSUME FanoutInv, DesktopInv, NEW e \in Emitters, Send(e) \/ SkipClosed(e)
    PROVE  DesktopInv'
<1> DEFINE s0 == Head(todo[e])
<1>1. /\ at[e] = "sending" /\ todo[e] # <<>> /\ todo' = [todo EXCEPT ![e] = Tail(todo[e])]
      /\ UNCHANGED <<version, link, at, event, latest, dirty, query, shown, raced, overlapped>>
  BY DEF Send, SkipClosed, window, history
<1>2. todo[e] \in Seq(Subs) /\ todo'[e] = Tail(todo[e]) /\ s0 \in Subs /\ Ui \in Subs
      /\ \A d \in Emitters \ {e} : todo'[d] = todo[d]
  <2>1. todo[e] \in Seq(Subs)
    BY DEF FanoutInv, FanoutTypeOK
  <2>. QED  BY <1>1, <2>1, FanoutAssumption DEF FanoutInv, FanoutTypeOK
<1>3. Range(todo[e]) \subseteq {s0} \cup Range(todo'[e])
  BY <1>1, <1>2, RangeOfTail
<1>4. SkipClosed(e) => (Ui \notin raced => s0 # Ui) /\ chan' = chan
  BY DEF SkipClosed, DesktopInv
<1>5. Send(e) => chan' = [chan EXCEPT ![s0] = Append(chan[s0], event[e])]
  BY DEF Send
<1> HIDE DEF s0
<1>6. WindowTypeOK' /\ version # None
  BY <1>1 DEF DesktopInv, WindowTypeOK
<1>7. ASSUME ~overlapped', Ui \notin raced'
      PROVE  OneAtATime' /\ CopiesAreOfState' /\ NewestIsState' /\ NothingMissed'
  <2>1. OneAtATime /\ CopiesAreOfState /\ NewestIsState /\ NothingMissed
    BY <1>1, <1>7 DEF DesktopInv
  <2>2. OneAtATime' /\ CopiesAreOfState' /\ NothingMissed'
    BY <1>1, <2>1 DEF OneAtATime, CopiesAreOfState, NothingMissed
  <2>3. CASE s0 # Ui
    <3>1. chan'[Ui] = chan[Ui]
      BY <1>2, <1>4, <1>5, <2>3 DEF FanoutInv, FanoutTypeOK
    <3>2. (\A d \in Emitters : ~Carries(d)') => \A d \in Emitters : ~Carries(d)
      BY <1>1, <1>2, <1>3, <2>3 DEF Carries
    <3>. QED  BY <1>1, <2>1, <2>2, <3>1, <3>2 DEF NewestIsState
  <2>4. CASE s0 = Ui
    <3>1. chan[Ui] \in Seq(Events) /\ event[e] \in Events
      BY <1>2 DEF FanoutInv, FanoutTypeOK
    <3>2. chan'[Ui] = Append(chan[Ui], event[e])
      BY <1>1, <1>2, <1>4, <1>5, <1>7, <2>4 DEF FanoutInv, FanoutTypeOK
    <3>3. CASE event[e].snap = None
      <4>1. (\A d \in Emitters : ~Carries(d)') => \A d \in Emitters : ~Carries(d)
        BY <1>1, <1>2, <3>3 DEF Carries
      <4>2. /\ EndsWith(chan[Ui], version) => EndsWith(chan'[Ui], version)
            /\ Bare(chan'[Ui]) => Bare(chan[Ui])
        BY <3>1, <3>2, <3>3, SentBare
      <4>. QED  BY <1>1, <2>1, <2>2, <4>1, <4>2 DEF NewestIsState
    <3>4. CASE event[e].snap # None
      <4>1. event[e].snap = version
        BY <1>1, <2>1, <3>4 DEF CopiesAreOfState
      <4>2. EndsWith(chan'[Ui], version) /\ ~Bare(chan'[Ui])
        BY <3>1, <3>2, <3>4, <4>1, SentSnapshot
      <4>. QED  BY <1>1, <2>2, <4>2 DEF NewestIsState
    <3>. QED  BY <3>3, <3>4
  <2>. QED  BY <2>3, <2>4
<1>. QED  BY <1>1, <1>6, <1>7 DEF DesktopInv

LEMMA WindowFollows ==
    ASSUME FanoutInv, DesktopInv, Receive(Ui) \/ WindowStep
    PROVE  DesktopInv'
<1>1. UNCHANGED <<version, at, event, todo, raced, overlapped>>
  BY DEF Receive, WindowStep, PaintLatest, StartRefresh, RefreshReads, RefreshPaints, LoopEnds,
         emitters, history
<1>4. Ui \notin raced => ~LoopEnds /\ link' = link
  <2>1. Ui \notin raced => ~LoopEnds
    BY FanoutAssumption DEF LoopEnds, FanoutInv, Owed
  <2>. QED  BY <2>1 DEF Receive, WindowStep, PaintLatest, StartRefresh, RefreshReads,
                        RefreshPaints
<1>2. WindowTypeOK'
  <2>1. version \in Nat /\ None \in Nat /\ WindowTypeOK
    BY DEF FanoutInv, FanoutTypeOK, None, DesktopInv
  <2>. QED  BY <1>1, <2>1 DEF Receive, WindowStep, PaintLatest, StartRefresh, RefreshReads,
                              RefreshPaints, LoopEnds, WindowTypeOK
<1>3. ASSUME ~overlapped', Ui \notin raced'
      PROVE  OneAtATime' /\ CopiesAreOfState' /\ NewestIsState' /\ NothingMissed'
  <2>1. OneAtATime /\ CopiesAreOfState /\ NewestIsState /\ NothingMissed
    BY <1>1, <1>3 DEF DesktopInv
  <2>2. OneAtATime' /\ NothingMissed' /\ ~LoopEnds
    BY <1>1, <1>3, <1>4, <2>1 DEF OneAtATime, NothingMissed
  <2>3. CopiesAreOfState'
    BY <1>1, <2>1, <2>2 DEF DesktopInv, WindowTypeOK, CopiesAreOfState, Receive, WindowStep,
                            PaintLatest, StartRefresh, RefreshReads, RefreshPaints
  <2>4. ASSUME \A d \in Emitters : ~Carries(d)'
        PROVE  /\ EndsWith(chan'[Ui], version)
               /\ Bare(chan'[Ui]) => IF latest' = None
                                        THEN shown' = version \/ query'.at # "idle"
                                        ELSE latest' = version
    <3>1. /\ EndsWith(chan[Ui], version)
          /\ Bare(chan[Ui]) => IF latest = None THEN shown = version \/ query.at # "idle"
                                                 ELSE latest = version
      <4>1. \A d \in Emitters : ~Carries(d)
        BY <1>1, <2>4 DEF Carries
      <4>. QED  BY <2>1, <4>1 DEF NewestIsState
    <3>2. CASE Receive(Ui)
      <4>1. /\ chan[Ui] # <<>> /\ chan[Ui] \in Seq(Events) /\ chan'[Ui] = Tail(chan[Ui])
            /\ latest' = IF Head(chan[Ui]).snap = None THEN latest ELSE Head(chan[Ui]).snap
            /\ UNCHANGED <<shown, query>>
        BY <3>2, FanoutAssumption DEF Receive, FanoutInv, FanoutTypeOK
      <4>2. /\ EndsWith(chan'[Ui], version)
            /\ Bare(chan'[Ui]) /\ Head(chan[Ui]).snap = None => Bare(chan[Ui])
            /\ Bare(chan'[Ui]) /\ Head(chan[Ui]).snap # None => Head(chan[Ui]).snap = version
        BY <3>1, <4>1, TakenFirst
      <4>. QED  BY <3>1, <4>1, <4>2
    <3>3. CASE PaintLatest
      BY <3>1, <3>3 DEF PaintLatest
    <3>4. CASE StartRefresh \/ RefreshReads
      BY <3>1, <3>4, <1>3 DEF StartRefresh, RefreshReads, DesktopInv, WindowTypeOK
    <3>5. CASE RefreshPaints
      BY <2>1, <3>1, <3>5 DEF RefreshPaints, CopiesAreOfState
    <3>. QED  BY <2>2, <3>2, <3>3, <3>4, <3>5 DEF WindowStep
  <2>. QED  BY <1>1, <2>2, <2>3, <2>4 DEF NewestIsState
<1>. QED  BY <1>1, <1>2, <1>3, <1>4 DEF DesktopInv

LEMMA WindowSubscribes ==
    ASSUME FanoutInv, DesktopInv, Subscribe(Ui)
    PROVE  DesktopInv'
<1>1. /\ link[Ui] = "none" /\ link'[Ui] = "open" /\ (Ui \notin raced' => Ui \notin raced)
      /\ UNCHANGED <<version, chan, at, event, todo, latest, dirty, query, shown, overlapped>>
  BY FanoutAssumption DEF Subscribe, emitters, window, FanoutInv, FanoutTypeOK
<1>. QED  BY <1>1 DEF DesktopInv, WindowTypeOK, OneAtATime, CopiesAreOfState, NewestIsState,
                      NothingMissed, Carries

LEMMA WindowNext == FrontInv /\ WindowInv /\ [Next]_vars => WindowInv'
<1>0. ASSUME FrontInv, [Next]_vars, MainActs PROVE front # "desktop" /\ front' = front
  <2>1. front' = front
    BY <1>0 DEF MainActs, MainStep, RefreshSucceeds, NeedsLogin, ShowCode, LoginReturns,
                CommandFails, SubscribeEvents, StartMonitor, Started, ReadEvent, StopMonitor,
                Exit, FindUpdate, FindNothing, Checked, PrintUpdate, DurationPasses,
                DeadlineSeen, CtrlC
  <2>2. step # "none"
    BY <1>0 DEF MainActs, MainStep, RefreshSucceeds, NeedsLogin, ShowCode, LoginReturns,
                CommandFails, SubscribeEvents, StartMonitor, Started, ReadEvent, StopMonitor,
                Exit, FindUpdate, FindNothing, Checked, PrintUpdate, DurationPasses,
                DeadlineSeen, CtrlC
  <2>. QED  BY <1>0, <2>1, <2>2 DEF FrontInv, CliInv
<1>1. ASSUME FrontInv, [Next]_vars, ~MainActs, DesktopInv PROVE DesktopInv'
  <2>1. FanoutInv
    BY <1>1 DEF FrontInv
  <2>2. ASSUME NEW e \in Emitters, Emission(e) PROVE DesktopInv'
    BY <1>1, <2>1, <2>2, WindowBegins DEF Emission
  <2>3. ASSUME NEW e \in Emitters, EmissionStep(e) PROVE DesktopInv'
    BY <1>1, <2>1, <2>3, WindowCopies, WindowIsSent DEF EmissionStep, EmitterStep
  <2>4. CASE EventLoop
    BY <1>1, <2>1, <2>4, WindowFollows DEF EventLoop
  <2>6. CASE DesktopSubscribes
    BY <1>1, <2>1, <2>6, WindowSubscribes DEF DesktopSubscribes
  <2>5. CASE UNCHANGED vars
    BY <1>1, <2>5 DEF vars, fanoutVars, emitters, window, history, DesktopInv, WindowTypeOK,
                      OneAtATime, CopiesAreOfState, NewestIsState, NothingMissed, Carries
  <2>. QED  BY <1>1, <2>2, <2>3, <2>4, <2>5, <2>6 DEF Next, MainActs, Rests
<1>2. ASSUME [Next]_vars, ~MainActs PROVE front' = front
  BY <1>2 DEF Next, MainActs, Emission, EmissionStep, EventLoop, DesktopSubscribes, Rests, vars
<1>. QED  BY <1>0, <1>1, <1>2 DEF WindowInv

LEMMA WindowInit == Init => WindowInv
<1> SUFFICES ASSUME Init, front = "desktop" PROVE DesktopInv
  BY DEF WindowInv
<1>1. FanoutInit("asked") /\ Ui \in Subs
  BY FanoutAssumption DEF Init
<1>. QED  BY <1>1 DEF FanoutInit, DesktopInv, WindowTypeOK, OneAtATime, CopiesAreOfState,
                      NewestIsState, NothingMissed, EndsWith, Bare, None

(***************************************************************************)
(* The window of the desktop shows the last state whenever nothing is      *)
(* under way, unless its subscription met an emission, or emissions have   *)
(* overlapped since a change last began alone: no snapshot is lost between *)
(* an emission, the channel, the event loop and the refreshes, and no old  *)
(* one is painted last; for any emitters and places.                       *)
(***************************************************************************)
THEOREM WindowShowsState == Spec => []WindowIsCurrent
<1>1. WindowInv => WindowIsCurrent
  <2> SUFFICES ASSUME DesktopInv, Quiet, ~overlapped, Ui \notin raced
               PROVE  shown = version
    BY DEF WindowInv, WindowIsCurrent
  <2>1. \A e \in Emitters : ~Carries(e)
    BY DEF Quiet, Carries
  <2>2. chan[Ui] = <<>> /\ latest = None /\ query.at = "idle"
    BY FanoutAssumption DEF Quiet, DesktopInv, WindowTypeOK
  <2>3. Bare(chan[Ui])
    BY <2>2 DEF Bare
  <2>. QED  BY <2>1, <2>2, <2>3 DEF DesktopInv, NewestIsState
<1>. QED  BY <1>1, WindowInit, WindowNext, FrontEndsAreSafe, PTL DEF Spec
=============================================================================
