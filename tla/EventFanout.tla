------------------------------ MODULE EventFanout ------------------------------
(***************************************************************************)
(* How a change of the application's state reaches a front end: the list   *)
(* of subscribers and emit_event of the service (app/service/impls.rs),    *)
(* the background loop and the commands that emit (background.rs), and on  *)
(* the desktop the event loop (event_subscriber.rs) and the commands       *)
(* (command_runner.rs) that paint the window.  FrontEnds has the front     *)
(* ends that call them.                                                    *)
(*                                                                         *)
(* The state itself is a version number: what matters is which snapshot    *)
(* of it ends up in the window.  An emission copies the list of            *)
(* subscribers, sends to each in turn, waiting while its channel is full,  *)
(* and then writes back those that are still there.  Nothing orders two    *)
(* emissions, and no lock is held while one is under way.                  *)
(***************************************************************************)
EXTENDS Naturals, Sequences, Functions

CONSTANTS
    Background,     \* emitters that paint nothing afterwards: the background loop
    Commands,       \* command futures of the desktop (spawn_command)
    Subs,           \* subscribers
    Ui,             \* the one that paints the window
    Capacity,       \* Capacity[s]: places of a subscriber's channel (128 in the code)
    MaxChanges,     \* changes of the state by others than Main (a bound)
    MaxOthers       \* emissions other than StateChanged (a bound)

Emitters == Background \cup Commands

ASSUME FanoutAssumption ==
    /\ Background \cap Commands = {}
    /\ Ui \in Subs
    /\ Capacity \in [Subs -> Nat \ {0}]
    /\ {MaxChanges, MaxOthers} \subseteq Nat

VARIABLES
    version,        \* InnerState.app_state
    subscribers,    \* InnerState.subscribers
    chan,           \* chan[s]: events sent and not yet received
    link,           \* link[s]: "none", "open" or "closed" by the receiver
    at,             \* at[e]: how far an emitter has come
    event,          \* event[e]: what it emits
    todo,           \* todo[e]: subscribers it has yet to send to
    active,         \* active[e]: those it could send to
    others,         \* emissions other than StateChanged so far
    latest,         \* the snapshot the event loop holds, or None
    dirty,          \* the event loop has something to paint
    query,          \* the refresh task: how far it is, and the version it has read
    shown,          \* the version in the window
    heard,          \* heard[s]: emissions sent to s, or over before it came (history)
    done,           \* emissions that are over (history)
    raced,          \* those who subscribed while an emission had its copy of the
                    \* list (history)
    overlapped      \* a change has begun before the window had subscribed, or an
                    \* emission while another, or a refresh of the window, was under
                    \* way, and no change has begun alone since then (history)

None == 0
emitters == <<at, event, todo, active>>
window == <<latest, dirty, query, shown>>
history == <<heard, done, raced, overlapped>>
fanoutVars == <<version, subscribers, chan, link, emitters, others, window, history>>

Steps == {"idle", "snapping", "cloning", "sending", "writing", "reading", "painting"}
\* A snapshot of None stands for an event without one; id tells emissions apart.
Events == [snap: Nat, id: Nat]

\* Nobody has subscribed; the window is empty, and a task refreshes it if `first` is
\* "asked".
FanoutInit(first) ==
    /\ version = 1
    /\ subscribers = <<>>
    /\ chan = [s \in Subs |-> <<>>]
    /\ link = [s \in Subs |-> "none"]
    /\ at = [e \in Emitters |-> "idle"]
    /\ event = [e \in Emitters |-> [snap |-> None, id |-> 0]]
    /\ todo = [e \in Emitters |-> <<>>]
    /\ active = [e \in Emitters |-> <<>>]
    /\ others = 0
    /\ latest = None
    /\ dirty = FALSE
    /\ query = [at |-> first, snap |-> None]
    /\ shown = None
    /\ heard = [s \in Subs |-> {}]
    /\ done = {}
    /\ raced = {}
    /\ overlapped = FALSE

Goes(e, step) == at' = [at EXCEPT ![e] = step]

\* An emission begins; version and others number the emissions.
Emits(e, step) ==
    /\ at[e] = "idle"
    /\ event' = [event EXCEPT ![e] = [snap |-> None, id |-> version + others]]
    /\ Goes(e, step)

Busy == query.at # "idle" \/ \E d \in Emitters : at[d] # "idle"

-----------------------------------------------------------------------------
(* Emitters.                                                               *)

\* A command or the background loop changes the state, under its lock.
Change(e) ==
    /\ version' = version + 1
    /\ Emits(e, "snapping")
    /\ overlapped' = (Busy \/ link[Ui] # "open")
    /\ UNCHANGED <<subscribers, chan, link, todo, active, others, window, heard, done, raced>>

\* PresentationDiscovered, emitted by a task of its own, or Notification.
EmitOther(e) ==
    /\ others < MaxOthers
    /\ others' = others + 1
    /\ Emits(e, "cloning")
    /\ overlapped' = (overlapped \/ Busy)
    /\ UNCHANGED <<version, subscribers, chan, link, todo, active, window, heard, done, raced>>

\* emit_state_changed takes the lock again, for a copy of the state.
TakeSnapshot(e) ==
    /\ at[e] = "snapping"
    /\ event' = [event EXCEPT ![e].snap = version]
    /\ Goes(e, "cloning")
    /\ UNCHANGED <<version, subscribers, chan, link, todo, active, others, window, history>>

CloneSubscribers(e) ==
    /\ at[e] = "cloning"
    /\ todo' = [todo EXCEPT ![e] = subscribers]
    /\ active' = [active EXCEPT ![e] = <<>>]
    /\ Goes(e, "sending")
    /\ UNCHANGED <<version, subscribers, chan, link, event, others, window, history>>

\* Mutant: try_send, which drops the event for a subscriber whose channel is full.
Send_DropsWhenFull(e) ==
    /\ at[e] = "sending" /\ todo[e] # <<>>
    /\ LET s == Head(todo[e]) IN
       /\ link[s] = "open"
       /\ \/ /\ Len(chan[s]) < Capacity[s]
             /\ chan' = [chan EXCEPT ![s] = Append(@, event[e])]
             /\ heard' = [heard EXCEPT ![s] = @ \cup {event[e].id}]
          \/ Len(chan[s]) >= Capacity[s] /\ UNCHANGED <<chan, heard>>
       /\ active' = [active EXCEPT ![e] = Append(@, s)]
    /\ todo' = [todo EXCEPT ![e] = Tail(@)]
    /\ UNCHANGED <<version, subscribers, link, at, event, others, window, done, raced,
                   overlapped>>

\* sender.send waits for room in the channel.
Send(e) ==
    /\ at[e] = "sending" /\ todo[e] # <<>>
    /\ LET s == Head(todo[e]) IN
       /\ link[s] = "open"
       /\ Len(chan[s]) < Capacity[s]
       /\ chan' = [chan EXCEPT ![s] = Append(@, event[e])]
       /\ heard' = [heard EXCEPT ![s] = @ \cup {event[e].id}]
       /\ active' = [active EXCEPT ![e] = Append(@, s)]
    /\ todo' = [todo EXCEPT ![e] = Tail(@)]
    /\ UNCHANGED <<version, subscribers, link, at, event, others, window, done, raced,
                   overlapped>>

\* Mutant: an emitter waits for a subscriber that is gone.
SkipClosed_Never(e) == FALSE

\* send fails when the receiver is gone, also for a sender that was waiting.
SkipClosed(e) ==
    /\ at[e] = "sending" /\ todo[e] # <<>>
    /\ link[Head(todo[e])] = "closed"
    /\ todo' = [todo EXCEPT ![e] = Tail(@)]
    /\ UNCHANGED <<version, subscribers, chan, link, at, event, active, others, window,
                   history>>

\* The list becomes those that could be sent to, whatever it is by now.
WriteBack(e) ==
    /\ at[e] = "sending" /\ todo[e] = <<>>
    /\ subscribers' = active[e]
    /\ done' = done \cup {event[e].id}
    /\ Goes(e, IF e \in Commands THEN "reading" ELSE "idle")
    /\ UNCHANGED <<version, chan, link, event, todo, active, others, window, heard, raced,
                   overlapped>>

\* spawn_command: when its command is done it asks for the state ...
ReadState(e) ==
    /\ at[e] = "reading"
    /\ event' = [event EXCEPT ![e].snap = version]
    /\ Goes(e, "painting")
    /\ UNCHANGED <<version, subscribers, chan, link, todo, active, others, window, history>>

\* ... and has the window show it.
PaintState(e) ==
    /\ at[e] = "painting"
    /\ shown' = event[e].snap
    /\ Goes(e, "idle")
    /\ UNCHANGED <<version, subscribers, chan, link, event, todo, active, others, latest,
                   dirty, query, history>>

-----------------------------------------------------------------------------
(* Subscribers.                                                            *)

\* subscribe_events_impl adds to the list as it is by now; copies of it are about.
Subscribe(s) ==
    /\ link[s] = "none"
    /\ link' = [link EXCEPT ![s] = "open"]
    /\ subscribers' = Append(subscribers, s)
    /\ heard' = [heard EXCEPT ![s] = done]
    /\ raced' = IF \E e \in Emitters : at[e] = "sending" THEN raced \cup {s} ELSE raced
    /\ UNCHANGED <<version, chan, emitters, others, window, done, overlapped>>

Close(s) ==
    /\ link[s] = "open"
    /\ link' = [link EXCEPT ![s] = "closed"]
    /\ chan' = [chan EXCEPT ![s] = <<>>]
    /\ UNCHANGED <<version, subscribers, emitters, others, window, history>>

\* Mutant: the event loop keeps the first snapshot it was sent.
Receive_KeepsFirst(s) ==
    /\ chan[s] # <<>>
    /\ chan' = [chan EXCEPT ![s] = Tail(@)]
    /\ s = Ui => /\ latest' = IF latest = None THEN Head(chan[s]).snap ELSE latest
                 /\ dirty' = TRUE
    /\ s # Ui => UNCHANGED <<latest, dirty>>
    /\ UNCHANGED <<version, subscribers, link, emitters, others, query, shown, history>>

\* recv; the event loop keeps the last snapshot it was sent.
Receive(s) ==
    /\ chan[s] # <<>>
    /\ chan' = [chan EXCEPT ![s] = Tail(@)]
    /\ s = Ui => LET snap == Head(chan[s]).snap IN
                 /\ latest' = IF snap = None THEN latest ELSE snap
                 /\ dirty' = TRUE
    /\ s # Ui => UNCHANGED <<latest, dirty>>
    /\ UNCHANGED <<version, subscribers, link, emitters, others, query, shown, history>>

\* Mutant: the snapshot is dropped with dirty now and then, and nothing painted.
PaintLatest_Skips ==
    /\ dirty /\ latest # None
    /\ shown' = IF version % 2 = 0 THEN shown ELSE latest
    /\ latest' = None
    /\ dirty' = FALSE
    /\ UNCHANGED <<version, subscribers, chan, link, emitters, others, query, history>>

\* The timer of the event loop, some time after the last event.
PaintLatest ==
    /\ dirty /\ latest # None
    /\ shown' = latest
    /\ latest' = None
    /\ dirty' = FALSE
    /\ UNCHANGED <<version, subscribers, chan, link, emitters, others, query, history>>

\* Without a snapshot the event loop starts a task that asks for the state;
\* here one at a time, a bound of the model.
StartRefresh ==
    /\ dirty /\ latest = None
    /\ query.at = "idle"
    /\ dirty' = FALSE
    /\ query' = [query EXCEPT !.at = "asked"]
    /\ UNCHANGED <<version, subscribers, chan, link, emitters, others, latest, shown, history>>

RefreshReads ==
    /\ query.at = "asked"
    /\ query' = [at |-> "read", snap |-> version]
    /\ UNCHANGED <<version, subscribers, chan, link, emitters, others, latest, dirty, shown,
                   history>>

RefreshPaints ==
    /\ query.at = "read"
    /\ shown' = query.snap
    /\ query' = [at |-> "idle", snap |-> None]
    /\ UNCHANGED <<version, subscribers, chan, link, emitters, others, latest, dirty, history>>

\* recv returns None once nobody has a sender of the channel any more: the event loop
\* ends, and what it had yet to paint is lost.
LoopEnds ==
    /\ link[Ui] = "open" /\ chan[Ui] = <<>>
    /\ Ui \notin Range(subscribers)
    /\ \A e \in Emitters :
          at[e] = "sending" => Ui \notin Range(todo[e]) \cup Range(active[e])
    /\ link' = [link EXCEPT ![Ui] = "closed"]
    /\ latest' = None
    /\ dirty' = FALSE
    /\ UNCHANGED <<version, subscribers, chan, emitters, others, query, shown, history>>

EmitterStep(e) ==
    \/ TakeSnapshot(e) \/ CloneSubscribers(e) \/ Send(e) \/ SkipClosed(e) \/ WriteBack(e)
    \/ ReadState(e) \/ PaintState(e)

WindowStep == PaintLatest \/ StartRefresh \/ RefreshReads \/ RefreshPaints \/ LoopEnds

Quiet ==
    /\ \A e \in Emitters : at[e] = "idle"
    /\ \A s \in Subs : chan[s] = <<>>
    /\ ~dirty /\ query.at = "idle"

-----------------------------------------------------------------------------
(* Properties.                                                             *)

\* Types; a channel never holds more than its capacity.
FanoutTypeOK ==
    /\ {version, others} \subseteq Nat
    /\ subscribers \in Seq(Subs)
    /\ chan \in [Subs -> Seq(Events)]
    /\ \A s \in Subs : Len(chan[s]) <= Capacity[s]
    /\ link \in [Subs -> {"none", "open", "closed"}]
    /\ at \in [Emitters -> Steps]
    /\ event \in [Emitters -> Events]
    /\ todo \in [Emitters -> Seq(Subs)]
    /\ active \in [Emitters -> Seq(Subs)]
    /\ heard \in [Subs -> SUBSET Nat]
    /\ done \subseteq Nat
    /\ raced \subseteq Subs

\* Every emission ends: a full channel is drained or closed by its receiver.
EmittersReturn == \A e \in Emitters : at[e] # "idle" ~> at[e] = "idle"
=============================================================================
