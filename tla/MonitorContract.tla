--------------------------- MODULE MonitorContract ---------------------------
(***************************************************************************)
(* What CoreMonitorEngine promises to the code that calls `start` and      *)
(* `stop`: monitoring happens in runs, at most one run is in service at a  *)
(* time, a run is retired at most once, and the `stop` that retired a run  *)
(* returns only when the run no longer works.  How a run does its work -   *)
(* lesson tasks, events, signals - is the business of MonitorEngine, which *)
(* is shown to implement this module.                                      *)
(***************************************************************************)

CONSTANT Runs            \* identities of successive monitoring runs

VARIABLES phase,         \* phase[r]: how far run r has come
          working        \* the runs that may still watch their lessons

vars == <<phase, working>>

Init ==
    /\ phase = [r \in Runs |-> "new"]
    /\ working = {}

\* A run enters service, and only when no other run is in service.
Begin(r) ==
    /\ phase[r] = "new"
    /\ \A q \in Runs : phase[q] # "serving"
    /\ phase' = [phase EXCEPT ![r] = "serving"]
    /\ working' = working \cup {r}

\* A run stops working, in service or not, and never works again.
Expire(r) ==
    /\ r \in working
    /\ working' = working \ {r}
    /\ UNCHANGED phase

\* A caller of `stop` takes the run out of service.
Retire(r) ==
    /\ phase[r] = "serving"
    /\ phase' = [phase EXCEPT ![r] = "retiring"]
    /\ UNCHANGED working

\* That caller returns: nothing of the run is left.
Finish(r) ==
    /\ phase[r] = "retiring"
    /\ r \notin working
    /\ phase' = [phase EXCEPT ![r] = "over"]
    /\ UNCHANGED working

Next == \E r \in Runs : Begin(r) \/ Expire(r) \/ Retire(r) \/ Finish(r)

Spec == Init /\ [][Next]_vars
=============================================================================
