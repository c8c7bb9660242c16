--------------------------- MODULE MC_MonitorControl ---------------------------
(* Model values for MonitorControl.                                           *)
EXTENDS MonitorControl, TLC

Interchangeable ==
    Permutations(Runs) \cup Permutations(Lessons) \cup Permutations(Callers)
=============================================================================
