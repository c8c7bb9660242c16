------------------------------ MODULE MC_QrLogin ------------------------------
(* QrLogin on small instances; callers and scenes are interchangeable.     *)
EXTENDS QrLogin, TLC

Interchangeable == Permutations(Callers) \cup Permutations(Scenes)
=============================================================================
