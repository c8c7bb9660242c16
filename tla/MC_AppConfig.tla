----------------------------- MODULE MC_AppConfig -----------------------------
(* AppConfig on small instances; futures and inodes are interchangeable.     *)
EXTENDS AppConfig, TLC

AllDocuments == Configs \cup {Broken}
DefaultConfig == [tenant |-> "Hetang", other |-> "reset"]
Interchangeable == Permutations(Procs) \cup Permutations(Inodes)
=============================================================================
