-------------------------- MODULE MC_SessionCommands --------------------------
(* SessionCommands on small instances: s1 and s2 are sessions of one user, s3 *)
(* of another.                                                                *)
EXTENDS SessionCommands, TLC

CONSTANTS s1, s2, s3, u1, u2

SessionSet == {s1, s2, s3}
OwnerOf == (s1 :> u1) @@ (s2 :> u1) @@ (s3 :> u2)

Interchangeable == Permutations(Callers) \cup Permutations({s1, s2})
=============================================================================
