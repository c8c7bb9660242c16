----------------------------- MODULE MC_Download -----------------------------
(* Download with two commands: one presentation of several chunks, and one   *)
(* of a single slide.                                                        *)
EXTENDS Download, TLC

CONSTANTS first, second

SlidesOf == (first :> 3) @@ (second :> 1)
=============================================================================
