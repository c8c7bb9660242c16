----------------------------- MODULE MC_FrontEnds -----------------------------
(* FrontEnds for TLC: the desktop's window with a channel of one place, the   *)
(* command line's with room for all that the bounds allow.                    *)
EXTENDS FrontEnds

CONSTANTS loop, main, command, ui, rx

Places == [s \in {ui, rx} |-> IF s = ui THEN 1 ELSE MaxChanges + MaxOthers + 2]
=============================================================================
