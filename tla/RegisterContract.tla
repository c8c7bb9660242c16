--------------------------- MODULE RegisterContract ---------------------------
(***************************************************************************)
(* What a repository kept in one file promises: it holds no document or    *)
(* one that somebody wanted to save, whole; a save takes effect at one     *)
(* instant or not at all, also when it fails or its program ends.  Nothing *)
(* is promised once two saves have been under way at the same time.  The   *)
(* files and system calls behind that are the business of JsonFile.        *)
(***************************************************************************)
CONSTANTS Procs, Documents, NoDocument

VARIABLES value,         \* the document in the repository
          wanted,        \* wanted[p]: the document that p is saving
          clashed        \* two saves have been under way at once

vars == <<value, wanted, clashed>>

Init ==
    /\ value \in Documents \cup {NoDocument}
    /\ wanted = [p \in Procs |-> NoDocument]
    /\ clashed = FALSE

Begin(p) ==
    /\ wanted[p] = NoDocument
    /\ \E d \in Documents : wanted' = [wanted EXCEPT ![p] = d]
    /\ clashed' = (clashed \/ \E q \in Procs : wanted[q] # NoDocument)
    /\ UNCHANGED value

Commit(p) ==
    /\ wanted[p] # NoDocument
    /\ value' = wanted[p]
    /\ wanted' = [wanted EXCEPT ![p] = NoDocument]
    /\ UNCHANGED clashed

Abort(p) ==
    /\ wanted' = [wanted EXCEPT ![p] = NoDocument]
    /\ UNCHANGED <<value, clashed>>

\* A program ends and takes its saves with it.
AbortSome ==
    /\ \E P \in SUBSET Procs :
          wanted' = [p \in Procs |-> IF p \in P THEN NoDocument ELSE wanted[p]]
    /\ UNCHANGED <<value, clashed>>

\* The user writes a document without the repository.
Edit ==
    /\ value # NoDocument
    /\ value' \in Documents
    /\ UNCHANGED <<wanted, clashed>>

Clear ==
    /\ value' = NoDocument
    /\ UNCHANGED <<wanted, clashed>>

Unspecified == clashed /\ clashed'

Next ==
    \/ \E p \in Procs : Begin(p) \/ Commit(p) \/ Abort(p)
    \/ AbortSome
    \/ Edit
    \/ Clear
    \/ Unspecified

Spec == Init /\ [][Next]_vars
=============================================================================
