------------------------------- MODULE JsonFile -------------------------------
(***************************************************************************)
(* A JSON document kept in a file: write_json_atomic, and the `load`,      *)
(* `save` and `clear` of the configuration and session repositories        *)
(* (rca-infra/src/storage/fs_impl.rs), at the level of system calls.       *)
(*                                                                         *)
(* `save` writes <file>.tmp and renames it over <file>.  The name of the   *)
(* temporary file is the same for every save, and there is no lock: the    *)
(* desktop runs every command in a task of its own, so two saves may       *)
(* overlap.  A process reads and writes through the inode it has opened,   *)
(* whatever is renamed meanwhile.  What saves do to each other is modelled *)
(* in full; what is promised of the content holds until saves overlap.     *)
(*                                                                         *)
(* The loss of data the system has not yet written to the disk is outside  *)
(* the model: a crash here is the end of a program.                        *)
(***************************************************************************)
CONSTANTS
    Procs,          \* futures that may be inside load, save or clear
    Documents,      \* contents somebody has written whole
    Default,        \* AppConfig::default
    Empty, Torn,    \* contents of a file that has been created, or written in part
    NoDocument,
    Inodes,         \* one for each name and each process will do
    NoInode,
    IOMayFail       \* opening and writing the temporary file may fail

ASSUME FileAssumption ==
    /\ Default \in Documents
    /\ Documents \cap {Empty, Torn} = {}
    /\ Empty # Torn
    /\ NoDocument \notin Documents \cup {Empty, Torn}
    /\ NoInode \notin Inodes
    /\ IOMayFail \in BOOLEAN

VARIABLES
    kind,           \* which document: "config" is created by a load that finds
                    \* none, "session" can be cleared
    target,         \* the inode <file> names
    tmp,            \* the inode <file>.tmp names
    data,           \* data[i]: the content of inode i
    op,             \* op[p]: what p is about to do
    fd,             \* fd[p]: the inode p has open
    doc,            \* doc[p]: the document p saves
    overlapped      \* a save has begun while another was under way (history)

disk == <<target, tmp, data>>
procs == <<op, fd, doc>>
vars == <<kind, disk, procs, overlapped>>

Saving == {"open", "write", "rename"}
Contents == Documents \cup {Empty, Torn}

Init ==
    /\ kind \in {"config", "session"}
    /\ overlapped = FALSE
    /\ target \in Inodes \cup {NoInode}
    /\ tmp = NoInode
    /\ \E d \in Documents : data = [i \in Inodes |-> IF i = target THEN d ELSE Empty]
    /\ op = [p \in Procs |-> "idle"]
    /\ fd = [p \in Procs |-> NoInode]
    /\ doc = [p \in Procs |-> NoDocument]

\* Inodes no name and no open file refers to.
Free == Inodes \ ({target, tmp} \cup {fd[p] : p \in Procs})

\* The content once `closed` have closed their files: an inode that none of the
\* names and no open file refers to any more is gone.
Kept(content, names, closed) ==
    [i \in Inodes |->
        IF i \in names \cup {fd[p] : p \in Procs \ closed} THEN content[i] ELSE Empty]

Return(p) ==
    /\ op' = [op EXCEPT ![p] = "idle"]
    /\ fd' = [fd EXCEPT ![p] = NoInode]
    /\ doc' = [doc EXCEPT ![p] = NoDocument]

-----------------------------------------------------------------------------
(* save: write_json_atomic.                                                *)

BeginSave(p, d) ==
    /\ op[p] = "idle"
    /\ op' = [op EXCEPT ![p] = "open"]
    /\ doc' = [doc EXCEPT ![p] = d]
    /\ overlapped' = (overlapped \/ \E q \in Procs : op[q] \in Saving)
    /\ UNCHANGED <<kind, disk, fd>>

Save(p) == \E d \in Documents : BeginSave(p, d)

\* Mutant: the document is written in place.
OpenTmp_InPlace(p) ==
    /\ op[p] = "open"
    /\ target # NoInode
    /\ data' = [data EXCEPT ![target] = Empty]
    /\ tmp' = target
    /\ fd' = [fd EXCEPT ![p] = target]
    /\ op' = [op EXCEPT ![p] = "write"]
    /\ UNCHANGED <<kind, overlapped, target, doc>>

\* Mutant: the file in place becomes the temporary file, as a backup.
OpenTmp_TakesFile(p) ==
    /\ op[p] = "open"
    /\ target # NoInode
    /\ tmp' = target
    /\ target' = NoInode
    /\ data' = [data EXCEPT ![tmp'] = Empty]
    /\ fd' = [fd EXCEPT ![p] = tmp']
    /\ op' = [op EXCEPT ![p] = "write"]
    /\ UNCHANGED <<kind, overlapped, doc>>

\* fs::write opens the temporary file, creating or truncating it ...
OpenTmp(p) ==
    /\ op[p] = "open"
    /\ \E i \in IF tmp # NoInode THEN {tmp} ELSE Free :
          /\ tmp' = i
          /\ data' = [data EXCEPT ![i] = Empty]
          /\ fd' = [fd EXCEPT ![p] = i]
    /\ op' = [op EXCEPT ![p] = "write"]
    /\ UNCHANGED <<kind, overlapped, target, doc>>

\* ... and writes from its start: over what another save has put there since.
WriteTmp(p) ==
    /\ op[p] = "write"
    /\ data' = [data EXCEPT ![fd[p]] = IF @ \in {Empty, doc[p]} THEN doc[p] ELSE Torn]
    /\ op' = [op EXCEPT ![p] = "rename"]
    /\ UNCHANGED <<kind, overlapped, target, tmp, fd, doc>>

\* fs::rename moves whatever has the temporary name by now.
RenameTmp(p) ==
    /\ op[p] = "rename"
    /\ tmp # NoInode
    /\ target' = tmp
    /\ tmp' = NoInode
    /\ Return(p)
    /\ data' = Kept(data, {tmp}, {p})
    /\ UNCHANGED <<kind, overlapped>>

\* Nothing has the temporary name any more: the save is reported as failed.
RenameFails(p) ==
    /\ op[p] = "rename"
    /\ tmp = NoInode
    /\ Return(p)
    /\ data' = Kept(data, {target}, {p})
    /\ UNCHANGED <<kind, overlapped, target, tmp>>

\* Mutant: an error of fs::write is not looked at.
SaveFails_RenamesAnyway(p) ==
    /\ IOMayFail
    /\ op[p] = "write"
    /\ data' = [data EXCEPT ![fd[p]] = Torn]
    /\ op' = [op EXCEPT ![p] = "rename"]
    /\ UNCHANGED <<kind, overlapped, target, tmp, fd, doc>>

\* The directory, the open or the write fails, the latter after a part.
SaveFails(p) ==
    /\ IOMayFail
    /\ Return(p)
    /\ \/ op[p] = "open" /\ data' = Kept(data, {target, tmp}, {p})
       \/ op[p] = "write" /\ data' = Kept([data EXCEPT ![fd[p]] = Torn], {target, tmp}, {p})
    /\ UNCHANGED <<kind, overlapped, target, tmp>>

-----------------------------------------------------------------------------
(* load and clear.                                                         *)

\* A missing configuration is created on the spot.
LoadFindsNone(p) ==
    /\ kind = "config"
    /\ target = NoInode
    /\ BeginSave(p, Default)

LoadOpens(p) ==
    /\ op[p] = "idle"
    /\ target # NoInode
    /\ op' = [op EXCEPT ![p] = "read"]
    /\ fd' = [fd EXCEPT ![p] = target]
    /\ UNCHANGED <<kind, overlapped, disk, doc>>

\* read_to_string returns what the inode holds by then.
LoadReads(p) ==
    /\ op[p] = "read"
    /\ Return(p)
    /\ data' = Kept(data, {target, tmp}, {p})
    /\ UNCHANGED <<kind, overlapped, target, tmp>>

\* SessionRepository::clear; a missing file is no error.
Clear(p) ==
    /\ kind = "session"
    /\ op[p] = "idle"
    /\ target' = NoInode
    /\ UNCHANGED <<kind, overlapped, tmp, procs>>
    /\ data' = Kept(data, {tmp}, {})

\* The user writes the configuration with an editor, all at once.
Edit(d) ==
    /\ kind = "config"
    /\ target # NoInode
    /\ data' = [data EXCEPT ![target] = d]
    /\ UNCHANGED <<kind, overlapped, target, tmp, procs>>

\* A program ends, and with it what its futures P were doing, or they are
\* aborted; the temporary file stays.
Crash(P) ==
    /\ op' = [p \in Procs |-> IF p \in P THEN "idle" ELSE op[p]]
    /\ fd' = [p \in Procs |-> IF p \in P THEN NoInode ELSE fd[p]]
    /\ doc' = [p \in Procs |-> IF p \in P THEN NoDocument ELSE doc[p]]
    /\ data' = Kept(data, {target, tmp}, P)
    /\ UNCHANGED <<kind, overlapped, target, tmp>>

-----------------------------------------------------------------------------

SaveStep(p) ==
    OpenTmp(p) \/ WriteTmp(p) \/ RenameTmp(p) \/ RenameFails(p) \/ SaveFails(p)

LoadStep(p) == LoadFindsNone(p) \/ LoadOpens(p) \/ LoadReads(p)

Next ==
    \/ \E p \in Procs : Save(p) \/ SaveStep(p) \/ LoadStep(p) \/ Clear(p)
    \/ \E d \in Documents : Edit(d)
    \/ \E P \in SUBSET Procs : Crash(P)

Spec == Init /\ [][Next]_vars

-----------------------------------------------------------------------------
(* Properties.                                                             *)

TypeOK ==
    /\ kind \in {"config", "session"}
    /\ target \in Inodes \cup {NoInode}
    /\ tmp \in Inodes \cup {NoInode}
    /\ data \in [Inodes -> Contents]
    /\ op \in [Procs -> {"idle", "read"} \cup Saving]
    /\ fd \in [Procs -> Inodes \cup {NoInode}]
    /\ doc \in [Procs -> Documents \cup {NoDocument}]
    /\ overlapped \in BOOLEAN

\* Whenever the program is stopped, the file holds a whole document.
WholeFile == target # NoInode => data[target] \in Documents

\* A load that runs while a save does reads a whole document, the old one or the
\* new one, also after saves that failed or were cut short.
LoadsWhole ==
    ~overlapped => \A p \in Procs : op[p] = "read" => data[fd[p]] \in Documents

\* Once there, the configuration is there at every moment, saves overlapping or
\* not: no load takes it for missing and puts the default in its place.
FileStays == [][kind = "config" /\ target # NoInode => target' # NoInode]_vars

\* Saves take effect at once or not at all, failing, crashing or neither, as long
\* as they do not overlap.
Contract == INSTANCE RegisterContract WITH
    value <- IF target = NoInode THEN NoDocument ELSE data[target],
    wanted <- doc,
    clashed <- overlapped

KeepsRegister == Contract!Spec
=============================================================================
