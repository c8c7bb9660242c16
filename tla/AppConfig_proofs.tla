---------------------------- MODULE AppConfig_proofs ---------------------------
(***************************************************************************)
(* First the file on its own: JsonFile for every number of processes,      *)
(* documents and inodes, with failing writes and crashes.                  *)
(*                                                                         *)
(* That a load reads a whole document while saves do not overlap is not    *)
(* inductive: it must be known that the temporary name and the file never  *)
(* share an inode, that only the one saver has the temporary file open for *)
(* writing, and that what it is about to rename is the whole document.     *)
(*                                                                         *)
(* Then the programs, which touch the file only by the steps of JsonFile.  *)
(* What they have in memory follows from what a command that nothing has   *)
(* crossed may rely on: no other saver, and a file that stays as it was    *)
(* read or written until the memory has been set.                          *)
(***************************************************************************)
EXTENDS AppConfig, TLAPS

OneSaver == \A p, q \in Procs : op[p] \in Saving /\ op[q] \in Saving => p = q

\* Who saves has a document to save, and nobody else has.
SaverHasDoc == \A p \in Procs : (op[p] \in Saving) <=> (doc[p] # NoDocument)

TmpApart == tmp # NoInode => tmp # target

\* The saver writes into the temporary file, which is empty, then complete.
SaverHoldsTmp ==
    \A p \in Procs :
        /\ op[p] \in {"write", "rename"} => tmp # NoInode /\ fd[p] = tmp
        /\ op[p] = "write" => data[tmp] = Empty
        /\ op[p] = "rename" => data[tmp] = doc[p]

\* A reader's inode holds a document and will not be written to.
ReadersApart ==
    \A p \in Procs :
        op[p] = "read" => fd[p] \in Inodes /\ fd[p] # tmp /\ data[fd[p]] \in Documents

\* What holds in any case, and what holds until saves overlap.
AnyInv == TypeOK /\ SaverHasDoc
SerialInv ==
    /\ AnyInv
    /\ OneSaver
    /\ TmpApart
    /\ SaverHoldsTmp
    /\ ReadersApart
    /\ WholeFile

FileInv == AnyInv /\ (~overlapped => SerialInv)

USE DEF AnyInv, SerialInv, OneSaver, SaverHasDoc, TmpApart, SaverHoldsTmp, ReadersApart,
        WholeFile, TypeOK, Saving, Contents, disk, procs

LEMMA InitHasInv == Init => FileInv
BY FileAssumption DEF Init, FileInv

\* What is in use keeps its content.
LEMMA KeptContents ==
    ASSUME NEW content \in [Inodes -> Contents], NEW names, NEW closed
    PROVE  LET kept == Kept(content, names, closed) IN
           /\ kept \in [Inodes -> Contents]
           /\ \A i \in Inodes :
                 i \in names \/ (\E q \in Procs \ closed : fd[q] = i) => kept[i] = content[i]
BY DEF Kept

-----------------------------------------------------------------------------
(* While saves do not overlap.                                             *)

LEMMA BeginKeepsInv ==
    ASSUME SerialInv, ~overlapped', NEW p \in Procs, NEW d \in Documents, BeginSave(p, d)
    PROVE  SerialInv'
BY FileAssumption DEF BeginSave

LEMMA OpenKeepsInv ==
    ASSUME SerialInv, NEW p \in Procs, OpenTmp(p)
    PROVE  SerialInv'
<1>1. PICK i \in IF tmp # NoInode THEN {tmp} ELSE Free :
         /\ tmp' = i
         /\ data' = [data EXCEPT ![i] = Empty]
         /\ fd' = [fd EXCEPT ![p] = i]
  BY DEF OpenTmp
<1>2. i \in Inodes /\ i # target /\ (\A q \in Procs : op[q] = "read" => fd[q] # i)
  BY <1>1 DEF Free
<1>3. /\ op[p] = "open" /\ op' = [op EXCEPT ![p] = "write"]
      /\ UNCHANGED <<kind, overlapped, target, doc>>
  BY DEF OpenTmp
<1>4. TypeOK' /\ OneSaver' /\ SaverHasDoc'
  BY <1>1, <1>2, <1>3
<1>5. TmpApart' /\ WholeFile'
  BY <1>1, <1>2, <1>3
<1>6. SaverHoldsTmp'
  BY <1>1, <1>2, <1>3, FileAssumption
<1>7. ReadersApart'
  BY <1>1, <1>2, <1>3
<1> QED BY <1>4, <1>5, <1>6, <1>7

LEMMA WriteKeepsInv ==
    ASSUME SerialInv, NEW p \in Procs, WriteTmp(p)
    PROVE  SerialInv'
<1>1. op[p] = "write" /\ fd[p] = tmp /\ tmp \in Inodes /\ data[tmp] = Empty
  BY DEF WriteTmp
<1>2. data' = [data EXCEPT ![tmp] = doc[p]] /\ op' = [op EXCEPT ![p] = "rename"]
  BY <1>1 DEF WriteTmp
<1>3. UNCHANGED <<kind, overlapped, target, tmp, fd, doc>> /\ doc[p] \in Documents
  BY <1>1 DEF WriteTmp
<1>4. TypeOK' /\ OneSaver' /\ SaverHasDoc' /\ TmpApart'
  BY <1>1, <1>2, <1>3
<1>5. SaverHoldsTmp' /\ ReadersApart' /\ WholeFile'
  BY <1>1, <1>2, <1>3
<1> QED BY <1>4, <1>5

LEMMA RenameKeepsInv ==
    ASSUME SerialInv, NEW p \in Procs, RenameTmp(p)
    PROVE  SerialInv'
<1>1. op[p] = "rename" /\ tmp \in Inodes /\ data[tmp] = doc[p] /\ doc[p] \in Documents
  BY DEF RenameTmp
<1>2. /\ target' = tmp /\ tmp' = NoInode /\ data' = Kept(data, {tmp}, {p})
      /\ UNCHANGED <<kind, overlapped>>
      /\ op' = [op EXCEPT ![p] = "idle"]
      /\ fd' = [fd EXCEPT ![p] = NoInode]
      /\ doc' = [doc EXCEPT ![p] = NoDocument]
  BY DEF RenameTmp, Return
<1>a. /\ data' \in [Inodes -> Contents]
      /\ data'[tmp] = data[tmp]
      /\ \A q \in Procs : q # p /\ fd[q] \in Inodes => data'[fd[q]] = data[fd[q]]
  BY <1>1, <1>2, KeptContents
<1>3. TypeOK' /\ OneSaver' /\ SaverHasDoc' /\ TmpApart' /\ WholeFile'
  BY <1>1, <1>2, <1>a, FileAssumption
<1>4. SaverHoldsTmp'
  BY <1>1, <1>2, <1>a
<1>5. ReadersApart'
  <2>1. ASSUME NEW q \in Procs, op'[q] = "read"
        PROVE  fd'[q] \in Inodes /\ fd'[q] # tmp' /\ data'[fd'[q]] \in Documents
    <3>1. q # p /\ op[q] = "read" /\ fd'[q] = fd[q] /\ fd[q] \in Inodes /\ data[fd[q]] \in Documents
      BY <1>1, <1>2, <2>1
    <3> QED BY <1>2, <1>a, <3>1, FileAssumption
  <2> QED BY <2>1
<1> QED BY <1>3, <1>4, <1>5

\* No save finds the temporary name gone.
LEMMA RenameSucceeds ==
    ASSUME SerialInv, NEW p \in Procs
    PROVE  ~RenameFails(p)
BY DEF RenameFails

LEMMA FailKeepsInv ==
    ASSUME SerialInv, NEW p \in Procs, SaveFails(p)
    PROVE  SerialInv'
<1>1. op[p] \in {"open", "write"} /\ (op[p] = "write" => fd[p] = tmp /\ tmp \in Inodes)
  BY DEF SaveFails
<1>2. /\ op' = [op EXCEPT ![p] = "idle"]
      /\ fd' = [fd EXCEPT ![p] = NoInode]
      /\ doc' = [doc EXCEPT ![p] = NoDocument]
      /\ UNCHANGED <<kind, overlapped, target, tmp>>
  BY <1>1 DEF SaveFails, Return
<1>a. PICK content \in [Inodes -> Contents] :
         /\ data' = Kept(content, {target, tmp}, {p})
         /\ content = data \/ (op[p] = "write" /\ content = [data EXCEPT ![tmp] = Torn])
  BY <1>1 DEF SaveFails
<1>b. /\ data' \in [Inodes -> Contents]
      /\ target \in Inodes => data'[target] = data[target]
      /\ \A q \in Procs : q # p /\ op[q] = "read" => data'[fd[q]] = data[fd[q]]
  BY <1>1, <1>2, <1>a, KeptContents
<1>3. TypeOK' /\ OneSaver' /\ SaverHasDoc' /\ TmpApart' /\ WholeFile'
  BY <1>1, <1>2, <1>b, FileAssumption
<1>4. SaverHoldsTmp'
  BY <1>1, <1>2
<1>5. ReadersApart'
  BY <1>1, <1>2, <1>b, FileAssumption
<1> QED BY <1>3, <1>4, <1>5

LEMMA LoadKeepsInv ==
    ASSUME SerialInv, NEW p \in Procs, LoadOpens(p) \/ LoadReads(p)
    PROVE  SerialInv'
<1>1. CASE LoadOpens(p)
  BY <1>1 DEF LoadOpens
<1>2. CASE LoadReads(p)
  <2>1. /\ op' = [op EXCEPT ![p] = "idle"]
        /\ fd' = [fd EXCEPT ![p] = NoInode]
        /\ doc' = [doc EXCEPT ![p] = NoDocument]
        /\ data' = Kept(data, {target, tmp}, {p})
        /\ UNCHANGED <<kind, overlapped, target, tmp>>
        /\ op[p] = "read"
    BY <1>2 DEF LoadReads, Return
  <2>2. /\ data' \in [Inodes -> Contents]
        /\ target \in Inodes => data'[target] = data[target]
        /\ tmp \in Inodes => data'[tmp] = data[tmp]
        /\ \A q \in Procs : q # p /\ fd[q] \in Inodes => data'[fd[q]] = data[fd[q]]
    BY <2>1, KeptContents
  <2>3. TypeOK' /\ OneSaver' /\ SaverHasDoc' /\ TmpApart' /\ WholeFile'
    BY <2>1, <2>2, FileAssumption
  <2>4. SaverHoldsTmp' /\ ReadersApart'
    BY <2>1, <2>2, FileAssumption
  <2> QED BY <2>3, <2>4
<1> QED BY <1>1, <1>2

LEMMA ClearKeepsInv ==
    ASSUME SerialInv, NEW p \in Procs, Clear(p)
    PROVE  SerialInv'
<1>1. /\ target' = NoInode /\ data' = Kept(data, {tmp}, {})
      /\ UNCHANGED <<kind, overlapped, tmp, op, fd, doc>>
  BY DEF Clear
<1>2. /\ data' \in [Inodes -> Contents]
      /\ tmp \in Inodes => data'[tmp] = data[tmp]
      /\ \A q \in Procs : fd[q] \in Inodes => data'[fd[q]] = data[fd[q]]
  BY <1>1, KeptContents
<1> QED BY <1>1, <1>2, FileAssumption

LEMMA CrashKeepsInv ==
    ASSUME SerialInv, NEW P \in SUBSET Procs, Crash(P)
    PROVE  SerialInv'
<1>1. /\ op' = [p \in Procs |-> IF p \in P THEN "idle" ELSE op[p]]
      /\ fd' = [p \in Procs |-> IF p \in P THEN NoInode ELSE fd[p]]
      /\ doc' = [p \in Procs |-> IF p \in P THEN NoDocument ELSE doc[p]]
      /\ data' = Kept(data, {target, tmp}, P)
      /\ UNCHANGED <<kind, overlapped, target, tmp>>
  BY DEF Crash
<1>2. /\ target \in Inodes => data'[target] = data[target]
      /\ tmp \in Inodes => data'[tmp] = data[tmp]
      /\ \A q \in Procs \ P : fd[q] \in Inodes => data'[fd[q]] = data[fd[q]]
  BY <1>1, KeptContents
<1>3. data' \in [Inodes -> Contents]
  BY <1>1, KeptContents
<1>4. TypeOK' /\ OneSaver' /\ SaverHasDoc' /\ TmpApart' /\ WholeFile'
  BY <1>1, <1>2, <1>3, FileAssumption
<1>5. SaverHoldsTmp' /\ ReadersApart'
  BY <1>1, <1>2, <1>3, FileAssumption
<1> QED BY <1>4, <1>5

LEMMA EditKeepsInv ==
    ASSUME SerialInv, NEW d \in Documents, Edit(d)
    PROVE  SerialInv'
BY FileAssumption DEF Edit

LEMMA SerialStepKeepsInv ==
    ASSUME SerialInv, ~overlapped', [Next]_vars
    PROVE  SerialInv'
<1>1. CASE UNCHANGED vars
  BY <1>1 DEF vars
<1>2. ASSUME NEW p \in Procs, Save(p) \/ LoadFindsNone(p) PROVE SerialInv'
  BY <1>2, BeginKeepsInv, FileAssumption DEF Save, LoadFindsNone
<1>3. ASSUME NEW p \in Procs, SaveStep(p) PROVE SerialInv'
  BY <1>3, OpenKeepsInv, WriteKeepsInv, RenameKeepsInv, RenameSucceeds, FailKeepsInv DEF SaveStep
<1>4. ASSUME NEW p \in Procs, LoadOpens(p) \/ LoadReads(p) \/ Clear(p) PROVE SerialInv'
  BY <1>4, LoadKeepsInv, ClearKeepsInv
<1>5. ASSUME NEW P \in SUBSET Procs, Crash(P) PROVE SerialInv'
  BY <1>5, CrashKeepsInv
<1>6. ASSUME NEW d \in Documents, Edit(d) PROVE SerialInv'
  BY <1>6, EditKeepsInv
<1> QED BY <1>1, <1>2, <1>3, <1>4, <1>5, <1>6 DEF Next, LoadStep

-----------------------------------------------------------------------------
(* In any case.                                                            *)

LEMMA SaveStepKeepsTypes ==
    ASSUME AnyInv, NEW p \in Procs, SaveStep(p)
    PROVE  AnyInv' /\ overlapped' = overlapped
<1>1. CASE OpenTmp(p)
  <2>1. PICK i \in IF tmp # NoInode THEN {tmp} ELSE Free :
           /\ tmp' = i
           /\ data' = [data EXCEPT ![i] = Empty]
           /\ fd' = [fd EXCEPT ![p] = i]
    BY <1>1 DEF OpenTmp
  <2>2. i \in Inodes
    BY <2>1 DEF Free
  <2> QED BY <1>1, <2>1, <2>2 DEF OpenTmp
<1>2. CASE WriteTmp(p)
  <2>1. op[p] = "write" /\ doc[p] \in Documents
    BY <1>2 DEF WriteTmp
  <2>2. PICK v \in Contents : data' = [data EXCEPT ![fd[p]] = v]
    BY <1>2, <2>1 DEF WriteTmp
  <2> QED BY <1>2, <2>1, <2>2 DEF WriteTmp
<1>3. CASE RenameTmp(p)
  <2>1. data' \in [Inodes -> Contents]
    BY <1>3, KeptContents DEF RenameTmp
  <2> QED BY <1>3, <2>1, FileAssumption DEF RenameTmp, Return
<1>4. CASE RenameFails(p)
  <2>1. data' \in [Inodes -> Contents]
    BY <1>4, KeptContents DEF RenameFails
  <2> QED BY <1>4, <2>1, FileAssumption DEF RenameFails, Return
<1>5. CASE SaveFails(p)
  <2>1. data' \in [Inodes -> Contents]
    <3>1. PICK content \in [Inodes -> Contents] : data' = Kept(content, {target, tmp}, {p})
      BY <1>5 DEF SaveFails
    <3> QED BY <3>1, KeptContents
  <2>2. AnyInv'
    BY <1>5, <2>1, FileAssumption DEF SaveFails, Return
  <2> QED BY <1>5, <2>2 DEF SaveFails
<1> QED BY <1>1, <1>2, <1>3, <1>4, <1>5 DEF SaveStep

LEMMA StepKeepsTypes ==
    ASSUME AnyInv, [Next]_vars
    PROVE  AnyInv' /\ (overlapped => overlapped')
<1>1. CASE UNCHANGED vars
  BY <1>1 DEF vars
<1>2. ASSUME NEW p \in Procs, Save(p) \/ LoadFindsNone(p)
      PROVE  AnyInv' /\ (overlapped => overlapped')
  <2>1. PICK d \in Documents : BeginSave(p, d)
    BY <1>2, FileAssumption DEF Save, LoadFindsNone
  <2> QED BY <2>1, FileAssumption DEF BeginSave
<1>3. ASSUME NEW p \in Procs, SaveStep(p) PROVE AnyInv' /\ overlapped' = overlapped
  BY <1>3, SaveStepKeepsTypes
<1>4. ASSUME NEW p \in Procs, LoadOpens(p) \/ LoadReads(p) \/ Clear(p)
      PROVE  AnyInv' /\ overlapped' = overlapped
  <2>1. CASE LoadOpens(p)
    BY <2>1 DEF LoadOpens
  <2>2. CASE LoadReads(p)
    <3>1. data' \in [Inodes -> Contents]
      BY <2>2, KeptContents DEF LoadReads
    <3> QED BY <2>2, <3>1, FileAssumption DEF LoadReads, Return
  <2>3. CASE Clear(p)
    <3>1. data' \in [Inodes -> Contents]
      BY <2>3, KeptContents DEF Clear
    <3> QED BY <2>3, <3>1 DEF Clear
  <2> QED BY <1>4, <2>1, <2>2, <2>3
<1>5. ASSUME NEW P \in SUBSET Procs, Crash(P) PROVE AnyInv' /\ overlapped' = overlapped
  <2>1. data' \in [Inodes -> Contents]
    BY <1>5, KeptContents DEF Crash
  <2> QED BY <1>5, <2>1, FileAssumption DEF Crash
<1>6. ASSUME NEW d \in Documents, Edit(d) PROVE AnyInv' /\ overlapped' = overlapped
  BY <1>6 DEF Edit
<1> QED BY <1>1, <1>2, <1>3, <1>4, <1>5, <1>6 DEF Next, LoadStep

LEMMA StepKeepsInv ==
    ASSUME FileInv, [Next]_vars
    PROVE  FileInv'
<1>1. AnyInv' /\ (~overlapped' => ~overlapped)
  BY StepKeepsTypes DEF FileInv
<1>2. ASSUME ~overlapped' PROVE SerialInv'
  <2>1. SerialInv
    BY <1>1, <1>2 DEF FileInv
  <2> QED BY <1>2, <2>1, SerialStepKeepsInv
<1> QED BY <1>1, <1>2 DEF FileInv

\* The inductive invariant of the two documents' files: types in any case, and
\* while saves do not overlap one saver with the temporary file to itself.
THEOREM FileIsSafe == Spec => []FileInv
<1>1. Init => FileInv
  BY InitHasInv
<1>2. FileInv /\ [Next]_vars => FileInv'
  BY StepKeepsInv
<1> QED BY <1>1, <1>2, PTL DEF Spec

\* The variables keep their types, saves overlapping or not.
THEOREM FileTypesHold == Spec => []TypeOK
<1>1. FileInv => TypeOK
  BY DEF FileInv
<1> QED BY <1>1, FileIsSafe, PTL

\* A load that runs while a save does reads the old document or the new one
\* (write_json_atomic renames a whole document into place).
THEOREM LoadsAreWhole == Spec => []LoadsWhole
<1>1. FileInv => LoadsWhole
  BY DEF FileInv, LoadsWhole
<1> QED BY <1>1, FileIsSafe, PTL

\* No save, overlapping another or not, takes the configuration away.
THEOREM ConfigurationStays == Spec => FileStays
<1>1. ASSUME FileInv, [Next]_vars
      PROVE  [kind = "config" /\ target # NoInode => target' # NoInode]_vars
  <2>1. CASE UNCHANGED vars
    BY <2>1
  <2>2. ASSUME NEW p \in Procs, SaveStep(p) PROVE target # NoInode => target' # NoInode
    BY <2>2 DEF SaveStep, OpenTmp, WriteTmp, RenameTmp, RenameFails, SaveFails
  <2>3. ASSUME NEW p \in Procs, Save(p) \/ LoadStep(p) PROVE target' = target
    BY <2>3 DEF Save, LoadStep, LoadFindsNone, BeginSave, LoadOpens, LoadReads
  <2>4. ASSUME NEW p \in Procs, Clear(p) PROVE kind # "config"
    BY <2>4 DEF Clear
  <2>5. ASSUME NEW P \in SUBSET Procs, Crash(P) PROVE target' = target
    BY <2>5 DEF Crash
  <2>6. ASSUME NEW d \in Documents, Edit(d) PROVE target' = target
    BY <2>6 DEF Edit
  <2> QED BY <1>1, <2>1, <2>2, <2>3, <2>4, <2>5, <2>6 DEF Next
<1> QED BY <1>1, FileIsSafe, PTL DEF Spec, FileStays

-----------------------------------------------------------------------------
(* The refinement.                                                         *)

LEMMA SaveStepKeepsContract ==
    ASSUME SerialInv, NEW p \in Procs, SaveStep(p)
    PROVE  Contract!Next \/ UNCHANGED Contract!vars
<1> USE DEF Contract!Next, Contract!vars
<1>1. CASE OpenTmp(p)
  <2>1. UNCHANGED <<overlapped, target, doc>> /\ (target # NoInode => data'[target] = data[target])
    BY <1>1 DEF OpenTmp, Free
  <2> QED BY <2>1
<1>2. CASE WriteTmp(p)
  <2>1. UNCHANGED <<overlapped, target, doc>> /\ (target # NoInode => data'[target] = data[target])
    BY <1>2 DEF WriteTmp
  <2> QED BY <2>1
<1>3. CASE RenameTmp(p)
  <2>a. data' = Kept(data, {tmp}, {p}) /\ tmp \in Inodes /\ target' = tmp /\ data[tmp] = doc[p]
    BY <1>3 DEF RenameTmp
  <2>b. data'[tmp] = data[tmp]
    BY <2>a, KeptContents
  <2>1. /\ doc[p] # NoDocument /\ overlapped' = overlapped /\ target' # NoInode /\ data'[target'] = doc[p]
        /\ doc' = [doc EXCEPT ![p] = NoDocument]
    BY <1>3, <2>a, <2>b, FileAssumption DEF RenameTmp, Return
  <2>2. Contract!Commit(p)
    BY <2>1 DEF Contract!Commit
  <2> QED BY <2>2
<1>4. CASE SaveFails(p)
  <2>a. PICK content \in [Inodes -> Contents] :
           /\ data' = Kept(content, {target, tmp}, {p})
           /\ target \in Inodes => content[target] = data[target]
    <3>1. CASE op[p] = "open"
      BY <1>4, <3>1 DEF SaveFails
    <3>2. CASE op[p] = "write"
      <4>1. fd[p] = tmp /\ tmp \in Inodes /\ tmp # target
        BY <3>2
      <4> DEFINE content == [data EXCEPT ![tmp] = Torn]
      <4>2. data' = Kept(content, {target, tmp}, {p})
        BY <1>4, <3>2, <4>1 DEF SaveFails
      <4>3. content \in [Inodes -> Contents] /\ (target \in Inodes => content[target] = data[target])
        BY <4>1
      <4> QED BY <4>2, <4>3
    <3> QED BY <1>4, <3>1, <3>2 DEF SaveFails
  <2>1. /\ UNCHANGED <<overlapped, target>>
        /\ target # NoInode => data'[target] = data[target]
        /\ doc' = [doc EXCEPT ![p] = NoDocument]
    BY <1>4, <2>a, KeptContents DEF SaveFails, Return
  <2>2. Contract!Abort(p)
    BY <2>1 DEF Contract!Abort
  <2> QED BY <2>2
<1> QED BY <1>1, <1>2, <1>3, <1>4, RenameSucceeds DEF SaveStep

LEMMA StepKeepsContract ==
    ASSUME FileInv, FileInv', [Next]_vars
    PROVE  [Contract!Next]_(Contract!vars)
<1> USE DEF Contract!Next, Contract!vars
<1>1. CASE overlapped
  <2>1. overlapped'
    BY <1>1, StepKeepsTypes DEF FileInv
  <2> QED BY <1>1, <2>1 DEF Contract!Unspecified
<1>2. CASE ~overlapped
  <2>0. SerialInv
    BY <1>2 DEF FileInv
  <2>1. CASE UNCHANGED vars
    BY <2>1 DEF vars
  <2>2. ASSUME NEW p \in Procs, Save(p) \/ LoadFindsNone(p) PROVE Contract!Begin(p)
    <3>1. PICK d \in Documents : BeginSave(p, d)
      BY <2>2, FileAssumption DEF Save, LoadFindsNone
    <3>2. doc[p] = NoDocument /\ doc' = [doc EXCEPT ![p] = d]
      BY <2>0, <3>1 DEF BeginSave
    <3>3. overlapped' = (overlapped \/ \E q \in Procs : doc[q] # NoDocument)
      BY <2>0, <3>1 DEF BeginSave
    <3> QED BY <3>1, <3>2, <3>3 DEF BeginSave, Contract!Begin
  <2>3. ASSUME NEW p \in Procs, SaveStep(p) PROVE Contract!Next \/ UNCHANGED Contract!vars
    BY <2>0, <2>3, SaveStepKeepsContract
  <2>4. ASSUME NEW p \in Procs, LoadOpens(p) PROVE UNCHANGED Contract!vars
    BY <2>4 DEF LoadOpens
  <2>a. ASSUME NEW P \in SUBSET Procs, data' = Kept(data, {target, tmp}, P), target' = target
        PROVE  target # NoInode => data'[target] = data[target]
    BY <2>0, <2>a, KeptContents
  <2>5. ASSUME NEW p \in Procs, LoadReads(p) PROVE Contract!Abort(p)
    <3>1. target # NoInode => data'[target] = data[target]
      BY <2>5, <2>a DEF LoadReads
    <3> QED BY <2>5, <3>1 DEF LoadReads, Return, Contract!Abort
  <2>6. ASSUME NEW p \in Procs, Clear(p) PROVE Contract!Clear
    BY <2>6 DEF Clear, Contract!Clear
  <2>7. ASSUME NEW P \in SUBSET Procs, Crash(P) PROVE Contract!AbortSome
    <3>1. target # NoInode => data'[target] = data[target]
      BY <2>7, <2>a DEF Crash
    <3> QED BY <2>7, <3>1 DEF Crash, Contract!AbortSome
  <2>8. ASSUME NEW d \in Documents, Edit(d) PROVE Contract!Edit
    BY <2>0, <2>8, FileAssumption DEF Edit, Contract!Edit
  <2> QED BY <2>1, <2>2, <2>3, <2>4, <2>5, <2>6, <2>7, <2>8 DEF Next, LoadStep
<1> QED BY <1>1, <1>2

\* write_json_atomic, load and clear implement RegisterContract.
THEOREM FileIsRegister == Spec => KeepsRegister
<1>1. Init => Contract!Init
  BY FileAssumption DEF Init, Contract!Init
<1>2. FileInv /\ FileInv' /\ [Next]_vars => [Contract!Next]_(Contract!vars)
  BY StepKeepsContract
<1> QED BY <1>1, <1>2, FileIsSafe, PTL DEF Spec, KeepsRegister, Contract!Spec
-----------------------------------------------------------------------------
(* The programs.                                                           *)

HIDE DEF AnyInv, SerialInv, OneSaver, SaverHasDoc, TmpApart, SaverHoldsTmp, ReadersApart,
         WholeFile, TypeOK

\* What a command is doing with the file.
CommandInv ==
    \A p \in Procs :
        /\ command[p] \in {"none", "store"} <=> op[p] = "idle"
        /\ op[p] \in {"read", "write", "rename"} => fd[p] \in Inodes
        /\ op[p] = "read" => command[p] # "save"
        /\ command[p] = "store" => config[p] \in Configs
        /\ op[p] \in Saving => doc[p] \in Configs

\* A command that sets the memory and that nothing has crossed has the file to
\* itself, and ends with what the file holds.
AloneInv ==
    \A p \in Procs :
        alone[p] /\ command[p] \in {"load", "save", "store"} =>
            /\ \A q \in Procs \ {p} : ~InTheWay(q)
            /\ op[p] = "read" => fd[p] = target
            /\ op[p] = "write" => fd[p] = tmp /\ tmp # NoInode /\ data[tmp] = Empty
            /\ op[p] = "rename" => tmp # NoInode /\ data[tmp] = doc[p]
            /\ command[p] = "store" => target # NoInode /\ data[target] = config[p]

\* As long as a is settled and has nothing to put in its memory, this is in the
\* file, and nobody is about to write into the file in place.
SettledInv ==
    \A a \in Programs :
        settled[a] =>
            /\ target # NoInode
            /\ \A p \in Procs : program[p] = a /\ command[p] = "read" => op[p] = "read"
            /\ (\A p \in Procs : program[p] = a => command[p] # "store") =>
                  /\ data[target] = memory[a]
                  /\ \A q \in Procs : op[q] = "write" => fd[q] # target

\* Nobody runs commands on the session's file.
Quiet ==
    /\ \A p \in Procs : command[p] = "none" /\ ~alone[p]
    /\ \A a \in Programs : ~settled[a]

ConfigInv == CommandInv /\ TmpApart /\ AloneInv /\ SettledInv /\ SetTenantKeepsRest

AppInv ==
    /\ FileInv
    /\ AppTypeOK
    /\ kind = "config" => ConfigInv
    /\ kind = "session" => Quiet

\* The programs do with the file what JsonFile says, and nothing else.
LEMMA AppStepIsFileStep ==
    ASSUME AppTypeOK, AppNext
    PROVE  [Next]_vars
<1>1. CASE SessionNext
  BY <1>1 DEF SessionNext
<1>2. CASE ConfigNext
  <2>1. ASSUME NEW a \in Programs, Starts(a) PROVE UNCHANGED vars
    BY <2>1 DEF Starts
  <2>2. ASSUME NEW a \in Programs, Exits(a) PROVE \E P \in SUBSET Procs : Crash(P)
    <3>1. Crash({p \in Procs : program[p] = a})
      BY <2>2 DEF Exits
    <3> QED BY <3>1
  <2>3. ASSUME NEW d \in Documents, Edits(d) PROVE Edit(d)
    BY <2>3 DEF Edits
  <2>4. ASSUME NEW p \in Procs, Reads(p) \/ LoadsConfig(p) \/ Loaded(p) PROVE LoadStep(p)
    BY <2>4 DEF Reads, LoadsConfig, Loaded, LoadStep
  <2>5. ASSUME NEW p \in Procs, SavesConfig(p) \/ SetsTenant(p) PROVE Save(p)
    <3>1. \A t \in Tenants, c \in Configs : [tenant |-> t, other |-> c.other] \in Documents
      BY ConfigAssumption DEF Configs
    <3>2. \A t \in Tenants, c \in Configs : [c EXCEPT !.tenant = t] \in Documents
      BY ConfigAssumption DEF Configs
    <3>3. memory["cli"] \in Configs /\ Default \in Configs
      BY ConfigAssumption DEF AppTypeOK, Programs
    <3> QED BY <2>5, <3>1, <3>2, <3>3 DEF SavesConfig, SetsTenant, Save
  <2>6. ASSUME NEW p \in Procs, Writes(p) \/ Saved(p) \/ SavesNothing(p) PROVE SaveStep(p)
    BY <2>6 DEF Writes, Saved, SavesNothing, SaveStep
  <2>7. ASSUME NEW p \in Procs, Stores(p) PROVE UNCHANGED vars
    BY <2>7 DEF Stores
  <2> QED BY <1>2, <2>1, <2>2, <2>3, <2>4, <2>5, <2>6, <2>7 DEF ConfigNext, Next
<1> QED BY <1>1, <1>2 DEF AppNext

LEMMA AppInitHasInv == AppInit => AppInv
<1> SUFFICES ASSUME AppInit PROVE AppInv
  OBVIOUS
<1>1. FileInv /\ TypeOK
  BY InitHasInv DEF AppInit, FileInv, AnyInv
<1>2. AppTypeOK
  BY <1>1, ConfigAssumption DEF AppInit, AppTypeOK, Stages
<1>3. /\ \A p \in Procs : command[p] = "none" /\ ~alone[p] /\ op[p] = "idle"
      /\ \A a \in Programs : ~settled[a]
      /\ tmp = NoInode
  BY DEF AppInit, Init
<1>4. ConfigInv
  BY <1>3 DEF ConfigInv, CommandInv, TmpApart, AloneInv, SettledInv, SetTenantKeepsRest
<1>5. Quiet
  BY <1>3 DEF Quiet
<1> QED BY <1>1, <1>2, <1>4, <1>5 DEF AppInv


\* What the steps of the file leave alone.  A future that reads or writes has
\* its inode open, so that its content is kept.
LEMMA ReadFacts ==
    ASSUME TypeOK, NEW p \in Procs, LoadReads(p)
    PROVE  /\ op[p] = "read"
           /\ op' = [op EXCEPT ![p] = "idle"]
           /\ fd' = [fd EXCEPT ![p] = NoInode]
           /\ doc' = [doc EXCEPT ![p] = NoDocument]
           /\ UNCHANGED <<target, tmp>>
           /\ \A i \in Inodes : i \in {target, tmp} \/ (\E q \in Procs \ {p} : fd[q] = i)
                 => data'[i] = data[i]
BY KeptContents DEF LoadReads, Return, TypeOK

LEMMA FailFacts ==
    ASSUME TypeOK, NEW p \in Procs, RenameFails(p) \/ SaveFails(p)
    PROVE  /\ op[p] \in Saving
           /\ op' = [op EXCEPT ![p] = "idle"]
           /\ fd' = [fd EXCEPT ![p] = NoInode]
           /\ doc' = [doc EXCEPT ![p] = NoDocument]
           /\ UNCHANGED <<target, tmp>>
           /\ \A i \in Inodes :
                 /\ i \in {target, tmp} \/ \E q \in Procs \ {p} : fd[q] = i
                 /\ op[p] = "write" => fd[p] # i
              => data'[i] = data[i]
<1>1. CASE RenameFails(p)
  BY <1>1, KeptContents, FileAssumption DEF RenameFails, Return, TypeOK
<1>2. CASE SaveFails(p)
  <2>1. PICK content \in [Inodes -> Contents] :
           /\ data' = Kept(content, {target, tmp}, {p})
           /\ \A i \in Inodes : (op[p] = "write" => fd[p] # i) => content[i] = data[i]
    <3>1. CASE op[p] = "open"
      BY <1>2, <3>1 DEF SaveFails, TypeOK
    <3>2. CASE op[p] = "write"
      <4> DEFINE content == [data EXCEPT ![fd[p]] = Torn]
      <4>1. data' = Kept(content, {target, tmp}, {p}) /\ content \in [Inodes -> Contents]
        BY <1>2, <3>2 DEF SaveFails, TypeOK
      <4>2. \A i \in Inodes : fd[p] # i => content[i] = data[i]
        BY DEF TypeOK
      <4> QED BY <3>2, <4>1, <4>2
    <3> QED BY <1>2, <3>1, <3>2 DEF SaveFails
  <2> QED BY <1>2, <2>1, KeptContents DEF SaveFails, Return
<1> QED BY <1>1, <1>2

LEMMA RenameFacts ==
    ASSUME TypeOK, NEW p \in Procs, RenameTmp(p)
    PROVE  /\ op[p] = "rename" /\ tmp # NoInode
           /\ target' = tmp /\ tmp' = NoInode
           /\ op' = [op EXCEPT ![p] = "idle"]
           /\ fd' = [fd EXCEPT ![p] = NoInode]
           /\ doc' = [doc EXCEPT ![p] = NoDocument]
           /\ data'[tmp] = data[tmp]
BY KeptContents DEF RenameTmp, Return, TypeOK

LEMMA CrashFacts ==
    ASSUME TypeOK, NEW P \in SUBSET Procs, Crash(P)
    PROVE  /\ \A p \in P : op'[p] = "idle" /\ doc'[p] = NoDocument
           /\ \A p \in Procs \ P : op'[p] = op[p] /\ fd'[p] = fd[p] /\ doc'[p] = doc[p]
           /\ UNCHANGED <<target, tmp>>
           /\ \A i \in Inodes : i \in {target, tmp} \/ (\E q \in Procs \ P : fd[q] = i)
                 => data'[i] = data[i]
BY KeptContents DEF Crash, TypeOK

USE DEF ConfigInv, CommandInv, TmpApart

\* A command that loads, or reads the file for something else, begins.
LEMMA BeginsReadingKeepsInv ==
    ASSUME AppTypeOK, ConfigInv, NEW p \in Procs, NEW c \in {"read", "load"},
           Begins(p, c), command[p] = "none", LoadOpens(p) \/ LoadFindsNone(p),
           UNCHANGED <<program, memory, config, settled>>
    PROVE  ConfigInv'
<1>t. /\ op \in [Procs -> {"idle", "read"} \cup Saving] /\ fd \in [Procs -> Inodes \cup {NoInode}]
      /\ doc \in [Procs -> Documents \cup {NoDocument}]
      /\ command \in [Procs -> {"none", "read", "load", "save", "store"}]
      /\ target \in Inodes \cup {NoInode}
  BY DEF AppTypeOK, TypeOK
<1>1. /\ command' = [command EXCEPT ![p] = c]
      /\ alone' = [q \in Procs |->
             IF q = p THEN \A r \in Procs \ {p} : ~InTheWay(r)
             ELSE alone[q] /\ c = "read" /\ target # NoInode]
  BY DEF Begins
<1>2. /\ op[p] = "idle" /\ UNCHANGED <<target, tmp, data>>
      /\ \/ /\ target # NoInode /\ op' = [op EXCEPT ![p] = "read"]
            /\ fd' = [fd EXCEPT ![p] = target] /\ doc' = doc
         \/ /\ target = NoInode /\ op' = [op EXCEPT ![p] = "open"]
            /\ doc' = [doc EXCEPT ![p] = Default] /\ fd' = fd
  BY DEF LoadOpens, LoadFindsNone, BeginSave, disk
<1>3. CommandInv' /\ TmpApart'
  BY <1>t, <1>1, <1>2, ConfigAssumption DEF Saving
<1>4. \A q \in Procs \ {p} : InTheWay(q)' <=> InTheWay(q)
  BY <1>t, <1>1, <1>2 DEF InTheWay
<1>5. AloneInv'
  <2> SUFFICES ASSUME NEW q \in Procs, alone'[q], command'[q] \in {"load", "save", "store"}
               PROVE  /\ \A r \in Procs \ {q} : ~InTheWay(r)'
                      /\ op'[q] = "read" => fd'[q] = target'
                      /\ op'[q] = "write" => fd'[q] = tmp' /\ tmp' # NoInode /\ data'[tmp'] = Empty
                      /\ op'[q] = "rename" => tmp' # NoInode /\ data'[tmp'] = doc'[q]
                      /\ command'[q] = "store" => target' # NoInode /\ data'[target'] = config'[q]
    BY DEF AloneInv
  <2>1. CASE q = p
    BY <1>t, <1>1, <1>2, <1>4, <2>1
  <2>2. CASE q # p
    <3>1. c = "read" /\ target # NoInode /\ alone[q] /\ command[q] = command'[q]
      BY <1>t, <1>1, <2>2
    <3>2. ~InTheWay(p)'
      BY <1>t, <1>1, <1>2, <3>1 DEF InTheWay
    <3>3. op'[q] = op[q] /\ fd'[q] = fd[q] /\ doc'[q] = doc[q]
      BY <1>t, <1>2, <2>2
    <3> QED BY <1>2, <1>4, <2>2, <3>1, <3>2, <3>3 DEF AloneInv
  <2> QED BY <2>1, <2>2
<1>6. SettledInv'
  BY <1>t, <1>1, <1>2 DEF SettledInv
<1>7. SetTenantKeepsRest'
  <2>1. command'[p] # "save"
    BY <1>t, <1>1
  <2>2. \A q \in Procs \ {p} : command'[q] = command[q] /\ doc'[q] = doc[q] /\ (alone'[q] => alone[q])
    BY <1>t, <1>1, <1>2
  <2> QED BY <1>2, <2>1, <2>2 DEF SetTenantKeepsRest
<1> QED BY <1>3, <1>5, <1>6, <1>7

\* The types every one of these lemmas needs.
Types ==
    /\ op \in [Procs -> {"idle", "read"} \cup Saving]
    /\ fd \in [Procs -> Inodes \cup {NoInode}]
    /\ doc \in [Procs -> Documents \cup {NoDocument}]
    /\ data \in [Inodes -> Contents]
    /\ target \in Inodes \cup {NoInode}
    /\ tmp \in Inodes \cup {NoInode}
    /\ program \in [Procs -> Programs]
    /\ command \in [Procs -> {"none", "read", "load", "save", "store"}]
    /\ config \in [Procs -> Configs \cup {NoDocument}]
    /\ memory \in [Programs -> Configs]
    /\ alone \in [Procs -> BOOLEAN]
    /\ settled \in [Programs -> BOOLEAN]

LEMMA HaveTypes == AppTypeOK => Types
BY DEF AppTypeOK, TypeOK, Types

\* A save begins, of the settings page or of set-tenant.
LEMMA BeginsSavingKeepsInv ==
    ASSUME AppTypeOK, ConfigInv, NEW p \in Procs, SavesConfig(p) \/ SetsTenant(p)
    PROVE  ConfigInv'
<1>t. Types
  BY HaveTypes
<1>1. /\ command' = [command EXCEPT ![p] = "save"] /\ command[p] = "none"
      /\ alone' = [q \in Procs |->
             IF q = p THEN \A r \in Procs \ {p} : ~InTheWay(r) ELSE FALSE]
      /\ UNCHANGED <<program, memory, config, settled>>
  BY DEF Begins, SavesConfig, SetsTenant, MayBegin
<1>2. PICK c \in Configs : BeginSave(p, c) /\ (program[p] = "cli" => c.other = memory["cli"].other)
  <2>1. CASE SavesConfig(p)
    <3>1. PICK t \in Tenants : BeginSave(p, [tenant |-> t, other |-> Default.other])
      BY <2>1 DEF SavesConfig
    <3>2. [tenant |-> t, other |-> Default.other] \in Configs
      BY ConfigAssumption DEF Configs
    <3> QED BY <2>1, <3>1, <3>2 DEF SavesConfig
  <2>2. CASE SetsTenant(p)
    <3>1. PICK t \in Tenants : BeginSave(p, [memory["cli"] EXCEPT !.tenant = t])
      BY <2>2 DEF SetsTenant
    <3>2. memory["cli"] \in Configs
      BY <1>t DEF Types, Programs
    <3>3. \A c \in Configs : [c EXCEPT !.tenant = t] \in Configs /\ [c EXCEPT !.tenant = t].other = c.other
      BY DEF Configs
    <3> QED BY <3>1, <3>2, <3>3
  <2> QED BY <2>1, <2>2
<1>3. /\ op[p] = "idle" /\ UNCHANGED <<target, tmp, data, fd>>
      /\ op' = [op EXCEPT ![p] = "open"]
      /\ doc' = [doc EXCEPT ![p] = c]
  BY <1>2 DEF BeginSave, disk
<1>4. CommandInv' /\ TmpApart'
  BY <1>t, <1>1, <1>3 DEF Saving, Types
<1>5. AloneInv'
  BY <1>t, <1>1, <1>3 DEF AloneInv, InTheWay, Types
<1>6. SettledInv'
  BY <1>t, <1>1, <1>3 DEF SettledInv, Types
<1>7. SetTenantKeepsRest'
  <2> SUFFICES ASSUME alone'[p], program[p] = "cli", settled["cli"]
               PROVE  target # NoInode /\ c.other = data[target].other
    BY <1>t, <1>1, <1>3 DEF SetTenantKeepsRest, Types
  <2>1. \A r \in Procs : command[r] # "store"
    BY <1>t, <1>1 DEF InTheWay, Types
  <2>2. target # NoInode /\ data[target] = memory["cli"]
    BY <2>1 DEF SettledInv, Programs
  <2> QED BY <1>2, <2>2
<1> QED BY <1>4, <1>5, <1>6, <1>7

\* The file has been read.
LEMMA LoadedKeepsInv ==
    ASSUME AppTypeOK, ConfigInv, NEW p \in Procs, Loaded(p)
    PROVE  ConfigInv'
<1>t. Types
  BY HaveTypes
<1>1. /\ op[p] = "read"
      /\ op' = [op EXCEPT ![p] = "idle"]
      /\ fd' = [fd EXCEPT ![p] = NoInode]
      /\ doc' = [doc EXCEPT ![p] = NoDocument]
      /\ UNCHANGED <<target, tmp>>
      /\ \A i \in Inodes : i \in {target, tmp} \/ (\E q \in Procs \ {p} : fd[q] = i)
                           => data'[i] = data[i]
  BY ReadFacts DEF Loaded, AppTypeOK
<1>2. UNCHANGED <<program, memory, settled>>
  BY DEF Loaded
<1>3. \/ /\ command[p] = "load" /\ data[fd[p]] \in Configs
         /\ command' = [command EXCEPT ![p] = "store"]
         /\ config' = [config EXCEPT ![p] = data[fd[p]]]
      \/ /\ command' = [command EXCEPT ![p] = "none"]
         /\ config' = config
  BY <1>t DEF Loaded, Ends, Types
<1>a. \A q \in Procs : alone'[q] => alone[q]
  BY <1>t DEF Loaded, Ends, Types
<1>4. CommandInv' /\ TmpApart'
  BY <1>t, <1>1, <1>3 DEF Types, Saving
<1>5. AloneInv'
  <2> SUFFICES ASSUME NEW q \in Procs, alone'[q], command'[q] \in {"load", "save", "store"}
               PROVE  /\ \A r \in Procs \ {q} : ~InTheWay(r)'
                      /\ op'[q] = "read" => fd'[q] = target'
                      /\ op'[q] = "write" => fd'[q] = tmp' /\ tmp' # NoInode /\ data'[tmp'] = Empty
                      /\ op'[q] = "rename" => tmp' # NoInode /\ data'[tmp'] = doc'[q]
                      /\ command'[q] = "store" => target' # NoInode /\ data'[target'] = config'[q]
    BY DEF AloneInv
  <2>1. alone[q] /\ (q # p => command[q] = command'[q]) /\ (q = p => command[q] = "load" /\ command'[q] = "store")
    BY <1>t, <1>3, <1>a DEF Types
  <2>2. \A r \in Procs \ {q} : ~InTheWay(r)
    BY <2>1 DEF AloneInv
  <2>3. \A r \in Procs \ {q} : ~InTheWay(r)'
    BY <1>t, <1>1, <1>3, <2>2 DEF InTheWay, Types
  <2>4. CASE q = p
    <3>1. fd[p] = target /\ target \in Inodes
      BY <1>1, <2>1, <2>4 DEF AloneInv
    <3>2. command'[p] = "store" /\ config'[p] = data[target] /\ op'[p] = "idle"
      BY <1>t, <1>1, <1>3, <2>1, <2>4, <3>1 DEF Types
    <3>3. data'[target] = data[target]
      BY <1>1, <3>1
    <3> QED BY <1>1, <2>3, <2>4, <3>1, <3>2, <3>3, FileAssumption
  <2>5. CASE q # p
    <3>1. op'[q] = op[q] /\ fd'[q] = fd[q] /\ doc'[q] = doc[q] /\ config'[q] = config[q]
      BY <1>t, <1>1, <1>3, <2>5 DEF Types
    <3>2. /\ target # NoInode => data'[target] = data[target]
          /\ tmp # NoInode => data'[tmp] = data[tmp]
      BY <1>t, <1>1 DEF Types
    <3> QED BY <1>1, <2>1, <2>3, <2>5, <3>1, <3>2 DEF AloneInv
  <2> QED BY <2>4, <2>5
<1>6. SettledInv'
  <2>1. target # NoInode => data'[target] = data[target]
    BY <1>t, <1>1 DEF Types
  <2>2. \A q \in Procs : command'[q] # "store" => command[q] # "store"
    BY <1>t, <1>1, <1>3 DEF Types
  <2>3. \A q \in Procs : /\ op'[q] = "write" => op[q] = "write" /\ fd'[q] = fd[q]
                        /\ command'[q] = "read" => command[q] = "read" /\ op'[q] = op[q]
    BY <1>t, <1>1, <1>3 DEF Types
  <2> QED BY <1>1, <1>2, <2>1, <2>2, <2>3 DEF SettledInv
<1>7. SetTenantKeepsRest'
  <2>1. target # NoInode => data'[target] = data[target]
    BY <1>t, <1>1 DEF Types
  <2>2. \A q \in Procs : command'[q] = "save" =>
           doc'[q] = doc[q] /\ command[q] = "save" /\ (alone'[q] => alone[q])
    BY <1>t, <1>1, <1>3, <1>a DEF Types
  <2> QED BY <1>1, <1>2, <2>1, <2>2 DEF SetTenantKeepsRest
<1> QED BY <1>4, <1>5, <1>6, <1>7

\* The temporary file is opened or written.
LEMMA WritesKeepsInv ==
    ASSUME AppTypeOK, ConfigInv, NEW p \in Procs, Writes(p)
    PROVE  ConfigInv'
<1>t. Types
  BY HaveTypes
<1>1. /\ UNCHANGED <<program, memory, command, config, alone, settled, target, doc>>
      /\ op[p] \in {"open", "write"}
  BY DEF Writes, app, OpenTmp, WriteTmp
\* Either the inode opened is not the file, or p writes into the one it has open.
<1>2. \/ /\ op[p] = "open" /\ op' = [op EXCEPT ![p] = "write"]
         /\ \E i \in Inodes \ {target} :
               /\ tmp' = i /\ data' = [data EXCEPT ![i] = Empty]
               /\ fd' = [fd EXCEPT ![p] = i]
      \/ /\ op[p] = "write" /\ op' = [op EXCEPT ![p] = "rename"]
         /\ UNCHANGED <<tmp, fd>>
         /\ \E v \in Contents : /\ data[fd[p]] = Empty => v = doc[p]
                               /\ data' = [data EXCEPT ![fd[p]] = v]
  <2>1. CASE OpenTmp(p)
    <3>1. PICK i \in IF tmp # NoInode THEN {tmp} ELSE Free :
             /\ tmp' = i
             /\ data' = [data EXCEPT ![i] = Empty]
             /\ fd' = [fd EXCEPT ![p] = i]
      BY <2>1 DEF OpenTmp
    <3>2. i \in Inodes \ {target}
      BY <1>t, <3>1 DEF Free, Types
    <3> QED BY <2>1, <3>1, <3>2 DEF OpenTmp
  <2>2. CASE WriteTmp(p)
    <3> DEFINE v == IF data[fd[p]] \in {Empty, doc[p]} THEN doc[p] ELSE Torn
    <3>1. op[p] = "write" /\ fd[p] \in Inodes
      BY <2>2 DEF WriteTmp
    <3>2. v \in Contents
      BY <1>t, <3>1, FileAssumption, ConfigAssumption DEF Types, Contents, Saving
    <3>3. data' = [data EXCEPT ![fd[p]] = v]
      BY <2>2 DEF WriteTmp
    <3>4. /\ data[fd[p]] = Empty => v = doc[p]
          /\ op' = [op EXCEPT ![p] = "rename"] /\ UNCHANGED <<tmp, fd>>
      BY <2>2 DEF WriteTmp
    <3> HIDE DEF v
    <3> QED BY <3>1, <3>2, <3>3, <3>4
  <2> QED BY <2>1, <2>2 DEF Writes
<1>3. CommandInv' /\ TmpApart'
  BY <1>t, <1>1, <1>2 DEF Types, Saving
<1>4. \A q \in Procs : InTheWay(q)' <=> InTheWay(q)
  BY <1>t, <1>1, <1>2 DEF Types, InTheWay
<1>5. InTheWay(p) /\ command[p] \in {"read", "load", "save"}
  BY <1>t, <1>1 DEF InTheWay, Types, Saving
<1>6. AloneInv'
  <2> SUFFICES ASSUME NEW q \in Procs, alone[q], command[q] \in {"load", "save", "store"}
               PROVE  /\ \A r \in Procs \ {q} : ~InTheWay(r)
                      /\ op'[q] = "read" => fd'[q] = target
                      /\ op'[q] = "write" => fd'[q] = tmp' /\ tmp' # NoInode /\ data'[tmp'] = Empty
                      /\ op'[q] = "rename" => tmp' # NoInode /\ data'[tmp'] = doc[q]
                      /\ command[q] = "store" => target # NoInode /\ data'[target] = config[q]
    BY <1>1, <1>4 DEF AloneInv
  <2>1. q = p /\ \A r \in Procs \ {q} : ~InTheWay(r)
    BY <1>5 DEF AloneInv
  <2>2. command[p] # "store"
    BY <1>1
  <2>3. CASE op[p] = "open"
    BY <1>t, <1>2, <2>1, <2>2, <2>3, FileAssumption DEF Types
  <2>4. CASE op[p] = "write"
    <3>1. fd[p] = tmp /\ tmp \in Inodes /\ data[tmp] = Empty
      BY <1>t, <2>1, <2>4 DEF AloneInv, Types
    <3> QED BY <1>t, <1>2, <2>1, <2>2, <2>4, <3>1, FileAssumption DEF Types
  <2> QED BY <1>1, <2>3, <2>4
<1>7. SettledInv'
  <2> SUFFICES ASSUME NEW a \in Programs, settled[a]
               PROVE  /\ target # NoInode
                      /\ \A q \in Procs : program[q] = a /\ command[q] = "read" => op'[q] = "read"
                      /\ (\A q \in Procs : program[q] = a => command[q] # "store") =>
                           /\ data'[target] = memory[a]
                           /\ \A q \in Procs : op'[q] = "write" => fd'[q] # target
    BY <1>1 DEF SettledInv
  <2>1. target # NoInode /\ \A q \in Procs : program[q] = a /\ command[q] = "read" => op'[q] = "read"
    BY <1>t, <1>1, <1>2 DEF SettledInv, Types
  <2>2. ASSUME \A q \in Procs : program[q] = a => command[q] # "store"
        PROVE  data'[target] = memory[a] /\ \A q \in Procs : op'[q] = "write" => fd'[q] # target
    <3>1. data[target] = memory[a] /\ \A q \in Procs : op[q] = "write" => fd[q] # target
      BY <2>2 DEF SettledInv
    <3>2. data'[target] = data[target]
      BY <1>t, <1>2, <2>1, <3>1 DEF Types
    <3>3. \A q \in Procs : op'[q] = "write" => fd'[q] # target
      BY <1>t, <1>2, <3>1 DEF Types
    <3> QED BY <3>1, <3>2, <3>3
  <2> QED BY <2>1, <2>2
<1>8. SetTenantKeepsRest'
  <2> SUFFICES ASSUME NEW q \in Procs, program[q] = "cli", command[q] = "save", alone[q], settled["cli"]
               PROVE  target # NoInode /\ doc[q].other = data'[target].other
    BY <1>1 DEF SetTenantKeepsRest
  <2>1. q = p
    BY <1>5 DEF AloneInv
  <2>2. target # NoInode /\ doc[q].other = data[target].other
    BY DEF SetTenantKeepsRest
  <2>3. op[p] = "write" => fd[p] # target
    BY <2>1 DEF AloneInv
  <2>4. data'[target] = data[target]
    BY <1>t, <1>2, <2>2, <2>3 DEF Types
  <2> QED BY <2>2, <2>4
<1> QED BY <1>3, <1>6, <1>7, <1>8

\* The temporary file is renamed over the file.
LEMMA SavedKeepsInv ==
    ASSUME AppTypeOK, ConfigInv, NEW p \in Procs, Saved(p)
    PROVE  ConfigInv'
<1>t. Types
  BY HaveTypes
<1>1. /\ op[p] = "rename" /\ tmp # NoInode
      /\ target' = tmp /\ tmp' = NoInode
      /\ op' = [op EXCEPT ![p] = "idle"]
      /\ fd' = [fd EXCEPT ![p] = NoInode]
      /\ doc' = [doc EXCEPT ![p] = NoDocument]
      /\ data'[tmp] = data[tmp]
  BY RenameFacts DEF Saved, AppTypeOK
<1>2. /\ UNCHANGED <<program, memory>>
      /\ settled' = [a \in Programs |-> a = program[p] /\ settled[a]]
      /\ \A q \in Procs : alone'[q] => alone[q]
  BY <1>t DEF Saved, Ends, Types
<1>3. \/ /\ command[p] \in {"load", "save"}
         /\ command' = [command EXCEPT ![p] = "store"]
         /\ config' = [config EXCEPT ![p] = doc[p]]
      \/ /\ command[p] = "read"
         /\ command' = [command EXCEPT ![p] = "none"]
         /\ config' = config
  BY <1>t, <1>1 DEF Saved, Ends, Types
<1>4. InTheWay(p)
  BY <1>t, <1>1 DEF InTheWay, Types, Saving
<1>5. CommandInv' /\ TmpApart'
  BY <1>t, <1>1, <1>3 DEF Types, Saving
<1>6. AloneInv'
  <2> SUFFICES ASSUME NEW q \in Procs, alone'[q], command'[q] \in {"load", "save", "store"}
               PROVE  /\ \A r \in Procs \ {q} : ~InTheWay(r)'
                      /\ op'[q] = "read" => fd'[q] = target'
                      /\ op'[q] = "write" => fd'[q] = tmp' /\ tmp' # NoInode /\ data'[tmp'] = Empty
                      /\ op'[q] = "rename" => tmp' # NoInode /\ data'[tmp'] = doc'[q]
                      /\ command'[q] = "store" => target' # NoInode /\ data'[target'] = config'[q]
    BY DEF AloneInv
  <2>1. alone[q] /\ command[q] \in {"load", "save", "store"}
    BY <1>t, <1>2, <1>3 DEF Types
  <2>2. q = p /\ \A r \in Procs \ {q} : ~InTheWay(r)
    BY <1>4, <2>1 DEF AloneInv
  <2>3. \A r \in Procs \ {q} : ~InTheWay(r)'
    BY <1>t, <1>1, <1>3, <2>2 DEF InTheWay, Types
  <2>4. data[tmp] = doc[p]
    BY <1>1, <2>1, <2>2 DEF AloneInv
  <2>5. config'[p] = doc[p] /\ op'[p] = "idle"
    BY <1>t, <1>1, <1>3, <2>1, <2>2 DEF Types
  <2> QED BY <1>1, <2>2, <2>3, <2>4, <2>5
<1>7. SettledInv'
  <2>1. ASSUME NEW a \in Programs, settled'[a]
        PROVE  a = program[p] /\ settled[a] /\ command'[p] = "store"
    <3>1. a = program[p] /\ settled[a]
      BY <1>2, <2>1
    <3>2. command[p] # "read"
      BY <1>1, <3>1 DEF SettledInv
    <3> QED BY <1>t, <1>3, <3>1, <3>2 DEF Types
  <2>2. \A q \in Procs : command'[q] = "read" => command[q] = "read" /\ op'[q] = op[q]
    BY <1>t, <1>1, <1>3 DEF Types
  <2> QED BY <1>1, <1>2, <2>1, <2>2 DEF SettledInv
<1>8. SetTenantKeepsRest'
  <2>1. ASSUME NEW q \in Procs, command'[q] = "save", alone'[q] PROVE FALSE
    <3>1. q # p /\ command[q] = "save" /\ alone[q]
      BY <1>t, <1>2, <1>3, <2>1 DEF Types
    <3> QED BY <1>4, <3>1 DEF AloneInv
  <2> QED BY <2>1 DEF SetTenantKeepsRest
<1> QED BY <1>5, <1>6, <1>7, <1>8

\* A save fails.
LEMMA SavesNothingKeepsInv ==
    ASSUME AppTypeOK, ConfigInv, NEW p \in Procs, SavesNothing(p)
    PROVE  ConfigInv'
<1>t. Types
  BY HaveTypes
<1>1. /\ op[p] \in Saving
      /\ op' = [op EXCEPT ![p] = "idle"]
      /\ fd' = [fd EXCEPT ![p] = NoInode]
      /\ doc' = [doc EXCEPT ![p] = NoDocument]
      /\ UNCHANGED <<target, tmp>>
      /\ \A i \in Inodes :
            /\ i \in {target, tmp} \/ \E q \in Procs \ {p} : fd[q] = i
            /\ op[p] = "write" => fd[p] # i
         => data'[i] = data[i]
  BY FailFacts DEF SavesNothing, AppTypeOK
<1>2. /\ UNCHANGED <<program, memory, config, settled>>
      /\ command' = [command EXCEPT ![p] = "none"]
      /\ \A q \in Procs : alone'[q] => alone[q]
  BY <1>t DEF SavesNothing, Ends, Types
<1>3. InTheWay(p) /\ command[p] # "store"
  BY <1>t, <1>1 DEF InTheWay, Types, Saving
<1>4. CommandInv' /\ TmpApart'
  BY <1>t, <1>1, <1>2 DEF Types, Saving
\* Nothing that is alone is left.
<1>5. ASSUME NEW q \in Procs, alone'[q], command'[q] \in {"load", "save", "store"}
      PROVE  FALSE
  <2>1. q # p /\ alone[q] /\ command[q] \in {"load", "save", "store"}
    BY <1>t, <1>2, <1>5 DEF Types
  <2> QED BY <1>3, <2>1 DEF AloneInv
<1>6. AloneInv' /\ SetTenantKeepsRest'
  BY <1>5 DEF AloneInv, SetTenantKeepsRest
<1>7. SettledInv'
  <2> SUFFICES ASSUME NEW a \in Programs, settled[a]
               PROVE  /\ target # NoInode
                      /\ \A q \in Procs : program[q] = a /\ command'[q] = "read" => op'[q] = "read"
                      /\ (\A q \in Procs : program[q] = a => command'[q] # "store") =>
                           /\ data'[target] = memory[a]
                           /\ \A q \in Procs : op'[q] = "write" => fd'[q] # target
    BY <1>1, <1>2 DEF SettledInv
  <2>1. target # NoInode /\ \A q \in Procs : program[q] = a /\ command'[q] = "read" => op'[q] = "read"
    BY <1>t, <1>1, <1>2 DEF SettledInv, Types
  <2>2. ASSUME \A q \in Procs : program[q] = a => command'[q] # "store"
        PROVE  data'[target] = memory[a] /\ \A q \in Procs : op'[q] = "write" => fd'[q] # target
    <3>1. \A q \in Procs : program[q] = a => command[q] # "store"
      BY <1>t, <1>2, <1>3, <2>2 DEF Types
    <3>2. data[target] = memory[a] /\ \A q \in Procs : op[q] = "write" => fd[q] # target
      BY <3>1 DEF SettledInv
    <3>3. data'[target] = data[target]
      BY <1>t, <1>1, <2>1, <3>2 DEF Types
    <3>4. \A q \in Procs : op'[q] = "write" => fd'[q] # target
      BY <1>t, <1>1, <3>2 DEF Types
    <3> QED BY <3>2, <3>3, <3>4
  <2> QED BY <2>1, <2>2
<1> QED BY <1>4, <1>6, <1>7

\* A command ends with the memory.
LEMMA StoresKeepsInv ==
    ASSUME AppTypeOK, ConfigInv, NEW p \in Procs, Stores(p)
    PROVE  ConfigInv'
<1>t. Types
  BY HaveTypes
<1>1. /\ command[p] = "store" /\ UNCHANGED <<target, tmp, data, op, fd, doc, program>>
      /\ command' = [command EXCEPT ![p] = "none"]
      /\ config' = [config EXCEPT ![p] = NoDocument]
      /\ memory' = [memory EXCEPT ![program[p]] = config[p]]
      /\ settled' = [settled EXCEPT ![program[p]] = alone[p]]
  BY DEF Stores, Ends, vars, disk, procs
<1>2. \A q \in Procs : alone'[q] => alone[q]
  BY <1>t DEF Stores, Ends, Types
<1>3. InTheWay(p)
  BY <1>1 DEF InTheWay
<1>4. CommandInv' /\ TmpApart'
  BY <1>t, <1>1 DEF Types, Saving
<1>5. ASSUME NEW q \in Procs, alone'[q], command'[q] \in {"load", "save", "store"}
      PROVE  FALSE
  <2>1. q # p /\ alone[q] /\ command[q] \in {"load", "save", "store"}
    BY <1>t, <1>1, <1>2, <1>5 DEF Types
  <2> QED BY <1>3, <2>1 DEF AloneInv
<1>6. AloneInv' /\ SetTenantKeepsRest'
  BY <1>5 DEF AloneInv, SetTenantKeepsRest
<1>7. SettledInv'
  <2> SUFFICES ASSUME NEW a \in Programs, settled'[a]
               PROVE  /\ target # NoInode
                      /\ \A q \in Procs : program[q] = a /\ command'[q] = "read" => op[q] = "read"
                      /\ (\A q \in Procs : program[q] = a => command'[q] # "store") =>
                           /\ data[target] = memory'[a]
                           /\ \A q \in Procs : op[q] = "write" => fd[q] # target
    BY <1>1 DEF SettledInv
  <2>1. CASE a = program[p]
    <3>1. alone[p] /\ memory'[a] = config[p]
      BY <1>t, <1>1, <2>1 DEF Types
    <3>2. /\ \A q \in Procs \ {p} : ~InTheWay(q)
          /\ target # NoInode /\ data[target] = config[p]
      BY <1>1, <3>1 DEF AloneInv
    <3>3. \A q \in Procs : command'[q] = "read" => op[q] = "read"
      BY <1>t, <1>1, <3>2 DEF InTheWay, Types
    <3>4. \A q \in Procs : op[q] # "write"
      BY <1>t, <1>1, <3>2 DEF InTheWay, Types
    <3> QED BY <3>1, <3>2, <3>3, <3>4
  <2>2. CASE a # program[p]
    <3>1. settled[a] /\ memory'[a] = memory[a]
      BY <1>t, <1>1, <2>2 DEF Types
    <3>2. \A q \in Procs : program[q] = a => command'[q] = command[q]
      BY <1>t, <1>1, <2>2 DEF Types
    <3> QED BY <3>1, <3>2 DEF SettledInv
  <2> QED BY <2>1, <2>2
<1> QED BY <1>4, <1>6, <1>7

\* A program ends.
LEMMA ExitsKeepsInv ==
    ASSUME AppTypeOK, ConfigInv, NEW a \in Programs, Exits(a)
    PROVE  ConfigInv'
<1> DEFINE P == {p \in Procs : program[p] = a}
<1>t. Types
  BY HaveTypes
<1>1. /\ \A p \in P : op'[p] = "idle" /\ doc'[p] = NoDocument
      /\ \A p \in Procs \ P : op'[p] = op[p] /\ fd'[p] = fd[p] /\ doc'[p] = doc[p]
      /\ UNCHANGED <<target, tmp>>
      /\ \A i \in Inodes : i \in {target, tmp} \/ (\E q \in Procs \ P : fd[q] = i)
            => data'[i] = data[i]
  BY CrashFacts DEF Exits, AppTypeOK
<1>2. /\ program' = program
      /\ \A p \in P : command'[p] = "none" /\ ~alone'[p]
      /\ \A p \in Procs \ P : command'[p] = command[p] /\ config'[p] = config[p] /\ alone'[p] = alone[p]
      /\ ~settled'[a]
      /\ \A b \in Programs \ {a} : memory'[b] = memory[b] /\ settled'[b] = settled[b]
  BY <1>t DEF Exits, Types
<1>3. /\ target # NoInode => data'[target] = data[target]
      /\ tmp # NoInode => data'[tmp] = data[tmp]
  BY <1>t, <1>1 DEF Types
<1>4. CommandInv' /\ TmpApart'
  <2>1. ASSUME NEW p \in P PROVE op'[p] = "idle" /\ command'[p] = "none"
    BY <1>1, <1>2
  <2> QED BY <1>1, <1>2, <2>1 DEF Saving
<1>5. \A q \in Procs : InTheWay(q)' => InTheWay(q)
  BY <1>1, <1>2 DEF InTheWay
<1>6. AloneInv'
  <2> SUFFICES ASSUME NEW q \in Procs, alone'[q], command'[q] \in {"load", "save", "store"}
               PROVE  /\ \A r \in Procs \ {q} : ~InTheWay(r)'
                      /\ op'[q] = "read" => fd'[q] = target'
                      /\ op'[q] = "write" => fd'[q] = tmp' /\ tmp' # NoInode /\ data'[tmp'] = Empty
                      /\ op'[q] = "rename" => tmp' # NoInode /\ data'[tmp'] = doc'[q]
                      /\ command'[q] = "store" => target' # NoInode /\ data'[target'] = config'[q]
    BY DEF AloneInv
  <2>1. q \in Procs \ P
    BY <1>2
  <2>2. /\ command'[q] = command[q] /\ config'[q] = config[q] /\ alone[q]
        /\ op'[q] = op[q] /\ fd'[q] = fd[q] /\ doc'[q] = doc[q]
    BY <1>1, <1>2, <2>1
  <2> QED BY <1>1, <1>3, <1>5, <2>2 DEF AloneInv
<1>7. SettledInv'
  <2> SUFFICES ASSUME NEW b \in Programs, settled'[b]
               PROVE  /\ target # NoInode
                      /\ \A q \in Procs : program[q] = b /\ command'[q] = "read" => op'[q] = "read"
                      /\ (\A q \in Procs : program[q] = b => command'[q] # "store") =>
                           /\ data'[target] = memory'[b]
                           /\ \A q \in Procs : op'[q] = "write" => fd'[q] # target
    BY <1>1, <1>2 DEF SettledInv
  <2>1. b # a /\ settled[b] /\ memory'[b] = memory[b]
    BY <1>2
  <2>2. \A q \in Procs : program[q] = b => q \notin P
    BY <2>1
  <2>3. \A q \in Procs : program[q] = b => command'[q] = command[q] /\ op'[q] = op[q]
    BY <1>1, <1>2, <2>2
  <2>4. \A q \in Procs : op'[q] = "write" => op[q] = "write" /\ fd'[q] = fd[q]
    BY <1>1
  <2> HIDE DEF P
  <2> QED BY <1>3, <2>1, <2>3, <2>4 DEF SettledInv
<1>8. SetTenantKeepsRest'
  <2> SUFFICES ASSUME NEW q \in Procs, program[q] = "cli", command'[q] = "save", alone'[q], settled'["cli"]
               PROVE  target # NoInode /\ doc'[q].other = data'[target].other
    BY <1>1, <1>2 DEF SetTenantKeepsRest
  <2>1. q \in Procs \ P /\ a # "cli"
    BY <1>2
  <2>2. command[q] = "save" /\ alone[q] /\ settled["cli"] /\ doc'[q] = doc[q]
    BY <1>1, <1>2, <2>1 DEF Programs
  <2> QED BY <1>3, <2>2 DEF SetTenantKeepsRest
<1> QED BY <1>4, <1>6, <1>7, <1>8

LEMMA ConfigStepKeepsInv ==
    ASSUME AppTypeOK, ConfigInv, ConfigNext
    PROVE  ConfigInv' /\ kind' = kind
<1>1. ASSUME NEW a \in Programs, Starts(a) PROVE ConfigInv' /\ kind' = kind
  BY <1>1 DEF Starts, vars, disk, procs, AloneInv, SettledInv, SetTenantKeepsRest, InTheWay
<1>2. ASSUME NEW a \in Programs, Exits(a) PROVE ConfigInv' /\ kind' = kind
  BY <1>2, ExitsKeepsInv DEF Exits, Crash
<1>3. ASSUME NEW d \in Documents, Edits(d) PROVE ConfigInv' /\ kind' = kind
  BY <1>3 DEF Edits, Edit, procs, AloneInv, SettledInv, SetTenantKeepsRest
<1>4. ASSUME NEW p \in Procs, Reads(p) \/ LoadsConfig(p) PROVE ConfigInv' /\ kind' = kind
  <2>1. /\ command[p] = "none"
        /\ LoadOpens(p) \/ LoadFindsNone(p)
        /\ UNCHANGED <<program, memory, config, settled>>
        /\ Begins(p, "read") \/ Begins(p, "load")
    BY <1>4 DEF Reads, LoadsConfig, MayBegin
  <2>2. PICK c \in {"read", "load"} : Begins(p, c)
    BY <2>1
  <2>3. ConfigInv'
    BY <2>1, <2>2, BeginsReadingKeepsInv
  <2>4. kind' = kind
    BY <2>1 DEF LoadOpens, LoadFindsNone, BeginSave
  <2> QED BY <2>3, <2>4
<1>5. ASSUME NEW p \in Procs, Loaded(p) PROVE ConfigInv' /\ kind' = kind
  BY <1>5, LoadedKeepsInv DEF Loaded, LoadReads
<1>6. ASSUME NEW p \in Procs, SavesConfig(p) \/ SetsTenant(p) PROVE ConfigInv' /\ kind' = kind
  BY <1>6, BeginsSavingKeepsInv DEF SavesConfig, SetsTenant, BeginSave
<1>7. ASSUME NEW p \in Procs, Writes(p) PROVE ConfigInv' /\ kind' = kind
  BY <1>7, WritesKeepsInv DEF Writes, OpenTmp, WriteTmp
<1>8. ASSUME NEW p \in Procs, Saved(p) PROVE ConfigInv' /\ kind' = kind
  BY <1>8, SavedKeepsInv DEF Saved, RenameTmp
<1>9. ASSUME NEW p \in Procs, SavesNothing(p) PROVE ConfigInv' /\ kind' = kind
  BY <1>9, SavesNothingKeepsInv DEF SavesNothing, RenameFails, SaveFails
<1>a. ASSUME NEW p \in Procs, Stores(p) PROVE ConfigInv' /\ kind' = kind
  BY <1>a, StoresKeepsInv DEF Stores, vars
<1> QED BY <1>1, <1>2, <1>3, <1>4, <1>5, <1>6, <1>7, <1>8, <1>9, <1>a DEF ConfigNext

\* The types of the programs' own variables.
LEMMA ConfigStepKeepsTypes ==
    ASSUME AppTypeOK, ConfigInv, TypeOK', ConfigNext
    PROVE  AppTypeOK'
<1>t. Types
  BY HaveTypes
<1>s. /\ stage \in [Programs -> Stages]
      /\ \A p \in Procs : StageAfter(p) \in [Programs -> Stages]
  BY DEF AppTypeOK, StageAfter, Stages
<1> USE DEF AppTypeOK
<1>b. ASSUME NEW p \in Procs, NEW c \in {"read", "load", "save"}, Begins(p, c)
      PROVE  /\ command' \in [Procs -> {"none", "read", "load", "save", "store"}]
             /\ alone' \in [Procs -> BOOLEAN]
  BY <1>b DEF Begins
<1>e. ASSUME NEW p \in Procs, NEW c \in {"none", "store"}, Ends(p, c)
      PROVE  /\ command' \in [Procs -> {"none", "read", "load", "save", "store"}]
             /\ alone' \in [Procs -> BOOLEAN]
  BY <1>e, Zenon DEF Ends
<1>1. ASSUME NEW a \in Programs, Starts(a) PROVE AppTypeOK'
  BY <1>1 DEF Starts, Stages
<1>2. ASSUME NEW a \in Programs, Exits(a) PROVE AppTypeOK'
  BY <1>2, ConfigAssumption DEF Exits, Stages
<1>3. ASSUME NEW d \in Documents, Edits(d) PROVE AppTypeOK'
  BY <1>3 DEF Edits
<1>4. ASSUME NEW p \in Procs, Reads(p) \/ LoadsConfig(p) \/ SavesConfig(p) \/ SetsTenant(p)
      PROVE  AppTypeOK'
  <2>1. /\ UNCHANGED <<program, stage, memory, config, settled>>
        /\ \E c \in {"read", "load", "save"} : Begins(p, c)
    BY <1>4 DEF Reads, LoadsConfig, SavesConfig, SetsTenant
  <2> QED BY <1>b, <2>1
<1>5. ASSUME NEW p \in Procs, Loaded(p) PROVE AppTypeOK'
  <2>1. /\ UNCHANGED <<program, memory, settled>>
        /\ stage' \in [Programs -> Stages]
        /\ config' \in [Procs -> Configs \cup {NoDocument}]
        /\ \E c \in {"none", "store"} : Ends(p, c)
    BY <1>5, <1>s DEF Loaded
  <2> QED BY <1>e, <2>1
<1>6. ASSUME NEW p \in Procs, Writes(p) PROVE AppTypeOK'
  BY <1>6 DEF Writes, app
<1>7. ASSUME NEW p \in Procs, Saved(p) PROVE AppTypeOK'
  <2>1. op[p] = "rename"
    BY <1>7 DEF Saved, RenameTmp
  <2>2. doc[p] \in Configs
    BY <2>1 DEF Saving
  <2>3. /\ UNCHANGED <<program, memory>>
        /\ stage' \in [Programs -> Stages]
        /\ config' \in [Procs -> Configs \cup {NoDocument}]
        /\ \E c \in {"none", "store"} : Ends(p, c)
    BY <1>7, <1>s, <2>2 DEF Saved
  <2>4. settled' \in [Programs -> BOOLEAN]
    BY <1>7 DEF Saved
  <2> QED BY <1>e, <2>3, <2>4
<1>8. ASSUME NEW p \in Procs, SavesNothing(p) PROVE AppTypeOK'
  BY <1>8, <1>s, <1>e DEF SavesNothing
<1>9. ASSUME NEW p \in Procs, Stores(p) PROVE AppTypeOK'
  <2>1. config[p] \in Configs
    BY <1>9 DEF Stores
  <2>2. Ends(p, "none") /\ stage' \in [Programs -> Stages]
    BY <1>9, <1>s DEF Stores
  <2> QED BY <1>9, <1>e, <2>1, <2>2 DEF Stores
<1> QED BY <1>1, <1>2, <1>3, <1>4, <1>5, <1>6, <1>7, <1>8, <1>9 DEF ConfigNext

LEMMA AppStepKeepsInv ==
    ASSUME AppInv, [AppNext]_appVars
    PROVE  AppInv'
<1>1. CASE UNCHANGED appVars
  <2> USE <1>1 DEF appVars, vars, disk, procs, app
  <2>1. FileInv'
    BY StepKeepsInv DEF AppInv
  <2>2. AppTypeOK' /\ (kind' = "config" => ConfigInv') /\ (kind' = "session" => Quiet')
    BY DEF AppInv, AppTypeOK, TypeOK, AloneInv, SettledInv, SetTenantKeepsRest, InTheWay, Quiet
  <2> QED BY <2>1, <2>2 DEF AppInv
<1>2. CASE AppNext
  <2>1. FileInv' /\ TypeOK'
    BY <1>2, AppStepIsFileStep, StepKeepsInv DEF AppInv, FileInv, AnyInv
  <2>2. CASE kind = "config" /\ ConfigNext
    <3>1. ConfigInv' /\ kind' = kind
      BY <2>2, ConfigStepKeepsInv DEF AppInv
    <3>2. AppTypeOK'
      BY <2>1, <2>2, ConfigStepKeepsTypes DEF AppInv
    <3> QED BY <2>1, <2>2, <3>1, <3>2 DEF AppInv
  <2>3. CASE kind = "session" /\ SessionNext
    <3>1. kind' = kind
      BY <2>3 DEF SessionNext, Next, Save, SaveStep, LoadStep, LoadFindsNone, BeginSave, OpenTmp,
                  WriteTmp, RenameTmp, RenameFails, SaveFails, LoadOpens, LoadReads, Clear, Edit, Crash
    <3>2. AppTypeOK' /\ Quiet'
      BY <2>1, <2>3 DEF SessionNext, app, AppInv, AppTypeOK, Quiet
    <3> QED BY <2>1, <2>3, <3>1, <3>2 DEF AppInv
  <2> QED BY <1>2, <2>2, <2>3 DEF AppNext
<1> QED BY <1>1, <1>2

\* The inductive invariant of the programs and their file.
THEOREM AppIsSafe == AppSpec => []AppInv
BY AppInitHasInv, AppStepKeepsInv, PTL DEF AppSpec

\* Both programs keep to JsonFile, whose theorems hold for them therefore.
THEOREM AppUsesFile == AppSpec => Spec
<1>1. AppInit => Init
  BY DEF AppInit
<1>2. ASSUME AppInv, [AppNext]_appVars PROVE [Next]_vars
  BY <1>2, AppStepIsFileStep DEF AppInv, appVars
<1> QED BY <1>1, <1>2, AppIsSafe, PTL DEF AppSpec, Spec

\* The variables keep their types.
THEOREM AppTypesHold == AppSpec => []AppTypeOK
<1>1. AppInv => AppTypeOK
  BY DEF AppInv
<1> QED BY <1>1, AppIsSafe, PTL

\* A configuration that a program has loaded or saved is the one in the file
\* until commands cross or somebody else writes (LoadConfig and SaveConfig do
\* the file first and the memory after it).
THEOREM MemoryFollowsFile == AppSpec => []MemoryIsFile
<1>1. ASSUME AppInv PROVE MemoryIsFile
  <2> SUFFICES ASSUME NEW a \in Programs, settled[a],
                      ~(\E p \in Procs : program[p] = a /\ InTheWay(p))
               PROVE  target # NoInode /\ data[target] = memory[a]
    BY DEF MemoryIsFile
  <2>1. kind = "config" /\ SettledInv
    BY <1>1 DEF AppInv, Quiet, AppTypeOK, TypeOK
  <2>2. \A p \in Procs : program[p] = a => command[p] # "store"
    <3>1. ASSUME NEW p \in Procs, program[p] = a, command[p] = "store" PROVE FALSE
      BY <3>1 DEF InTheWay
    <3> QED BY <3>1
  <2> QED BY <2>1, <2>2 DEF SettledInv
<1> QED BY <1>1, AppIsSafe, PTL

\* set-tenant changes the server and leaves the rest of the file as it is.
THEOREM TenantOnly == AppSpec => []SetTenantKeepsRest
<1>1. AppInv => SetTenantKeepsRest
  BY DEF AppInv, AppTypeOK, TypeOK, Quiet, SetTenantKeepsRest
<1> QED BY <1>1, AppIsSafe, PTL
=============================================================================
