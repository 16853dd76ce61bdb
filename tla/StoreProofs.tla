----------------------------- MODULE StoreProofs -----------------------------
(***************************************************************************)
(* For any number of goroutines, documents and inodes, with failing writes *)
(* and crashes: the store is durable whenever no SetX call is in progress  *)
(* and none has failed, documents are never mixed, none reaches the file   *)
(* torn but by an overlap or a failure, and the store                      *)
(* implements the register of module DurableStore.                         *)
(***************************************************************************)
EXTENDS Store, TLAPS

\* The inode holds the value in memory, or a saver is about to write it there.
Fresh(i) ==
    /\ i # NoInode
    /\ data[i] = mem \/ \E q \in Proc : pc[q] = "write" /\ fd[q] = i

PastOpen == {p \in Proc : pc[p] \in {"write", "rename"}}

NamesApart == link["tmp"] # NoInode => link["tmp"] # link["file"]

\* Every saver under the read lock has marshalled the value in memory, and the
\* inode it has open holds nothing else.
SaversAgree ==
    /\ \A p \in Saving : val[p] = mem
    /\ \A p \in Proc : pc[p] = "write" => fd[p] \in Inode /\ data[fd[p]] \in {Empty, mem}

\* From the moment one saver has truncated the temporary file, whatever is
\* renamed is fresh, and the value has a place: under one name or the other.
RenamesFresh ==
    ~failed /\ PastOpen # {} => /\ link["tmp"] = NoInode \/ Fresh(link["tmp"])
                                /\ Fresh(link["tmp"]) \/ Fresh(link["file"])

\* Even after a failure, what the temporary name holds is not an older document.
TmpNotOld ==
    PastOpen # {} => link["tmp"] = NoInode \/ data[link["tmp"]] \in {Empty, mem}

IInv == TypeOK /\ NamesApart /\ SaversAgree /\ RenamesFresh /\ TmpNotOld /\ DurableWhenIdle

-----------------------------------------------------------------------------
\* Writing the document that an inode already holds, or holds nothing of, leaves
\* the inode with exactly that document.
LEMMA WrittenWhole == ASSUME NEW v \in Value, NEW old \in {Empty, v}
                      PROVE  Overwrite(old, v) = {v}
<1>1. v \notin {NoInode, Empty}
  BY StoreAssumption DEF Content
<1>2. QED
  BY <1>1 DEF Overwrite

\* Writing any document leaves content of some kind.
LEMMA WrittenSome == ASSUME NEW v \in Value, NEW old PROVE Overwrite(old, v) \subseteq Content
<1>1. v \notin {NoInode, Empty}
  BY StoreAssumption DEF Content
<1>2. QED
  BY <1>1 DEF Overwrite, Content

\* The variables of Store keep their types (store.go:13-82).
THEOREM TypeCorrect == Spec => []TypeOK
<1>1. Init => TypeOK
  BY StoreAssumption DEF Init, TypeOK, FilesOK, Content, Load, ReadFile, Name
<1>2. TypeOK /\ [Next]_vars => TypeOK'
  <2> SUFFICES ASSUME TypeOK, [Next]_vars PROVE TypeOK'
    OBVIOUS
  <2> USE StoreAssumption DEF TypeOK, FilesOK
  <2>1. ASSUME NEW p \in Proc, NEW v \in Value, Call(p, v) PROVE TypeOK'
    BY <2>1 DEF Call, Step, files
  <2>2. ASSUME NEW p \in Proc, Announce(p) PROVE TypeOK'
    BY <2>2 DEF Announce, Step, files
  <2>3. ASSUME NEW p \in Proc, Set(p) PROVE TypeOK'
    BY <2>3 DEF Set, Step, files
  <2>4. ASSUME NEW p \in Proc, SaveBegin(p) PROVE TypeOK'
    BY <2>4 DEF SaveBegin, Step, files
  <2>5. ASSUME NEW p \in Proc, SaveOpen(p) PROVE TypeOK'
    BY <2>5 DEF SaveOpen, Step, OpenTrunc, Name, Content
  <2>6. ASSUME NEW p \in Proc, SaveWrite(p) PROVE TypeOK'
    <3>1. val[p] \in Value
      OBVIOUS
    <3>2. PICK c \in Content : data' = [data EXCEPT ![fd[p]] = c]
      BY <2>6, <3>1, WrittenSome DEF SaveWrite, WriteInode
    <3>3. QED
      BY <2>6, <3>2 DEF SaveWrite, Step, WriteInode
  <2>7. ASSUME NEW p \in Proc, SaveWriteFails(p) PROVE TypeOK'
    BY <2>7 DEF SaveWriteFails, Step, files
  <2>8. ASSUME NEW p \in Proc, SaveRename(p) PROVE TypeOK'
    BY <2>8 DEF SaveRename, Step, RenameTmp, Name, files
  <2>9. CASE Restart
    BY <2>9 DEF Restart, Load, files
  <2>10. CASE UNCHANGED vars
    BY <2>10 DEF vars
  <2>11. QED
    BY <2>1, <2>2, <2>3, <2>4, <2>5, <2>6, <2>7, <2>8, <2>9, <2>10 DEF Next, Accessor
<1>3. QED
  BY <1>1, <1>2, PTL DEF Spec

\* The strengthening holds initially and every step keeps it.
LEMMA IInvInit == Init => IInv
  BY StoreAssumption DEF Init, IInv, TypeOK, FilesOK, Content, Load, ReadFile, Name, NamesApart,
     SaversAgree, Saving, RenamesFresh, TmpNotOld, PastOpen, DurableWhenIdle

LEMMA IInvStep == ASSUME TypeOK', IInv, [Next]_vars PROVE IInv'
<1> USE StoreAssumption DEF IInv, TypeOK, FilesOK
<1>1. ASSUME NEW p \in Proc, NEW v \in Value, Call(p, v) PROVE IInv'
  BY <1>1 DEF Call, Step, files, NamesApart, SaversAgree, Saving, RenamesFresh, TmpNotOld,
     PastOpen, Fresh,
     DurableWhenIdle, Unsaved, Load, ReadFile
<1>2. ASSUME NEW p \in Proc, Announce(p) PROVE IInv'
  BY <1>2 DEF Announce, Step, files, NamesApart, SaversAgree, Saving, RenamesFresh, TmpNotOld,
     PastOpen, Fresh,
     DurableWhenIdle, Unsaved, Load, ReadFile
<1>3. ASSUME NEW p \in Proc, Set(p) PROVE IInv'
  BY <1>3 DEF Set, Step, files, NamesApart, SaversAgree, Saving, RenamesFresh, TmpNotOld, PastOpen,
     DurableWhenIdle, Unsaved
<1>4. ASSUME NEW p \in Proc, SaveBegin(p) PROVE IInv'
  BY <1>4 DEF SaveBegin, Step, files, NamesApart, SaversAgree, Saving, RenamesFresh, TmpNotOld,
     PastOpen, Fresh,
     DurableWhenIdle, Unsaved, Load, ReadFile
<1>5. ASSUME NEW p \in Proc, SaveOpen(p) PROVE IInv'
  BY <1>5 DEF SaveOpen, Step, OpenTrunc, FreeInode, Opened, Name, NamesApart, SaversAgree, Saving,
     RenamesFresh, TmpNotOld, PastOpen, Fresh, DurableWhenIdle, Unsaved, Content
<1>6. ASSUME NEW p \in Proc, SaveWrite(p) PROVE IInv'
  <2>1. val[p] = mem /\ data[fd[p]] \in {Empty, mem}
    BY <1>6 DEF SaveWrite, Step, SaversAgree, Saving
  <2>2. Overwrite(data[fd[p]], val[p]) = {mem}
    BY <2>1, WrittenWhole
  <2>3. data' = [data EXCEPT ![fd[p]] = mem]
    BY <1>6, <2>2 DEF SaveWrite, WriteInode
  <2>4. QED
    BY <1>6, <2>3 DEF SaveWrite, Step, WriteInode, Name, NamesApart, SaversAgree, Saving,
       RenamesFresh, TmpNotOld, PastOpen, Fresh, DurableWhenIdle, Unsaved, Content
<1>7. ASSUME NEW p \in Proc, SaveRename(p) PROVE IInv'
  BY <1>7 DEF SaveRename, Step, RenameTmp, Name, files, NamesApart, SaversAgree, Saving,
     RenamesFresh, TmpNotOld, PastOpen, Fresh, DurableWhenIdle, Unsaved, Load, ReadFile
<1>8. CASE Restart
  BY <1>8 DEF Restart, files, NamesApart, SaversAgree, Saving, RenamesFresh, TmpNotOld, PastOpen,
     DurableWhenIdle, Unsaved, Load, ReadFile
<1>9. CASE UNCHANGED vars
  BY <1>9 DEF vars, NamesApart, SaversAgree, Saving, RenamesFresh, TmpNotOld, PastOpen, Fresh,
     DurableWhenIdle, Unsaved, Load, ReadFile
<1>10. ASSUME NEW p \in Proc, SaveWriteFails(p) PROVE IInv'
  BY <1>10 DEF SaveWriteFails, Step, files, NamesApart, SaversAgree, Saving, RenamesFresh,
     TmpNotOld,
     PastOpen, DurableWhenIdle
<1>11. QED
  BY <1>1, <1>2, <1>3, <1>4, <1>5, <1>6, <1>7, <1>8, <1>9, <1>10 DEF Next, Accessor

\* store.go:63-82: once no SetX call is in progress and none has failed since the
\* last Set, a restart reads back the value in memory, for any number of
\* overlapping callers and crashes.
THEOREM Durability == Spec => []DurableWhenIdle
<1>1. TypeOK' /\ IInv /\ [Next]_vars => IInv'
  BY IInvStep
<1>2. IInv => DurableWhenIdle
  BY DEF IInv
<1>3. QED
  BY IInvInit, <1>1, <1>2, TypeCorrect, PTL DEF Spec

\* store.go:70: the read lock is enough to keep two documents from being mixed
\* in the shared temporary file, failing writes included.
THEOREM NoMixedDocuments == Spec => []NeverGarbled
<1> DEFINE GInv == SaversAgree /\ NeverGarbled
<1>1. Init => GInv
  BY StoreAssumption DEF Init, SaversAgree, Saving, NeverGarbled
<1>2. TypeOK /\ GInv /\ [Next]_vars => GInv'
  <2> SUFFICES ASSUME TypeOK, GInv, [Next]_vars PROVE GInv'
    OBVIOUS
  <2> USE StoreAssumption DEF TypeOK, FilesOK, SaversAgree, Saving, NeverGarbled
  <2>1. ASSUME NEW p \in Proc, SaveOpen(p) PROVE GInv'
    BY <2>1 DEF SaveOpen, Step, OpenTrunc, Name
  <2>2. ASSUME NEW p \in Proc, SaveWrite(p) PROVE GInv'
    <3>1. val[p] = mem /\ data[fd[p]] \in {Empty, mem}
      BY <2>2 DEF SaveWrite, Step
    <3>2. Overwrite(data[fd[p]], val[p]) = {mem}
      BY <3>1, WrittenWhole
    <3>3. data' = [data EXCEPT ![fd[p]] = mem]
      BY <2>2, <3>2 DEF SaveWrite, WriteInode
    <3>4. QED
      BY <2>2, <3>3 DEF SaveWrite, Step
  <2>3. ASSUME NEW p \in Proc, SaveRename(p) PROVE GInv'
    BY <2>3 DEF SaveRename, Step, RenameTmp, files
  <2>4. ASSUME NEW p \in Proc,
               (\E v \in Value : Call(p, v)) \/ Announce(p) \/ SaveBegin(p) \/ SaveWriteFails(p)
        PROVE  GInv'
    BY <2>4 DEF Call, Announce, SaveBegin, SaveWriteFails, Step, files
  <2>5. ASSUME NEW p \in Proc, Set(p) PROVE GInv'
    BY <2>5 DEF Set, Step, files
  <2>6. CASE Restart \/ UNCHANGED vars
    BY <2>6 DEF Restart, files, vars
  <2>7. QED
    BY <2>1, <2>2, <2>3, <2>4, <2>5, <2>6 DEF Next, Accessor
<1>3. GInv => NeverGarbled
  OBVIOUS
<1>4. QED
  BY <1>1, <1>2, <1>3, TypeCorrect, PTL DEF Spec

-----------------------------------------------------------------------------
\* A step of one caller is a step of the register, or changes nothing it shows.
LEMMA StepRefines ==
    ASSUME IInv, IInv', [Next]_vars
    PROVE  [Register!DNext]_(Register!dvars)
<1> USE StoreAssumption DEF IInv, TypeOK, FilesOK, Register!DNext, Register!dvars
<1>1. ASSUME NEW p \in Proc, NEW v \in Value, Call(p, v) PROVE UNCHANGED Register!dvars
  BY <1>1 DEF Call, Step, files, Load, ReadFile, Unsaved
<1>2. ASSUME NEW p \in Proc, Announce(p) PROVE UNCHANGED Register!dvars
  BY <1>2 DEF Announce, Step, files, Load, ReadFile, Unsaved
<1>3. ASSUME NEW p \in Proc, Set(p) PROVE Register!Put(p, val[p])
  BY <1>3 DEF Set, Step, files, Load, ReadFile, Unsaved, Register!Put
<1>4. ASSUME NEW p \in Proc, SaveBegin(p) PROVE UNCHANGED Register!dvars
  BY <1>4 DEF SaveBegin, Step, files, Load, ReadFile, Unsaved
<1>5. ASSUME NEW p \in Proc, SaveOpen(p) PROVE UNCHANGED Register!dvars
  BY <1>5 DEF SaveOpen, Step, OpenTrunc, FreeInode, Name, NamesApart, Load, ReadFile, Unsaved
<1>6. ASSUME NEW p \in Proc, SaveWrite(p) PROVE Register!Flush \/ UNCHANGED Register!dvars
  <2>1. data' = [data EXCEPT ![fd[p]] = mem] /\ link' = link /\ mem' = mem
    <3>1. val[p] = mem /\ data[fd[p]] \in {Empty, mem}
      BY <1>6 DEF SaveWrite, Step, SaversAgree, Saving
    <3>2. Overwrite(data[fd[p]], val[p]) = {mem}
      BY <3>1, WrittenWhole
    <3>3. QED
      BY <1>6, <3>2 DEF SaveWrite, WriteInode
  <2>2. p \in Unsaved /\ Unsaved' = Unsaved
    BY <1>6 DEF SaveWrite, Step, Unsaved
  <2>3. CASE link["file"] = fd[p]
    BY <2>1, <2>2, <2>3, <1>6 DEF SaveWrite, Step, SaversAgree, Load, ReadFile, Register!Flush
  <2>4. CASE link["file"] # fd[p]
    BY <1>6, <2>1, <2>2, <2>4 DEF SaveWrite, Load, ReadFile, Name
  <2>5. QED
    BY <2>3, <2>4
<1>7. ASSUME NEW p \in Proc, SaveRename(p) PROVE Register!Done(p)
  <2>1. p \in Unsaved /\ Unsaved' = Unsaved \ {p} /\ mem' = mem /\ data' = data
    BY <1>7 DEF SaveRename, Step, Unsaved, RenameTmp, files
  <2>2. Unsaved' = {} /\ ~failed => Load' = mem
    BY <1>7, <2>1 DEF SaveRename, DurableWhenIdle
  <2>3. Load' \in {mem, Load, Zero}
    <3>1. CASE link["tmp"] = NoInode
      BY <1>7, <3>1 DEF SaveRename, RenameTmp, files, Load, ReadFile
    <3>2. CASE link["tmp"] # NoInode
      <4>1. link'["file"] = link["tmp"]
        BY <1>7, <3>2 DEF SaveRename, RenameTmp, Name
      <4>2. data[link["tmp"]] \in {Empty, mem}
        BY <1>7, <3>2 DEF SaveRename, Step, TmpNotOld, PastOpen
      <4>3. QED
        BY <2>1, <4>1, <4>2, <3>2 DEF Load, ReadFile
    <3>3. QED
      BY <3>1, <3>2
  <2>4. QED
    BY <1>7, <2>1, <2>2, <2>3 DEF SaveRename, Register!Done
<1>8. CASE Restart
  BY <1>8 DEF Restart, files, Load, ReadFile, Unsaved, Register!Crash
<1>9. CASE UNCHANGED vars
  BY <1>9 DEF vars, Load, ReadFile, Unsaved
<1>10. ASSUME NEW p \in Proc, SaveWriteFails(p) PROVE Register!Fail(p)
  BY <1>10 DEF SaveWriteFails, Step, files, Load, ReadFile, Unsaved, Register!Fail
<1>11. QED
  BY <1>1, <1>2, <1>3, <1>4, <1>5, <1>6, <1>7, <1>8, <1>9, <1>10 DEF Next, Accessor

\* The store implements the register with a durable copy of DurableStore.
THEOREM Refinement == Spec => ImplementsRegister
<1>1. Init => Register!DInit
  BY StoreAssumption DEF Init, Load, ReadFile, Name, Unsaved, Content, Register!DInit
<1>2. TypeOK' /\ IInv /\ [Next]_vars => IInv'
  BY IInvStep
<1>3. IInv /\ IInv' /\ [Next]_vars => [Register!DNext]_(Register!dvars)
  BY StepRefines
<1>4. QED
  BY IInvInit, <1>1, <1>2, <1>3, TypeCorrect, PTL DEF Spec, ImplementsRegister, Register!DSpec
-----------------------------------------------------------------------------
\* A rename shows nothing but the value in memory when no other call is in progress
\* and none has failed: the temporary file then holds it whole.
LEMMA RenameShowsMem ==
    ASSUME IInv, NEW p \in Proc, SaveRename(p), ~Overlapping, ~failed
    PROVE  Load' \in {Load, mem}
<1> USE StoreAssumption DEF IInv, TypeOK, FilesOK
<1>1. CASE link["tmp"] = NoInode
  BY <1>1 DEF SaveRename, RenameTmp, files, Load, ReadFile
<1>2. CASE link["tmp"] # NoInode
  <2>1. p \in PastOpen /\ \A q \in Proc : pc[q] # "write"
    BY DEF SaveRename, Step, PastOpen, Overlapping, Unsaved
  <2>2. data[link["tmp"]] = mem
    BY <1>2, <2>1 DEF RenamesFresh, Fresh
  <2>3. data' = data /\ link'["file"] = link["tmp"]
    BY <1>2 DEF SaveRename, RenameTmp, Name
  <2>4. QED
    BY <1>2, <2>2, <2>3 DEF Load, ReadFile
<1>3. QED
  BY <1>1, <1>2

\* store.go:77-81: the document a restart would load changes only by becoming the
\* value in memory, unless two calls overlap or a write has failed.  This is the
\* strengthening's RenamesFresh at work: the temporary file is fresh when renamed.
THEOREM NotTorn == Spec => TornByOverlap
<1>1. TypeOK' /\ IInv /\ [Next]_vars => IInv'
  BY IInvStep
<1>2. IInv /\ [Next]_vars => [Load' # Load => Load' = mem \/ Overlapping \/ failed]_vars
  <2> SUFFICES ASSUME IInv, [Next]_vars PROVE Load' \in {Load, mem} \/ Overlapping \/ failed
    OBVIOUS
  <2> USE StoreAssumption DEF IInv, TypeOK, FilesOK
  <2>1. ASSUME NEW p \in Proc, SaveOpen(p) PROVE Load' = Load
    BY <2>1 DEF SaveOpen, Step, OpenTrunc, FreeInode, Name, NamesApart, Load, ReadFile
  <2>2. ASSUME NEW p \in Proc, SaveWrite(p) PROVE Load' \in {Load, mem}
    <3>1. val[p] = mem /\ fd[p] \in Inode /\ data[fd[p]] \in {Empty, mem}
      BY <2>2 DEF SaveWrite, Step, SaversAgree, Saving
    <3>2. Overwrite(data[fd[p]], val[p]) = {mem}
      BY <3>1, WrittenWhole
    <3>3. data' = [data EXCEPT ![fd[p]] = mem] /\ link' = link
      BY <2>2, <3>2 DEF SaveWrite, WriteInode
    <3>4. QED
      BY <3>1, <3>3 DEF Load, ReadFile, Name
  <2>3. ASSUME NEW p \in Proc, SaveRename(p) PROVE Load' \in {Load, mem} \/ Overlapping \/ failed
    BY <2>3, RenameShowsMem
  <2>4. ASSUME NEW p \in Proc,
               \/ \E v \in Value : Call(p, v)
               \/ Announce(p) \/ Set(p) \/ SaveBegin(p) \/ SaveWriteFails(p)
        PROVE  Load' = Load
    BY <2>4 DEF Call, Announce, Set, SaveBegin, SaveWriteFails, files, Load, ReadFile
  <2>5. CASE Restart \/ UNCHANGED vars
    BY <2>5 DEF Restart, vars, files, Load, ReadFile
  <2>6. QED
    BY <2>1, <2>2, <2>3, <2>4, <2>5 DEF Next, Accessor
<1>3. QED
  BY IInvInit, <1>1, <1>2, TypeCorrect, PTL DEF Spec, TornByOverlap
=============================================================================
