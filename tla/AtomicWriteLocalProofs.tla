------------------------ MODULE AtomicWriteLocalProofs ------------------------
(***************************************************************************)
(* For any number of invocations, temp names and blocks: --pull's types,   *)
(* that litter has a cause and that a torn destination takes three         *)
(* invocations on one temp name; and, when suffixes do not repeat, that it *)
(* is never torn (but for the last block on a disk that reports late) and  *)
(* is replaced in one atomic step.                                         *)
(***************************************************************************)
EXTENDS AtomicWriteLocal, TLAPS

\* Every writer past "start" has a temp name, and only its own name can lead to
\* its inode.
TmpChosen == \A w \in Writers : pc[w] # "start" => tmp[w] \in TmpNames
OwnName(d) == \A n \in TmpNames : d[n] # None => d[n] \in Writers /\ tmp[d[n]] = n
NotStarted == \A w \in Writers : pc[w] = "start" => tmp[w] = None

NameInv == TypeOK /\ TmpChosen /\ NotStarted /\ OwnName(dir) /\ OwnName(stable)

LEMMA NameInvInit == Init => NameInv
BY StoreAssumption
   DEF Init, StoreInit, NameInv, TypeOK, StoreTypeOK, TmpChosen, OwnName, NotStarted,
       Names, Inodes, Modes, Umask, Steps

LEMMA NameInvNext == NameInv /\ [Next]_vars => NameInv'
<1> SUFFICES ASSUME NameInv, [Next]_vars
             PROVE  NameInv'
  OBVIOUS
<1> USE StoreAssumption DEF NameInv, TypeOK, StoreTypeOK, TmpChosen, OwnName, NotStarted,
        Names, Inodes, Modes, Steps, storeVars, At, Goto
<1>1. ASSUME NEW w \in Writers, Open(w)
      PROVE  NameInv'
  <2>1. PICK n \in TmpNames : /\ tmp' = [tmp EXCEPT ![w] = n]
                              /\ \/ CreateExcl(n, w) /\ Goto(w, "write")
                                 \/ Goto(w, "cleanup") /\ UNCHANGED storeVars
    BY <1>1 DEF Open, Candidates
  <2>2. \A m \in TmpNames : dir[m] # w /\ stable[m] # w
    BY <1>1 DEF Open
  <2>3. CASE CreateExcl(n, w) /\ Goto(w, "write")
    BY <1>1, <2>1, <2>2, <2>3 DEF Open, CreateExcl
  <2>4. CASE Goto(w, "cleanup") /\ UNCHANGED storeVars
    BY <1>1, <2>1, <2>2, <2>4 DEF Open
  <2>5. QED
    BY <2>1, <2>3, <2>4
<1>2. ASSUME NEW w \in Writers, WriteBlock(w)
      PROVE  NameInv'
  <2>1. CASE AppendChunk(w) /\ Goto(w, IF written[w] + 1 = Chunks THEN "sync" ELSE "write")
    <3>1. written' \in [Inodes -> 0 .. Chunks] /\ synced' \in [Inodes -> BOOLEAN]
      BY <2>1 DEF AppendChunk
    <3>2. pc' \in [Writers -> Steps]
      BY <2>1
    <3>3. QED
      BY <1>2, <2>1, <3>1, <3>2 DEF WriteBlock, AppendChunk
  <2>2. CASE Goto(w, "cleanup") /\ UNCHANGED storeVars
    BY <1>2, <2>2 DEF WriteBlock
  <2>3. QED
    BY <1>2, <2>1, <2>2 DEF WriteBlock
<1>3. ASSUME NEW w \in Writers, LoseLastBlock(w)
      PROVE  NameInv'
  BY <1>3 DEF LoseLastBlock
<1>4. ASSUME NEW w \in Writers, SyncAll(w)
      PROVE  NameInv'
  <2>1. CASE Fsync(w) /\ Goto(w, "rename")
    <3>1. synced' \in [Inodes -> BOOLEAN]
      BY <2>1 DEF Fsync
    <3>2. pc' \in [Writers -> Steps]
      BY <2>1
    <3>3. QED
      BY <1>4, <2>1, <3>1, <3>2 DEF SyncAll, Fsync
  <2>2. CASE Goto(w, "cleanup") /\ UNCHANGED storeVars
    BY <1>4, <2>2 DEF SyncAll
  <2>3. QED
    BY <1>4, <2>1, <2>2 DEF SyncAll
<1>5. ASSUME NEW w \in Writers, Publish(w)
      PROVE  NameInv'
  BY <1>5 DEF Publish, Rename
<1>6. ASSUME NEW w \in Writers, Cleanup(w)
      PROVE  NameInv'
  BY <1>6 DEF Cleanup, Unlink
<1>7. ASSUME NEW w \in Writers, ApplyMode(w)
      PROVE  NameInv'
  BY <1>7 DEF ApplyMode, SetMode
<1>8. ASSUME NEW w \in Writers, Kill(w)
      PROVE  NameInv'
  BY <1>8 DEF Kill
<1>9. CASE Journal
  BY <1>9 DEF Journal, FlushDirectory, procVars
<1>10. CASE PowerLoss
  BY <1>10 DEF PowerLoss, LosePower
<1>11. CASE UNCHANGED vars
  BY <1>11 DEF vars
<1>12. QED
  BY <1>1, <1>2, <1>3, <1>4, <1>5, <1>6, <1>7, <1>8, <1>9, <1>10, <1>11 DEF Next, Step

LEMMA NameInvariant == Spec => []NameInv
BY NameInvInit, NameInvNext, PTL DEF Spec

\* The state keeps its type: a temp name is looked up only once chosen.
THEOREM TypeCorrect == Spec => []TypeOK
<1>1. NameInv => TypeOK
  BY DEF NameInv
<1>2. QED
  BY <1>1, NameInvariant, PTL

\* --pull's litter has a cause: the only name that can lead to a writer's inode
\* is its own, so the rename or the cleanup takes it away.
LEMMA LitterInit == Init => LitterHasACause
BY StoreAssumption DEF Init, StoreInit, LitterHasACause, Names

LEMMA LitterNext == NameInv /\ LitterHasACause /\ [Next]_vars => LitterHasACause'
<1> SUFFICES ASSUME NameInv, LitterHasACause, [Next]_vars
             PROVE  LitterHasACause'
  OBVIOUS
<1> USE StoreAssumption DEF NameInv, TypeOK, StoreTypeOK, TmpChosen, OwnName,
        LitterHasACause, Names, storeVars, At, Goto
<1>1. ASSUME NEW w \in Writers, Open(w)
      PROVE  LitterHasACause'
  BY <1>1 DEF Open, Candidates, CreateExcl
<1>2. ASSUME NEW w \in Writers, WriteBlock(w)
      PROVE  LitterHasACause'
  BY <1>2 DEF WriteBlock, AppendChunk
<1>3. ASSUME NEW w \in Writers, LoseLastBlock(w)
      PROVE  LitterHasACause'
  BY <1>3 DEF LoseLastBlock
<1>4. ASSUME NEW w \in Writers, SyncAll(w)
      PROVE  LitterHasACause'
  BY <1>4 DEF SyncAll, Fsync
<1>5. ASSUME NEW w \in Writers, Publish(w)
      PROVE  LitterHasACause'
  BY <1>5 DEF Publish, Rename
<1>6. ASSUME NEW w \in Writers, Cleanup(w)
      PROVE  LitterHasACause'
  BY <1>6 DEF Cleanup, Unlink
<1>7. ASSUME NEW w \in Writers, ApplyMode(w)
      PROVE  LitterHasACause'
  BY <1>7 DEF ApplyMode, SetMode
<1>8. ASSUME NEW w \in Writers, Kill(w)
      PROVE  LitterHasACause'
  BY <1>8 DEF Kill
<1>9. CASE Journal
  BY <1>9 DEF Journal, FlushDirectory, procVars
<1>10. CASE PowerLoss
  BY <1>10 DEF PowerLoss, LosePower
<1>11. CASE UNCHANGED vars
  BY <1>11 DEF vars
<1>12. QED
  BY <1>1, <1>2, <1>3, <1>4, <1>5, <1>6, <1>7, <1>8, <1>9, <1>10, <1>11 DEF Next, Step

THEOREM LitterExplained == Spec => []LitterHasACause
BY LitterInit, LitterNext, NameInvariant, PTL DEF Spec

------------------------------------------------------------------------------
\* With suffixes that do not repeat, two writers never share a temp name.
Distinct == \A v, w \in Writers : tmp[v] = tmp[w] /\ tmp[w] # None => v = w
FreshInv == Distinct /\ NoClobber

LEMMA FreshInit == Init => FreshInv
BY DEF Init, FreshInv, Distinct, NoClobber, Writing

LEMMA FreshNext ==
  ASSUME FreshSuffix
  PROVE  NameInv /\ FreshInv /\ [Next]_vars => FreshInv'
<1> SUFFICES ASSUME NameInv, FreshInv, [Next]_vars
             PROVE  FreshInv'
  OBVIOUS
<1> USE StoreAssumption DEF NameInv, TypeOK, StoreTypeOK, TmpChosen, NotStarted,
        FreshInv, Distinct, NoClobber, Writing, Names, storeVars, At, Goto
<1>1. ASSUME NEW w \in Writers, Open(w)
      PROVE  FreshInv'
  BY <1>1 DEF Open, Candidates, CreateExcl
<1>2. ASSUME NEW w \in Writers, WriteBlock(w)
      PROVE  FreshInv'
  BY <1>2 DEF WriteBlock, AppendChunk
<1>3. ASSUME NEW w \in Writers, LoseLastBlock(w)
      PROVE  FreshInv'
  BY <1>3 DEF LoseLastBlock
<1>4. ASSUME NEW w \in Writers, SyncAll(w)
      PROVE  FreshInv'
  BY <1>4 DEF SyncAll, Fsync
<1>5. ASSUME NEW w \in Writers, Publish(w)
      PROVE  FreshInv'
  BY <1>5 DEF Publish, Rename
<1>6. ASSUME NEW w \in Writers, Cleanup(w)
      PROVE  FreshInv'
  BY <1>6 DEF Cleanup, Unlink
<1>7. ASSUME NEW w \in Writers, ApplyMode(w)
      PROVE  FreshInv'
  BY <1>7 DEF ApplyMode, SetMode
<1>8. ASSUME NEW w \in Writers, Kill(w)
      PROVE  FreshInv'
  BY <1>8 DEF Kill
<1>9. CASE Journal
  BY <1>9 DEF Journal, FlushDirectory, procVars
<1>10. CASE PowerLoss
  BY <1>10 DEF PowerLoss, LosePower
<1>11. CASE UNCHANGED vars
  BY <1>11 DEF vars
<1>12. QED
  BY <1>1, <1>2, <1>3, <1>4, <1>5, <1>6, <1>7, <1>8, <1>9, <1>10, <1>11 DEF Next, Step

LEMMA FreshInvariant ==
  ASSUME FreshSuffix
  PROVE  Spec => []FreshInv
BY FreshInit, FreshNext, NameInvariant, PTL DEF Spec

------------------------------------------------------------------------------
\* What is renamed has been written and synced to the end, or to the last block
\* on a disk that reports late.
Filled(i) == written[i] >= IF LateWriteErrors THEN Chunks - 1 ELSE Chunks
Complete(i) == Filled(i) /\ synced[i]
Progress ==
  \A w \in Writers : /\ At(w, "sync") => Filled(w)
                     /\ pc[w] \in {"rename", "mode", "done"} => Complete(w)
InitialWhole == Initial # None => Complete(Initial)

WroteInv == Progress /\ InitialWhole

LEMMA WroteInit == Init => WroteInv
<1> SUFFICES ASSUME Init
             PROVE  WroteInv
  OBVIOUS
<1> USE StoreAssumption DEF Init, StoreInit, Names, Inodes
<1>1. ASSUME Initial # None
      PROVE  Complete(Initial)
  <2>1. written[Initial] = Chunks /\ synced[Initial]
    BY <1>1
  <2>2. Filled(Initial)
    <3>1. Chunks >= Chunks /\ Chunks >= Chunks - 1
      OBVIOUS
    <3>2. QED
      BY <2>1, <3>1, Zenon DEF Filled
  <2>3. QED
    BY <2>1, <2>2 DEF Complete
<1>2. Progress
  BY DEF Progress, At
<1>3. QED
  BY <1>1, <1>2 DEF WroteInv, InitialWhole

LEMMA WroteNext == NameInv /\ WroteInv /\ [Next]_vars => WroteInv'
<1> SUFFICES ASSUME NameInv, WroteInv, [Next]_vars
             PROVE  WroteInv'
  OBVIOUS
<1> USE StoreAssumption DEF NameInv, TypeOK, StoreTypeOK, Inodes, WroteInv, Progress,
        InitialWhole, Complete, Filled, storeVars, At, Goto
<1>1. ASSUME NEW w \in Writers, Open(w)
      PROVE  WroteInv'
  BY <1>1 DEF Open, Candidates, CreateExcl
<1>2. ASSUME NEW w \in Writers, WriteBlock(w)
      PROVE  WroteInv'
  <2>1. CASE AppendChunk(w) /\ Goto(w, IF written[w] + 1 = Chunks THEN "sync" ELSE "write")
    BY <1>2, <2>1 DEF WriteBlock, AppendChunk
  <2>2. CASE Goto(w, "cleanup") /\ UNCHANGED storeVars
    BY <1>2, <2>2 DEF WriteBlock
  <2>3. QED
    BY <1>2, <2>1, <2>2 DEF WriteBlock
<1>3. ASSUME NEW w \in Writers, LoseLastBlock(w)
      PROVE  WroteInv'
  BY <1>3 DEF LoseLastBlock
<1>4. ASSUME NEW w \in Writers, SyncAll(w)
      PROVE  WroteInv'
  <2>1. CASE Fsync(w) /\ Goto(w, "rename")
    BY <1>4, <2>1 DEF SyncAll, Fsync
  <2>2. CASE Goto(w, "cleanup") /\ UNCHANGED storeVars
    BY <1>4, <2>2 DEF SyncAll
  <2>3. QED
    BY <1>4, <2>1, <2>2 DEF SyncAll
<1>5. ASSUME NEW w \in Writers, Publish(w)
      PROVE  WroteInv'
  BY <1>5 DEF Publish, Rename
<1>6. ASSUME NEW w \in Writers, Cleanup(w)
      PROVE  WroteInv'
  BY <1>6 DEF Cleanup, Unlink
<1>7. ASSUME NEW w \in Writers, ApplyMode(w)
      PROVE  WroteInv'
  BY <1>7 DEF ApplyMode, SetMode
<1>8. ASSUME NEW w \in Writers, Kill(w)
      PROVE  WroteInv'
  BY <1>8 DEF Kill
<1>9. CASE Journal
  BY <1>9 DEF Journal, FlushDirectory, procVars
<1>10. CASE PowerLoss
  BY <1>10 DEF PowerLoss, LosePower
<1>11. CASE UNCHANGED vars
  BY <1>11 DEF vars
<1>12. QED
  BY <1>1, <1>2, <1>3, <1>4, <1>5, <1>6, <1>7, <1>8, <1>9, <1>10, <1>11 DEF Next, Step

LEMMA WroteInvariant == Spec => []WroteInv
BY WroteInit, WroteNext, NameInvariant, PTL DEF Spec

------------------------------------------------------------------------------
\* Whatever the suffixes: a writer whose temp name no longer leads to its inode
\* has lost it to a second writer of that name, who is not the one the name
\* leads to now; so a writer published by another is one of three.
Shared(w, i) == \E u \in Writers \ {w, i} : tmp[u] = tmp[w]
LossInv == \A w \in Writers : Writing(w) /\ dir[tmp[w]] # w => Shared(w, dir[tmp[w]])
OneOfThree(i) ==
  /\ tmp[i] \in TmpNames
  /\ \E u, v \in Writers \ {i} : u # v /\ tmp[u] = tmp[i] /\ tmp[v] = tmp[i]
DstKnown(d) ==
  d[Dst] \in Writers => pc[d[Dst]] \in {"mode", "done"} \/ OneOfThree(d[Dst])
ThreeInv == LossInv /\ DstKnown(dir) /\ DstKnown(stable)

LEMMA ThreeInit == Init => ThreeInv
BY StoreAssumption
   DEF Init, StoreInit, ThreeInv, LossInv, Writing, DstKnown, Names

LEMMA ThreeNext == NameInv /\ ThreeInv /\ [Next]_vars => ThreeInv'
<1> SUFFICES ASSUME NameInv, ThreeInv, [Next]_vars
             PROVE  ThreeInv'
  OBVIOUS
<1> USE StoreAssumption DEF NameInv, TypeOK, StoreTypeOK, TmpChosen, NotStarted, Names,
        Inodes, ThreeInv, Writing, storeVars, At, Goto
<1>a. ASSUME dir' = dir, stable' = stable, tmp' = tmp,
             \A w \in Writers : Writing(w)' => Writing(w),
             \A w \in Writers : pc[w] \in {"mode", "done"} => pc'[w] \in {"mode", "done"}
      PROVE  ThreeInv'
  BY <1>a DEF LossInv, Shared, DstKnown, OneOfThree
<1>1. ASSUME NEW w \in Writers, Open(w)
      PROVE  ThreeInv'
  <2>1. PICK n \in TmpNames : /\ tmp' = [tmp EXCEPT ![w] = n]
                              /\ \/ CreateExcl(n, w) /\ Goto(w, "write")
                                 \/ Goto(w, "cleanup") /\ UNCHANGED storeVars
    BY <1>1 DEF Open, Candidates
  <2>2. tmp[w] = None /\ \A v \in Writers : tmp[v] \in TmpNames => v # w /\ tmp'[v] = tmp[v]
    BY <1>1, <2>1 DEF Open
  <2>3. \A i \in Writers : OneOfThree(i) => OneOfThree(i)'
    BY <2>2 DEF OneOfThree
  <2>4. \A v \in Writers : \A i :
          Writing(v) /\ Shared(v, i) => \E u \in Writers \ {v, i, w} : tmp'[u] = tmp'[v]
    BY <2>2 DEF Shared
  <2>5. DstKnown(dir)' /\ DstKnown(stable)'
    BY <1>1, <2>1, <2>3 DEF Open, CreateExcl, DstKnown
  <2>6. LossInv'
    <3> SUFFICES ASSUME NEW v \in Writers, Writing(v)', dir'[tmp'[v]] # v
                 PROVE  Shared(v, dir[tmp[v]])'
      BY DEF LossInv
    <3>1. v # w
      BY <1>1, <2>1 DEF Open, CreateExcl
    <3>2. Writing(v) /\ tmp'[v] = tmp[v]
      BY <1>1, <2>1, <3>1 DEF Open
    <3>3. dir[tmp[v]] # v /\ dir'[tmp[v]] \in {dir[tmp[v]], w}
      BY <1>1, <2>1, <3>1, <3>2 DEF Open, CreateExcl
    <3>4. PICK u \in Writers \ {v, dir[tmp[v]], w} : tmp'[u] = tmp'[v]
      BY <2>4, <3>2, <3>3 DEF LossInv
    <3>5. QED
      BY <3>2, <3>3, <3>4 DEF Shared
  <2>7. QED
    BY <2>5, <2>6
<1>2. ASSUME NEW w \in Writers, WriteBlock(w)
      PROVE  ThreeInv'
  BY <1>2, <1>a DEF WriteBlock, AppendChunk
<1>3. ASSUME NEW w \in Writers, LoseLastBlock(w)
      PROVE  ThreeInv'
  BY <1>3, <1>a DEF LoseLastBlock
<1>4. ASSUME NEW w \in Writers, SyncAll(w)
      PROVE  ThreeInv'
  BY <1>4, <1>a DEF SyncAll, Fsync
<1>5. ASSUME NEW w \in Writers, Publish(w)
      PROVE  ThreeInv'
  <2>1. CASE Rename(tmp[w], Dst) /\ Goto(w, "mode")
    <3>1. /\ tmp' = tmp /\ stable' = stable /\ tmp[w] \in TmpNames
          /\ dir' = [dir EXCEPT ![Dst] = dir[tmp[w]], ![tmp[w]] = None]
          /\ Writing(w) /\ dir[tmp[w]] # None
      BY <1>5, <2>1 DEF Publish, Rename
    <3>2. DstKnown(stable)'
      BY <2>1, <3>1 DEF DstKnown, OneOfThree
    <3>3. dir[tmp[w]] \in Writers /\ tmp[dir[tmp[w]]] = tmp[w]
      BY <3>1 DEF OwnName
    <3>4. dir[tmp[w]] = w \/ OneOfThree(dir[tmp[w]])
      BY <3>1, <3>3 DEF LossInv, Shared, OneOfThree
    <3>5. DstKnown(dir)'
      BY <2>1, <3>1, <3>3, <3>4 DEF DstKnown, OneOfThree
    <3>6. LossInv'
      <4> SUFFICES ASSUME NEW v \in Writers, Writing(v)', dir'[tmp[v]] # v
                   PROVE  Shared(v, dir[tmp[v]])'
        BY <3>1 DEF LossInv
      <4>1. v # w /\ Writing(v) /\ tmp[v] \in TmpNames
        BY <1>5, <2>1 DEF Publish
      <4>2. CASE tmp[v] = tmp[w]
        BY <3>1, <4>1, <4>2 DEF Shared
      <4>3. CASE tmp[v] # tmp[w]
        BY <3>1, <4>1, <4>3 DEF Shared, LossInv
      <4>4. QED
        BY <4>2, <4>3
    <3>7. QED
      BY <3>2, <3>5, <3>6
  <2>2. CASE Goto(w, "cleanup") /\ UNCHANGED storeVars
    BY <1>5, <2>2, <1>a DEF Publish
  <2>3. QED
    BY <1>5, <2>1, <2>2 DEF Publish
<1>6. ASSUME NEW w \in Writers, Cleanup(w)
      PROVE  ThreeInv'
  <2>1. CASE Unlink(tmp[w]) /\ Goto(w, "failed")
    <3>1. /\ tmp' = tmp /\ stable' = stable /\ tmp[w] \in TmpNames
          /\ dir' = [dir EXCEPT ![tmp[w]] = None]
      BY <1>6, <2>1 DEF Cleanup, Unlink
    <3>2. DstKnown(dir)' /\ DstKnown(stable)'
      BY <1>6, <2>1, <3>1 DEF DstKnown, OneOfThree, Cleanup
    <3>3. LossInv'
      <4> SUFFICES ASSUME NEW v \in Writers, Writing(v)', dir'[tmp[v]] # v
                   PROVE  Shared(v, dir[tmp[v]])'
        BY <3>1 DEF LossInv
      <4>1. v # w /\ Writing(v) /\ tmp[v] \in TmpNames
        BY <1>6, <2>1 DEF Cleanup
      <4>2. CASE tmp[v] = tmp[w]
        BY <3>1, <4>1, <4>2 DEF Shared
      <4>3. CASE tmp[v] # tmp[w]
        BY <3>1, <4>1, <4>3 DEF Shared, LossInv
      <4>4. QED
        BY <4>2, <4>3
    <3>4. QED
      BY <3>2, <3>3
  <2>2. CASE Goto(w, "leaked") /\ UNCHANGED storeVars
    BY <1>6, <2>2, <1>a DEF Cleanup
  <2>3. QED
    BY <1>6, <2>1, <2>2 DEF Cleanup
<1>7. ASSUME NEW w \in Writers, ApplyMode(w)
      PROVE  ThreeInv'
  BY <1>7, <1>a DEF ApplyMode, SetMode
<1>8. ASSUME NEW w \in Writers, Kill(w)
      PROVE  ThreeInv'
  BY <1>8, <1>a DEF Kill
<1>9. CASE Journal
  BY <1>9 DEF Journal, FlushDirectory, procVars, LossInv, Shared, DstKnown, OneOfThree
<1>10. CASE PowerLoss
  BY <1>10 DEF PowerLoss, LosePower, LossInv, DstKnown, OneOfThree
<1>11. CASE UNCHANGED vars
  BY <1>11, <1>a DEF vars
<1>12. QED
  BY <1>1, <1>2, <1>3, <1>4, <1>5, <1>6, <1>7, <1>8, <1>9, <1>10, <1>11 DEF Next, Step

LEMMA ThreeInvariant == Spec => []ThreeInv
BY ThreeInit, ThreeNext, NameInvariant, PTL DEF Spec

\* Whatever the suffixes, the disk and the kills, in every state, also after a power
\* loss: a destination that is not whole has taken three invocations with one temp
\* name.  On a disk that reports a failed write late a whole file may lack its last
\* block.
THEOREM NeverTorn == Spec => []NoTornDst
<1>1. NameInv /\ WroteInv /\ ThreeInv => NoTornDst
  <2> SUFFICES ASSUME NameInv, WroteInv, ThreeInv, ~DstFilled
               PROVE  OneOfThree(dir[Dst])
    BY DEF NoTornDst, OneOfThree
  <2>1. dir[Dst] \in Inodes /\ ~Filled(dir[Dst])
    BY DEF DstFilled, NameInv, TypeOK, StoreTypeOK, Names, Filled
  <2>2. dir[Dst] \in Writers /\ pc[dir[Dst]] \notin {"mode", "done"}
    BY <2>1 DEF WroteInv, InitialWhole, Progress, Complete, Inodes
  <2>3. QED
    BY <2>2 DEF ThreeInv, DstKnown
<1>2. QED
  BY <1>1, NameInvariant, WroteInvariant, ThreeInvariant, PTL

------------------------------------------------------------------------------
\* When suffixes do not repeat, only a finished writer reaches the destination.
DstFrom(d) ==
  d[Dst] = Initial \/ (d[Dst] \in Writers /\ pc[d[Dst]] \in {"mode", "done"})
ContentInv == WroteInv /\ DstFrom(dir) /\ DstFrom(stable)

LEMMA ContentInit == Init => ContentInv
BY WroteInit, StoreAssumption DEF ContentInv, Init, StoreInit, DstFrom, Names

LEMMA ContentNext ==
  NameInv /\ FreshInv /\ ContentInv /\ [Next]_vars => ContentInv'
<1> SUFFICES ASSUME NameInv, FreshInv, ContentInv, [Next]_vars
             PROVE  DstFrom(dir)' /\ DstFrom(stable)'
  BY WroteNext DEF ContentInv
<1> USE StoreAssumption DEF NameInv, TypeOK, StoreTypeOK, TmpChosen, Names,
        ContentInv, DstFrom, storeVars, At, Goto
<1>1. ASSUME NEW w \in Writers, Open(w)
      PROVE  DstFrom(dir)' /\ DstFrom(stable)'
  BY <1>1 DEF Open, Candidates, CreateExcl
<1>2. ASSUME NEW w \in Writers, WriteBlock(w)
      PROVE  DstFrom(dir)' /\ DstFrom(stable)'
  BY <1>2 DEF WriteBlock, AppendChunk
<1>3. ASSUME NEW w \in Writers, LoseLastBlock(w)
      PROVE  DstFrom(dir)' /\ DstFrom(stable)'
  BY <1>3 DEF LoseLastBlock
<1>4. ASSUME NEW w \in Writers, SyncAll(w)
      PROVE  DstFrom(dir)' /\ DstFrom(stable)'
  BY <1>4 DEF SyncAll, Fsync
<1>5. ASSUME NEW w \in Writers, Publish(w)
      PROVE  DstFrom(dir)' /\ DstFrom(stable)'
  <2>1. dir[tmp[w]] = w
    BY <1>5 DEF Publish, FreshInv, NoClobber, Writing
  <2>2. QED
    BY <1>5, <2>1 DEF Publish, Rename
<1>6. ASSUME NEW w \in Writers, Cleanup(w)
      PROVE  DstFrom(dir)' /\ DstFrom(stable)'
  BY <1>6 DEF Cleanup, Unlink
<1>7. ASSUME NEW w \in Writers, ApplyMode(w)
      PROVE  DstFrom(dir)' /\ DstFrom(stable)'
  BY <1>7 DEF ApplyMode, SetMode
<1>8. ASSUME NEW w \in Writers, Kill(w)
      PROVE  DstFrom(dir)' /\ DstFrom(stable)'
  BY <1>8 DEF Kill
<1>9. CASE Journal
  BY <1>9 DEF Journal, FlushDirectory, procVars
<1>10. CASE PowerLoss
  BY <1>10 DEF PowerLoss, LosePower
<1>11. CASE UNCHANGED vars
  BY <1>11 DEF vars
<1>12. QED
  BY <1>1, <1>2, <1>3, <1>4, <1>5, <1>6, <1>7, <1>8, <1>9, <1>10, <1>11 DEF Next, Step

LEMMA ContentInvariant ==
  ASSUME FreshSuffix
  PROVE  Spec => []ContentInv
BY ContentInit, ContentNext, NameInvariant, FreshInvariant, PTL DEF Spec

\* When suffixes do not repeat, the destination is whole in every state, also
\* after a power loss; on a disk that reports a failed write late it lacks the
\* last block at most.
THEOREM AlwaysWhole ==
  ASSUME FreshSuffix
  PROVE  Spec => []DstFilled
<1>1. ContentInv => DstFilled
  BY DEF ContentInv, WroteInv, Progress, DstFrom, InitialWhole, Complete, Filled, DstFilled
<1>2. QED
  BY <1>1, ContentInvariant, PTL

------------------------------------------------------------------------------
\* The refinement: the destination is a finished writer's file, or the initial
\* one, so the rename is the abstract Replace, the first failure or the kill of
\* a pending writer is Abandon, and every other step is a stutter.
LEMMA RefinesInit == Init => Abstract!Init
BY StoreAssumption DEF Init, StoreInit, Abstract!Init, Outcome, Names

LEMMA RefinesNext ==
  NameInv /\ FreshInv /\ ContentInv /\ [Next]_vars => [Abstract!Next]_(Abstract!vars)
<1> SUFFICES ASSUME NameInv, FreshInv, ContentInv, [Next]_vars
             PROVE  [Abstract!Next]_(Abstract!vars)
  OBVIOUS
<1> USE StoreAssumption DEF NameInv, TypeOK, StoreTypeOK, TmpChosen, Names, At, Goto
<1>a. ASSUME dir'[Dst] = dir[Dst], \A w \in Writers : Outcome(w)' = Outcome(w)
      PROVE  UNCHANGED Abstract!vars
  BY <1>a DEF Abstract!vars
<1>b. ASSUME NEW w \in Writers, dir'[Dst] = dir[Dst], Outcome(w) = "pending",
             Outcome(w)' = "failed",
             \A v \in Writers \ {w} : Outcome(v)' = Outcome(v)
      PROVE  Abstract!Next
  <2>1. Abstract!Abandon(w)
    BY <1>b DEF Abstract!Abandon
  <2>2. QED
    BY <2>1 DEF Abstract!Next
<1>1. ASSUME NEW w \in Writers, Open(w)
      PROVE  [Abstract!Next]_(Abstract!vars)
  <2>1. CASE pc' = [pc EXCEPT ![w] = "write"]
    BY <1>1, <2>1, <1>a DEF Open, Candidates, CreateExcl, Outcome, storeVars
  <2>2. CASE pc' = [pc EXCEPT ![w] = "cleanup"]
    BY <1>1, <2>2, <1>b DEF Open, Candidates, CreateExcl, Outcome, storeVars
  <2>3. QED
    BY <1>1, <2>1, <2>2 DEF Open
<1>2. ASSUME NEW w \in Writers, WriteBlock(w)
      PROVE  [Abstract!Next]_(Abstract!vars)
  <2>1. CASE AppendChunk(w) /\ Goto(w, IF written[w] + 1 = Chunks THEN "sync" ELSE "write")
    BY <1>2, <2>1, <1>a DEF WriteBlock, AppendChunk, Outcome
  <2>2. CASE Goto(w, "cleanup") /\ UNCHANGED storeVars
    BY <1>2, <2>2, <1>b DEF WriteBlock, Outcome, storeVars
  <2>3. QED
    BY <1>2, <2>1, <2>2 DEF WriteBlock
<1>3. ASSUME NEW w \in Writers, LoseLastBlock(w)
      PROVE  [Abstract!Next]_(Abstract!vars)
  BY <1>3, <1>a DEF LoseLastBlock, Outcome, storeVars
<1>4. ASSUME NEW w \in Writers, SyncAll(w)
      PROVE  [Abstract!Next]_(Abstract!vars)
  <2>1. CASE Fsync(w) /\ Goto(w, "rename")
    BY <1>4, <2>1, <1>a DEF SyncAll, Fsync, Outcome
  <2>2. CASE Goto(w, "cleanup") /\ UNCHANGED storeVars
    BY <1>4, <2>2, <1>b DEF SyncAll, Outcome, storeVars
  <2>3. QED
    BY <1>4, <2>1, <2>2 DEF SyncAll
<1>5. ASSUME NEW w \in Writers, Publish(w)
      PROVE  [Abstract!Next]_(Abstract!vars)
  <2>1. CASE Rename(tmp[w], Dst) /\ Goto(w, "mode")
    <3>1. dir[tmp[w]] = w
      BY <1>5 DEF Publish, FreshInv, NoClobber, Writing
    <3>2. dir'[Dst] = w
      BY <1>5, <2>1, <3>1 DEF Publish, Rename
    <3>3. Outcome(w) = "pending" /\ Outcome(w)' = "replaced"
      BY <1>5, <2>1 DEF Publish, Outcome
    <3>4. \A v \in Writers \ {w} : Outcome(v)' = Outcome(v)
      BY <1>5, <2>1 DEF Publish, Outcome
    <3>5. Abstract!Replace(w)
      BY <3>2, <3>3, <3>4 DEF Abstract!Replace
    <3>6. QED
      BY <3>5 DEF Abstract!Next
  <2>2. CASE Goto(w, "cleanup") /\ UNCHANGED storeVars
    BY <1>5, <2>2, <1>b DEF Publish, Outcome, storeVars
  <2>3. QED
    BY <1>5, <2>1, <2>2 DEF Publish
<1>6. ASSUME NEW w \in Writers, Cleanup(w)
      PROVE  [Abstract!Next]_(Abstract!vars)
  <2>1. tmp[w] \in TmpNames
    BY <1>6 DEF Cleanup
  <2>2. QED
    BY <1>6, <2>1, <1>a DEF Cleanup, Unlink, Outcome, storeVars
<1>7. ASSUME NEW w \in Writers, ApplyMode(w)
      PROVE  [Abstract!Next]_(Abstract!vars)
  BY <1>7, <1>a DEF ApplyMode, SetMode, Outcome, storeVars
<1>8. ASSUME NEW w \in Writers, Kill(w)
      PROVE  [Abstract!Next]_(Abstract!vars)
  <2>1. CASE Outcome(w) = "pending"
    BY <1>8, <2>1, <1>b DEF Kill, Outcome, storeVars
  <2>2. CASE Outcome(w) # "pending"
    BY <1>8, <2>2, <1>a DEF Kill, Outcome, storeVars
  <2>3. QED
    BY <2>1, <2>2
<1>9. CASE Journal
  BY <1>9, <1>a DEF Journal, FlushDirectory, procVars, Outcome
<1>10. CASE PowerLoss
  <2>1. dir'[Dst] = Initial \/ (dir'[Dst] \in Writers /\ Outcome(dir'[Dst]) = "replaced")
    BY <1>10 DEF PowerLoss, LosePower, ContentInv, DstFrom, Outcome
  <2>2. \A w \in Writers :
          Outcome(w)' = IF Outcome(w) = "pending" THEN "failed" ELSE Outcome(w)
    BY <1>10 DEF PowerLoss, Outcome
  <2>3. Abstract!LosePower
    BY <2>1, <2>2 DEF Abstract!LosePower, Abstract!Past, Abstract!Replaced
  <2>4. QED
    BY <2>3 DEF Abstract!Next
<1>11. CASE UNCHANGED vars
  BY <1>11, <1>a DEF vars, Outcome
<1>12. QED
  BY <1>1, <1>2, <1>3, <1>4, <1>5, <1>6, <1>7, <1>8, <1>9, <1>10, <1>11 DEF Next, Step

\* When suffixes do not repeat, --pull implements the abstract transfer, whatever
\* the disk reports when: the destination is replaced in one
\* step by a whole file or left alone, and a power loss takes it back at most
\* to a value it had.
THEOREM Implements ==
  ASSUME FreshSuffix
  PROVE  Spec => ReplacesAtomically
BY RefinesInit, RefinesNext, NameInvariant, FreshInvariant, ContentInvariant, PTL
   DEF Spec, ReplacesAtomically, Abstract!Spec
==============================================================================
