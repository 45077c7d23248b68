------------------------ MODULE AtomicWriteRemoteProofs ------------------------
(***************************************************************************)
(* For any number of invocations, temp names and blocks: --push's types,   *)
(* that litter and a missing destination have a cause, and, when suffixes  *)
(* do not repeat, that only a power loss of a server without fsync tears   *)
(* the destination and that it is withdrawn or replaced in one step.       *)
(***************************************************************************)
EXTENDS AtomicWriteRemote, TLAPS

\* A writer has a temp name from its open on, and only that name can lead to its
\* inode.
TmpChosen == \A w \in Writers : IF pc[w] = "start" THEN tmp[w] = None
                                                   ELSE tmp[w] \in TmpNames
OwnName(d) == \A n \in TmpNames : d[n] # None => d[n] \in Writers /\ tmp[d[n]] = n

NameInv == TypeOK /\ TmpChosen /\ OwnName(dir) /\ OwnName(stable)

\* A writer that removed the destination still has its rename to do, and one whose
\* rename was done has nothing but the mode left; a power loss ends every session.
BeforeRename == {"start", "write", "sync", "unlink", "rename"}
OrderInv ==
  /\ \A w \in Writers : pc[w] \in BeforeRename => w \notin renamed
  /\ outage => conn = {}

\* What the journal has of the destination when it is gone.
AbsenceInv ==
  /\ AbsenceHasACause
  /\ stable[Dst] = None /\ Initial # None => unlinked # {}

\* With suffixes that do not repeat, a writer that can still be heard has its own
\* file under its temp name until its rename.
Distinct == \A v, w \in Writers : tmp[v] = tmp[w] /\ tmp[w] # None => v = w
Writing(w) == w \in conn /\ pc[w] \in {"write", "sync", "unlink", "rename"}
FreshInv ==
  /\ Distinct
  /\ \A w \in Writers : Writing(w) => dir[tmp[w]] = w

\* Every block is there before the rename, and synced where the server can sync;
\* the destination, in the directory and in the journal, is absent, the initial
\* file, or a finished writer's.
Whole(i) ==
  \/ outage /\ ~fsync
  \/ written[i] = Chunks /\ (synced[i] \/ ~fsync)
DstFrom(d) == d[Dst] \in {None, Initial} \cup renamed
ContentInv ==
  /\ \A w \in Writers :
       /\ Writing(w) /\ pc[w] # "write" => written[w] = Chunks
       /\ Writing(w) /\ pc[w] \in {"unlink", "rename"} => synced[w] \/ ~fsync
       /\ w \in renamed => Whole(w)
  /\ Initial # None => written[Initial] = Chunks /\ synced[Initial]
  /\ DstFrom(dir) /\ DstFrom(stable)

------------------------------------------------------------------------------
LEMMA NameInvInit == Init => NameInv
<1> SUFFICES ASSUME Init
             PROVE  NameInv
  OBVIOUS
<1> USE StoreAssumption DEF Init, StoreInit, Names, Inodes
<1>1. StoreTypeOK
  BY DEF StoreTypeOK, Modes, Umask
<1>2. TypeOK
  <2>1. pc \in [Writers -> Steps] /\ tmp \in [Writers -> TmpNames \cup {None}]
    BY DEF Steps
  <2>2. QED
    BY <1>1, <2>1 DEF TypeOK
<1>3. TmpChosen /\ OwnName(dir) /\ OwnName(stable)
  BY DEF TmpChosen, OwnName
<1>4. QED
  BY <1>2, <1>3 DEF NameInv

LEMMA NameInvNext == NameInv /\ [Next]_vars => NameInv'
<1> SUFFICES ASSUME NameInv, [Next]_vars
             PROVE  NameInv'
  OBVIOUS
<1> USE StoreAssumption DEF NameInv, TypeOK, StoreTypeOK, TmpChosen, OwnName, Names,
        Inodes, Modes, Steps, storeVars, At, Goto, Served, Unheard, NoReply,
        Refused, Unserved, serverVars
<1>1. ASSUME NEW w \in Writers, Open(w)
      PROVE  NameInv'
  BY <1>1 DEF Open, Candidates, CreateExcl
<1>2. ASSUME NEW w \in Writers, WriteBlock(w)
      PROVE  NameInv'
  <2>1. written' \in [Inodes -> 0 .. Chunks] /\ synced' \in [Inodes -> BOOLEAN]
    <3>1. CASE AppendChunk(w)
      BY <3>1 DEF AppendChunk
    <3>2. CASE UNCHANGED storeVars
      BY <3>2
    <3>3. QED
      BY <1>2, <3>1, <3>2 DEF WriteBlock
  <2>2. pc' \in [Writers -> Steps] /\ pc'[w] # "start" /\ conn' \in SUBSET Writers
    BY <1>2 DEF WriteBlock
  <2>3. \A v \in Writers : v # w => pc'[v] = pc[v]
    BY <1>2 DEF WriteBlock
  <2>4. UNCHANGED <<dir, stable, mode, tmp, killed, unlinked, renamed, fsync, outage>>
    BY <1>2 DEF WriteBlock, AppendChunk
  <2>5. pc[w] = "write"
    BY <1>2 DEF WriteBlock
  <2>6. QED
    BY <2>1, <2>2, <2>3, <2>4, <2>5
<1>3. ASSUME NEW w \in Writers, SyncAndClose(w)
      PROVE  NameInv'
  <2>1. synced' \in [Inodes -> BOOLEAN] /\ conn' \in SUBSET Writers
    BY <1>3 DEF SyncAndClose, Fsync
  <2>2. pc[w] = "sync" /\ pc' = [pc EXCEPT ![w] = "unlink"]
    BY <1>3 DEF SyncAndClose
  <2>3. UNCHANGED <<dir, stable, written, mode, tmp, killed, unlinked, renamed, fsync, outage>>
    BY <1>3 DEF SyncAndClose, Fsync
  <2>4. QED
    BY <2>1, <2>2, <2>3
<1>4. ASSUME NEW w \in Writers, RemoveDst(w)
      PROVE  NameInv'
  BY <1>4 DEF RemoveDst, Unlink
<1>5. ASSUME NEW w \in Writers, Publish(w)
      PROVE  NameInv'
  BY <1>5 DEF Publish, Rename
<1>6. ASSUME NEW w \in Writers, Cleanup(w)
      PROVE  NameInv'
  BY <1>6 DEF Cleanup, Unlink
<1>7. ASSUME NEW w \in Writers, ApplyMode(w)
      PROVE  NameInv'
  BY <1>7 DEF ApplyMode, SetMode
<1>8. ASSUME NEW w \in Writers, Kill(w)
      PROVE  NameInv'
  BY <1>8 DEF Kill
<1>9. CASE Journal
  BY <1>9 DEF Journal, FlushDirectory, procVars
<1>10. CASE PowerLoss
  BY <1>10 DEF PowerLoss, LosePower
<1>11. CASE UNCHANGED vars
  BY <1>11 DEF vars, procVars
<1>12. QED
  BY <1>1, <1>2, <1>3, <1>4, <1>5, <1>6, <1>7, <1>8, <1>9, <1>10, <1>11 DEF Next, Step

LEMMA NameInvariant == Spec => []NameInv
BY NameInvInit, NameInvNext, PTL DEF Spec

\* The state keeps its type: a temp name is looked up only once chosen.
THEOREM TypeCorrect == Spec => []TypeOK
<1>1. NameInv => TypeOK
  BY DEF NameInv
<1>2. QED
  BY <1>1, NameInvariant, PTL

\* --push's litter has a cause: the rename and the removal take the writer's one
\* name away, unless nobody hears of them.
LEMMA LitterInit == Init => LitterHasACause
BY StoreAssumption DEF Init, StoreInit, LitterHasACause, Names

LEMMA LitterNext == NameInv /\ LitterHasACause /\ [Next]_vars => LitterHasACause'
<1> SUFFICES ASSUME NameInv, LitterHasACause, [Next]_vars
             PROVE  LitterHasACause'
  OBVIOUS
<1> USE StoreAssumption DEF NameInv, TypeOK, StoreTypeOK, TmpChosen, OwnName, Names,
        Inodes, LitterHasACause, storeVars, At, Goto, Served, Unheard, NoReply,
        Refused, Unserved, serverVars
<1>1. ASSUME NEW w \in Writers, Open(w)
      PROVE  LitterHasACause'
  BY <1>1 DEF Open, Candidates, CreateExcl
<1>2. ASSUME NEW w \in Writers, WriteBlock(w)
      PROVE  LitterHasACause'
  BY <1>2 DEF WriteBlock, AppendChunk
<1>3. ASSUME NEW w \in Writers, SyncAndClose(w)
      PROVE  LitterHasACause'
  BY <1>3 DEF SyncAndClose, Fsync
<1>4. ASSUME NEW w \in Writers, RemoveDst(w)
      PROVE  LitterHasACause'
  BY <1>4 DEF RemoveDst, Unlink
<1>5. ASSUME NEW w \in Writers, Publish(w)
      PROVE  LitterHasACause'
  BY <1>5 DEF Publish, Rename
<1>6. ASSUME NEW w \in Writers, Cleanup(w)
      PROVE  LitterHasACause'
  BY <1>6 DEF Cleanup, Unlink
<1>7. ASSUME NEW w \in Writers, ApplyMode(w)
      PROVE  LitterHasACause'
  BY <1>7 DEF ApplyMode, SetMode
<1>8. ASSUME NEW w \in Writers, Kill(w)
      PROVE  LitterHasACause'
  BY <1>8 DEF Kill
<1>9. CASE Journal
  BY <1>9 DEF Journal, FlushDirectory, procVars
<1>10. CASE PowerLoss
  BY <1>10 DEF PowerLoss, LosePower
<1>11. CASE UNCHANGED vars
  BY <1>11 DEF vars, procVars
<1>12. QED
  BY <1>1, <1>2, <1>3, <1>4, <1>5, <1>6, <1>7, <1>8, <1>9, <1>10, <1>11 DEF Next, Step

THEOREM LitterExplained == Spec => []LitterHasACause
BY LitterInit, LitterNext, NameInvariant, PTL DEF Spec

------------------------------------------------------------------------------
LEMMA OrderInvInit == Init => OrderInv
BY DEF Init, OrderInv

LEMMA OrderInvNext == NameInv /\ OrderInv /\ [Next]_vars => OrderInv'
<1> SUFFICES ASSUME NameInv, OrderInv, [Next]_vars
             PROVE  OrderInv'
  OBVIOUS
<1> USE DEF NameInv, TypeOK, OrderInv, BeforeRename, storeVars, At, Goto, Served,
        Unheard, NoReply, Refused, Unserved, serverVars
<1>1. ASSUME NEW w \in Writers, Open(w)
      PROVE  OrderInv'
  BY <1>1 DEF Open, Candidates, CreateExcl
<1>2. ASSUME NEW w \in Writers, WriteBlock(w)
      PROVE  OrderInv'
  BY <1>2 DEF WriteBlock, AppendChunk
<1>3. ASSUME NEW w \in Writers, SyncAndClose(w)
      PROVE  OrderInv'
  BY <1>3 DEF SyncAndClose, Fsync
<1>4. ASSUME NEW w \in Writers, RemoveDst(w)
      PROVE  OrderInv'
  BY <1>4 DEF RemoveDst, Unlink
<1>5. ASSUME NEW w \in Writers, Publish(w)
      PROVE  OrderInv'
  BY <1>5 DEF Publish, Rename
<1>6. ASSUME NEW w \in Writers, Cleanup(w)
      PROVE  OrderInv'
  BY <1>6 DEF Cleanup, Unlink
<1>7. ASSUME NEW w \in Writers, ApplyMode(w)
      PROVE  OrderInv'
  BY <1>7 DEF ApplyMode, SetMode
<1>8. ASSUME NEW w \in Writers, Kill(w)
      PROVE  OrderInv'
  BY <1>8 DEF Kill
<1>9. CASE Journal
  BY <1>9 DEF Journal, FlushDirectory, procVars
<1>10. CASE PowerLoss
  BY <1>10 DEF PowerLoss, LosePower
<1>11. CASE UNCHANGED vars
  BY <1>11 DEF vars, procVars
<1>12. QED
  BY <1>1, <1>2, <1>3, <1>4, <1>5, <1>6, <1>7, <1>8, <1>9, <1>10, <1>11 DEF Next, Step

LEMMA OrderInvariant == Spec => []OrderInv
BY OrderInvInit, OrderInvNext, NameInvariant, PTL DEF Spec

LEMMA AbsenceInvInit == Init => AbsenceInv
BY StoreAssumption DEF Init, StoreInit, AbsenceInv, AbsenceHasACause, Names

LEMMA AbsenceInvNext == NameInv /\ OrderInv /\ AbsenceInv /\ [Next]_vars => AbsenceInv'
<1> SUFFICES ASSUME NameInv, OrderInv, AbsenceInv, [Next]_vars
             PROVE  AbsenceInv'
  OBVIOUS
<1> USE StoreAssumption DEF NameInv, TypeOK, StoreTypeOK, TmpChosen, Names, Inodes,
        OrderInv, BeforeRename, AbsenceInv, AbsenceHasACause, storeVars, At, Goto,
        Served, Unheard, NoReply, Refused, Unserved, serverVars
<1>1. ASSUME NEW w \in Writers, Open(w)
      PROVE  AbsenceInv'
  BY <1>1 DEF Open, Candidates, CreateExcl
<1>2. ASSUME NEW w \in Writers, WriteBlock(w)
      PROVE  AbsenceInv'
  BY <1>2 DEF WriteBlock, AppendChunk
<1>3. ASSUME NEW w \in Writers, SyncAndClose(w)
      PROVE  AbsenceInv'
  BY <1>3 DEF SyncAndClose, Fsync
<1>4. ASSUME NEW w \in Writers, RemoveDst(w)
      PROVE  AbsenceInv'
  BY <1>4 DEF RemoveDst, Unlink
<1>5. ASSUME NEW w \in Writers, Publish(w)
      PROVE  AbsenceInv'
  BY <1>5 DEF Publish, Rename
<1>6. ASSUME NEW w \in Writers, Cleanup(w)
      PROVE  AbsenceInv'
  BY <1>6 DEF Cleanup, Unlink
<1>7. ASSUME NEW w \in Writers, ApplyMode(w)
      PROVE  AbsenceInv'
  BY <1>7 DEF ApplyMode, SetMode
<1>8. ASSUME NEW w \in Writers, Kill(w)
      PROVE  AbsenceInv'
  BY <1>8 DEF Kill
<1>9. CASE Journal
  BY <1>9 DEF Journal, FlushDirectory, procVars
<1>10. CASE PowerLoss
  BY <1>10 DEF PowerLoss, LosePower
<1>11. CASE UNCHANGED vars
  BY <1>11 DEF vars, procVars
<1>12. QED
  BY <1>1, <1>2, <1>3, <1>4, <1>5, <1>6, <1>7, <1>8, <1>9, <1>10, <1>11 DEF Next, Step

\* A destination that was there is missing only while a writer that removed it has
\* not renamed, or because one did not come to it, or because the power loss
\* brought the moment between the two requests back.
THEOREM AbsenceExplained == Spec => []AbsenceHasACause
<1>1. AbsenceInv => AbsenceHasACause
  BY DEF AbsenceInv
<1>2. QED
  BY <1>1, AbsenceInvInit, AbsenceInvNext, NameInvariant, OrderInvariant, PTL DEF Spec

------------------------------------------------------------------------------
LEMMA FreshInvInit == Init => FreshInv
BY DEF Init, FreshInv, Distinct, Writing

LEMMA FreshInvNext ==
  ASSUME FreshSuffix
  PROVE  NameInv /\ OrderInv /\ FreshInv /\ [Next]_vars => FreshInv'
<1> SUFFICES ASSUME NameInv, OrderInv, FreshInv, [Next]_vars
             PROVE  FreshInv'
  OBVIOUS
<1> USE StoreAssumption DEF NameInv, TypeOK, StoreTypeOK, TmpChosen, Names, Inodes,
        OrderInv, FreshInv, Distinct, Writing, storeVars, At, Goto, Served, Unheard,
        NoReply, Refused, Unserved, serverVars
<1>1. ASSUME NEW w \in Writers, Open(w)
      PROVE  FreshInv'
  BY <1>1 DEF Open, Candidates, CreateExcl
<1>2. ASSUME NEW w \in Writers, WriteBlock(w)
      PROVE  FreshInv'
  BY <1>2 DEF WriteBlock, AppendChunk
<1>3. ASSUME NEW w \in Writers, SyncAndClose(w)
      PROVE  FreshInv'
  BY <1>3 DEF SyncAndClose, Fsync
<1>4. ASSUME NEW w \in Writers, RemoveDst(w)
      PROVE  FreshInv'
  BY <1>4 DEF RemoveDst, Unlink
<1>5. ASSUME NEW w \in Writers, Publish(w)
      PROVE  FreshInv'
  BY <1>5 DEF Publish, Rename
<1>6. ASSUME NEW w \in Writers, Cleanup(w)
      PROVE  FreshInv'
  BY <1>6 DEF Cleanup, Unlink
<1>7. ASSUME NEW w \in Writers, ApplyMode(w)
      PROVE  FreshInv'
  BY <1>7 DEF ApplyMode, SetMode
<1>8. ASSUME NEW w \in Writers, Kill(w)
      PROVE  FreshInv'
  BY <1>8 DEF Kill
<1>9. CASE Journal
  BY <1>9 DEF Journal, FlushDirectory, procVars
<1>10. CASE PowerLoss
  BY <1>10 DEF PowerLoss, LosePower
<1>11. CASE UNCHANGED vars
  BY <1>11 DEF vars, procVars
<1>12. QED
  BY <1>1, <1>2, <1>3, <1>4, <1>5, <1>6, <1>7, <1>8, <1>9, <1>10, <1>11 DEF Next, Step

LEMMA FreshInvariant ==
  ASSUME FreshSuffix
  PROVE  Spec => []FreshInv
BY FreshInvInit, FreshInvNext, NameInvariant, OrderInvariant, PTL DEF Spec

LEMMA ContentInvInit == Init => ContentInv
<1> SUFFICES ASSUME Init
             PROVE  ContentInv
  OBVIOUS
<1>1. DstFrom(dir) /\ DstFrom(stable)
  BY DEF Init, StoreInit, DstFrom, Names
<1>2. Initial # None => written[Initial] = Chunks /\ synced[Initial]
  BY DEF Init, StoreInit, Inodes
<1>3. \A w \in Writers : ~ Writing(w) /\ w \notin renamed
  BY DEF Init, Writing
<1>4. QED
  BY <1>1, <1>2, <1>3 DEF ContentInv

LEMMA ContentInvNext ==
  NameInv /\ OrderInv /\ FreshInv /\ ContentInv /\ [Next]_vars => ContentInv'
<1> SUFFICES ASSUME NameInv, OrderInv, FreshInv, ContentInv, [Next]_vars
             PROVE  ContentInv'
  OBVIOUS
<1> USE StoreAssumption DEF NameInv, TypeOK, StoreTypeOK, TmpChosen, Names, Inodes,
        OrderInv, BeforeRename, ContentInv, Writing, Whole, DstFrom, storeVars, At,
        Goto, Served, Unheard, NoReply, Refused, Unserved, serverVars
<1>1. ASSUME NEW w \in Writers, Open(w)
      PROVE  ContentInv'
  BY <1>1 DEF Open, Candidates, CreateExcl
<1>2. ASSUME NEW w \in Writers, WriteBlock(w)
      PROVE  ContentInv'
  BY <1>2 DEF WriteBlock, AppendChunk
<1>3. ASSUME NEW w \in Writers, SyncAndClose(w)
      PROVE  ContentInv'
  BY <1>3 DEF SyncAndClose, Fsync
<1>4. ASSUME NEW w \in Writers, RemoveDst(w)
      PROVE  ContentInv'
  BY <1>4 DEF RemoveDst, Unlink
<1>5. ASSUME NEW w \in Writers, Publish(w)
      PROVE  ContentInv'
  <2>1. CASE w \in conn /\ Rename(tmp[w], Dst) /\ renamed' = renamed \cup {w}
    <3>1. dir[tmp[w]] = w /\ dir'[Dst] = w
      BY <1>5, <2>1 DEF Publish, FreshInv, Rename
    <3>2. Whole(w)
      BY <1>5, <2>1 DEF Publish
    <3>3. QED
      BY <1>5, <2>1, <3>1, <3>2 DEF Publish, Rename
  <2>2. CASE NoReply(w) /\ UNCHANGED renamed
    BY <1>5, <2>2 DEF Publish
  <2>3. QED
    BY <1>5, <2>1, <2>2 DEF Publish
<1>6. ASSUME NEW w \in Writers, Cleanup(w)
      PROVE  ContentInv'
  BY <1>6 DEF Cleanup, Unlink
<1>7. ASSUME NEW w \in Writers, ApplyMode(w)
      PROVE  ContentInv'
  BY <1>7 DEF ApplyMode, SetMode
<1>8. ASSUME NEW w \in Writers, Kill(w)
      PROVE  ContentInv'
  BY <1>8 DEF Kill
<1>9. CASE Journal
  BY <1>9 DEF Journal, FlushDirectory, procVars
<1>10. CASE PowerLoss
  BY <1>10 DEF PowerLoss, LosePower
<1>11. CASE UNCHANGED vars
  BY <1>11 DEF vars, procVars
<1>12. QED
  BY <1>1, <1>2, <1>3, <1>4, <1>5, <1>6, <1>7, <1>8, <1>9, <1>10, <1>11 DEF Next, Step

LEMMA ContentInvariant ==
  ASSUME FreshSuffix
  PROVE  Spec => []ContentInv
BY ContentInvInit, ContentInvNext, NameInvariant, OrderInvariant, FreshInvariant, PTL
   DEF Spec

\* When suffixes do not repeat, the destination is absent or whole in every state,
\* but for a power loss of a server that could not sync.
THEOREM NeverTorn ==
  ASSUME FreshSuffix
  PROVE  Spec => []NoTornDst
<1>1. NameInv /\ ContentInv => NoTornDst
  BY DEF NameInv, TypeOK, ContentInv, DstFrom, Whole, NoTornDst, DstIsWhole
<1>2. QED
  BY <1>1, NameInvariant, ContentInvariant, PTL

------------------------------------------------------------------------------
\* The refinement: the removal is the abstract Withdraw, the rename is Replace, and
\* a step that takes a pending writer's hope away is Abandon; the rest stutters.
LEMMA RefinesInit == Init => Abstract!Init
BY StoreAssumption DEF Init, StoreInit, Abstract!Init, Outcome, Names

\* A step of w that touches neither the destination nor renamed is a stutter, or
\* Abandon if w was pending and has lost its session or met an error.
GivenUp == {"cleanup", "failed", "leaked"}
LEMMA QuietStep ==
  ASSUME NEW w \in Writers, dir'[Dst] = dir[Dst], renamed' = renamed,
         conn' \in {conn, conn \ {w}},
         \A v \in Writers \ {w} : pc'[v] = pc[v],
         pc[w] \in GivenUp => pc'[w] \in GivenUp
  PROVE  [Abstract!Next]_(Abstract!vars)
<1>1. \A v \in Writers \ {w} : Outcome(v)' = Outcome(v)
  BY DEF Outcome
<1>2. CASE Outcome(w)' = Outcome(w)
  <2>1. [v \in Writers |-> Outcome(v)]' = [v \in Writers |-> Outcome(v)]
    BY <1>1, <1>2
  <2>2. QED
    BY <2>1 DEF Abstract!vars
<1>3. CASE Outcome(w)' # Outcome(w)
  <2>1. Outcome(w) = "pending" /\ Outcome(w)' = "failed"
    BY <1>3 DEF Outcome, GivenUp
  <2>2. Abstract!Abandon(w)
    BY <1>1, <2>1 DEF Abstract!Abandon
  <2>3. QED
    BY <2>2 DEF Abstract!Next
<1>4. QED
  BY <1>2, <1>3

LEMMA RefinesNext ==
  NameInv /\ OrderInv /\ FreshInv /\ ContentInv /\ [Next]_vars
    => [Abstract!Next]_(Abstract!vars)
<1> SUFFICES ASSUME NameInv, OrderInv, FreshInv, ContentInv, [Next]_vars
             PROVE  [Abstract!Next]_(Abstract!vars)
  OBVIOUS
<1> USE StoreAssumption DEF NameInv, TypeOK, StoreTypeOK, TmpChosen, Names,
        storeVars, At, Goto, Served, Unheard, NoReply, Refused, Unserved, serverVars
<1>1. ASSUME NEW w \in Writers, Open(w)
      PROVE  [Abstract!Next]_(Abstract!vars)
  <2>1. dir'[Dst] = dir[Dst] /\ renamed' = renamed /\ conn' \in {conn, conn \ {w}}
    BY <1>1 DEF Open, CreateExcl, Candidates
  <2>2. \A v \in Writers \ {w} : pc'[v] = pc[v]
    BY <1>1 DEF Open
  <2>3. pc[w] \in GivenUp => pc'[w] \in GivenUp
    BY <1>1 DEF Open, GivenUp
  <2>4. QED
    BY <2>1, <2>2, <2>3, QuietStep
<1>2. ASSUME NEW w \in Writers, WriteBlock(w)
      PROVE  [Abstract!Next]_(Abstract!vars)
  <2>1. dir'[Dst] = dir[Dst] /\ renamed' = renamed /\ conn' \in {conn, conn \ {w}}
    BY <1>2 DEF WriteBlock, AppendChunk
  <2>2. \A v \in Writers \ {w} : pc'[v] = pc[v]
    BY <1>2 DEF WriteBlock
  <2>3. pc[w] \in GivenUp => pc'[w] \in GivenUp
    BY <1>2 DEF WriteBlock, GivenUp
  <2>4. QED
    BY <2>1, <2>2, <2>3, QuietStep
<1>3. ASSUME NEW w \in Writers, SyncAndClose(w)
      PROVE  [Abstract!Next]_(Abstract!vars)
  <2>1. dir'[Dst] = dir[Dst] /\ renamed' = renamed /\ conn' \in {conn, conn \ {w}}
    BY <1>3 DEF SyncAndClose, Fsync
  <2>2. \A v \in Writers \ {w} : pc'[v] = pc[v]
    BY <1>3 DEF SyncAndClose
  <2>3. pc[w] \in GivenUp => pc'[w] \in GivenUp
    BY <1>3 DEF SyncAndClose, GivenUp
  <2>4. QED
    BY <2>1, <2>2, <2>3, QuietStep
<1>4. ASSUME NEW w \in Writers, Cleanup(w)
      PROVE  [Abstract!Next]_(Abstract!vars)
  <2>1. dir'[Dst] = dir[Dst] /\ renamed' = renamed /\ conn' \in {conn, conn \ {w}}
    BY <1>4 DEF Cleanup, Unlink
  <2>2. \A v \in Writers \ {w} : pc'[v] = pc[v]
    BY <1>4 DEF Cleanup
  <2>3. pc[w] \in GivenUp => pc'[w] \in GivenUp
    BY <1>4 DEF Cleanup, GivenUp
  <2>4. QED
    BY <2>1, <2>2, <2>3, QuietStep
<1>5. ASSUME NEW w \in Writers, ApplyMode(w)
      PROVE  [Abstract!Next]_(Abstract!vars)
  <2>1. dir'[Dst] = dir[Dst] /\ renamed' = renamed /\ conn' \in {conn, conn \ {w}}
    BY <1>5 DEF ApplyMode, SetMode
  <2>2. \A v \in Writers \ {w} : pc'[v] = pc[v]
    BY <1>5 DEF ApplyMode
  <2>3. pc[w] \in GivenUp => pc'[w] \in GivenUp
    BY <1>5 DEF ApplyMode, GivenUp
  <2>4. QED
    BY <2>1, <2>2, <2>3, QuietStep
<1>6. ASSUME NEW w \in Writers, Kill(w)
      PROVE  [Abstract!Next]_(Abstract!vars)
  <2>1. dir'[Dst] = dir[Dst] /\ renamed' = renamed /\ conn' \in {conn, conn \ {w}}
    BY <1>6 DEF Kill
  <2>2. \A v \in Writers \ {w} : pc'[v] = pc[v]
    BY <1>6 DEF Kill
  <2>3. pc[w] \in GivenUp => pc'[w] \in GivenUp
    BY <1>6 DEF Kill, GivenUp
  <2>4. QED
    BY <2>1, <2>2, <2>3, QuietStep
<1>7. ASSUME NEW w \in Writers, RemoveDst(w)
      PROVE  [Abstract!Next]_(Abstract!vars)
  <2>1. pc[w] = "unlink" /\ w \notin renamed /\ renamed' = renamed
    BY <1>7 DEF RemoveDst, OrderInv, BeforeRename
  <2>2. \A v \in Writers \ {w} : pc'[v] = pc[v]
    BY <1>7 DEF RemoveDst
  <2>3. pc'[w] = "rename"
    BY <1>7 DEF RemoveDst
  <2>4. CASE w \in conn /\ Unlink(Dst) /\ conn' \in {conn, conn \ {w}}
    <3>1. dir'[Dst] = None
      BY <2>4 DEF Unlink
    <3>2. Outcome(w) = "pending"
      BY <2>1, <2>4 DEF Outcome
    <3>3. Outcome(w)' \in {"pending", "failed"}
      BY <2>1, <2>3 DEF Outcome
    <3>4. \A v \in Writers \ {w} : Outcome(v)' = Outcome(v)
      BY <2>1, <2>2, <2>4 DEF Outcome
    <3>5. Abstract!Withdraw(w)
      BY <3>1, <3>2, <3>3, <3>4, ZenonT(30) DEF Abstract!Withdraw
    <3>6. QED
      BY <3>5 DEF Abstract!Next
  <2>5. CASE NoReply(w)
    BY <2>1, <2>2, <2>5, QuietStep DEF GivenUp
  <2>6. QED
    BY <1>7, <2>4, <2>5 DEF RemoveDst
<1>8. ASSUME NEW w \in Writers, Publish(w)
      PROVE  [Abstract!Next]_(Abstract!vars)
  <2>1. pc[w] = "rename" /\ w \notin renamed
    BY <1>8 DEF Publish, OrderInv, BeforeRename
  <2>2. \A v \in Writers \ {w} : pc'[v] = pc[v]
    BY <1>8 DEF Publish
  <2>3. CASE /\ w \in conn /\ Rename(tmp[w], Dst) /\ renamed' = renamed \cup {w}
             /\ conn' \in {conn, conn \ {w}}
    <3>1. dir'[Dst] = w
      BY <2>1, <2>3 DEF FreshInv, Writing, Rename
    <3>2. Outcome(w) = "pending" /\ Outcome(w)' = "replaced"
      BY <2>1, <2>3 DEF Outcome
    <3>3. \A v \in Writers \ {w} : Outcome(v)' = Outcome(v)
      BY <2>2, <2>3 DEF Outcome
    <3>4. Abstract!Replace(w)
      BY <3>1, <3>2, <3>3 DEF Abstract!Replace
    <3>5. QED
      BY <3>4 DEF Abstract!Next
  <2>4. CASE NoReply(w) /\ UNCHANGED renamed
    BY <2>1, <2>2, <2>4, QuietStep DEF GivenUp
  <2>5. QED
    BY <1>8, <2>3, <2>4 DEF Publish
<1>9. CASE Journal
  BY <1>9 DEF Journal, FlushDirectory, procVars, Outcome, Abstract!vars
<1>10. CASE PowerLoss
  <2>1. dir'[Dst] \in {None, Initial} \cup renamed
    BY <1>10 DEF PowerLoss, LosePower, ContentInv, DstFrom
  <2>2. \A w \in Writers :
          Outcome(w)' = IF Outcome(w) = "pending" THEN "failed" ELSE Outcome(w)
    BY <1>10 DEF PowerLoss, Outcome
  <2>3. \A w \in renamed : w \in Writers /\ Outcome(w) = "replaced"
    BY DEF Outcome
  <2>4. Abstract!LosePower
    BY <2>1, <2>2, <2>3 DEF Abstract!LosePower, Abstract!Past, Abstract!Replaced
  <2>5. QED
    BY <2>4 DEF Abstract!Next
<1>11. CASE UNCHANGED vars
  BY <1>11 DEF vars, procVars, Outcome, Abstract!vars
<1>12. QED
  BY <1>1, <1>2, <1>3, <1>4, <1>5, <1>6, <1>7, <1>8, <1>9, <1>10, <1>11 DEF Next, Step

\* When suffixes do not repeat, --push implements the abstract transfer whose
\* writers may withdraw the old file first: whatever replies are lost, nobody who
\* failed changes the destination, and a power loss takes it back at most to a
\* value it had.
THEOREM Implements ==
  ASSUME FreshSuffix
  PROVE  Spec => WithdrawsOrReplaces
BY RefinesInit, RefinesNext, NameInvariant, OrderInvariant, FreshInvariant,
   ContentInvariant, PTL DEF Spec, WithdrawsOrReplaces, Abstract!Spec
==============================================================================
