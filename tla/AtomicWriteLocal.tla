--------------------------- MODULE AtomicWriteLocal ---------------------------
(***************************************************************************)
(* --pull: atomic_write_local and the chmod pull_path does after it, run   *)
(* by any number of passhrs invocations on one destination.  One action    *)
(* per system call; an invocation can be killed between any two of them,   *)
(* and the machine can lose power.                                         *)
(***************************************************************************)
EXTENDS FileStore

CONSTANTS
  FreshSuffix,      \* random_tmp_suffix never repeats
  LateWriteErrors   \* the disk may refuse a block after write_all returned

ASSUME LocalAssumption == FreshSuffix \in BOOLEAN /\ LateWriteErrors \in BOOLEAN

VARIABLES
  pc,         \* writer -> where it is in atomic_write_local / pull_path
  tmp,        \* writer -> the temp name it chose; None before
  killed      \* the writers whose process is gone

procVars == <<pc, tmp, killed>>
vars == <<dir, stable, written, synced, mode, pc, tmp, killed>>

Steps == {"start", "write", "sync", "rename", "mode", "done", "cleanup", "failed", "leaked"}

TypeOK ==
  /\ StoreTypeOK
  /\ pc \in [Writers -> Steps]
  /\ tmp \in [Writers -> TmpNames \cup {None}]
  /\ killed \in SUBSET Writers

Init ==
  /\ StoreInit
  /\ pc = [w \in Writers |-> "start"]
  /\ tmp = [w \in Writers |-> None]
  /\ killed = {}

At(w, step) == w \notin killed /\ pc[w] = step
Goto(w, step) == pc' = [pc EXCEPT ![w] = step]

\* random_tmp_suffix: any name, or one that no file has and no writer took.
Candidates ==
  IF FreshSuffix
  THEN {n \in TmpNames : dir[n] = None /\ \A v \in Writers : tmp[v] # n}
  ELSE TmpNames

Open(w) ==
  /\ At(w, "start")
  /\ \E n \in Candidates :
       /\ tmp' = [tmp EXCEPT ![w] = n]
       /\ \/ CreateExcl(n, w) /\ Goto(w, "write")
          \/ Goto(w, "cleanup") /\ UNCHANGED storeVars
  /\ UNCHANGED killed

\* Mutant: one block past the end of the data.
WriteBlockTooMany(w) ==
  /\ At(w, "write")
  /\ written' = [written EXCEPT ![w] = @ + 1]
  /\ Goto(w, IF written[w] = Chunks THEN "sync" ELSE "write")
  /\ UNCHANGED <<dir, stable, synced, mode, tmp, killed>>

WriteBlock(w) ==
  /\ At(w, "write")
  /\ \/ /\ AppendChunk(w)
        /\ Goto(w, IF written[w] + 1 = Chunks THEN "sync" ELSE "write")
     \/ /\ Goto(w, "cleanup")
        /\ UNCHANGED storeVars
  /\ UNCHANGED <<tmp, killed>>

\* tokio hands a block to its blocking pool and reports the failure at the
\* next call on the file.  For the last block that is flush(), whose error the
\* code drops with ok().
LoseLastBlock(w) ==
  /\ LateWriteErrors
  /\ At(w, "write")
  /\ written[w] + 1 = Chunks
  /\ Goto(w, "sync")
  /\ UNCHANGED <<storeVars, tmp, killed>>

\* Mutant: the rename follows the last write without an fsync.
SyncSkipped(w) ==
  /\ At(w, "sync")
  /\ Goto(w, "rename")
  /\ UNCHANGED <<storeVars, tmp, killed>>

SyncAll(w) ==
  /\ At(w, "sync")
  /\ \/ Fsync(w) /\ Goto(w, "rename")
     \/ Goto(w, "cleanup") /\ UNCHANGED storeVars
  /\ UNCHANGED <<tmp, killed>>

\* Mutant: the destination is unlinked first, as on the remote side.
PublishUnlinkFirst(w) ==
  /\ At(w, "rename")
  /\ \/ dir[Dst] # None /\ Unlink(Dst) /\ UNCHANGED pc
     \/ dir[Dst] = None /\ Rename(tmp[w], Dst) /\ Goto(w, "mode")
  /\ UNCHANGED <<tmp, killed>>

Publish(w) ==
  /\ At(w, "rename")
  /\ \/ Rename(tmp[w], Dst) /\ Goto(w, "mode")
     \/ Goto(w, "cleanup") /\ UNCHANGED storeVars
  /\ UNCHANGED <<tmp, killed>>

\* Mutant: an error returns at once, without the cleanup.
CleanupSkipped(w) ==
  /\ At(w, "cleanup")
  /\ Goto(w, "failed")
  /\ UNCHANGED <<storeVars, tmp, killed>>

\* write_res.is_err(): the temp name is removed, whoever's file it names.
Cleanup(w) ==
  /\ At(w, "cleanup")
  /\ \/ Unlink(tmp[w]) /\ Goto(w, "failed")
     \/ dir[tmp[w]] # None /\ Goto(w, "leaked") /\ UNCHANGED storeVars
  /\ UNCHANGED <<tmp, killed>>

\* apply_local_mode; a failure is only logged.
ApplyMode(w) ==
  /\ At(w, "mode")
  /\ SetMode(Dst, w) \/ UNCHANGED storeVars
  /\ Goto(w, "done")
  /\ UNCHANGED <<tmp, killed>>

Kill(w) ==
  /\ w \notin killed
  /\ pc[w] \notin {"done", "failed", "leaked"}
  /\ killed' = killed \cup {w}
  /\ UNCHANGED <<storeVars, pc, tmp>>

Step(w) ==
  \/ Open(w) \/ WriteBlock(w) \/ LoseLastBlock(w) \/ SyncAll(w)
  \/ Publish(w) \/ Cleanup(w) \/ ApplyMode(w) \/ Kill(w)

Journal == FlushDirectory /\ UNCHANGED procVars

PowerLoss ==
  /\ LosePower
  /\ killed' = Writers
  /\ UNCHANGED <<pc, tmp>>

Next ==
  \/ \E w \in Writers : Step(w)
  \/ Journal
  \/ PowerLoss

Spec == Init /\ [][Next]_vars

------------------------------------------------------------------------------
\* A writer that holds its temp file open between open and rename.
Writing(w) == w \notin killed /\ pc[w] \in {"write", "sync", "rename"}

\* What flush().ok() takes from a file is the last block, and no more, on a disk
\* that reports a failed write late.
DstFilled ==
  dir[Dst] # None => written[dir[Dst]] >= IF LateWriteErrors THEN Chunks - 1 ELSE Chunks

\* "Other processes see either the old contents or the new contents - never a
\* half-written file" (README, Atomic writes), also after a power loss and also
\* when suffixes repeat, unless three invocations have drawn the same one: one
\* publishes under the name, one whose open O_EXCL refuses removes its file in
\* the cleanup, and one creates the file anew and is published half-written.
\* Two cost each other a transfer at most.
NoTornDst ==
  ~DstFilled =>
    \E u, v \in Writers \ {dir[Dst]} :
      u # v /\ tmp[u] = tmp[dir[Dst]] /\ tmp[v] = tmp[dir[Dst]]

\* "Concurrent passhrs invocations don't clobber each other: the O_EXCL on the
\* temp file guarantees a fresh path per call" (README, Atomic writes; sftp.rs,
\* random_tmp_suffix): nobody takes a temp file away that is being written.
\* It holds as long as suffixes do not repeat (FreshInv of the proofs), and no
\* run asks for it: when one does, the open that O_EXCL refuses ends in the
\* cleanup, which removes the sibling's file.
NoClobber == \A w \in Writers : Writing(w) => dir[tmp[w]] = w

\* A temp file that stays behind has a cause: its writer is still at work, was
\* killed, or reported that the removal failed (the write_res.is_err() branch).
LitterHasACause ==
  \A n \in TmpNames : dir[n] # None =>
    \/ dir[n] \in killed
    \/ pc[dir[n]] \in {"write", "sync", "rename", "cleanup", "leaked"}

\* The abstract transfer this implements: one step replaces the destination,
\* at the rename; a writer that ends without it leaves no trace there.
Outcome(w) ==
  IF pc[w] \in {"mode", "done"} THEN "replaced"
  ELSE IF w \in killed \/ pc[w] \in {"cleanup", "failed", "leaked"} THEN "failed"
  ELSE "pending"

Abstract == INSTANCE AtomicFile WITH
  current <- dir[Dst],
  outcome <- [w \in Writers |-> Outcome(w)],
  UnlinkFirst <- FALSE

\* --pull replaces the destination in one atomic step or leaves it alone, and
\* a power loss leaves a value it had (README, "either the rename happened or
\* it didn't").
ReplacesAtomically == Abstract!Spec
==============================================================================
