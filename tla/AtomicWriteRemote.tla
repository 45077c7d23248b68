-------------------------- MODULE AtomicWriteRemote --------------------------
(***************************************************************************)
(* --push: atomic_write_remote and the set_remote_mode push_path does      *)
(* after it, run by any number of passhrs invocations over their own SFTP  *)
(* sessions.  One action per SFTP request.  A request can be refused, lost *)
(* with its connection, or carried out by a server whose reply is lost.    *)
(* The server may refuse to rename over an existing name, may lack the     *)
(* fsync extension, and its machine may lose power.                        *)
(***************************************************************************)
EXTENDS FileStore

CONSTANT FreshSuffix   \* random_tmp_suffix never repeats

ASSUME RemoteAssumption == FreshSuffix \in BOOLEAN

VARIABLES
  pc,         \* writer -> where it is in atomic_write_remote / push_path
  tmp,        \* writer -> the temp name it chose; None before
  conn,       \* the writers whose SFTP session is up
  killed,     \* the writers whose process is gone
  unlinked,   \* the writers whose remove_file(path) reached the server
  renamed,    \* the writers whose rename reached the server
  fsync,      \* the server has fsync@openssh.com, and it works
  outage      \* the server's machine has lost power

serverVars == <<unlinked, renamed, fsync, outage>>
procVars == <<pc, tmp, conn, killed, unlinked, renamed, fsync, outage>>
vars == <<dir, stable, written, synced, mode, procVars>>

Steps == {"start", "write", "sync", "unlink", "rename", "mode", "done",
          "cleanup", "failed", "leaked"}

TypeOK ==
  /\ StoreTypeOK
  /\ pc \in [Writers -> Steps]
  /\ tmp \in [Writers -> TmpNames \cup {None}]
  /\ conn \in SUBSET Writers
  /\ killed \in SUBSET Writers
  /\ {unlinked, renamed} \subseteq SUBSET Writers
  /\ {fsync, outage} \subseteq BOOLEAN

Init ==
  /\ StoreInit
  /\ pc = [w \in Writers |-> "start"]
  /\ tmp = [w \in Writers |-> None]
  /\ conn = Writers
  /\ killed = {}
  /\ unlinked = {}
  /\ renamed = {}
  /\ fsync \in BOOLEAN
  /\ outage = FALSE

At(w, step) == w \notin killed /\ pc[w] = step
Goto(w, step) == pc' = [pc EXCEPT ![w] = step]

Served(w)   == w \in conn /\ UNCHANGED conn          \* carried out, reply Ok
Unheard(w)  == w \in conn /\ conn' = conn \ {w}      \* carried out, reply lost
Refused(w)  == UNCHANGED <<storeVars, conn>>         \* an error came back
Unserved(w) == conn' = conn \ {w} /\ UNCHANGED storeVars

\* The client sees an error: whether the request was carried out is unknown.
NoReply(w) == Refused(w) \/ Unserved(w)

Candidates ==
  IF FreshSuffix
  THEN {n \in TmpNames : dir[n] = None /\ \A v \in Writers : tmp[v] # n}
  ELSE TmpNames

\* Mutant: the destination itself is opened and written in place.
OpenInPlace(w) ==
  /\ At(w, "start")
  /\ dir' = [dir EXCEPT ![Dst] = w]
  /\ tmp' = [tmp EXCEPT ![w] = CHOOSE n \in TmpNames : TRUE]
  /\ Served(w) /\ Goto(w, "write")
  /\ UNCHANGED <<stable, written, synced, mode, killed, serverVars>>

Open(w) ==
  /\ At(w, "start")
  /\ \E n \in Candidates :
       /\ tmp' = [tmp EXCEPT ![w] = n]
       /\ \/ CreateExcl(n, w) /\ \/ Served(w) /\ Goto(w, "write")
                                 \/ Unheard(w) /\ Goto(w, "cleanup")
          \/ NoReply(w) /\ Goto(w, "cleanup")
  /\ UNCHANGED <<killed, serverVars>>

\* Mutant: the error of write_all is dropped.
WriteBlockUnchecked(w) ==
  /\ At(w, "write")
  /\ \/ /\ AppendChunk(w) /\ Served(w)
        /\ Goto(w, IF written[w] + 1 = Chunks THEN "sync" ELSE "write")
     \/ NoReply(w) /\ Goto(w, "sync")
  /\ UNCHANGED <<tmp, killed, serverVars>>

WriteBlock(w) ==
  /\ At(w, "write")
  /\ \/ /\ AppendChunk(w)
        /\ \/ Served(w) /\ Goto(w, IF written[w] + 1 = Chunks THEN "sync" ELSE "write")
           \/ Unheard(w) /\ Goto(w, "cleanup")
     \/ NoReply(w) /\ Goto(w, "cleanup")
  /\ UNCHANGED <<tmp, killed, serverVars>>

\* Mutant: the file is closed without an fsync.
CloseOnly(w) ==
  /\ At(w, "sync")
  /\ Refused(w) \/ Unserved(w)
  /\ Goto(w, "unlink")
  /\ UNCHANGED <<tmp, killed, serverVars>>

\* flush, sync_all and close: every error is dropped, and without the extension
\* sync_all asks for nothing.
SyncAndClose(w) ==
  /\ At(w, "sync")
  /\ \/ Fsync(w) /\ (Served(w) \/ Unheard(w))
     \/ (~fsync \/ w \notin conn) /\ Refused(w)
     \/ Unserved(w)
  /\ Goto(w, "unlink")
  /\ UNCHANGED <<tmp, killed, serverVars>>

\* let _ = remove_file(path): any outcome leads to the rename.
RemoveDst(w) ==
  /\ At(w, "unlink")
  /\ \/ Unlink(Dst) /\ (Served(w) \/ Unheard(w)) /\ unlinked' = unlinked \cup {w}
     \/ NoReply(w) /\ UNCHANGED unlinked
  /\ Goto(w, "rename")
  /\ UNCHANGED <<tmp, killed, renamed, fsync, outage>>

Publish(w) ==
  /\ At(w, "rename")
  /\ \/ /\ Rename(tmp[w], Dst)
        /\ renamed' = renamed \cup {w}
        /\ \/ Served(w) /\ Goto(w, "mode")
           \/ Unheard(w) /\ Goto(w, "cleanup")
     \/ NoReply(w) /\ Goto(w, "cleanup") /\ UNCHANGED renamed
  /\ UNCHANGED <<tmp, killed, unlinked, fsync, outage>>

\* Mutant: the cleanup removes the path instead of the temp file.
CleanupPath(w) ==
  /\ At(w, "cleanup")
  /\ \/ Unlink(Dst) /\ (Served(w) \/ Unheard(w)) /\ Goto(w, "failed")
     \/ NoReply(w) /\ Goto(w, "leaked")
  /\ UNCHANGED <<tmp, killed, serverVars>>

\* Mutant: an error returns at once, without the cleanup.
CleanupSkipped(w) ==
  /\ At(w, "cleanup")
  /\ Goto(w, "failed")
  /\ UNCHANGED <<storeVars, conn, tmp, killed, serverVars>>

\* write_res.is_err(): remove_file(tmp), whoever's file it names; a failure is
\* only logged.
Cleanup(w) ==
  /\ At(w, "cleanup")
  /\ \/ Unlink(tmp[w]) /\ (Served(w) \/ Unheard(w)) /\ Goto(w, "failed")
     \/ NoReply(w) /\ Goto(w, "leaked")
  /\ UNCHANGED <<tmp, killed, serverVars>>

\* set_remote_mode: stat and setstat on the path; a failure is only logged.
ApplyMode(w) ==
  /\ At(w, "mode")
  /\ \/ SetMode(Dst, w) /\ (Served(w) \/ Unheard(w))
     \/ NoReply(w)
  /\ Goto(w, "done")
  /\ UNCHANGED <<tmp, killed, serverVars>>

Kill(w) ==
  /\ w \notin killed
  /\ pc[w] \notin {"done", "failed", "leaked"}
  /\ killed' = killed \cup {w}
  /\ conn' = conn \ {w}
  /\ UNCHANGED <<storeVars, pc, tmp, serverVars>>

Step(w) ==
  \/ Open(w) \/ WriteBlock(w) \/ SyncAndClose(w) \/ RemoveDst(w)
  \/ Publish(w) \/ Cleanup(w) \/ ApplyMode(w) \/ Kill(w)

Journal == FlushDirectory /\ UNCHANGED procVars

\* The server's machine restarts; every SFTP session is lost with it.
PowerLoss ==
  /\ ~outage
  /\ LosePower
  /\ outage' = TRUE
  /\ conn' = {}
  /\ UNCHANGED <<pc, tmp, killed, unlinked, renamed, fsync>>

Next ==
  \/ \E w \in Writers : Step(w)
  \/ Journal
  \/ PowerLoss

Spec == Init /\ [][Next]_vars

------------------------------------------------------------------------------
Ended(w) == w \in killed \/ pc[w] \in {"done", "failed", "leaked"}

\* "Never a half-written file" on the remote side (README, Atomic writes).  Only
\* a power loss of a server without a working fsync can leave one.
NoTornDst == DstIsWhole \/ (outage /\ ~fsync)

\* A destination that was there goes missing only through a writer that removed
\* it and has not completed its rename: one still between the two requests, or
\* one that failed there (the comment above remove_file(path)).  A power loss
\* may bring such a moment back.
AbsenceHasACause ==
  dir[Dst] = None /\ Initial # None =>
    IF outage THEN unlinked # {} ELSE \E w \in unlinked : w \notin renamed

\* A temp file that stays behind has a cause: its writer is still at work, was
\* killed, or could not be heard when it asked for the removal, or the server's
\* power loss undid its rename or its removal.
LitterHasACause ==
  \A n \in TmpNames : dir[n] # None =>
    \/ outage \/ dir[n] \in killed
    \/ pc[dir[n]] \in {"write", "sync", "unlink", "rename", "cleanup", "leaked"}

\* What has become of w, whether or not w heard so; once its session is lost it
\* can change nothing any more.
Outcome(w) ==
  IF w \in renamed THEN "replaced"
  ELSE IF w \notin conn \/ pc[w] \in {"cleanup", "failed", "leaked"} THEN "failed"
  ELSE "pending"

Abstract == INSTANCE AtomicFile WITH
  current <- dir[Dst],
  outcome <- [w \in Writers |-> Outcome(w)],
  UnlinkFirst <- TRUE

\* What --push keeps of the README's promise: besides replacing the destination
\* in one step, a writer still at work may withdraw it first; one that has
\* failed or ended changes nothing any more.
WithdrawsOrReplaces == Abstract!Spec
==============================================================================
