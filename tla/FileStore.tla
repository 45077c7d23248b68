------------------------------ MODULE FileStore ------------------------------
(***************************************************************************)
(* The directory that holds the destination of a transfer and the sibling  *)
(* temp files of the passhrs invocations that write it.  It is the         *)
(* environment of sftp.rs: the local kernel for atomic_write_local, the    *)
(* sftp-server's file system for atomic_write_remote.  Files are inodes;   *)
(* an invocation creates at most one, so the inode is named by its writer. *)
(***************************************************************************)
EXTENDS Integers

CONSTANTS
  Writers,    \* the passhrs invocations that write the same destination
  TmpNames,   \* the possible names {path}.tmp.XXXXXX
  Dst,        \* the destination name
  Initial,    \* the file at Dst before any transfer; None if there is none
  None,       \* no file
  Chunks      \* blocks of data in a whole file

ASSUME StoreAssumption ==
  /\ Initial \notin Writers
  /\ None \notin Writers
  /\ Dst \notin TmpNames
  /\ None \notin TmpNames
  /\ Chunks \in Nat \ {0}

VARIABLES
  dir,        \* name -> inode or None, as any process sees it
  stable,     \* name -> inode or None, as the disk's journal has it
  written,    \* inode -> blocks its file holds
  synced,     \* inode -> an fsync covered everything written
  mode        \* inode -> whose source mode bits it carries

storeVars == <<dir, stable, written, synced, mode>>

Names  == {Dst} \cup TmpNames
Inodes == (Writers \cup {Initial}) \ {None}

\* Mode bits are named by the writer whose source file had them.  A temp file
\* is born with the umask's bits; the initial file carries its own.
Umask == "umask"
Modes == Writers \cup {Initial, Umask}

StoreTypeOK ==
  /\ dir \in [Names -> Inodes \cup {None}]
  /\ stable \in [Names -> Inodes \cup {None}]
  /\ written \in [Inodes -> 0 .. Chunks]
  /\ synced \in [Inodes -> BOOLEAN]
  /\ mode \in [Inodes -> Modes]

StoreInit ==
  /\ dir = [n \in Names |-> IF n = Dst THEN Initial ELSE None]
  /\ stable = dir
  /\ written = [i \in Inodes |-> IF i = Initial THEN Chunks ELSE 0]
  /\ synced = [i \in Inodes |-> i = Initial]
  /\ mode = [i \in Inodes |-> IF i = Initial THEN Initial ELSE Umask]

\* open(n, O_CREAT|O_EXCL): the name must be free.
CreateExcl(n, w) ==
  /\ dir[n] = None
  /\ dir' = [dir EXCEPT ![n] = w]
  /\ UNCHANGED <<stable, written, synced, mode>>

\* write through w's open handle: it reaches w's inode, linked or not.
AppendChunk(w) ==
  /\ written[w] < Chunks
  /\ written' = [written EXCEPT ![w] = @ + 1]
  /\ synced' = [synced EXCEPT ![w] = FALSE]
  /\ UNCHANGED <<dir, stable, mode>>

Fsync(w) ==
  /\ synced' = [synced EXCEPT ![w] = TRUE]
  /\ UNCHANGED <<dir, stable, written, mode>>

\* unlink(n); a missing name is an error the callers ignore.
Unlink(n) ==
  /\ dir' = [dir EXCEPT ![n] = None]
  /\ UNCHANGED <<stable, written, synced, mode>>

\* rename(n, m), replacing what m names in the same step.
Rename(n, m) ==
  /\ dir[n] # None
  /\ dir' = [dir EXCEPT ![m] = dir[n], ![n] = None]
  /\ UNCHANGED <<stable, written, synced, mode>>

\* chmod(n): it reaches whatever inode the name has at that moment.
SetMode(n, bits) ==
  /\ dir[n] # None
  /\ mode' = [mode EXCEPT ![dir[n]] = bits]
  /\ UNCHANGED <<dir, stable, written, synced>>

\* The journal writes the directory out, whenever it likes.
FlushDirectory ==
  /\ stable' = dir
  /\ UNCHANGED <<dir, written, synced, mode>>

\* Power loss: the directory goes back to the journal's last state, and a file
\* no fsync covered keeps any part of its blocks.
LosePower ==
  /\ dir' = stable
  /\ \E kept \in [Inodes -> 0 .. Chunks] :
       /\ \A i \in Inodes : /\ kept[i] <= written[i]
                            /\ synced[i] => kept[i] = written[i]
       /\ written' = kept
  /\ UNCHANGED <<stable, synced, mode>>

\* The destination is absent or holds one whole file.
DstIsWhole == dir[Dst] # None => written[dir[Dst]] = Chunks
==============================================================================
