------------------------------ MODULE RsyncUpload ------------------------------
(***************************************************************************)
(* --rsync: rsync_upload, which lists both trees, uploads what differs and *)
(* then removes what the local tree lacks, while the user may save a local *)
(* file and another passhrs may --push to the same remote tree.  The       *)
(* listing is taken once and used to the end.  The requests inside one     *)
(* atomic_write_remote are those of module AtomicWriteRemote; here only    *)
(* the removal, the rename and the setstat are visible.                    *)
(***************************************************************************)
EXTENDS Integers, FiniteSets

CONSTANTS
  Names,      \* paths below the root
  Nested,     \* those in a subdirectory
  Locals,     \* the local trees the run may start with
  Remotes,    \* the remote trees it may meet
  Options,    \* the --rsync-opt combinations
  Saves,      \* what the user may save meanwhile
  Theirs,     \* what the other push brings
  Tmp,        \* the name of the other push's temp file
  None        \* no file

\* A file is its blocks, as far as copia tells them apart, and what a stat says.
File(head, tail, size, mtime, mode) ==
  [head |-> head, tail |-> tail, size |-> size, mtime |-> mtime, mode |-> mode]

Opts(delete, dry_run, checksum, exclude) ==
  [delete |-> delete, dry_run |-> dry_run, checksum |-> checksum, exclude |-> exclude]

\* The files the run meets, and those it makes of them by writing one anew and
\* by giving it another's mode.
Given ==
  ({t[n] : t \in Locals \cup Remotes, n \in Names} \cup Saves \cup {Theirs}) \ {None}
Times == {f.mtime : f \in Given} \cup {"now"}
Modes == {f.mode : f \in Given} \cup {"umask"}
Files == {File(f.head, f.tail, f.size, t, m) : f \in Given, t \in Times, m \in Modes}

ASSUME RsyncAssumption ==
  /\ Nested \subseteq Names
  /\ Tmp \notin Names
  /\ Locals \cup Remotes \subseteq [Names -> Given \cup {None}]
  /\ \A o \in Options : o.exclude \subseteq Names
  /\ Given \subseteq Files /\ Theirs # None
  /\ None \notin Files \cup Names \cup {Tmp}

VARIABLES
  opts,     \* the options of the run
  local,    \* path -> local file
  remote,   \* path or Tmp -> remote file
  dirs,     \* remote directories that exist: "root", "sub"
  pc,       \* where rsync_upload is
  seen,     \* the two listings
  todo,     \* paths still to stat, to upload or to remove
  cur,      \* the path in hand
  buf,      \* the content to be written there
  push,     \* the other push: "idle", "unlink", "rename", "done", "failed"
  target,   \* its destination
  saved,    \* history: path -> what the local file has been since it was listed
  existed,  \* history: remote paths that had a file
  wrote     \* history: remote paths the run has replaced

run == <<pc, seen, todo, cur, buf>>
vars == <<opts, local, remote, dirs, run, push, target, saved, existed, wrote>>

AllNames == Names \cup {Tmp}
Listing == [local |-> [n \in Names |-> None], remote |-> [n \in AllNames |-> None]]

Steps == {"root", "list", "stat", "pick", "compare", "temp", "unlink", "rename", "mode",
          "delete", "done", "failed"}

TypeOK ==
  /\ opts \in Options
  /\ local \in [Names -> Files \cup {None}]
  /\ remote \in [AllNames -> Files \cup {None}]
  /\ dirs \subseteq {"root", "sub"}
  /\ pc \in Steps
  /\ seen \in [local : [Names -> Files \cup {None}], remote : [AllNames -> Files \cup {None}]]
  /\ todo \subseteq AllNames
  /\ cur \in Names \cup {None}
  /\ buf \in Files \cup {None}
  /\ push \in {"idle", "unlink", "rename", "done", "failed"}
  /\ target \in Names \ Nested
  /\ saved \in [Names -> SUBSET (Files \cup {None})]
  /\ existed \subseteq Names /\ wrote \subseteq Names

Init ==
  /\ opts \in Options
  /\ local \in Locals
  /\ \E t \in Remotes : remote = [n \in AllNames |-> IF n = Tmp THEN None ELSE t[n]]
  /\ existed = {n \in Names : remote[n] # None}
  /\ dirs \in {d \in SUBSET {"root", "sub"} :
                 /\ "sub" \in d => "root" \in d
                 /\ existed # {} => "root" \in d
                 /\ existed \cap Nested # {} => "sub" \in d}
  /\ pc = "root"
  /\ seen = Listing
  /\ todo = {}
  /\ cur = None /\ buf = None
  /\ push = "idle"
  /\ target \in Names \ Nested
  /\ saved = [n \in Names |-> {}]
  /\ wrote = {}

Data(f) == <<f.head, f.tail, f.size>>
HasDir(n) == (IF n \in Nested THEN "sub" ELSE "root") \in dirs

environment == <<opts, local, push, target>>
Fail == pc' = "failed" /\ UNCHANGED <<seen, todo, cur, buf>>
Goto(step) == pc' = step /\ UNCHANGED <<seen, todo, cur, buf>>

------------------------------------------------------------------------------
(* The listings *)

\* let _ = create_dir(remote_root), in a dry run too; then list_local_files.
CreateRoot ==
  /\ pc = "root"
  /\ \/ dirs' = dirs \cup {"root"}
     \/ UNCHANGED dirs
  /\ seen' = [seen EXCEPT !.local = local]
  /\ saved' = [n \in Names |-> {local[n]}]
  /\ pc' = "list"
  /\ UNCHANGED <<environment, remote, todo, cur, buf, existed, wrote>>

\* read_dir, one for the tree.
ReadDir ==
  /\ pc = "list"
  /\ IF "root" \in dirs
     THEN /\ todo' = {n \in AllNames : remote[n] # None}
          /\ pc' = "stat"
          /\ UNCHANGED <<seen, cur, buf>>
     ELSE Fail
  /\ UNCHANGED <<environment, remote, dirs, saved, existed, wrote>>

\* A stat per entry: one that has gone since read_dir ends the run.
StatEntry ==
  /\ pc = "stat"
  /\ \E n \in todo :
       IF remote[n] = None
       THEN Fail
       ELSE /\ seen' = [seen EXCEPT !.remote[n] = remote[n]]
            /\ todo' = todo \ {n}
            /\ UNCHANGED <<pc, cur, buf>>
  /\ UNCHANGED <<environment, remote, dirs, saved, existed, wrote>>

Listed ==
  /\ pc = "stat"
  /\ todo = {}
  /\ todo' = {n \in Names : seen.local[n] # None}
  /\ pc' = "pick"
  /\ UNCHANGED <<environment, remote, dirs, seen, cur, buf, saved, existed, wrote>>

------------------------------------------------------------------------------
(* The uploads, in the HashMap's order *)

SameSize(n) == seen.remote[n] # None /\ seen.remote[n].size = seen.local[n].size

\* size and mtime, the stat of the listing.
QuickSame(n) == SameSize(n) /\ ~opts.checksum /\ seen.remote[n].mtime = seen.local[n].mtime

Skip(n) ==
  /\ n \in opts.exclude \/ QuickSame(n)
  /\ todo' = todo \ {n}
  /\ UNCHANGED <<pc, seen, cur, buf>>

\* Mutant: the excludes are not asked of a file both sides have.
DeltaCheckExcluded(n) ==
  /\ SameSize(n) /\ ~QuickSame(n)
  /\ cur' = n
  /\ pc' = "compare"
  /\ UNCHANGED <<seen, todo, buf>>

DeltaCheck(n) ==
  /\ n \notin opts.exclude /\ SameSize(n) /\ ~QuickSame(n)
  /\ cur' = n
  /\ pc' = "compare"
  /\ UNCHANGED <<seen, todo, buf>>

\* The dry run stops here; otherwise the file is read now.
SendWhole(n) ==
  /\ todo' = todo \ {n}
  /\ IF opts.dry_run
     THEN pc' = "pick" /\ UNCHANGED <<seen, cur, buf>>
     ELSE IF local[n] = None
     THEN pc' = "failed" /\ UNCHANGED <<seen, cur, buf>>
     ELSE pc' = "temp" /\ cur' = n /\ buf' = local[n] /\ UNCHANGED seen

Pick ==
  /\ pc = "pick"
  /\ \E n \in todo :
       \/ Skip(n)
       \/ DeltaCheck(n)
       \/ n \notin opts.exclude /\ ~SameSize(n) /\ SendWhole(n)
  /\ UNCHANGED <<environment, remote, dirs, saved, existed, wrote>>

\* copia finds the block both have, so the delta is shorter than the file.
DeltaSaves(new, old) == new.head = old.head

\* Mutant: files of one size are taken for identical.
IdenticalSize(new, old) == new.size = old.size
Identical(new, old) == Data(new) = Data(old)

NextFile == pc' = "pick" /\ todo' = todo \ {cur} /\ UNCHANGED <<seen, cur, buf>>

SendPatched ==
  /\ buf' = local[cur]
  /\ todo' = todo \ {cur}
  /\ pc' = "temp"
  /\ UNCHANGED <<seen, cur>>

\* Both files are read; one that has gone ends the run.  A delta that saves is
\* written without a look at dry_run.
Compare ==
  /\ pc = "compare"
  /\ \/ Fail
     \/ /\ None \notin {local[cur], remote[cur]}
        /\ \/ Identical(local[cur], remote[cur]) /\ NextFile
           \/ /\ ~Identical(local[cur], remote[cur])
              /\ IF DeltaSaves(local[cur], remote[cur]) THEN SendPatched ELSE SendWhole(cur)
  /\ UNCHANGED <<environment, remote, dirs, saved, existed, wrote>>

\* atomic_write_remote up to the rename: the temp file needs the directory, which
\* no step of the run creates below the root.
WriteTemp ==
  /\ pc = "temp"
  /\ \/ HasDir(cur) /\ Goto("unlink")
     \/ Fail
  /\ UNCHANGED <<environment, remote, dirs, saved, existed, wrote>>

RemoveDst ==
  /\ pc = "unlink"
  /\ \/ remote' = [remote EXCEPT ![cur] = None]
     \/ UNCHANGED remote
  /\ Goto("rename")
  /\ UNCHANGED <<environment, dirs, saved, existed, wrote>>

Stored(f) == [f EXCEPT !.mtime = "now", !.mode = "umask"]

\* An error ends the run: the files after this one are not looked at.
Publish ==
  /\ pc = "rename"
  /\ \/ /\ remote' = [remote EXCEPT ![cur] = Stored(buf)]
        /\ existed' = existed \cup {cur}
        /\ wrote' = wrote \cup {cur}
        /\ Goto("mode")
     \/ Fail /\ UNCHANGED <<remote, existed, wrote>>
  /\ UNCHANGED <<environment, dirs, saved>>

\* set_remote_mode with the listing's mode bits; a failure is only logged.
ApplyMode ==
  /\ pc = "mode"
  /\ \/ /\ remote[cur] # None
        /\ remote' = [remote EXCEPT ![cur].mode = seen.local[cur].mode]
     \/ UNCHANGED remote
  /\ Goto("pick")
  /\ UNCHANGED <<environment, dirs, saved, existed, wrote>>

------------------------------------------------------------------------------
(* --rsync-opt delete *)

\* Mutant: what is there now and not local now.
ExtrasNow == {n \in AllNames : remote[n] # None /\ (n \in Names => local[n] = None)}

\* Listed on the remote side, not on the local one; excludes are not asked.
Extras ==
  {n \in AllNames : seen.remote[n] # None /\ (n \in Names => seen.local[n] = None)}

Uploaded ==
  /\ pc = "pick"
  /\ todo = {}
  /\ IF opts.delete /\ ~opts.dry_run
     THEN pc' = "delete" /\ todo' = Extras
     ELSE pc' = "done" /\ UNCHANGED todo
  /\ UNCHANGED <<environment, remote, dirs, seen, cur, buf, saved, existed, wrote>>

\* let _ = remove_file: whatever the name leads to by now.
DeleteExtra ==
  /\ pc = "delete"
  /\ \E n \in todo :
       /\ \/ remote' = [remote EXCEPT ![n] = None]
          \/ UNCHANGED remote
       /\ todo' = todo \ {n}
  /\ UNCHANGED <<environment, dirs, pc, seen, cur, buf, saved, existed, wrote>>

Deleted ==
  /\ pc = "delete"
  /\ todo = {}
  /\ Goto("done")
  /\ UNCHANGED <<environment, remote, dirs, saved, existed, wrote>>

------------------------------------------------------------------------------
(* The user and the other push *)

\* One file is saved, or removed, after it was listed.
Save ==
  /\ pc \notin {"root", "done", "failed"}
  /\ \A n \in Names : Cardinality(saved[n]) <= 1
  /\ \E n \in Names, f \in Saves \cup {None} :
       /\ seen.local[n] # None
       /\ local' = [local EXCEPT ![n] = f]
       /\ saved' = [saved EXCEPT ![n] = @ \cup {f}]
  /\ UNCHANGED <<opts, remote, dirs, run, push, target, existed, wrote>>

\* Another passhrs --push of one file: temp file, removal, rename.
PushOpens ==
  /\ push = "idle"
  /\ "root" \in dirs
  /\ remote' = [remote EXCEPT ![Tmp] = Theirs]
  /\ push' = "unlink"
  /\ UNCHANGED <<opts, local, dirs, run, target, saved, existed, wrote>>

PushRemoves ==
  /\ push = "unlink"
  /\ remote' = [remote EXCEPT ![target] = None]
  /\ push' = "rename"
  /\ UNCHANGED <<opts, local, dirs, run, target, saved, existed, wrote>>

PushRenames ==
  /\ push = "rename"
  /\ IF remote[Tmp] = None
     THEN push' = "failed" /\ UNCHANGED <<remote, existed>>
     ELSE /\ remote' = [remote EXCEPT ![target] = remote[Tmp], ![Tmp] = None]
          /\ existed' = existed \cup {target}
          /\ push' = "done"
  /\ UNCHANGED <<opts, local, dirs, run, target, saved, wrote>>

Next ==
  \/ CreateRoot \/ ReadDir \/ StatEntry \/ Listed
  \/ Pick \/ Compare \/ WriteTemp \/ RemoveDst \/ Publish \/ ApplyMode
  \/ Uploaded \/ DeleteExtra \/ Deleted
  \/ Save \/ PushOpens \/ PushRemoves \/ PushRenames

Spec == Init /\ [][Next]_vars

------------------------------------------------------------------------------
Pushed(n) == n = target /\ push # "idle"

\* A run that ends well leaves, for every file it was asked to sync, a content
\* the local file had while it ran.  Excepted are files the quick check passes
\* over by size and mtime, and the destination of another push at work.
MirrorsWhenDone ==
  pc = "done" /\ ~opts.dry_run =>
    \A n \in Names :
      seen.local[n] # None /\ n \notin opts.exclude /\ ~QuickSame(n) /\ ~Pushed(n) =>
        remote[n] # None /\ \E f \in saved[n] \ {None} : Data(remote[n]) = Data(f)

\* A remote file is gone only for a reason.  An upload is between its removal and
\* its rename, or failed there, which is one file of the whole run however it
\* ends; another push is; or, with delete and all uploads over, the file was
\* listed and has no local counterpart.  The other push fails only if its temp
\* file was in the listing and delete took it for an extra file.
LossHasACause ==
  LET deleted(n) ==
        /\ opts.delete /\ ~opts.dry_run /\ pc \in {"delete", "done"}
        /\ seen.remote[n] # None
        /\ n \in Names => seen.local[n] = None
  IN  \A n \in existed : remote[n] = None =>
        \/ n = cur /\ pc \in {"rename", "failed"}
        \/ n = target /\ (push = "rename" \/ (push = "failed" /\ deleted(Tmp)))
        \/ deleted(n)

\* A listed remote file that the run was not to send stays what it was when it was
\* listed, content, times and mode: one that is excluded, one the quick check
\* passes over, and one the local tree lacks unless delete is at it.  Excepted is
\* the destination of another push.
LeavesTheRestAlone ==
  LET passedOver(n) == seen.local[n] = None \/ n \in opts.exclude \/ QuickSame(n)
      deleted(n) == /\ opts.delete /\ ~opts.dry_run /\ pc \in {"delete", "done"}
                    /\ seen.local[n] = None
  IN  \A n \in Names :
        seen.remote[n] # None /\ passedOver(n) /\ ~deleted(n) /\ ~Pushed(n) =>
          remote[n] = seen.remote[n]

\* README.md:52 offers dry-run, and the code says of each file it comes to "rsync
\* dry-run: would upload" (sftp.rs:538): such a run replaces no remote file.  A
\* delta that saves is written before that look at dry_run.
DryRunWritesNothing == opts.dry_run => wrote = {}

==============================================================================
