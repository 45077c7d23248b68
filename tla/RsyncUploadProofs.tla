-------------------------- MODULE RsyncUploadProofs --------------------------
(***************************************************************************)
(* For any trees, options and saves: what an rsync-style upload leaves as   *)
(* it was, why a remote file can be missing, and that a run that ends well has     *)
(* mirrored what it was asked to, while another push is at work.           *)
(***************************************************************************)
EXTENDS RsyncUpload, TLAPS

\* Where the run goes through the listed files, one by one.
Uploading == {"pick", "compare", "temp", "unlink", "rename", "mode"}
Sending == {"temp", "unlink", "rename"}

InListing(n) == n \in Names /\ seen.local[n] # None
Wanted(n) == InListing(n) /\ n \notin opts.exclude /\ ~QuickSame(n)

\* What the run has in hand at each step: nothing is seen before it is listed, only
\* listed files are taken up, only those that differ are sent, and what is sent is
\* what the local file has been.
HandInv ==
  /\ pc = "root" => seen = Listing
  /\ pc \in Uploading => \A n \in todo : InListing(n)
  /\ pc = "compare" => Wanted(cur) /\ SameSize(cur)
  /\ pc \in Sending => /\ Wanted(cur)
                       /\ buf \in saved[cur] \ {None}
  /\ pc = "mode" => Wanted(cur)
  /\ pc = "delete" => opts.delete /\ ~opts.dry_run /\ todo \subseteq Extras
  /\ pc # "root" => \A n \in Names : local[n] \in saved[n]

\* The other push misses its temp file only when delete has taken it for an extra.
TmpInv ==
  push \in {"unlink", "rename"} /\ remote[Tmp] = None =>
    /\ opts.delete /\ ~opts.dry_run /\ pc \in {"delete", "done"}
    /\ seen.remote[Tmp] # None

\* What has not been mirrored yet is still to be taken up, or being sent.
Mirrored(n) == remote[n] # None /\ \E f \in saved[n] \ {None} : Data(remote[n]) = Data(f)
Pending(n) == (n \in todo /\ pc \in Uploading) \/ (n = cur /\ pc \in Sending) \/ Mirrored(n)
MirrorInv ==
  ~opts.dry_run /\ pc \in Uploading \cup {"delete", "done"} =>
    \A n \in Names : Wanted(n) /\ ~Pushed(n) => Pending(n)

------------------------------------------------------------------------------
\* Writing a file anew and changing a file's mode keep its content.
LEMMA MadeFiles ==
  ASSUME NEW f \in Files
  PROVE  /\ Stored(f) \in Files /\ Data(Stored(f)) = Data(f)
         /\ \A g \in Files : /\ [f EXCEPT !.mode = g.mode] \in Files
                             /\ Data([f EXCEPT !.mode = g.mode]) = Data(f)
<1>1. PICK h \in Given, t \in Times, m \in Modes : f = File(h.head, h.tail, h.size, t, m)
  BY DEF Files
<1>2. Stored(f) = File(h.head, h.tail, h.size, "now", "umask")
  <2>1. [f EXCEPT !.mtime = "now"] = File(h.head, h.tail, h.size, "now", m)
    BY <1>1 DEF File
  <2>2. Stored(f) = [File(h.head, h.tail, h.size, "now", m) EXCEPT !.mode = "umask"]
    BY <2>1 DEF Stored
  <2>3. QED
    BY <2>2 DEF File
<1>3. Stored(f) \in Files
  BY <1>2 DEF Files, Times, Modes
<1>4. ASSUME NEW g \in Files
      PROVE  /\ [f EXCEPT !.mode = g.mode] \in Files
             /\ Data([f EXCEPT !.mode = g.mode]) = Data(f)
  <2>1. PICK i \in Given, s \in Times, n \in Modes : g = File(i.head, i.tail, i.size, s, n)
    BY <1>4 DEF Files
  <2>2. [f EXCEPT !.mode = g.mode] = File(h.head, h.tail, h.size, t, n)
    BY <1>1, <2>1 DEF File
  <2>3. QED
    BY <1>1, <2>1, <2>2 DEF Files, Data, File
<1>5. Data(Stored(f)) = Data(f)
  BY <1>1, <1>2 DEF Data, File
<1>6. QED
  BY <1>3, <1>4, <1>5

LEMMA GivenFiles == Saves \subseteq Files \cup {None} /\ Theirs \in Files
BY RsyncAssumption DEF Given

LEMMA TypeInit == Init => TypeOK
<1> SUFFICES ASSUME Init
             PROVE  TypeOK
  OBVIOUS
<1> USE RsyncAssumption DEF Init, AllNames
<1>1. Locals \cup Remotes \subseteq [Names -> Files \cup {None}]
  OBVIOUS
<1>2. local \in [Names -> Files \cup {None}]
  BY <1>1
<1>3. remote \in [AllNames -> Files \cup {None}]
  BY <1>1
<1>4. seen \in [local : [Names -> Files \cup {None}], remote : [AllNames -> Files \cup {None}]]
  BY DEF Listing
<1>5. saved \in [Names -> SUBSET (Files \cup {None})]
  OBVIOUS
<1>6. QED
  BY <1>2, <1>3, <1>4, <1>5 DEF TypeOK, Steps

LEMMA TypeNext == TypeOK /\ HandInv /\ [Next]_vars => TypeOK'
<1> SUFFICES ASSUME TypeOK, HandInv, [Next]_vars
             PROVE  TypeOK'
  OBVIOUS
<1> USE RsyncAssumption DEF TypeOK, AllNames, Steps, environment, run, Fail, Goto
<1>1. CASE CreateRoot
  BY <1>1 DEF CreateRoot
<1>2. CASE ReadDir
  BY <1>2 DEF ReadDir
<1>3. CASE StatEntry
  BY <1>3 DEF StatEntry
<1>4. CASE Listed
  BY <1>4 DEF Listed
<1>5. CASE Pick
  <2>1. PICK n \in todo : Skip(n) \/ DeltaCheck(n) \/ (~SameSize(n) /\ SendWhole(n))
    BY <1>5 DEF Pick
  <2>2. UNCHANGED <<opts, local, push, target, remote, dirs, saved, existed, wrote>>
    BY <1>5 DEF Pick
  <2>3. n \in Names
    BY <1>5, <2>1 DEF Pick, HandInv, Uploading, InListing
  <2>4. CASE Skip(n)
    BY <2>2, <2>4 DEF Skip
  <2>5. CASE DeltaCheck(n)
    BY <2>2, <2>5, <2>3 DEF DeltaCheck
  <2>6. CASE SendWhole(n)
    BY <2>2, <2>6, <2>3 DEF SendWhole
  <2>7. QED
    BY <2>1, <2>4, <2>5, <2>6
<1>6. CASE Compare
  <2>1. UNCHANGED <<opts, local, push, target, remote, dirs, saved, existed, wrote>>
    BY <1>6 DEF Compare
  <2>2. cur \in Names
    BY <1>6 DEF Compare, HandInv, Wanted, InListing
  <2>3. CASE Fail
    BY <2>1, <2>3
  <2>4. CASE NextFile
    BY <2>1, <2>4 DEF NextFile
  <2>5. CASE SendPatched \/ SendWhole(cur)
    BY <2>1, <2>2, <2>5 DEF SendPatched, SendWhole
  <2>6. QED
    BY <1>6, <2>3, <2>4, <2>5 DEF Compare
<1>7. CASE WriteTemp
  BY <1>7 DEF WriteTemp
<1>8. CASE RemoveDst
  BY <1>8 DEF RemoveDst
<1>9. CASE Publish
  <2>1. cur \in Names /\ buf \in Files
    BY <1>9 DEF Publish, HandInv, Sending, Wanted, InListing
  <2>2. Stored(buf) \in Files
    BY <2>1, MadeFiles
  <2>3. QED
    BY <1>9, <2>1, <2>2 DEF Publish
<1>10. CASE ApplyMode
  <2>1. cur \in Names /\ seen.local[cur] \in Files
    BY <1>10 DEF ApplyMode, HandInv, Wanted, InListing
  <2>2. remote' \in [AllNames -> Files \cup {None}]
    <3>1. CASE remote[cur] # None /\ remote' = [remote EXCEPT ![cur].mode = seen.local[cur].mode]
      <4>1. remote[cur] \in Files
        BY <2>1, <3>1
      <4>2. [remote[cur] EXCEPT !.mode = seen.local[cur].mode] \in Files
        BY <2>1, <4>1, MadeFiles
      <4>3. QED
        BY <3>1, <4>2
    <3>2. QED
      BY <1>10, <3>1 DEF ApplyMode
  <2>3. QED
    BY <1>10, <2>2 DEF ApplyMode
<1>11. CASE Uploaded
  BY <1>11 DEF Uploaded, Extras
<1>12. CASE DeleteExtra
  BY <1>12 DEF DeleteExtra
<1>13. CASE Deleted
  BY <1>13 DEF Deleted
<1>14. CASE Save
  <2>1. PICK n \in Names, f \in Saves \cup {None} :
          local' = [local EXCEPT ![n] = f] /\ saved' = [saved EXCEPT ![n] = @ \cup {f}]
    BY <1>14 DEF Save
  <2>2. f \in Files \cup {None}
    BY GivenFiles
  <2>3. UNCHANGED <<opts, remote, dirs, pc, seen, todo, cur, buf, push, target, existed, wrote>>
    BY <1>14 DEF Save
  <2>4. local' \in [Names -> Files \cup {None}] /\ saved' \in [Names -> SUBSET (Files \cup {None})]
    BY <2>1, <2>2
  <2>5. QED
    BY <2>3, <2>4
<1>15. CASE PushOpens \/ PushRemoves \/ PushRenames
  <2>1. Theirs \in Files
    BY GivenFiles
  <2>2. remote' \in [AllNames -> Files \cup {None}]
    BY <1>15, <2>1 DEF PushOpens, PushRemoves, PushRenames
  <2>3. QED
    BY <1>15, <2>2 DEF PushOpens, PushRemoves, PushRenames
<1>16. CASE UNCHANGED vars
  BY <1>16 DEF vars
<1>17. QED
  BY <1>1, <1>2, <1>3, <1>4, <1>5, <1>6, <1>7, <1>8, <1>9, <1>10, <1>11, <1>12, <1>13, <1>14,
     <1>15, <1>16 DEF Next

\* What happens to the listings, the options and the history of saves.
LEMMA Listings ==
  ASSUME TypeOK, HandInv, [Next]_vars
  PROVE  /\ opts' = opts /\ target' = target
         /\ pc \notin {"root", "list", "stat"} =>
              seen' = seen /\ pc' \notin {"root", "list", "stat"}
         /\ pc # "root" => /\ pc' # "root"
                          /\ \A n \in Names : saved[n] \subseteq saved'[n]
<1> USE DEF environment, run, Fail, Goto
<1>1. CASE Save
  BY <1>1 DEF Save, TypeOK
<1>2. CASE Pick
  BY <1>2 DEF Pick, Skip, DeltaCheck, SendWhole
<1>3. CASE Compare
  BY <1>3 DEF Compare, NextFile, SendPatched, SendWhole
<1>4. CASE CreateRoot \/ ReadDir \/ StatEntry \/ Listed \/ Uploaded
  BY <1>4 DEF CreateRoot, ReadDir, StatEntry, Listed, Uploaded
<1>5. CASE WriteTemp \/ RemoveDst \/ Publish \/ ApplyMode \/ DeleteExtra \/ Deleted
  BY <1>5 DEF WriteTemp, RemoveDst, Publish, ApplyMode, DeleteExtra, Deleted
<1>6. CASE PushOpens \/ PushRemoves \/ PushRenames \/ UNCHANGED vars
  BY <1>6 DEF PushOpens, PushRemoves, PushRenames, vars
<1>7. QED
  BY <1>1, <1>2, <1>3, <1>4, <1>5, <1>6 DEF Next

LEMMA HandInit == Init => HandInv
BY DEF Init, HandInv, Uploading, Sending

LEMMA HandNext == TypeOK /\ HandInv /\ [Next]_vars => HandInv'
<1> SUFFICES ASSUME TypeOK, HandInv, [Next]_vars
             PROVE  HandInv'
  OBVIOUS
<1> USE DEF environment, run, Fail, Goto, Uploading, Sending, InListing, Wanted, SameSize,
            QuickSame
<1>1. /\ opts' = opts
      /\ pc \notin {"root", "list", "stat"} => seen' = seen
  BY Listings
<1>2. CASE CreateRoot
  BY <1>2 DEF CreateRoot, HandInv, TypeOK
<1>3. CASE ReadDir \/ StatEntry
  BY <1>3 DEF ReadDir, StatEntry, HandInv
<1>4. CASE Listed
  BY <1>4 DEF Listed, HandInv
<1>5. CASE Pick
  <2>1. PICK n \in todo : \/ Skip(n) \/ DeltaCheck(n)
                          \/ n \notin opts.exclude /\ ~SameSize(n) /\ SendWhole(n)
    BY <1>5 DEF Pick
  <2>2. /\ pc = "pick" /\ UNCHANGED <<opts, local, remote, saved, wrote, seen>>
        /\ todo' \subseteq todo /\ InListing(n)
    BY <1>5, <2>1 DEF Pick, Skip, DeltaCheck, SendWhole, HandInv
  <2>3. CASE Skip(n)
    BY <1>1, <2>2, <2>3 DEF Skip, HandInv
  <2>4. CASE DeltaCheck(n)
    BY <1>1, <2>2, <2>4 DEF DeltaCheck, HandInv
  <2>5. CASE n \notin opts.exclude /\ ~SameSize(n) /\ SendWhole(n)
    <3>1. Wanted(n)
      BY <2>2, <2>5
    <3>2. local[n] \in saved[n]
      BY <2>2 DEF HandInv
    <3>3. QED
      BY <1>1, <2>2, <2>5, <3>1, <3>2
         DEF SendWhole, HandInv
  <2>6. QED
    BY <2>1, <2>3, <2>4, <2>5
<1>6. CASE Compare
  <2>1. /\ pc = "compare" /\ UNCHANGED <<opts, local, remote, saved, wrote, seen>>
        /\ todo' \subseteq todo /\ Wanted(cur) /\ SameSize(cur)
        /\ local[cur] \in saved[cur]
    BY <1>6 DEF Compare, NextFile, SendPatched, SendWhole, HandInv
  <2>3. CASE Fail \/ NextFile
    BY <1>1, <2>1, <2>3 DEF NextFile, HandInv
  <2>4. CASE SendPatched \/ SendWhole(cur)
    <3>1. local[cur] # None => local[cur] \in saved[cur] \ {None}
      BY <2>1
    <3>2. SendPatched => local[cur] # None
      BY <1>6, <2>1 DEF Compare, SendPatched, NextFile, SendWhole
    <3>3. QED
      BY <1>1, <2>1, <2>4, <3>1, <3>2 DEF SendPatched, SendWhole, HandInv
  <2>5. QED
    BY <1>6, <2>3, <2>4 DEF Compare
<1>7. CASE WriteTemp \/ RemoveDst
  BY <1>1, <1>7 DEF WriteTemp, RemoveDst, HandInv
<1>8. CASE Publish
  <2>1. /\ pc = "rename" /\ UNCHANGED <<opts, local, saved, seen, todo, cur, buf>>
        /\ pc' \in {"mode", "failed"}
    BY <1>8 DEF Publish
  <2>2. Wanted(cur)
    BY <2>1 DEF HandInv
  <2>3. QED
    BY <1>1, <2>1, <2>2 DEF HandInv
<1>9. CASE ApplyMode \/ Uploaded
  BY <1>1, <1>9 DEF ApplyMode, Uploaded, HandInv, Extras
<1>10. CASE DeleteExtra \/ Deleted
  BY <1>1, <1>10 DEF DeleteExtra, Deleted, HandInv, Extras
<1>11. CASE Save
  <2>1. PICK n \in Names, f \in Saves \cup {None} :
          local' = [local EXCEPT ![n] = f] /\ saved' = [saved EXCEPT ![n] = @ \cup {f}]
    BY <1>11 DEF Save
  <2>2. UNCHANGED <<opts, remote, dirs, pc, seen, todo, cur, buf, push, target, existed, wrote>>
    BY <1>11 DEF Save
  <2>3. ASSUME NEW m \in Names
        PROVE  /\ saved[m] \subseteq saved'[m]
               /\ local[m] \in saved[m] => local'[m] \in saved'[m]
    BY <2>1 DEF TypeOK
  <2>4. pc \in Sending => cur \in Names
    BY DEF HandInv
  <2>5. pc \in Sending => cur \in Names /\ buf \in saved'[cur] \ {None}
    <3>1. pc \in Sending => buf \in saved[cur] \ {None}
      BY DEF HandInv
    <3>2. QED
      BY <2>3, <2>4, <3>1
  <2>6. pc # "root" => \A m \in Names : local'[m] \in saved'[m]
    <3>1. pc # "root" => \A m \in Names : local[m] \in saved[m]
      BY DEF HandInv
    <3>2. QED
      BY <2>3, <3>1
  <2>7. pc = "delete" => todo' \subseteq Extras'
    BY <2>2 DEF HandInv, Extras
  <2>8. QED
    BY <2>2, <2>5, <2>6, <2>7 DEF HandInv
<1>12. CASE PushOpens \/ PushRemoves \/ PushRenames \/ UNCHANGED vars
  <2>1. UNCHANGED <<opts, local, pc, seen, todo, cur, buf, saved, wrote>>
    BY <1>12 DEF PushOpens, PushRemoves, PushRenames, vars
  <2>2. QED
    BY <1>1, <2>1 DEF HandInv, Extras
<1>13. QED
  BY <1>2, <1>3, <1>4, <1>5, <1>6, <1>7, <1>8, <1>9, <1>10, <1>11, <1>12 DEF Next

------------------------------------------------------------------------------
LossInv == TmpInv /\ LossHasACause

LEMMA LossInit == Init => LossInv
<1> SUFFICES ASSUME Init
             PROVE  LossInv
  OBVIOUS
<1>1. \A n \in existed : remote[n] # None
  BY DEF Init
<1>2. QED
  BY <1>1 DEF Init, LossInv, TmpInv, LossHasACause

\* A step that removes no remote file and does not turn back.
LEMMA NothingLost ==
  ASSUME TypeOK, TypeOK', LossInv, existed' = existed, cur' = cur \/ pc \notin {"rename", "failed"},
         target' = target, opts' = opts, push' = push,
         pc = "rename" => pc' \in {"rename", "failed"}, pc = "failed" => pc' = "failed",
         pc \in {"delete", "done"} => pc' \in {"delete", "done"} /\ seen' = seen,
         \A n \in AllNames : remote'[n] = None => remote[n] = None
  PROVE  LossInv'
<1>1. existed \subseteq AllNames /\ Tmp \in AllNames
  BY DEF TypeOK, AllNames
<1>2. TmpInv'
  BY <1>1 DEF LossInv, TmpInv
<1>3. LossHasACause'
  BY <1>1 DEF LossInv, LossHasACause
<1>4. QED
  BY <1>2, <1>3 DEF LossInv

LEMMA LossNext == TypeOK /\ HandInv /\ LossInv /\ [Next]_vars => LossInv'
<1> SUFFICES ASSUME TypeOK, HandInv, LossInv, [Next]_vars
             PROVE  LossInv'
  OBVIOUS
<1> USE DEF environment, run, Fail, Goto
<1>1. TypeOK'
  BY TypeNext
<1>2. CASE CreateRoot \/ ReadDir \/ StatEntry \/ Listed \/ Uploaded
  <2>1. /\ UNCHANGED <<opts, remote, push, target, existed>>
        /\ pc \notin {"rename", "failed", "delete", "done"}
    BY <1>2 DEF CreateRoot, ReadDir, StatEntry, Listed, Uploaded
  <2>2. QED
    BY <1>1, <2>1, NothingLost
<1>3. CASE Pick \/ Compare \/ WriteTemp
  <2>1. /\ UNCHANGED <<opts, remote, push, target, existed>>
        /\ pc \notin {"rename", "failed", "delete", "done"}
    BY <1>3 DEF Pick, Compare, WriteTemp
  <2>2. QED
    BY <1>1, <2>1, NothingLost
<1>4. CASE RemoveDst
  <2>1. /\ UNCHANGED <<opts, push, target, existed, seen, cur>>
        /\ pc = "unlink" /\ pc' = "rename" /\ cur \in Names
        /\ \A n \in AllNames : n # cur => remote'[n] = remote[n]
    BY <1>4 DEF RemoveDst, TypeOK, HandInv, Sending, Wanted, InListing
  <2>2. existed \subseteq AllNames /\ Tmp \in AllNames /\ Tmp # cur
    BY <2>1, RsyncAssumption DEF TypeOK, AllNames
  <2>3. QED
    BY <2>1, <2>2 DEF LossInv, TmpInv, LossHasACause
<1>5. CASE Publish
  <2>1. cur \in Names /\ buf \in Files
    BY <1>5 DEF Publish, HandInv, Sending, Wanted, InListing, TypeOK
  <2>2. Stored(buf) # None
    BY <2>1, MadeFiles, RsyncAssumption
  <2>3. /\ UNCHANGED <<opts, push, target, seen, cur>> /\ pc = "rename"
    BY <1>5 DEF Publish
  <2>4. CASE remote' = [remote EXCEPT ![cur] = Stored(buf)] /\ existed' = existed \cup {cur}
    <3>1. /\ remote'[cur] # None
          /\ \A n \in AllNames : n # cur => remote'[n] = remote[n]
      BY <2>1, <2>2, <2>4 DEF TypeOK, AllNames
    <3>2. existed \subseteq AllNames /\ Tmp \in AllNames /\ Tmp # cur
      BY <2>1, RsyncAssumption DEF TypeOK, AllNames
    <3>3. QED
      BY <2>3, <2>4, <3>1, <3>2 DEF LossInv, TmpInv, LossHasACause
  <2>5. CASE pc' = "failed" /\ UNCHANGED <<remote, existed>>
    BY <1>1, <2>3, <2>5, NothingLost
  <2>6. QED
    BY <1>5, <2>4, <2>5 DEF Publish
<1>6. CASE ApplyMode
  <2>1. /\ UNCHANGED <<opts, push, target, existed>>
        /\ pc = "mode"
    BY <1>6 DEF ApplyMode
  <2>2. cur \in Names /\ seen.local[cur] \in Files
    BY <1>6 DEF ApplyMode, HandInv, Wanted, InListing, TypeOK
  <2>3. \A n \in AllNames : remote'[n] = None => remote[n] = None
    <3>1. CASE remote[cur] # None /\ remote' = [remote EXCEPT ![cur].mode = seen.local[cur].mode]
      <4>1. remote[cur] \in Files /\ cur \in AllNames
        BY <2>2, <3>1 DEF TypeOK, AllNames
      <4>2. remote'[cur] \in Files
        BY <2>2, <3>1, <4>1, MadeFiles DEF TypeOK
      <4>3. \A n \in AllNames : n # cur => remote'[n] = remote[n]
        BY <3>1 DEF TypeOK
      <4>4. QED
        BY <4>2, <4>3, RsyncAssumption
    <3>2. QED
      BY <1>6, <3>1 DEF ApplyMode
  <2>4. QED
    BY <1>1, <2>1, <2>3, NothingLost
<1>7. CASE DeleteExtra
  <2>1. /\ UNCHANGED <<opts, push, target, existed, seen, cur, pc>> /\ pc = "delete"
        /\ opts.delete /\ ~opts.dry_run
    BY <1>7 DEF DeleteExtra, HandInv
  <2>2. PICK n \in Extras : \A m \in AllNames : m # n => remote'[m] = remote[m]
    BY <1>7 DEF DeleteExtra, HandInv, TypeOK
  <2>3. existed \subseteq AllNames /\ Tmp \in AllNames /\ Tmp \notin Names
    BY RsyncAssumption DEF TypeOK, AllNames
  <2>4. seen.remote[n] # None /\ (n \in Names => seen.local[n] = None)
    BY <2>2 DEF Extras
  <2>5. TmpInv'
    BY <2>1, <2>2, <2>3, <2>4 DEF LossInv, TmpInv
  <2>6. LossHasACause'
    BY <2>1, <2>2, <2>3, <2>4 DEF LossInv, LossHasACause
  <2>7. QED
    BY <2>5, <2>6 DEF LossInv
<1>8. CASE Deleted \/ Save \/ UNCHANGED vars
  <2>1. /\ UNCHANGED <<opts, remote, push, target, existed, cur, seen>>
        /\ pc' = pc \/ (pc = "delete" /\ pc' = "done")
    BY <1>8 DEF Deleted, Save, vars
  <2>2. QED
    BY <1>1, <2>1, NothingLost
<1>9. CASE PushOpens
  <2>1. /\ UNCHANGED <<opts, target, existed, cur, seen, pc>>
        /\ push = "idle" /\ push' = "unlink" /\ remote'[Tmp] # None
        /\ \A n \in Names : remote'[n] = remote[n]
    BY <1>9, RsyncAssumption DEF PushOpens, TypeOK, AllNames
  <2>2. QED
    BY <2>1 DEF LossInv, TmpInv, LossHasACause, TypeOK
<1>10. CASE PushRemoves
  <2>1. /\ UNCHANGED <<opts, target, existed, cur, seen, pc>>
        /\ push = "unlink" /\ push' = "rename"
        /\ \A n \in AllNames : n # target => remote'[n] = remote[n]
    BY <1>10 DEF PushRemoves, TypeOK
  <2>2. existed \subseteq AllNames /\ Tmp \in AllNames /\ Tmp # target
    BY RsyncAssumption DEF TypeOK, AllNames
  <2>3. QED
    BY <2>1, <2>2 DEF LossInv, TmpInv, LossHasACause
<1>11. CASE PushRenames
  <2>1. UNCHANGED <<opts, target, cur, seen, pc>> /\ push = "rename"
    BY <1>11 DEF PushRenames
  <2>2. CASE remote[Tmp] = None
    <3>1. push' = "failed" /\ UNCHANGED <<remote, existed>>
      BY <1>11, <2>2 DEF PushRenames
    <3>2. /\ opts.delete /\ ~opts.dry_run /\ pc \in {"delete", "done"}
          /\ seen.remote[Tmp] # None /\ Tmp \notin Names
      BY <2>1, <2>2, RsyncAssumption DEF LossInv, TmpInv
    <3>3. QED
      BY <2>1, <3>1, <3>2 DEF LossInv, TmpInv, LossHasACause
  <2>3. CASE remote[Tmp] # None
    <3>1. /\ push' = "done" /\ existed' = existed \cup {target}
          /\ remote'[target] # None
          /\ \A n \in Names : n # target => remote'[n] = remote[n]
      BY <1>11, <2>3, RsyncAssumption DEF PushRenames, TypeOK, AllNames
    <3>2. QED
      BY <2>1, <3>1 DEF LossInv, TmpInv, LossHasACause, TypeOK
  <2>4. QED
    BY <2>2, <2>3
<1>12. QED
  BY <1>2, <1>3, <1>4, <1>5, <1>6, <1>7, <1>8, <1>9, <1>10, <1>11 DEF Next

------------------------------------------------------------------------------
LEMMA RestInit == Init => LeavesTheRestAlone
BY DEF Init, Listing, AllNames, LeavesTheRestAlone

\* Steps that change a listed file only if it is to be sent, an extra file at its
\* removal, or the other push's destination.
LEMMA RestKept ==
  ASSUME LeavesTheRestAlone, UNCHANGED <<opts, target, seen>>,
         push # "idle" => push' # "idle",
         pc = "delete" => pc' \in {"delete", "done"}, pc = "done" => pc' = "done",
         \A n \in Names : remote'[n] # remote[n] =>
           Wanted(n) \/ Pushed(n)' \/ (n \in Extras /\ pc = "delete" /\ opts.delete
                                                 /\ ~opts.dry_run)
  PROVE  LeavesTheRestAlone'
BY DEF LeavesTheRestAlone, Wanted, InListing, QuickSame, SameSize, Pushed, Extras

LEMMA RestNext == TypeOK /\ HandInv /\ LeavesTheRestAlone /\ [Next]_vars => LeavesTheRestAlone'
<1> SUFFICES ASSUME TypeOK, HandInv, LeavesTheRestAlone, [Next]_vars
             PROVE  LeavesTheRestAlone'
  OBVIOUS
<1> USE DEF environment, run, Fail, Goto
<1>1. CASE CreateRoot
  <2>1. seen'.remote = Listing.remote
    BY <1>1 DEF CreateRoot, HandInv, TypeOK
  <2>2. QED
    BY <2>1 DEF Listing, AllNames, LeavesTheRestAlone
<1>2. CASE StatEntry
  <2>1. PICK m \in AllNames :
          \/ seen' = seen
          \/ seen' = [seen EXCEPT !.remote[m] = remote[m]]
    BY <1>2 DEF StatEntry, TypeOK
  <2>2. /\ UNCHANGED <<opts, remote, target, push>>
        /\ pc = "stat" /\ pc' \in {"stat", "failed"}
    BY <1>2 DEF StatEntry
  <2>3. seen'.local = seen.local
    BY <2>1 DEF TypeOK
  <2>4. \A n \in Names : seen'.remote[n] \in {seen.remote[n], remote[n]}
    BY <2>1 DEF TypeOK, AllNames
  <2>5. ASSUME NEW n \in Names, seen'.remote[n] # remote[n]
        PROVE  seen'.remote[n] = seen.remote[n]
    BY <2>4, <2>5
  <2>6. QED
    BY <2>2, <2>3, <2>5 DEF LeavesTheRestAlone, QuickSame, SameSize, Pushed
<1>3. CASE ReadDir \/ Listed \/ Pick \/ Compare \/ WriteTemp \/ Uploaded \/ Deleted \/ Save
           \/ UNCHANGED vars
  <2>1. /\ UNCHANGED <<opts, remote, target, push, seen>>
        /\ pc = "delete" => pc' \in {"delete", "done"}
        /\ pc = "done" => pc' = "done"
    BY <1>3 DEF ReadDir, Listed, Pick, Skip, DeltaCheck, SendWhole, Compare, NextFile,
                SendPatched, WriteTemp, Uploaded, Deleted, Save, vars
  <2>2. QED
    BY <2>1, RestKept
<1>4. CASE RemoveDst \/ Publish \/ ApplyMode
  <2>1. /\ UNCHANGED <<opts, target, push, seen>>
        /\ pc \in {"unlink", "rename", "mode"} /\ Wanted(cur)
    BY <1>4 DEF RemoveDst, Publish, ApplyMode, HandInv, Sending
  <2>2. \A n \in Names : n # cur => remote'[n] = remote[n]
    BY <1>4 DEF RemoveDst, Publish, ApplyMode, TypeOK, AllNames
  <2>3. QED
    BY <2>1, <2>2, RestKept
<1>5. CASE DeleteExtra
  <2>1. /\ UNCHANGED <<opts, target, push, seen, pc>>
        /\ pc = "delete" /\ opts.delete /\ ~opts.dry_run
    BY <1>5 DEF DeleteExtra, HandInv
  <2>2. PICK n \in Extras : \A m \in AllNames : m # n => remote'[m] = remote[m]
    BY <1>5 DEF DeleteExtra, HandInv, TypeOK
  <2>3. QED
    BY <2>1, <2>2, RestKept DEF AllNames
<1>6. CASE PushOpens \/ PushRemoves \/ PushRenames
  <2>1. UNCHANGED <<opts, target, seen, pc>> /\ push' # "idle"
    BY <1>6 DEF PushOpens, PushRemoves, PushRenames
  <2>2. \A n \in Names : n # target => remote'[n] = remote[n]
    BY <1>6, RsyncAssumption DEF PushOpens, PushRemoves, PushRenames, TypeOK, AllNames
  <2>3. QED
    BY <2>1, <2>2, RestKept DEF Pushed
<1>7. QED
  BY <1>1, <1>2, <1>3, <1>4, <1>5, <1>6 DEF Next

------------------------------------------------------------------------------
LEMMA MirrorInit == Init => MirrorInv
BY DEF Init, MirrorInv, Uploading

\* A step after the listing that leaves nothing pending out.
LEMMA MirrorKept ==
  ASSUME MirrorInv, opts' = opts, target' = target, seen' = seen,
         push # "idle" => push' # "idle",
         pc \in Uploading \cup {"delete", "done"},
         \A n \in Names : ~opts.dry_run /\ Wanted(n) /\ ~Pushed(n)' /\ pc' # "failed"
                           /\ Pending(n) => Pending(n)'
  PROVE  MirrorInv'
<1> SUFFICES ASSUME ~opts.dry_run, pc' # "failed", NEW n \in Names, Wanted(n)', ~Pushed(n)'
             PROVE  Pending(n)'
  BY DEF MirrorInv, Uploading
<1>1. Wanted(n) /\ ~Pushed(n)
  BY DEF Wanted, InListing, QuickSame, SameSize, Pushed
<1>2. Pending(n)
  BY <1>1 DEF MirrorInv
<1>3. QED
  BY <1>1, <1>2

LEMMA MirrorNext == TypeOK /\ HandInv /\ MirrorInv /\ [Next]_vars => MirrorInv'
<1> SUFFICES ASSUME TypeOK, HandInv, MirrorInv, [Next]_vars
             PROVE  MirrorInv'
  OBVIOUS
<1> USE DEF environment, run, Fail, Goto
<1>1. CASE CreateRoot \/ ReadDir \/ StatEntry
  BY <1>1 DEF CreateRoot, ReadDir, StatEntry, MirrorInv, Uploading
<1>2. CASE Listed
  <2>1. /\ seen' = seen /\ pc' = "pick" /\ todo' = {n \in Names : seen.local[n] # None}
    BY <1>2 DEF Listed
  <2>2. QED
    BY <2>1 DEF MirrorInv, Pending, Wanted, InListing, Uploading
<1>3. CASE Pick
  <2>1. PICK n \in todo : \/ Skip(n) \/ DeltaCheck(n)
                          \/ n \notin opts.exclude /\ ~SameSize(n) /\ SendWhole(n)
    BY <1>3 DEF Pick
  <2>2. /\ pc = "pick" /\ UNCHANGED <<opts, local, remote, saved, seen, target, push>>
    BY <1>3, <2>1 DEF Pick, Skip, DeltaCheck, SendWhole
  <2>3. \A m \in Names : Mirrored(m)' <=> Mirrored(m)
    BY <2>2 DEF Mirrored
  <2>4. ASSUME NEW m \in Names, ~opts.dry_run, Wanted(m), pc' # "failed", Pending(m)
        PROVE  Pending(m)'
    <3>1. m \in todo \/ Mirrored(m)
      BY <2>2, <2>4 DEF Pending, Sending
    <3>2. CASE Skip(n)
      <4>1. m # n /\ pc' = pc /\ todo' = todo \ {n}
        BY <2>2, <2>4, <3>2 DEF Skip, Wanted
      <4>2. QED
        BY <2>2, <2>3, <3>1, <4>1 DEF Pending, Uploading
    <3>3. CASE DeltaCheck(n)
      BY <2>3, <3>1, <3>3 DEF DeltaCheck, Pending, Uploading
    <3>4. CASE SendWhole(n)
      BY <2>2, <2>3, <2>4, <3>1, <3>4 DEF SendWhole, Pending, Uploading, Sending
    <3>5. QED
      BY <2>1, <3>2, <3>3, <3>4
  <2>5. QED
    BY <2>2, <2>4, MirrorKept DEF Uploading
<1>4. CASE Compare
  <2>1. /\ pc = "compare" /\ UNCHANGED <<opts, local, remote, saved, seen, target, push>>
        /\ cur \in Names /\ local[cur] \in saved[cur]
    BY <1>4 DEF Compare, NextFile, SendPatched, SendWhole, HandInv, Wanted, InListing
  <2>2. \A m \in Names : Mirrored(m)' <=> Mirrored(m)
    BY <2>1 DEF Mirrored
  <2>3. ASSUME NEW m \in Names, ~opts.dry_run, pc' # "failed", Pending(m)
        PROVE  Pending(m)'
    <3>1. m \in todo \/ Mirrored(m)
      BY <2>1, <2>3 DEF Pending, Sending
    <3>2. CASE SendPatched \/ SendWhole(cur)
      BY <2>1, <2>2, <2>3, <3>1, <3>2 DEF SendPatched, SendWhole, Pending, Uploading, Sending
    <3>3. CASE /\ None \notin {local[cur], remote[cur]}
               /\ Identical(local[cur], remote[cur]) /\ NextFile
      <4>1. m = cur => Mirrored(m)'
        BY <2>1, <3>3 DEF Identical, Mirrored
      <4>2. pc' = "pick" /\ todo' = todo \ {cur}
        BY <3>3 DEF NextFile
      <4>3. m = cur => Pending(m)'
        BY <4>1 DEF Pending
      <4>4. m # cur => Pending(m)'
        BY <2>2, <3>1, <4>2 DEF Pending, Uploading
      <4>5. QED
        BY <4>3, <4>4
    <3>4. QED
      BY <1>4, <2>3, <3>2, <3>3 DEF Compare
  <2>4. QED
    BY <2>1, <2>3, MirrorKept DEF Uploading
<1>5. CASE WriteTemp
  <2>1. /\ pc = "temp" /\ pc' \in {"unlink", "failed"}
        /\ UNCHANGED <<opts, remote, saved, seen, target, push, todo, cur>>
    BY <1>5 DEF WriteTemp
  <2>2. QED
    BY <2>1, MirrorKept DEF Pending, Mirrored, Uploading, Sending
<1>6. CASE RemoveDst
  <2>1. /\ pc = "unlink" /\ pc' = "rename"
        /\ UNCHANGED <<opts, saved, seen, target, push, todo, cur>>
        /\ \A n \in Names : n # cur => remote'[n] = remote[n]
    BY <1>6 DEF RemoveDst, TypeOK, AllNames
  <2>2. QED
    BY <2>1, MirrorKept DEF Pending, Mirrored, Uploading, Sending
<1>7. CASE Publish
  <2>1. /\ pc = "rename" /\ pc' \in {"mode", "failed"}
        /\ UNCHANGED <<opts, saved, seen, target, push, todo, cur>>
        /\ pc' # "failed" => remote' = [remote EXCEPT ![cur] = Stored(buf)]
    BY <1>7 DEF Publish
  <2>2. cur \in Names /\ buf \in Files /\ buf \in saved[cur] \ {None}
    BY <2>1 DEF HandInv, Sending, Wanted, InListing, TypeOK
  <2>3. Stored(buf) \in Files /\ Stored(buf) # None /\ Data(Stored(buf)) = Data(buf)
    BY <2>2, MadeFiles, RsyncAssumption
  <2>4. ASSUME pc' # "failed"
        PROVE  /\ \A n \in Names : n = cur => Mirrored(n)'
               /\ \A n \in Names : n # cur => remote'[n] = remote[n]
    <3>1. /\ remote'[cur] = Stored(buf)
          /\ \A n \in Names : n # cur => remote'[n] = remote[n]
      BY <2>1, <2>2, <2>4 DEF TypeOK, AllNames
    <3>2. QED
      BY <2>1, <2>2, <2>3, <3>1 DEF Mirrored
  <2>5. ASSUME NEW m \in Names, pc' # "failed", Pending(m)
        PROVE  Pending(m)'
    <3>1. CASE m = cur
      BY <2>4, <2>5, <3>1 DEF Pending
    <3>2. CASE m # cur
      BY <2>1, <2>4, <2>5, <3>2 DEF Pending, Mirrored, Uploading
    <3>3. QED
      BY <3>1, <3>2
  <2>6. QED
    BY <2>1, <2>5, MirrorKept DEF Uploading
<1>8. CASE ApplyMode
  <2>1. /\ pc = "mode" /\ pc' = "pick"
        /\ UNCHANGED <<opts, saved, seen, target, push, todo, cur>>
    BY <1>8 DEF ApplyMode
  <2>2. cur \in Names /\ seen.local[cur] \in Files
    BY <2>1 DEF HandInv, Wanted, InListing, TypeOK
  <2>3. ASSUME NEW m \in Names, Mirrored(m)
        PROVE  Mirrored(m)'
    <3>1. CASE /\ remote[cur] # None
               /\ remote' = [remote EXCEPT ![cur].mode = seen.local[cur].mode]
      <4>1. remote[cur] \in Files
        BY <2>2, <3>1 DEF TypeOK, AllNames
      <4>2. remote'[cur] \in Files /\ Data(remote'[cur]) = Data(remote[cur])
        BY <2>2, <3>1, <4>1, MadeFiles DEF TypeOK, AllNames
      <4>3. m # cur => remote'[m] = remote[m]
        BY <3>1 DEF TypeOK, AllNames
      <4>4. remote'[m] # None /\ Data(remote'[m]) = Data(remote[m])
        BY <2>3, <4>2, <4>3, RsyncAssumption DEF Mirrored
      <4>5. QED
        BY <2>1, <2>3, <4>4 DEF Mirrored
    <3>2. CASE UNCHANGED remote
      BY <2>1, <2>3, <3>2 DEF Mirrored
    <3>3. QED
      BY <1>8, <3>1, <3>2 DEF ApplyMode
  <2>4. QED
    BY <2>1, <2>3, MirrorKept DEF Pending, Uploading, Sending
<1>9. CASE Uploaded
  <2>1. /\ pc = "pick" /\ todo = {} /\ pc' \in {"delete", "done"}
        /\ UNCHANGED <<opts, remote, saved, seen, target, push>>
    BY <1>9 DEF Uploaded
  <2>2. QED
    BY <2>1, MirrorKept DEF Pending, Mirrored, Uploading, Sending
<1>10. CASE DeleteExtra
  <2>1. /\ pc = "delete" /\ pc' = "delete"
        /\ UNCHANGED <<opts, saved, seen, target, push, cur>>
    BY <1>10 DEF DeleteExtra
  <2>2. PICK n \in Extras : \A m \in AllNames : m # n => remote'[m] = remote[m]
    BY <1>10 DEF DeleteExtra, HandInv, TypeOK
  <2>3. \A m \in Names : Wanted(m) => remote'[m] = remote[m]
    BY <2>2 DEF Extras, Wanted, InListing, AllNames
  <2>4. QED
    BY <2>1, <2>3, MirrorKept DEF Pending, Mirrored, Uploading, Sending
<1>11. CASE Deleted
  <2>1. /\ pc = "delete" /\ pc' = "done"
        /\ UNCHANGED <<opts, remote, saved, seen, target, push>>
    BY <1>11 DEF Deleted
  <2>2. QED
    BY <2>1, MirrorKept DEF Pending, Mirrored, Uploading, Sending
<1>12. CASE Save
  <2>1. UNCHANGED <<opts, remote, seen, target, push, pc, todo, cur>> /\ pc # "root"
    BY <1>12 DEF Save
  <2>2. \A n \in Names : saved[n] \subseteq saved'[n]
    BY <2>1, Listings
  <2>3. ASSUME NEW n \in Names, Pending(n)
        PROVE  Pending(n)'
    BY <2>1, <2>2, <2>3 DEF Pending, Mirrored
  <2>4. CASE pc \in Uploading \cup {"delete", "done"}
    BY <2>1, <2>3, <2>4, MirrorKept
  <2>5. QED
    BY <2>1, <2>4 DEF MirrorInv
<1>13. CASE PushOpens \/ PushRemoves \/ PushRenames \/ UNCHANGED vars
  <2>1. /\ UNCHANGED <<opts, seen, target, pc, todo, cur, saved>>
        /\ push # "idle" => push' # "idle"
    BY <1>13 DEF PushOpens, PushRemoves, PushRenames, vars
  <2>2. \A n \in Names : ~Pushed(n)' => remote'[n] = remote[n]
    BY <1>13, RsyncAssumption
       DEF PushOpens, PushRemoves, PushRenames, vars, Pushed, TypeOK, AllNames
  <2>3. CASE pc \in Uploading \cup {"delete", "done"}
    BY <2>1, <2>2, <2>3, MirrorKept DEF Pending, Mirrored
  <2>4. QED
    BY <2>1, <2>3 DEF MirrorInv
<1>14. QED
  BY <1>1, <1>2, <1>3, <1>4, <1>5, <1>6, <1>7, <1>8, <1>9, <1>10, <1>11, <1>12, <1>13 DEF Next

------------------------------------------------------------------------------
\* The values the model's variables take, and what the run has in hand.
LEMMA HandAlways == Spec => [](TypeOK /\ HandInv)
BY TypeInit, TypeNext, HandInit, HandNext, PTL DEF Spec

THEOREM TypeCorrect == Spec => []TypeOK
BY HandAlways, PTL

\* What --rsync was not to send it leaves as it was listed.
THEOREM RestLeftAlone == Spec => []LeavesTheRestAlone
BY TypeInit, TypeNext, HandInit, HandNext, RestInit, RestNext, PTL DEF Spec

\* A remote file is missing only between the removal and the rename of an upload or
\* of the other push, or because of delete.
THEOREM LossExplained == Spec => []LossHasACause
<1>1. LossInv => LossHasACause
  BY DEF LossInv
<1>2. QED
  BY <1>1, TypeInit, TypeNext, HandInit, HandNext, LossInit, LossNext, PTL DEF Spec

\* A run that ends well has mirrored every file it was asked to.
THEOREM Mirrors == Spec => []MirrorsWhenDone
<1>1. MirrorInv => MirrorsWhenDone
  BY DEF MirrorInv, MirrorsWhenDone, Pending, Mirrored, Wanted, InListing, Uploading, Sending
<1>2. QED
  BY <1>1, TypeInit, TypeNext, HandInit, HandNext, MirrorInit, MirrorNext, PTL DEF Spec
==============================================================================
