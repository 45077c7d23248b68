---------------------------- MODULE SessionProofs ----------------------------
(***************************************************************************)
(* run_session.  For any frame order sshd may send and any circumstances,  *)
(* it writes all the output that comes before the exit status, and in an   *)
(* undisturbed session its result is the remote command's.  Whatever is    *)
(* typed and however it is read, the channel has all of it, and "~." is    *)
(* acted on where a line starts and nowhere else.                          *)
(***************************************************************************)
EXTENDS SessionExit, EscapePump, FiniteSetTheorems, SequenceTheorems, TLAPS

-----------------------------------------------------------------------------
(* The channel: its frames counted, what a step of the connection task keeps *)
(* and what rx.wait() returns.  run_session and the pump of a resume both    *)
(* read one, and the proofs about either stand by themselves.                *)

\* rx.wait() has returned the first r frames of the script, and the queue holds
\* the next ones, up to the latest received or to what ended the queue.
ReadUpTo(r) ==
  LET q == r + Len(queue) IN
    /\ q <= seen
    /\ \A i \in 1 .. Len(queue) : queue[i] = script[r + i]
    /\ sender => q = seen
    /\ ~sender => q = Len(script) \/ (q < seen /\ script[q + 1] = "close")

ChannelInv == ChannelTypeOK /\ OutputFirst(script)

\* How a step changes the script: it may lose frames that were never received.
ScriptKept ==
  /\ seen <= seen' /\ seen' <= Len(script') /\ Len(script') <= Len(script)
  /\ \A k \in 1 .. Len(script') : script'[k] = script[k]

LEMMA DataInStep ==
  ASSUME NEW s, NEW n \in Nat
  PROVE  /\ DataIn(s, n) \in Nat
         /\ DataIn(s, n + 1) = DataIn(s, n) + IF s[n + 1] = "data" THEN 1 ELSE 0
<1> DEFINE D(m) == {k \in 1 .. m : s[k] = "data"}
<1>1. IsFiniteSet(D(n))
  <2>1. IsFiniteSet(1 .. n) /\ D(n) \in SUBSET (1 .. n)
    BY FS_Interval
  <2>2. QED
    BY <2>1, FS_Subset
<1>2. DataIn(s, n) \in Nat
  BY <1>1, FS_CardinalityType DEF DataIn
<1>3. CASE s[n + 1] = "data"
  <2>1. D(n + 1) = D(n) \cup {n + 1} /\ n + 1 \notin D(n)
    BY <1>3
  <2>2. QED
    BY <1>1, <1>2, <1>3, <2>1, FS_AddElement DEF DataIn
<1>4. CASE s[n + 1] # "data"
  <2>1. D(n + 1) = D(n)
    BY <1>4
  <2>2. QED
    BY <1>2, <1>4, <2>1 DEF DataIn
<1>5. QED
  BY <1>3, <1>4

LEMMA DataInSame ==
  ASSUME NEW s, NEW t, NEW m \in Nat, NEW n \in Nat, m <= n,
         \A k \in 1 .. m : s[k] = t[k], \A k \in m + 1 .. n : t[k] # "data"
  PROVE  DataIn(s, m) = DataIn(t, n)
<1>1. {k \in 1 .. m : s[k] = "data"} = {k \in 1 .. n : t[k] = "data"}
  OBVIOUS
<1>2. QED
  BY <1>1 DEF DataIn

\* What Init establishes and every step of the connection task preserves.
LEMMA ChannelInitInv == ChannelInit => ChannelInv /\ ReadUpTo(0)
<1> SUFFICES ASSUME ChannelInit
             PROVE  ChannelInv /\ ReadUpTo(0)
  OBVIOUS
<1>1. script \in Seq(Frames) /\ OutputFirst(script)
  BY ChannelAssumption DEF ChannelInit
<1>2. Len(queue) = 0 /\ queue \in Seq(Frames)
  BY DEF ChannelInit
<1>3. ReadUpTo(0)
  BY <1>2 DEF ChannelInit, ReadUpTo
<1>4. Len(script) \in Nat /\ seen \in 0 .. Len(script)
  BY <1>1 DEF ChannelInit
<1>5. sender \in BOOLEAN /\ callback \in BOOLEAN /\ recorded \in BOOLEAN
  BY DEF ChannelInit
<1>6. ChannelInv
  BY <1>1, <1>2, <1>4, <1>5 DEF ChannelInv, ChannelTypeOK
<1>7. QED
  BY <1>3, <1>6

LEMMA ChannelStep ==
  ASSUME ChannelInv, ChannelNext
  PROVE  ChannelInv' /\ ScriptKept /\ \A r \in Nat : ReadUpTo(r) => ReadUpTo(r)'
<1> USE DEF ChannelInv, ChannelTypeOK, ScriptKept, ReadUpTo
<1>1. CASE Receive
  <2> DEFINE frame == script[seen + 1]
  <2>1. frame \in Frames
    BY <1>1 DEF Receive
  <2>2. /\ script' = script /\ seen' = seen + 1 /\ seen' \in 0 .. Len(script)
        /\ sender' \in BOOLEAN /\ callback' \in BOOLEAN /\ recorded' \in BOOLEAN
    BY <1>1 DEF Receive
  <2>3. CASE sender'
    <3>1. sender /\ queue' = Append(queue, frame)
      BY <1>1, <2>3 DEF Receive
    <3>2. /\ queue' \in Seq(Frames) /\ Len(queue') = Len(queue) + 1
          /\ \A i \in 1 .. Len(queue) : queue'[i] = queue[i]
          /\ queue'[Len(queue) + 1] = frame
      BY <2>1, <3>1
    <3>3. ASSUME NEW r \in Nat, ReadUpTo(r)
          PROVE  ReadUpTo(r)'
      <4>1. \A i \in 1 .. Len(queue') : queue'[i] = script'[r + i]
        BY <2>2, <3>1, <3>2, <3>3
      <4>2. QED
        BY <2>2, <2>3, <3>1, <3>2, <3>3, <4>1
    <3>4. QED
      BY <2>2, <3>2, <3>3 DEF OutputFirst
  <2>4. CASE ~sender'
    <3>1. queue' = queue /\ (sender => frame = "close")
      BY <1>1, <2>4 DEF Receive
    <3>2. QED
      BY <2>2, <2>4, <3>1 DEF OutputFirst
  <2>5. QED
    BY <2>2, <2>3, <2>4
<1>2. CASE RunCallback
  <2>1. UNCHANGED <<script, seen, queue, sender>> /\ {callback', recorded'} \subseteq BOOLEAN
    BY <1>2 DEF RunCallback
  <2>2. QED
    BY <2>1 DEF OutputFirst
<1>3. CASE Disconnect
  <2>1. /\ script' \in Seq(Frames) /\ Len(script') = seen
        /\ \A k \in 1 .. seen : script'[k] = script[k]
    BY <1>3, SubSeqProperties DEF Disconnect
  <2>2. OutputFirst(script')
    <3>1. ASSUME NEW i \in 1 .. seen, NEW j \in 1 .. seen, i < j,
                 script'[i] \in {"eof", "close"}
          PROVE  script'[j] # "data"
      BY <2>1, <3>1, SMTT(30) DEF OutputFirst, Precedes
    <3>2. QED
      BY <2>1, <3>1 DEF OutputFirst, Precedes
  <2>3. /\ seen < Len(script) /\ sender' = FALSE
        /\ UNCHANGED <<seen, queue, callback, recorded>>
    BY <1>3 DEF Disconnect
  <2>4. ASSUME NEW r \in Nat, ReadUpTo(r)
        PROVE  ReadUpTo(r)'
    <3>1. \A i \in 1 .. Len(queue) : script'[r + i] = script[r + i]
      BY <2>1, <2>3, <2>4
    <3>2. QED
      BY <2>1, <2>3, <2>4, <3>1
  <2>5. ScriptKept
    BY <2>1, <2>3
  <2>6. ChannelInv'
    <3>1. {sender', callback', recorded'} \subseteq BOOLEAN /\ queue' \in Seq(Frames)
      BY <2>3
    <3>2. seen' \in 0 .. Len(script')
      BY <2>1, <2>3
    <3>3. OutputFirst(script)'
      BY <2>2
    <3>4. QED
      BY <2>1, <3>1, <3>2, <3>3
  <2>7. QED
    BY <2>4, <2>5, <2>6
<1>4. QED
  BY <1>1, <1>2, <1>3 DEF ChannelNext

\* What rx.wait() returns is the next frame of the script; None means that all has
\* been read, or all that came before the close.
LEMMA WaitStep ==
  ASSUME ChannelInv, NEW f, Wait(f), NEW r \in Nat, ReadUpTo(r)
  PROVE  /\ ChannelInv' /\ ScriptKept /\ ReadUpTo(r + 1)'
         /\ r < seen /\ script[r + 1] = f
<1> USE DEF ChannelInv, ChannelTypeOK, ReadUpTo, Wait
<1>1. /\ Len(queue) > 0 /\ f = queue[1]
      /\ queue' \in Seq(Frames) /\ Len(queue') = Len(queue) - 1
      /\ \A i \in 1 .. Len(queue') : queue'[i] = queue[i + 1]
  OBVIOUS
<1>2. \A i \in 1 .. Len(queue') : queue'[i] = script'[r + 1 + i]
  BY <1>1
<1>3. r < seen /\ script[r + 1] = f
  BY <1>1
<1>4. QED
  BY <1>1, <1>2, <1>3 DEF ScriptKept

LEMMA NoneStep ==
  ASSUME ChannelInv, WaitNone, NEW r \in Nat, ReadUpTo(r)
  PROVE  r <= seen /\ (r = Len(script) \/ (r < seen /\ script[r + 1] = "close"))
BY DEF ChannelInv, ChannelTypeOK, ReadUpTo, WaitNone

-----------------------------------------------------------------------------
(* The reader.                                                               *)

\* The reader's loop has written the data frames among those it has read.
LoopInv == \E r \in Nat : ReadUpTo(r) /\ (reader = "loop" => shown = DataIn(script, r)
                                                             /\ shown <= r)

\* Once it has left the loop, all the data it leaves unwritten follows a status.
OutputDone ==
  \E r \in 0 .. seen :
    /\ shown = DataIn(script, r)
    /\ \A k \in r + 1 .. Len(script) :
         script[k] = "data" => \E j \in 1 .. k : script[j] = "status"

OutputInv ==
  /\ TypeOK
  /\ OutputFirst(script)
  /\ LoopInv
  /\ reader # "loop" => OutputDone

\* A status that has arrived is in the map or on its way there.
Heard == \A k \in 1 .. seen : script[k] = "status" => callback \/ recorded

\* The reader of an undisturbed session does not stop before the status arrives.
Patient ==
  reader \notin {"loop", "drain"} /\ Undisturbed /\ Sends(script, "status")
    => \E k \in 1 .. seen : script[k] = "status"

StatusInv ==
  /\ Heard
  /\ Patient
  /\ main # "select" => reader \in {"exit", "joined"}
  /\ StatusReported

------------------------------------------------------------------------------
LEMMA OutputInvInit == Init => OutputInv
<1> SUFFICES ASSUME Init
             PROVE  OutputInv
  OBVIOUS
<1>1. ChannelInv /\ ReadUpTo(0)
  BY ChannelInitInv DEF Init
<1>2. DataIn(script, 0) = 0
  <2>1. {k \in 1 .. 0 : script[k] = "data"} = {}
    OBVIOUS
  <2>2. QED
    BY <2>1, FS_EmptySet DEF DataIn
<1>3. LoopInv
  BY <1>1, <1>2 DEF Init, LoopInv
<1>4. TypeOK
  <2>1. ChannelTypeOK /\ shown \in 0 .. seen
    BY <1>1 DEF Init, ChannelInv, ChannelTypeOK
  <2>2. code \in BOOLEAN /\ result \in BOOLEAN
    BY DEF Init
  <2>3. QED
    BY <2>1, <2>2 DEF Init, TypeOK
<1>5. QED
  BY <1>1, <1>3, <1>4 DEF Init, OutputInv, ChannelInv

\* A step that cuts off frames not yet received loses none of the output.
LEMMA OutputDoneKept ==
  ASSUME OutputInv, ChannelInv', ScriptKept, OutputDone, UNCHANGED shown
  PROVE  OutputDone'
<1>1. PICK r \in 0 .. seen :
        /\ shown = DataIn(script, r)
        /\ \A k \in r + 1 .. Len(script) :
             script[k] = "data" => \E j \in 1 .. k : script[j] = "status"
  BY DEF OutputDone
<1>2. Len(script') \in Nat /\ Len(script) \in Nat /\ r \in 0 .. seen' /\ r <= Len(script')
  BY DEF OutputInv, TypeOK, ChannelInv, ChannelTypeOK, ScriptKept
<1>3. DataIn(script', r) = DataIn(script, r)
  BY <1>2, DataInSame DEF OutputInv, TypeOK, ChannelInv, ChannelTypeOK, ScriptKept
<1>4. ASSUME NEW k \in r + 1 .. Len(script'), script'[k] = "data"
      PROVE  \E j \in 1 .. k : script'[j] = "status"
  <2>1. k \in 1 .. Len(script') /\ k \in r + 1 .. Len(script)
    BY <1>2, <1>4 DEF ScriptKept
  <2>2. script[k] = "data"
    BY <1>4, <2>1 DEF ScriptKept
  <2>3. PICK j \in 1 .. k : script[j] = "status"
    BY <1>1, <2>1, <2>2
  <2>4. j \in 1 .. Len(script')
    BY <1>2, <2>1
  <2>5. script'[j] = script[j]
    BY <2>4 DEF ScriptKept
  <2>6. QED
    BY <2>3, <2>5
<1>5. QED
  BY <1>1, <1>2, <1>3, <1>4 DEF OutputDone

\* The reader may leave its loop after a status, after EOF, and at the end of the
\* queue.
LEMMA LeaveLoop ==
  ASSUME OutputInv, NEW r \in 0 .. seen, shown = DataIn(script, r),
         \/ r = Len(script)
         \/ r < Len(script) /\ script[r + 1] \in {"status", "eof", "close"}
  PROVE  OutputDone
<1> USE DEF OutputInv, TypeOK, ChannelTypeOK
<1>1. ASSUME NEW k \in r + 1 .. Len(script), script[k] = "data"
      PROVE  \E j \in 1 .. k : script[j] = "status"
  <2>1. r + 1 \in 1 .. Len(script) /\ r + 1 < k
    BY <1>1
  <2>2. script[r + 1] \notin {"eof", "close"}
    BY <1>1, <2>1 DEF OutputFirst, Precedes
  <2>3. QED
    BY <1>1, <2>1, <2>2
<1>2. QED
  BY <1>1 DEF OutputDone

LEMMA OutputInvNext == OutputInv /\ [Next]_vars => OutputInv'
<1> SUFFICES ASSUME OutputInv, [Next]_vars
             PROVE  OutputInv'
  OBVIOUS
<1> USE DEF OutputInv
<1>1. ChannelInv
  BY DEF TypeOK, ChannelInv
<1>2. CASE Connection
  <2>1. ChannelInv' /\ ScriptKept /\ \A r \in Nat : ReadUpTo(r) => ReadUpTo(r)'
    BY <1>1, <1>2, ChannelStep DEF Connection
  <2>2. UNCHANGED taskVars
    BY <1>2 DEF Connection
  <2>3. TypeOK'
    BY <2>1, <2>2 DEF TypeOK, taskVars, ChannelInv, ChannelTypeOK, ScriptKept
  <2>4. LoopInv'
    <3>1. PICK r \in Nat : ReadUpTo(r) /\ (reader = "loop" => shown = DataIn(script, r)
                                                             /\ shown <= r)
      BY DEF LoopInv
    <3>2. r <= seen /\ r <= Len(script') /\ \A k \in 1 .. r : script'[k] = script[k]
      BY <2>1, <3>1 DEF ReadUpTo, ScriptKept, ChannelInv, ChannelTypeOK, TypeOK
    <3>3. DataIn(script', r) = DataIn(script, r)
      BY <3>2, DataInSame
    <3>4. QED
      BY <2>1, <2>2, <3>1, <3>3 DEF LoopInv, taskVars
  <2>5. reader' # "loop" => OutputDone'
    BY <2>1, <2>2, OutputDoneKept DEF taskVars
  <2>6. QED
    BY <2>1, <2>3, <2>4, <2>5 DEF ChannelInv
<1>3. CASE ReadData \/ ReadStatus \/ ReadEof \/ DrainOne
  <2>1. PICK f \in Frames : Wait(f) /\ reader \in {"loop", "drain"}
    BY <1>3 DEF ReadData, ReadStatus, ReadEof, DrainOne, Wait, Frames
  <2>2. PICK r \in Nat : ReadUpTo(r) /\ (reader = "loop" => shown = DataIn(script, r)
                                                           /\ shown <= r)
    BY DEF LoopInv
  <2>3. /\ ChannelInv' /\ ScriptKept /\ ReadUpTo(r + 1)'
        /\ r < seen /\ script[r + 1] = f
    BY <1>1, <2>1, <2>2, WaitStep
  <2>4. script' = script /\ seen' = seen
    BY <2>1 DEF Wait
  <2>5. CASE ReadData
    <3>1. reader = "loop" /\ shown' = shown + 1 /\ UNCHANGED <<env, reader, code, main, result>>
      BY <2>5 DEF ReadData
    <3>2. f = "data"
      BY <2>1, <2>5 DEF ReadData, Wait
    <3>3. shown' = DataIn(script', r + 1) /\ shown' <= r + 1
      BY <2>2, <2>3, <2>4, <3>1, <3>2, DataInStep
    <3>4. TypeOK'
      BY <2>2, <2>3, <2>4, <3>1, <3>3 DEF TypeOK, ChannelInv, ChannelTypeOK
    <3>5. QED
      BY <2>3, <3>1, <3>3, <3>4 DEF LoopInv, ChannelInv
  <2>6. CASE ~ReadData
    <3>1. UNCHANGED <<env, shown, main, result>> /\ reader' \in {"drain", "send"}
      BY <1>3, <2>6 DEF ReadStatus, ReadEof, DrainOne
    <3>2. code' \in BOOLEAN
      BY <1>3, <2>6 DEF ReadStatus, ReadEof, DrainOne, TypeOK
    <3>3. TypeOK'
      BY <2>3, <2>4, <3>1, <3>2 DEF TypeOK, ChannelInv
    <3>4. LoopInv'
      BY <2>3, <3>1 DEF LoopInv
    <3>5. OutputDone
      <4>1. CASE reader = "loop"
        <5>1. f \in {"status", "eof"}
          BY <1>3, <2>1, <2>6, <4>1 DEF ReadStatus, ReadEof, DrainOne, Wait
        <5>2. r \in 0 .. seen /\ r < Len(script)
          BY <2>3 DEF TypeOK, ChannelTypeOK
        <5>3. QED
          BY <2>2, <2>3, <4>1, <5>1, <5>2, LeaveLoop
      <4>2. QED
        BY <2>1, <4>1
    <3>6. QED
      BY <2>3, <3>1, <3>3, <3>4, <3>5, OutputDoneKept DEF ChannelInv
  <2>7. QED
    BY <2>5, <2>6
<1>4. CASE ReadNone
  <2>1. UNCHANGED <<channelVars, env, code, shown, main, result>> /\ reader' = "send"
    BY <1>4 DEF ReadNone, WaitNone
  <2>2. TypeOK' /\ OutputFirst(script)' /\ LoopInv'
    BY <2>1 DEF channelVars, TypeOK, ChannelTypeOK, LoopInv, ReadUpTo
  <2>3. OutputDone
    <3>1. PICK r \in Nat : ReadUpTo(r) /\ (reader = "loop" => shown = DataIn(script, r)
                                                             /\ shown <= r)
      BY DEF LoopInv
    <3>2. r <= seen /\ (r = Len(script) \/ (r < seen /\ script[r + 1] = "close"))
      BY <1>1, <1>4, <3>1, NoneStep DEF ReadNone
    <3>3. r \in 0 .. seen /\ (r < seen => r < Len(script))
      BY <3>2 DEF TypeOK, ChannelTypeOK
    <3>4. CASE reader = "loop"
      BY <3>1, <3>2, <3>3, <3>4, LeaveLoop
    <3>5. QED
      BY <3>4
  <2>4. ScriptKept /\ ChannelInv'
    BY <2>1, <2>2 DEF channelVars, ScriptKept, ChannelInv, TypeOK, ChannelTypeOK
  <2>5. QED
    BY <2>1, <2>2, <2>3, <2>4, OutputDoneKept
<1>5. CASE DrainTimeout \/ SendCode \/ ReaderReturns
  <2>1. /\ UNCHANGED <<channelVars, env, code, shown, main, result>>
        /\ reader # "loop" /\ reader' \in {"send", "exit", "joined"}
    BY <1>5 DEF DrainTimeout, SendCode, ReaderReturns
  <2>2. OutputDone'
    BY <2>1 DEF channelVars, OutputDone
  <2>3. QED
    BY <2>1, <2>2 DEF channelVars, TypeOK, ChannelTypeOK, LoopInv, ReadUpTo
<1>6. CASE Select \/ Lookup
  <2>1. /\ UNCHANGED <<channelVars, env, reader, code, shown>>
        /\ main' \in {"lookup", "done"} /\ result' \in BOOLEAN
    BY <1>6 DEF Select, Lookup, TypeOK, ChannelTypeOK
  <2>2. reader' # "loop" => OutputDone'
    BY <2>1 DEF channelVars, OutputDone
  <2>3. QED
    BY <2>1, <2>2 DEF channelVars, TypeOK, ChannelTypeOK, LoopInv, ReadUpTo
<1>7. CASE UNCHANGED vars
  BY <1>7 DEF vars, TypeOK, ChannelTypeOK, LoopInv, ReadUpTo, OutputDone
<1>8. QED
  BY <1>2, <1>3, <1>4, <1>5, <1>6, <1>7 DEF Next, Reader

\* The values the model's variables take.
THEOREM TypeCorrect == Spec => []TypeOK
<1>1. OutputInv => TypeOK
  BY DEF OutputInv
<1>2. QED
  BY <1>1, OutputInvInit, OutputInvNext, PTL DEF Spec

\* What the command printed before its exit status has been written when
\* run_session returns.
THEOREM OutputWritten == Spec => []NoOutputLost
<1>1. OutputInv /\ (main # "select" => reader \in {"exit", "joined"}) => NoOutputLost
  <2> SUFFICES ASSUME OutputInv, reader # "loop", ~Precedes(script, "status", "data")
               PROVE  shown = DataIn(script, Len(script))
    BY DEF NoOutputLost
  <2>1. PICK r \in 0 .. seen :
          /\ shown = DataIn(script, r)
          /\ \A k \in r + 1 .. Len(script) :
               script[k] = "data" => \E j \in 1 .. k : script[j] = "status"
    BY DEF OutputInv, OutputDone
  <2>2. \A k \in r + 1 .. Len(script) : script[k] # "data"
    BY <2>1 DEF Precedes, OutputInv, TypeOK, ChannelTypeOK
  <2>3. QED
    BY <2>1, <2>2, DataInSame DEF OutputInv, TypeOK, ChannelTypeOK
<1>2. Init => (main # "select" => reader \in {"exit", "joined"})
  BY DEF Init
<1>3. (main # "select" => reader \in {"exit", "joined"}) /\ [Next]_vars
        => (main # "select" => reader \in {"exit", "joined"})'
  BY DEF Next, Connection, taskVars, Reader, ReadData, ReadStatus, ReadEof, DrainOne,
         ReadNone, DrainTimeout, SendCode, ReaderReturns, Select, Lookup, vars
<1>4. QED
  BY <1>1, <1>2, <1>3, OutputInvInit, OutputInvNext, PTL DEF Spec

------------------------------------------------------------------------------
LEMMA StatusInvInit == Init => StatusInv
<1> SUFFICES ASSUME Init
             PROVE  StatusInv
  OBVIOUS
<1>1. \A k \in 1 .. seen : FALSE
  BY DEF Init, ChannelInit
<1>2. QED
  BY <1>1 DEF Init, StatusInv, Heard, Patient, StatusReported

LEMMA StatusInvNext == OutputInv /\ StatusInv /\ [Next]_vars => StatusInv'
<1> SUFFICES ASSUME OutputInv, StatusInv, [Next]_vars
             PROVE  StatusInv'
  OBVIOUS
<1> USE DEF StatusInv
<1>1. ChannelInv
  BY DEF OutputInv, TypeOK, ChannelInv
<1>2. CASE Connection
  <2>1. ScriptKept /\ UNCHANGED taskVars /\ main # "done"
    BY <1>1, <1>2, ChannelStep DEF Connection, Running
  <2>2. Heard'
    <3>1. CASE Receive
      <4>1. /\ script' = script /\ seen' = seen + 1 /\ seen \in Nat
            /\ recorded' = recorded /\ ~callback
        BY <1>1, <3>1 DEF Receive, ChannelInv, ChannelTypeOK
      <4>2. script[seen + 1] = "status" => callback'
        BY <3>1, Zenon DEF Receive
      <4>3. ASSUME NEW k \in 1 .. seen', script'[k] = "status"
            PROVE  callback' \/ recorded'
        <5>1. CASE k = seen + 1
          BY <4>2, <4>1, <4>3, <5>1
        <5>2. CASE k \in 1 .. seen
          BY <4>1, <4>3, <5>2 DEF Heard
        <5>3. QED
          BY <4>1, <5>1, <5>2
      <4>4. QED
        BY <4>3 DEF Heard
    <3>2. CASE RunCallback
      BY <3>2 DEF RunCallback, Heard
    <3>3. CASE Disconnect
      <4>1. /\ UNCHANGED <<seen, callback, recorded>> /\ seen <= Len(script')
            /\ \A k \in 1 .. Len(script') : script'[k] = script[k]
            /\ Len(script') \in Nat /\ seen \in Nat
        BY <1>1, <1>2, <2>1, <3>3, ChannelStep
           DEF Disconnect, Connection, ScriptKept, ChannelInv, ChannelTypeOK
      <4>2. \A k \in 1 .. seen : script'[k] = script[k]
        BY <4>1
      <4>3. QED
        BY <4>1, <4>2 DEF Heard
    <3>4. QED
      BY <1>2, <3>1, <3>2, <3>3 DEF Connection, ChannelNext
  <2>3. Patient'
    <3> SUFFICES ASSUME reader' \notin {"loop", "drain"}, Undisturbed', Sends(script, "status")'
                 PROVE  \E k \in 1 .. seen' : script'[k] = "status"
      BY DEF Patient
    <3>1. CASE Disconnect
      <4>1. Len(script') = seen /\ seen' = seen
        BY <1>1, <3>1, SubSeqProperties DEF Disconnect, ChannelInv, ChannelTypeOK
      <4>2. QED
        BY <4>1 DEF Sends
    <3>2. CASE Receive \/ RunCallback
      <4>1. script' = script /\ seen' \in Nat /\ seen <= seen'
        BY <1>1, <3>2 DEF Receive, RunCallback, ChannelInv, ChannelTypeOK
      <4>2. \E k \in 1 .. seen : script[k] = "status"
        BY <2>1, <4>1 DEF Patient, Undisturbed, taskVars
      <4>3. QED
        BY <1>1, <4>1, <4>2 DEF ChannelInv, ChannelTypeOK
    <3>3. QED
      BY <1>2, <3>1, <3>2 DEF Connection, ChannelNext
  <2>4. QED
    BY <2>1, <2>2, <2>3 DEF taskVars, StatusReported
<1>3. CASE ReadData \/ ReadEof \/ DrainOne
  BY <1>3 DEF ReadData, ReadEof, DrainOne, Wait, Running, Heard, Patient, StatusReported
<1>4. CASE ReadStatus
  <2>1. PICK r \in Nat : ReadUpTo(r)
    BY DEF OutputInv, LoopInv
  <2>2. r < seen /\ script[r + 1] = "status"
    BY <1>1, <1>4, <2>1, WaitStep DEF ReadStatus
  <2>3. /\ UNCHANGED <<script, seen, sender, callback, recorded, env, main>>
        /\ main = "select"
    BY <1>4 DEF ReadStatus, Wait, Running
  <2>4. r + 1 \in 1 .. seen
    BY <1>1, <2>2 DEF ChannelInv, ChannelTypeOK
  <2>5. QED
    BY <2>2, <2>3, <2>4 DEF Heard, Patient, StatusReported
<1>5. CASE ReadNone
  <2>1. PICK r \in Nat : ReadUpTo(r)
    BY DEF OutputInv, LoopInv
  <2>2. r <= seen /\ (r = Len(script) \/ (r < seen /\ script[r + 1] = "close"))
    BY <1>1, <1>5, <2>1, NoneStep DEF ReadNone
  <2>3. UNCHANGED <<script, seen, callback, recorded, env, main>> /\ main = "select"
    BY <1>5 DEF ReadNone, WaitNone, channelVars, Running
  <2>4. ASSUME Undisturbed, NEW k \in 1 .. Len(script), script[k] = "status"
        PROVE  k <= seen
    <3>1. CASE r = Len(script)
      BY <2>2, <3>1, <1>1 DEF ChannelInv, ChannelTypeOK
    <3>2. CASE r < seen /\ script[r + 1] = "close"
      BY <1>1, <2>4, <3>2 DEF Undisturbed, Precedes, ChannelInv, ChannelTypeOK
    <3>3. QED
      BY <2>2, <3>1, <3>2
  <2>5. Undisturbed /\ Sends(script, "status") => \E k \in 1 .. seen : script[k] = "status"
    BY <1>1, <2>4 DEF Sends, ChannelInv, ChannelTypeOK
  <2>6. QED
    BY <2>3, <2>5 DEF Heard, Patient, StatusReported, Undisturbed
<1>6. CASE DrainTimeout
  <2>1. Undisturbed => seen = Len(script)
    BY <1>6 DEF DrainTimeout, Undisturbed
  <2>2. UNCHANGED <<channelVars, env, main>> /\ main = "select"
    BY <1>6 DEF DrainTimeout, Running
  <2>3. QED
    BY <2>1, <2>2 DEF Heard, Patient, StatusReported, Undisturbed, Sends, channelVars
<1>7. CASE SendCode \/ ReaderReturns
  BY <1>7 DEF SendCode, ReaderReturns, channelVars, Running, Heard, Patient, StatusReported,
              Undisturbed
<1>8. CASE Select
  BY <1>8 DEF Select, channelVars, Heard, Patient, StatusReported, Undisturbed
<1>9. CASE Lookup
  <2>1. /\ UNCHANGED <<channelVars, env, reader>> /\ reader \in {"exit", "joined"}
        /\ callback => env.lag
        /\ result' = (result \/ (~env.jump /\ recorded))
    BY <1>9 DEF Lookup
  <2>2. ASSUME Undisturbed, Sends(script, "status")
        PROVE  result'
    <3>1. callback \/ recorded
      BY <2>1, <2>2 DEF Patient, Heard
    <3>2. recorded /\ ~env.jump
      BY <2>1, <2>2, <3>1 DEF Undisturbed
    <3>3. QED
      BY <2>1, <3>2
  <2>3. Heard' /\ Patient'
    BY <2>1 DEF channelVars, Heard, Patient, Undisturbed
  <2>4. QED
    BY <2>1, <2>2, <2>3 DEF StatusReported, Undisturbed, channelVars
<1>10. CASE UNCHANGED vars
  BY <1>10 DEF vars, Heard, Patient, StatusReported, Undisturbed
<1>11. QED
  BY <1>2, <1>3, <1>4, <1>5, <1>6, <1>7, <1>8, <1>9, <1>10 DEF Next, Reader

\* passhrs exits with the remote command's code in either order of status and EOF.
THEOREM StatusDelivered == Spec => []StatusReported
<1>1. StatusInv => StatusReported
  BY DEF StatusInv
<1>2. QED
  BY <1>1, OutputInvInit, OutputInvNext, StatusInvInit, StatusInvNext, PTL DEF Spec

-----------------------------------------------------------------------------
(* stdin, its reads and its lines.                                           *)

\* Where the read before the latest ended.
PrevEnd == IF Len(reads) = 1 THEN 0 ELSE reads[Len(reads) - 1]

ReadsInv ==
  /\ Consumed \in 0 .. Len(typed)
  /\ \A r \in 1 .. Len(reads) : reads[r] <= Consumed
  /\ reads # << >> => PrevEnd \in 0 .. Consumed - 1
  /\ \A r \in 1 .. Len(reads) - 1 : reads[r] <= PrevEnd

\* The channel has the first n bytes.
HasFirst(n) == Len(sent) = n /\ \A k \in 1 .. n : sent[k] = typed[k]

SentInv ==
  /\ pump \in {"reading", "scanning"} => carry = << >>
  /\ pump = "scanning" =>
       /\ Len(stream) = Consumed - PrevEnd
       /\ \A k \in 1 .. Len(stream) : stream[k] = typed[PrevEnd + k]
  /\ pump = "reading" => HasFirst(Consumed)
  /\ pump \in {"scanning", "disconnected"} => reads # << >> /\ HasFirst(PrevEnd)
  /\ pump = "ended" => HasFirst(Consumed) \/ (gone /\ reads # << >> /\ HasFirst(PrevEnd))
  /\ pump = "disconnected" => eof

\* How far the scan has looked, and what it knows of the lines up to there.  A
\* sequence at a line start that it has passed was cut in two by a read.
Looked == IF pump = "scanning" THEN PrevEnd + pos - 1 ELSE Consumed
Cut == \E i \in 1 .. Consumed - 1 : typed[i] = "esc" /\ SplitAt(i)
Met(i) == LineStart(i) /\ typed[i] = "esc" /\ typed[i + 1] = "dot" /\ ~SplitAt(i)
Unmet(looked, end) ==
  \A i \in 1 .. looked : i < end /\ LineStart(i) /\ typed[i] = "esc" =>
    typed[i + 1] # "dot" /\ (i = looked => typed[i + 1] # "help")

LineInv ==
  escape = "esc" =>
    /\ pump # "disconnected" =>
         /\ at_line_start => LineStart(Looked + 1)
         /\ ~Cut => /\ LineStart(Looked + 1) => at_line_start
                    /\ Unmet(Looked, Consumed)
    /\ pump = "disconnected" => \E i \in 1 .. Consumed - 1 : Met(i)

StdinInv == StdinTypeOK /\ ReadsInv /\ SentInv /\ LineInv

\* The lines.
LEMMA FirstLine == LineStart(1)
<1>1. 0 \in 0 .. 1 /\ 1 - 2 * 0 = 1 /\ \A k \in 1 .. 0 : FALSE
  OBVIOUS
<1>2. QED
  BY <1>1 DEF LineStart

LEMMA AfterLineFeed ==
  ASSUME NEW i \in Nat \ {0}, typed[i] = "nl"
  PROVE  LineStart(i + 1)
<1>1. /\ 0 \in 0 .. i + 1 /\ i + 1 - 2 * 0 > 1 /\ i + 1 - 2 * 0 - 1 = i
      /\ \A k \in 1 .. 0 : FALSE
  OBVIOUS
<1>2. QED
  BY <1>1 DEF LineStart

LEMMA AfterHelp ==
  ASSUME NEW i \in Nat \ {0}, LineStart(i), typed[i] = "esc", typed[i + 1] = "help"
  PROVE  LineStart(i + 2)
<1>1. PICK h \in 0 .. i :
        /\ i - 2 * h = 1 \/ (i - 2 * h > 1 /\ typed[i - 2 * h - 1] = "nl")
        /\ \A k \in 1 .. h : typed[i - 2 * k] = "esc" /\ typed[i - 2 * k + 1] = "help"
  BY DEF LineStart
<1>2. h + 1 \in 0 .. i + 2 /\ i + 2 - 2 * (h + 1) = i - 2 * h
  OBVIOUS
<1>3. ASSUME NEW k \in 1 .. h + 1
      PROVE  typed[i + 2 - 2 * k] = "esc" /\ typed[i + 2 - 2 * k + 1] = "help"
  <2>1. CASE k = 1
    <3>1. i + 2 - 2 * k = i
      BY <2>1
    <3>2. QED
      BY <3>1
  <2>2. CASE k # 1
    <3>1. k - 1 \in 1 .. h /\ i + 2 - 2 * k = i - 2 * (k - 1)
      BY <2>2
    <3>2. QED
      BY <1>1, <3>1
  <2>3. QED
    BY <2>1, <2>2
<1>4. i + 2 - 2 * (h + 1) = 1 \/ (i + 2 - 2 * (h + 1) > 1 /\ typed[i + 2 - 2 * (h + 1) - 1] = "nl")
  BY <1>1, <1>2
<1>5. ASSUME NEW g, g = h + 1, NEW j, j = i + 2
      PROVE  LineStart(j)
  <2>1. /\ g \in 0 .. j
        /\ j - 2 * g = 1 \/ (j - 2 * g > 1 /\ typed[j - 2 * g - 1] = "nl")
        /\ \A k \in 1 .. g : typed[j - 2 * k] = "esc" /\ typed[j - 2 * k + 1] = "help"
    BY <1>2, <1>3, <1>4, <1>5
  <2>2. QED
    BY <2>1 DEF LineStart
<1>6. QED
  BY <1>5

LEMMA BeforeLine ==
  ASSUME NEW i \in Nat \ {0}, LineStart(i)
  PROVE  \/ i = 1
         \/ typed[i - 1] = "nl"
         \/ i > 2 /\ LineStart(i - 2) /\ typed[i - 2] = "esc" /\ typed[i - 1] = "help"
<1>1. PICK h \in 0 .. i :
        /\ i - 2 * h = 1 \/ (i - 2 * h > 1 /\ typed[i - 2 * h - 1] = "nl")
        /\ \A k \in 1 .. h : typed[i - 2 * k] = "esc" /\ typed[i - 2 * k + 1] = "help"
  BY DEF LineStart
<1>2. CASE h = 0
  <2>1. i - 2 * h = i
    BY <1>2
  <2>2. QED
    BY <1>1, <2>1
<1>3. CASE h # 0
  <2>1. i > 2 /\ 1 \in 1 .. h /\ i - 2 * 1 = i - 2 /\ i - 2 * 1 + 1 = i - 1
    BY <1>1, <1>3
  <2>2. typed[i - 2] = "esc" /\ typed[i - 1] = "help"
    BY <1>1, <2>1
  <2>3. h - 1 \in 0 .. i - 2 /\ i - 2 - 2 * (h - 1) = i - 2 * h
    BY <1>1, <1>3
  <2>4. ASSUME NEW k \in 1 .. h - 1
        PROVE  typed[i - 2 - 2 * k] = "esc" /\ typed[i - 2 - 2 * k + 1] = "help"
    <3>1. k + 1 \in 1 .. h /\ i - 2 - 2 * k = i - 2 * (k + 1)
      OBVIOUS
    <3>2. QED
      BY <1>1, <3>1
  <2>5. LineStart(i - 2)
    BY <1>1, <2>3, <2>4 DEF LineStart
  <2>6. QED
    BY <2>1, <2>2, <2>5
<1>4. QED
  BY <1>2, <1>3

-----------------------------------------------------------------------------
LEMMA StdinStart == StdinInit => StdinInv
<1> SUFFICES ASSUME StdinInit
             PROVE  StdinInv
  OBVIOUS
<1>1. PICK n \in Lengths : typed \in [1 .. n -> Bytes]
  BY DEF StdinInit
<1>2. typed \in Seq(Bytes) /\ Len(typed) \in Nat
  BY <1>1, EscapeAssumption
<1>3. reads = << >> /\ Len(reads) = 0 /\ Consumed = 0
  BY DEF StdinInit, Consumed
<1>4. StdinTypeOK
  <2>1. << >> \in Seq(DOMAIN typed) /\ << >> \in Seq(Bytes) /\ 1 \in 1 .. Len(<< >>) + 1
    OBVIOUS
  <2>2. pty \in BOOLEAN /\ redirect \in BOOLEAN /\ at_line_start \in BOOLEAN /\ eof \in BOOLEAN /\ gone \in BOOLEAN
    BY DEF StdinInit
  <2>3. QED
    BY <1>2, <2>1, <2>2 DEF StdinInit, StdinTypeOK
<1>5. ReadsInv
  BY <1>2, <1>3 DEF ReadsInv
<1>6. SentInv
  BY <1>3 DEF StdinInit, SentInv, HasFirst
<1>7. LineInv
  <2>1. pump = "reading" /\ Looked = 0 /\ at_line_start
    BY <1>3 DEF StdinInit, Looked
  <2>2. Unmet(Looked, Consumed)
    BY <2>1 DEF Unmet
  <2>3. LineStart(Looked + 1)
    BY <2>1, FirstLine
  <2>4. QED
    BY <2>1, <2>2, <2>3 DEF LineInv
<1>8. QED
  BY <1>4, <1>5, <1>6, <1>7 DEF StdinInv

\* A read: what becomes of the positions.
LEMMA ReadMoves ==
  ASSUME StdinInv, Read
  PROVE  /\ pump = "reading" /\ Consumed' \in Consumed + 1 .. Len(typed)
         /\ PrevEnd' = Consumed
         /\ reads' \in Seq(DOMAIN typed) /\ Len(reads') = Len(reads) + 1
         /\ reads'[Len(reads')] = Consumed'
         /\ \A k \in 1 .. Len(reads) : reads'[k] = reads[k]
         /\ stream' = SubSeq(typed, Consumed + 1, Consumed')
         /\ UNCHANGED <<input, at_line_start, outputVars, gone>>
<1>1. PICK n \in 1 .. ReadSize :
        /\ Consumed + n <= Len(typed)
        /\ reads' = Append(reads, Consumed + n)
        /\ stream' = carry \o SubSeq(typed, Consumed + 1, Consumed + n)
  BY DEF Read
<1>2. /\ reads \in Seq(DOMAIN typed) /\ typed \in Seq(Bytes) /\ Consumed \in 0 .. Len(typed)
      /\ pump = "reading" /\ carry = << >>
  BY DEF StdinInv, StdinTypeOK, ReadsInv, SentInv, Read, Reading
<1>3. n \in Nat \ {0} /\ Len(typed) \in Nat
  BY <1>2, EscapeAssumption
<1>4. Consumed + n \in DOMAIN typed /\ Consumed + n \in Consumed + 1 .. Len(typed)
  BY <1>1, <1>2, <1>3
<1>5. ASSUME NEW r, r = reads', NEW c, c = Consumed + n, NEW old, old = reads
      PROVE  /\ r \in Seq(DOMAIN typed) /\ Len(r) = Len(old) + 1 /\ r[Len(r)] = c
             /\ r # << >> /\ Len(old) \in Nat
             /\ \A k \in 1 .. Len(old) : r[k] = old[k]
  <2>1. old \in Seq(DOMAIN typed) /\ c \in DOMAIN typed /\ r = Append(old, c)
    BY <1>1, <1>2, <1>4, <1>5
  <2>2. ASSUME NEW S, old \in Seq(S), c \in S
        PROVE  /\ r \in Seq(S) /\ Len(r) = Len(old) + 1 /\ r[Len(r)] = c
               /\ Len(old) \in Nat /\ \A k \in 1 .. Len(old) : r[k] = old[k]
    BY <2>1, <2>2
  <2>3. /\ r \in Seq(DOMAIN typed) /\ Len(r) = Len(old) + 1 /\ r[Len(r)] = c
        /\ Len(old) \in Nat /\ \A k \in 1 .. Len(old) : r[k] = old[k]
    BY <2>1, <2>2
  <2>4. r # << >>
    BY <2>3
  <2>5. QED
    BY <2>3, <2>4
<1>6. /\ reads' \in Seq(DOMAIN typed) /\ Len(reads') = Len(reads) + 1
       /\ reads'[Len(reads')] = Consumed + n /\ reads' # << >> /\ Len(reads) \in Nat
       /\ \A k \in 1 .. Len(reads) : reads'[k] = reads[k]
  BY <1>5
<1>7. Consumed' = Consumed + n
  BY <1>6 DEF Consumed
<1>8. PrevEnd' = Consumed
  <2>1. CASE Len(reads) = 0
    <3>1. reads = << >>
      BY <1>2, <2>1
    <3>2. Len(reads') = 1
      BY <1>6, <2>1
    <3>3. QED
      BY <3>1, <3>2 DEF PrevEnd, Consumed
  <2>2. CASE Len(reads) # 0
    <3>1. /\ Len(reads') # 1 /\ Len(reads') - 1 = Len(reads) /\ Len(reads) \in 1 .. Len(reads)
          /\ reads # << >>
      BY <1>6, <2>2
    <3>2. reads'[Len(reads)] = reads[Len(reads)]
      BY <1>6, <3>1
    <3>3. QED
      BY <3>1, <3>2 DEF PrevEnd, Consumed
  <2>3. QED
    BY <2>1, <2>2
<1>9. stream' = SubSeq(typed, Consumed + 1, Consumed + n)
  <2>1. SubSeq(typed, Consumed + 1, Consumed + n) \in Seq(Bytes)
    <3>1. \A k \in Consumed + 1 .. Consumed + n : typed[k] \in Bytes
      <4>1. \A k \in Consumed + 1 .. Consumed + n : k \in 1 .. Len(typed)
        BY <1>1, <1>2, <1>3
      <4>2. QED
        BY <1>2, <4>1
    <3>2. Consumed + 1 \in Int /\ Consumed + n \in Int
      BY <1>2, <1>3
    <3>3. QED
      BY <1>2, <3>1, <3>2, SubSeqProperties
  <2>2. \A x \in Seq(Bytes) : << >> \o x = x
    OBVIOUS
  <2>3. QED
    BY <1>1, <1>2, <2>1, <2>2
<1>10. QED
  BY <1>1, <1>2, <1>4, <1>6, <1>7, <1>8, <1>9 DEF Read

\* Every other step leaves what was typed and read as it is.
LEMMA InputKept ==
  ASSUME UNCHANGED <<input, reads>>
  PROVE  /\ UNCHANGED <<escape, pty, redirect, typed, reads>>
         /\ Consumed' = Consumed /\ PrevEnd' = PrevEnd /\ Cut' = Cut
         /\ \A i : LineStart(i)' = LineStart(i) /\ SplitAt(i)' = SplitAt(i)
<1>1. UNCHANGED <<escape, pty, redirect, typed, reads>>
  BY DEF input
<1>2. QED
  BY <1>1 DEF Consumed, PrevEnd, Cut, LineStart, SplitAt

LEMMA ReadsNext == StdinInv /\ [StdinNext]_stdinVars => ReadsInv'
<1> SUFFICES ASSUME StdinInv, [StdinNext]_stdinVars
             PROVE  ReadsInv'
  OBVIOUS
<1>1. /\ Consumed \in 0 .. Len(typed) /\ Len(typed) \in Nat /\ Len(reads) \in Nat
      /\ reads \in Seq(DOMAIN typed)
  BY DEF StdinInv, StdinTypeOK, ReadsInv
<1>2. CASE Read
  <2>1. Consumed' \in Consumed + 1 .. Len(typed) /\ PrevEnd' = Consumed /\ typed' = typed
    BY <1>2, ReadMoves DEF input
  <2>2. reads'[Len(reads')] = Consumed' /\ Len(reads') = Len(reads) + 1
    BY <1>2, ReadMoves
  <2>3. \A r \in 1 .. Len(reads) : reads[r] <= Consumed
    BY DEF StdinInv, ReadsInv
  <2>4. \A r \in 1 .. Len(reads) : reads'[r] = reads[r]
    BY <1>2, ReadMoves
  <2>5. reads'[Len(reads) + 1] = Consumed'
    BY <2>2, Zenon
  <2>6. \A r \in 1 .. Len(reads') : r \in 1 .. Len(reads) \/ r = Len(reads) + 1
    BY <1>1, <2>2
  <2>7. ASSUME NEW r \in 1 .. Len(reads')
        PROVE  reads'[r] <= Consumed'
    <3>1. CASE r = Len(reads) + 1
      BY <1>1, <2>1, <2>5, <3>1
    <3>2. CASE r \in 1 .. Len(reads)
      <4>1. reads'[r] <= Consumed /\ reads'[r] \in Int
        BY <1>1, <2>3, <2>4, <3>2
      <4>2. QED
        BY <1>1, <2>1, <4>1
    <3>3. QED
      BY <2>6, <3>1, <3>2
  <2>8. \A r \in 1 .. Len(reads') - 1 : reads'[r] <= PrevEnd'
    <3>1. Len(reads') - 1 = Len(reads)
      BY <1>1, <2>2
    <3>2. QED
      BY <2>1, <2>3, <2>4, <3>1
  <2>9. Consumed' \in 0 .. Len(typed) /\ PrevEnd' \in 0 .. Consumed' - 1
    <3>1. \A n, c \in Nat : \A d \in c + 1 .. n : c \in 0 .. n => d \in 0 .. n /\ c \in 0 .. d - 1
      OBVIOUS
    <3>2. Consumed \in Nat
      BY <1>1
    <3>3. Consumed' \in 0 .. Len(typed) /\ Consumed \in 0 .. Consumed' - 1
      BY <1>1, <2>1, <3>1, <3>2
    <3>4. QED
      BY <2>1, <3>3
  <2>10. QED
    BY <2>1, <2>7, <2>8, <2>9 DEF ReadsInv
<1>3. CASE UNCHANGED <<input, reads>>
  BY <1>3, InputKept DEF StdinInv, ReadsInv
<1>4. Read \/ UNCHANGED <<input, reads>>
  BY DEF StdinNext, StdinEof, ReadFails, LineFeed, Help, Terminate, Data, Passed, Forward,
         ChannelGoes, stdinVars
<1>5. QED
  BY <1>2, <1>3, <1>4

\* A part of a sequence of bytes.
LEMMA PartOfBytes ==
  ASSUME NEW s \in Seq(Bytes), NEW m \in Nat, NEW n \in Nat, n <= Len(s), m <= n
  PROVE  /\ SubSeq(s, m + 1, n) \in Seq(Bytes) /\ Len(SubSeq(s, m + 1, n)) = n - m
         /\ \A k \in 1 .. n - m : SubSeq(s, m + 1, n)[k] = s[m + k]
<1>1. \A k \in m + 1 .. n : s[k] \in Bytes
  OBVIOUS
<1>2. m + 1 \in Int /\ n \in Int
  OBVIOUS
<1>3. /\ SubSeq(s, m + 1, n) \in Seq(Bytes)
      /\ Len(SubSeq(s, m + 1, n)) = IF m + 1 <= n THEN n - (m + 1) + 1 ELSE 0
      /\ \A k \in 1 .. n - (m + 1) + 1 : SubSeq(s, m + 1, n)[k] = s[m + 1 + k - 1]
  BY <1>1, <1>2, SubSeqProperties
<1>4. /\ (IF m + 1 <= n THEN n - (m + 1) + 1 ELSE 0) = n - m /\ n - (m + 1) + 1 = n - m
      /\ \A k \in 1 .. n - m : m + 1 + k - 1 = m + k
  OBVIOUS
<1>5. QED
  BY <1>3, <1>4

LEMMA StdinTypes == StdinInv /\ [StdinNext]_stdinVars => StdinTypeOK'
<1> SUFFICES ASSUME StdinInv, [StdinNext]_stdinVars
             PROVE  StdinTypeOK'
  OBVIOUS
<1>1. /\ escape \in {"esc", None} /\ redirect \in BOOLEAN /\ at_line_start \in BOOLEAN
      /\ pty \in BOOLEAN /\ eof \in BOOLEAN /\ gone \in BOOLEAN
      /\ typed \in Seq(Bytes) /\ reads \in Seq(DOMAIN typed)
      /\ carry \in Seq(Bytes) /\ stream \in Seq(Bytes) /\ sent \in Seq(Bytes)
      /\ Len(stream) \in Nat /\ pos \in 1 .. Len(stream) + 1
      /\ pump \in {"reading", "scanning", "disconnected", "ended"}
      /\ Consumed \in 0 .. Len(typed) /\ Len(typed) \in Nat
  BY DEF StdinInv, StdinTypeOK, ReadsInv
<1>2. << >> \in Seq(Bytes) /\ 1 \in 1 .. Len(<< >>) + 1
  OBVIOUS
<1>3. CASE Read
  <2>1. /\ reads' \in Seq(DOMAIN typed) /\ stream' = SubSeq(typed, Consumed + 1, Consumed')
        /\ Consumed' \in Consumed + 1 .. Len(typed)
        /\ UNCHANGED <<escape, pty, redirect, typed, at_line_start, sent, eof, gone>>
    BY <1>3, ReadMoves DEF input, outputVars
  <2>2. stream' \in Seq(Bytes)
    BY <1>1, <2>1, PartOfBytes, SMTT(30)
  <2>3. Len(stream') \in Nat
    BY <2>2
  <2>4. pos' \in 1 .. Len(stream') + 1
    <3>1. pos' = Len(stream') + 1 \/ pos' = 1
      BY <1>3 DEF Read
    <3>2. QED
      BY <2>3, <3>1
  <2>5. carry' = << >> /\ pump' = "scanning"
    BY <1>3 DEF Read
  <2>6. QED
    BY <1>1, <1>2, <2>1, <2>2, <2>4, <2>5 DEF StdinTypeOK
<1>4. CASE StdinEof \/ ReadFails \/ ChannelGoes
  BY <1>1, <1>4 DEF StdinEof, ReadFails, ChannelGoes, StdinTypeOK, input, scanVars, outputVars
<1>5. ASSUME NEW next, NEW start \in BOOLEAN, Passed(next, start), next \in 1 .. Len(stream) + 1
      PROVE  StdinTypeOK'
  BY <1>1, <1>5 DEF Passed, StdinTypeOK, input, outputVars
<1>6. CASE LineFeed \/ Help \/ Data
  <2>1. pos + 1 \in 1 .. Len(stream) + 1
    <3>1. Scanning
      BY <1>6 DEF LineFeed, Help, Data
    <3>2. QED
      BY <1>1, <3>1 DEF Scanning
  <2>2. CASE LineFeed
    BY <1>5, <2>1, <2>2 DEF LineFeed
  <2>3. CASE Data
    BY <1>5, <2>1, <2>3 DEF Data
  <2>4. CASE Help
    <3>1. pos + 1 <= Len(stream)
      BY <2>4 DEF Help, Escaped, Is
    <3>2. (IF Is("nl", pos + 2) THEN pos + 3 ELSE pos + 2) \in 1 .. Len(stream) + 1
      BY <1>1, <3>1 DEF Is
    <3>3. QED
      BY <1>5, <2>4, <3>2 DEF Help
  <2>5. QED
    BY <1>6, <2>2, <2>3, <2>4
<1>7. CASE Terminate
  BY <1>1, <1>2, <1>7 DEF Terminate, StdinTypeOK, input
<1>8. CASE Forward
  <2>1. pos = Len(stream) + 1 /\ pos - 1 = Len(stream)
    BY <1>1, <1>8 DEF Forward
  <2>2. SubSeq(stream, 1, pos - 1) = stream /\ SubSeq(stream, pos, Len(stream)) = << >>
    <3>1. SubSeq(stream, 1, Len(stream)) = stream /\ SubSeq(stream, Len(stream) + 1, Len(stream)) = << >>
      BY <1>1
    <3>2. QED
      BY <2>1, <3>1
  <2>3. sent' \in Seq(Bytes) /\ carry' \in Seq(Bytes)
    <3>1. \/ sent' = sent \o stream /\ carry' = << >>
          \/ UNCHANGED <<sent, carry>>
      BY <1>8, <2>2 DEF Forward
    <3>2. sent \o stream \in Seq(Bytes)
      BY <1>1
    <3>3. QED
      BY <1>1, <1>2, <3>1, <3>2
  <2>4. QED
    BY <1>1, <1>2, <1>8, <2>3 DEF Forward, StdinTypeOK, input
<1>9. CASE UNCHANGED stdinVars
  BY <1>1, <1>9 DEF stdinVars, input, scanVars, outputVars, StdinTypeOK
<1>10. QED
  BY <1>3, <1>4, <1>6, <1>7, <1>8, <1>9 DEF StdinNext

LEMMA SentNext == StdinInv /\ [StdinNext]_stdinVars => SentInv'
<1> SUFFICES ASSUME StdinInv, [StdinNext]_stdinVars
             PROVE  SentInv'
  OBVIOUS
<1>1. /\ typed \in Seq(Bytes) /\ Len(typed) \in Nat /\ sent \in Seq(Bytes)
      /\ stream \in Seq(Bytes) /\ Len(stream) \in Nat /\ pos \in 1 .. Len(stream) + 1
      /\ Consumed \in 0 .. Len(typed) /\ (reads # << >> => PrevEnd \in 0 .. Consumed - 1)
  BY DEF StdinInv, StdinTypeOK, ReadsInv
<1>2. SentInv
  BY DEF StdinInv
<1>3. CASE Read
  <2>1. /\ pump = "reading" /\ Consumed' \in Consumed + 1 .. Len(typed)
        /\ PrevEnd' = Consumed /\ Len(reads') = Len(reads) + 1
        /\ stream' = SubSeq(typed, Consumed + 1, Consumed')
        /\ UNCHANGED <<typed, sent, eof>>
    BY <1>3, ReadMoves DEF input, outputVars
  <2>2. /\ Len(stream') = Consumed' - PrevEnd'
        /\ \A k \in 1 .. Len(stream') : stream'[k] = typed'[PrevEnd' + k]
    <3>1. Consumed \in Nat /\ Consumed' \in Nat /\ Consumed <= Consumed' /\ Consumed' <= Len(typed)
      BY <1>1, <2>1
    <3>2. /\ Len(SubSeq(typed, Consumed + 1, Consumed')) = Consumed' - Consumed
          /\ \A k \in 1 .. Consumed' - Consumed :
               SubSeq(typed, Consumed + 1, Consumed')[k] = typed[Consumed + k]
      BY <1>1, <3>1, PartOfBytes
    <3>3. QED
      BY <2>1, <3>2
  <2>3. pump' = "scanning" /\ carry' = << >>
    BY <1>3 DEF Read
  <2>4. HasFirst(PrevEnd)' /\ reads' # << >>
    <3>1. HasFirst(Consumed)
      BY <1>2, <2>1 DEF SentInv
    <3>2. Len(reads) \in Nat /\ Len(reads') # 0
      BY <2>1 DEF StdinInv, StdinTypeOK
    <3>3. QED
      BY <2>1, <3>1, <3>2 DEF HasFirst
  <2>5. QED
    BY <2>2, <2>3, <2>4 DEF SentInv
<1>4. ASSUME UNCHANGED <<input, reads>>
      PROVE  /\ Consumed' = Consumed /\ PrevEnd' = PrevEnd /\ typed' = typed /\ reads' = reads
             /\ sent' = sent => HasFirst(Consumed)' = HasFirst(Consumed)
                                /\ HasFirst(PrevEnd)' = HasFirst(PrevEnd)
  <2>1. Consumed' = Consumed /\ PrevEnd' = PrevEnd /\ typed' = typed /\ reads' = reads
    BY <1>4, InputKept
  <2>2. QED
    BY <2>1 DEF HasFirst
<1>5. CASE StdinEof \/ ReadFails
  <2>1. /\ pump = "reading" /\ pump' = "ended" /\ sent' = sent /\ UNCHANGED <<input, reads>>
    BY <1>5 DEF StdinEof, ReadFails, Reading, outputVars
  <2>2. QED
    BY <1>2, <1>4, <2>1 DEF SentInv
<1>6. CASE LineFeed \/ Help \/ Data
  <2>1. /\ pump = "scanning" /\ pump' = "scanning"
        /\ UNCHANGED <<input, reads, stream, carry, sent, eof, gone>>
    BY <1>6 DEF LineFeed, Help, Data, Scanning, Passed, outputVars
  <2>2. QED
    BY <1>2, <1>4, <2>1 DEF SentInv
<1>7. CASE Terminate
  <2>1. /\ pump = "scanning" /\ pump' = "disconnected" /\ eof'
        /\ UNCHANGED <<input, reads, sent>>
    BY <1>7 DEF Terminate, Scanning
  <2>2. QED
    BY <1>2, <1>4, <2>1 DEF SentInv
<1>8. CASE Forward
  <2>1. /\ pump = "scanning" /\ UNCHANGED <<input, reads, gone>>
        /\ pos = Len(stream) + 1 /\ pos - 1 = Len(stream)
    BY <1>1, <1>8 DEF Forward
  <2>2. /\ reads # << >> /\ HasFirst(PrevEnd) /\ Len(stream) = Consumed - PrevEnd
        /\ \A k \in 1 .. Len(stream) : stream[k] = typed[PrevEnd + k]
    BY <1>2, <2>1 DEF SentInv
  <2>3. CASE gone /\ sent' = sent /\ pump' = "ended"
    BY <1>4, <2>1, <2>2, <2>3 DEF SentInv
  <2>4. CASE sent' = sent \o SubSeq(stream, 1, pos - 1) /\ pump' = "reading"
             /\ carry' = SubSeq(stream, pos, Len(stream))
    <3>1. SubSeq(stream, 1, Len(stream)) = stream /\ SubSeq(stream, Len(stream) + 1, Len(stream)) = << >>
      BY <1>1
    <3>2. sent' = sent \o stream /\ carry' = << >>
      BY <2>1, <2>4, <3>1
    <3>3. Len(sent) = PrevEnd /\ \A k \in 1 .. PrevEnd : sent[k] = typed[k]
      BY <2>2 DEF HasFirst
    <3>4. /\ Len(sent \o stream) = Len(sent) + Len(stream)
          /\ \A k \in 1 .. Len(sent) + Len(stream) :
               (sent \o stream)[k] = IF k <= Len(sent) THEN sent[k] ELSE stream[k - Len(sent)]
      BY <1>1
    <3>5. PrevEnd \in 0 .. Consumed - 1 /\ Len(sent) + Len(stream) = Consumed
      BY <1>1, <2>2, <3>3
    <3>6. ASSUME NEW k \in 1 .. Consumed
          PROVE  (sent \o stream)[k] = typed[k]
      <4>1. CASE k <= PrevEnd
        <5>1. k \in 1 .. PrevEnd
          BY <3>5, <4>1
        <5>2. QED
          BY <3>3, <3>4, <3>5, <4>1, <5>1
      <4>2. CASE ~(k <= PrevEnd)
        <5>1. k - PrevEnd \in 1 .. Len(stream) /\ PrevEnd + (k - PrevEnd) = k
          BY <1>1, <2>2, <3>5, <4>2
        <5>2. stream[k - PrevEnd] = typed[k]
          BY <2>2, <5>1
        <5>3. QED
          BY <3>3, <3>4, <3>5, <4>2, <5>2
      <4>3. QED
        BY <4>1, <4>2
    <3>7. HasFirst(Consumed)'
      BY <1>4, <2>1, <3>2, <3>4, <3>5, <3>6 DEF HasFirst
    <3>8. QED
      BY <2>4, <3>2, <3>7 DEF SentInv
  <2>5. QED
    BY <1>8, <2>3, <2>4 DEF Forward
<1>9. CASE ChannelGoes
  <2>1. gone' /\ UNCHANGED <<input, reads, stream, carry, sent, eof, pump>>
    BY <1>9 DEF ChannelGoes, scanVars, outputVars
  <2>2. QED
    BY <1>2, <1>4, <2>1 DEF SentInv
<1>10. CASE UNCHANGED stdinVars
  <2>1. UNCHANGED <<input, reads, stream, carry, sent, eof, pump, gone>>
    BY <1>10 DEF stdinVars, scanVars, outputVars
  <2>2. QED
    BY <1>2, <1>4, <2>1 DEF SentInv
<1>11. QED
  BY <1>3, <1>5, <1>6, <1>7, <1>8, <1>9, <1>10 DEF StdinNext

-----------------------------------------------------------------------------
(* What the scan knows of the lines.                                         *)

\* The buffer is what stands at Looked in what was typed.
LEMMA InBuffer ==
  ASSUME StdinInv, Scanning
  PROVE  /\ Looked = PrevEnd + pos - 1 /\ Looked \in 0 .. Consumed - 1 /\ PrevEnd \in Nat
         /\ Consumed \in Nat /\ pos \in Nat \ {0} /\ Len(stream) = Consumed - PrevEnd
         /\ stream[pos] = typed[Looked + 1]
         /\ \A byte : Is(byte, pos) <=> typed[Looked + 1] = byte
         /\ \A byte : Is(byte, pos + 1) <=> Looked + 1 < Consumed /\ typed[Looked + 2] = byte
         /\ \A byte : Is(byte, pos + 2) => Looked + 2 < Consumed /\ typed[Looked + 3] = byte
<1>1. /\ pump = "scanning" /\ pos <= Len(stream) /\ Looked = PrevEnd + pos - 1
      /\ pos \in Nat \ {0} /\ Len(stream) = Consumed - PrevEnd
      /\ PrevEnd \in 0 .. Consumed - 1 /\ Consumed \in Nat
      /\ \A k \in 1 .. Len(stream) : stream[k] = typed[PrevEnd + k]
  BY DEF StdinInv, StdinTypeOK, ReadsInv, SentInv, Scanning, Looked
<1>2. /\ Looked \in 0 .. Consumed - 1
      /\ PrevEnd + pos = Looked + 1 /\ PrevEnd + (pos + 1) = Looked + 2
      /\ PrevEnd + (pos + 2) = Looked + 3
      /\ pos + 1 <= Len(stream) <=> Looked + 1 < Consumed
      /\ pos + 2 <= Len(stream) <=> Looked + 2 < Consumed
      /\ pos \in 1 .. Len(stream)
      /\ pos + 1 <= Len(stream) => pos + 1 \in 1 .. Len(stream)
      /\ pos + 2 <= Len(stream) => pos + 2 \in 1 .. Len(stream)
  BY <1>1
<1>3. stream[pos] = typed[Looked + 1]
  BY <1>1, <1>2
<1>4. pos + 1 <= Len(stream) => stream[pos + 1] = typed[Looked + 2]
  BY <1>1, <1>2
<1>5. pos + 2 <= Len(stream) => stream[pos + 2] = typed[Looked + 3]
  BY <1>1, <1>2
<1>6. QED
  BY <1>1, <1>2, <1>3, <1>4, <1>5 DEF Is

\* A turn of the loop that is not a disconnect, put together: what it knows of the
\* lines afterwards.
LEMMA PassedOn ==
  ASSUME StdinInv, Scanning, NEW next, NEW start, Passed(next, start), NEW looked \in Nat,
         looked = PrevEnd + next - 1,
         escape = "esc" =>
           /\ start => LineStart(looked + 1)
           /\ ~Cut => (LineStart(looked + 1) => start) /\ Unmet(looked, Consumed)
  PROVE  LineInv'
<1>1. UNCHANGED <<input, reads>> /\ pump = "scanning" /\ pump' = "scanning"
      /\ pos' = next /\ at_line_start' = start
  BY DEF Passed, Scanning
<1>2. /\ UNCHANGED <<escape, typed>> /\ Consumed' = Consumed /\ PrevEnd' = PrevEnd /\ Cut' = Cut
      /\ \A i : LineStart(i)' = LineStart(i)
  BY <1>1, InputKept
<1>3. Looked' = looked
  BY <1>1, <1>2 DEF Looked
<1>4. LineStart(looked + 1)' = LineStart(looked + 1)
  BY <1>2
<1>5. LineStart(Looked + 1)' = LineStart(looked + 1)
  BY <1>3, <1>4 DEF LineStart
<1>6. Unmet(Looked, Consumed)' = Unmet(looked, Consumed)
  BY <1>2, <1>3 DEF Unmet
<1>7. QED
  BY <1>1, <1>2, <1>5, <1>6 DEF LineInv

LEMMA LineFeedKnows == StdinInv /\ LineFeed => LineInv'
<1> SUFFICES ASSUME StdinInv, LineFeed
             PROVE  LineInv'
  OBVIOUS
<1>1. Scanning /\ Is("nl", pos) /\ Passed(pos + 1, TRUE)
  BY DEF LineFeed
<1>2. /\ Looked = PrevEnd + pos - 1 /\ Looked \in Nat /\ PrevEnd \in Nat /\ pos \in Nat
      /\ typed[Looked + 1] = "nl"
  BY <1>1, InBuffer
<1>3. Looked + 1 \in Nat \ {0} /\ Looked + 1 = PrevEnd + (pos + 1) - 1
  BY <1>2
<1>4. LineStart(Looked + 1 + 1)
  BY <1>2, <1>3, AfterLineFeed
<1>5. ASSUME escape = "esc", ~Cut
      PROVE  Unmet(Looked + 1, Consumed)
  <2>1. Unmet(Looked, Consumed)
    BY <1>1, <1>5 DEF StdinInv, LineInv, Scanning
  <2>2. ASSUME NEW i \in 1 .. Looked + 1, i < Consumed, LineStart(i), typed[i] = "esc"
        PROVE  typed[i + 1] # "dot" /\ (i = Looked + 1 => typed[i + 1] # "help")
    <3>1. i # Looked + 1
      BY <1>2, <2>2
    <3>2. i \in 1 .. Looked
      BY <1>2, <3>1
    <3>3. QED
      BY <2>1, <2>2, <3>1, <3>2 DEF Unmet
  <2>3. QED
    BY <2>2 DEF Unmet
<1>6. QED
  BY <1>1, <1>3, <1>4, <1>5, PassedOn

LEMMA HelpKnows == StdinInv /\ Help => LineInv'
<1> SUFFICES ASSUME StdinInv, Help
             PROVE  LineInv'
  OBVIOUS
<1> DEFINE P == Looked
<1>1. Scanning /\ at_line_start /\ Is("esc", pos) /\ Is("help", pos + 1)
  BY DEF Help, Escaped
<1>2. /\ P = PrevEnd + pos - 1 /\ P \in Nat /\ PrevEnd \in Nat /\ pos \in Nat
      /\ typed[P + 1] = "esc" /\ typed[P + 2] = "help"
      /\ Is("nl", pos + 2) => typed[P + 3] = "nl"
  BY <1>1, InBuffer, SMTT(30)
<1>3. ASSUME escape = "esc"
      PROVE  LineStart(P + 3)
  <2>1. LineStart(P + 1)
    BY <1>1, <1>3 DEF StdinInv, LineInv, Scanning
  <2>2. P + 1 \in Nat \ {0} /\ P + 1 + 1 = P + 2 /\ P + 1 + 2 = P + 3
    BY <1>2
  <2>3. QED
    BY <1>2, <2>1, <2>2, AfterHelp
<1>4. ASSUME escape = "esc", ~Cut, NEW looked \in Nat, looked = P + 2 \/ looked = P + 3,
             looked = P + 3 => typed[P + 3] = "nl"
      PROVE  Unmet(looked, Consumed)
  <2>1. Unmet(P, Consumed)
    BY <1>1, <1>4 DEF StdinInv, LineInv, Scanning
  <2>2. ASSUME NEW i \in 1 .. looked, i < Consumed, LineStart(i), typed[i] = "esc"
        PROVE  typed[i + 1] # "dot" /\ (i = looked => typed[i + 1] # "help")
    <3>1. i # P + 2 /\ (looked = P + 3 => i # P + 3)
      BY <1>2, <1>4, <2>2
    <3>2. i \in 1 .. P \/ i = P + 1
      BY <1>2, <1>4, <3>1
    <3>3. CASE i \in 1 .. P
      <4>1. i # looked
        BY <1>2, <1>4, <3>3
      <4>2. QED
        BY <2>1, <2>2, <3>3, <4>1 DEF Unmet
    <3>4. CASE i = P + 1
      <4>1. i # looked /\ i + 1 = P + 2
        BY <1>2, <1>4, <3>4
      <4>2. QED
        BY <1>2, <4>1
    <3>5. QED
      BY <3>2, <3>3, <3>4
  <2>3. QED
    BY <2>2 DEF Unmet
<1>5. CASE Is("nl", pos + 2)
  <2>1. Passed(pos + 3, TRUE)
    BY <1>5 DEF Help
  <2>2. P + 3 \in Nat /\ P + 3 = PrevEnd + (pos + 3) - 1 /\ P + 3 \in Nat \ {0}
    BY <1>2
  <2>3. LineStart(P + 3 + 1)
    BY <1>2, <1>5, <2>2, AfterLineFeed
  <2>4. escape = "esc" /\ ~Cut => Unmet(P + 3, Consumed)
    BY <1>2, <1>4, <1>5, <2>2
  <2>5. QED
    BY <1>1, <2>1, <2>2, <2>3, <2>4, PassedOn
<1>6. CASE ~Is("nl", pos + 2)
  <2>1. Passed(pos + 2, TRUE)
    BY <1>6 DEF Help
  <2>2. P + 2 \in Nat /\ P + 2 = PrevEnd + (pos + 2) - 1 /\ P + 2 + 1 = P + 3 /\ P + 2 # P + 3
    BY <1>2
  <2>3. escape = "esc" => LineStart(P + 2 + 1)
    BY <1>3, <2>2
  <2>4. escape = "esc" /\ ~Cut => Unmet(P + 2, Consumed)
    BY <1>4, <2>2
  <2>5. QED
    BY <1>1, <2>1, <2>2, <2>3, <2>4, PassedOn
<1>7. QED
  BY <1>5, <1>6

LEMMA DataKnows == StdinInv /\ Data => LineInv'
<1> SUFFICES ASSUME StdinInv, Data
             PROVE  LineInv'
  OBVIOUS
<1> DEFINE P == Looked
<1>1. Scanning /\ ~Is("nl", pos) /\ ~Escaped("help") /\ ~Escaped("dot") /\ Passed(pos + 1, FALSE)
  BY DEF Data
<1>2. /\ P = PrevEnd + pos - 1 /\ P \in Nat /\ P < Consumed /\ PrevEnd \in Nat /\ pos \in Nat
      /\ Consumed \in Nat /\ typed[P + 1] # "nl"
  BY <1>1, InBuffer
<1>3. ASSUME escape = "esc", ~Cut
      PROVE  ~LineStart(P + 1 + 1) /\ Unmet(P + 1, Consumed)
  <2>1. Unmet(P, Consumed) /\ (LineStart(P + 1) => at_line_start)
    BY <1>1, <1>3 DEF StdinInv, LineInv, Scanning
  <2>2. ASSUME LineStart(P + 2)
        PROVE  FALSE
    <3>1. P + 2 \in Nat \ {0} /\ P + 2 # 1 /\ P + 2 - 1 = P + 1 /\ P + 2 - 2 = P
      BY <1>2
    <3>2. P + 2 > 2 /\ LineStart(P) /\ typed[P] = "esc" /\ typed[P + 1] = "help"
      BY <1>2, <2>2, <3>1, BeforeLine
    <3>3. P \in 1 .. P
      BY <1>2, <3>2
    <3>4. QED
      BY <1>2, <2>1, <3>2, <3>3 DEF Unmet
  <2>3. ASSUME NEW i \in 1 .. P + 1, i < Consumed, LineStart(i), typed[i] = "esc"
        PROVE  typed[i + 1] # "dot" /\ (i = P + 1 => typed[i + 1] # "help")
    <3>1. CASE i = P + 1
      <4>1. at_line_start /\ Is("esc", pos) /\ P + 1 < Consumed /\ i + 1 = P + 2
        BY <1>1, <1>2, <2>1, <2>3, <3>1, InBuffer
      <4>2. ~Is("dot", pos + 1) /\ ~Is("help", pos + 1)
        BY <1>1, <4>1 DEF Escaped
      <4>3. QED
        BY <1>1, <4>1, <4>2, InBuffer
    <3>2. CASE i # P + 1
      <4>1. i \in 1 .. P
        BY <1>2, <3>2
      <4>2. QED
        BY <2>1, <2>3, <3>2, <4>1 DEF Unmet
    <3>3. QED
      BY <3>1, <3>2
  <2>4. P + 1 + 1 = P + 2
    BY <1>2
  <2>5. QED
    BY <2>2, <2>3, <2>4 DEF Unmet
<1>4. P + 1 \in Nat /\ P + 1 = PrevEnd + (pos + 1) - 1
  BY <1>2
<1>5. QED
  BY <1>1, <1>3, <1>4, PassedOn

\* A disconnect: "~." at the start of a line, in one read.
LEMMA DisconnectKnows == StdinInv /\ Terminate => LineInv'
<1> SUFFICES ASSUME StdinInv, Terminate
             PROVE  LineInv'
  OBVIOUS
<1> SUFFICES ASSUME escape = "esc"
             PROVE  \E i \in 1 .. Consumed - 1 : Met(i)
  <2>1. UNCHANGED <<input, reads>> /\ pump' = "disconnected"
    BY DEF Terminate
  <2>2. UNCHANGED <<escape, typed>> /\ Consumed' = Consumed
        /\ \A i : LineStart(i)' = LineStart(i) /\ SplitAt(i)' = SplitAt(i)
    BY <2>1, InputKept
  <2>3. \A i : Met(i)' = Met(i)
    BY <2>2 DEF Met
  <2>4. QED
    BY <2>1, <2>2, <2>3 DEF LineInv
<1> DEFINE P == Looked
<1>1. Scanning /\ at_line_start /\ Is("esc", pos) /\ Is("dot", pos + 1)
  BY DEF Terminate, Escaped
<1>2. /\ P \in Nat /\ P + 1 < Consumed /\ Consumed \in Nat /\ PrevEnd \in Nat
      /\ P = PrevEnd + pos - 1 /\ pos \in Nat \ {0}
      /\ typed[P + 1] = "esc" /\ typed[P + 2] = "dot"
  BY <1>1, InBuffer
<1>3. LineStart(P + 1)
  BY <1>1 DEF StdinInv, LineInv, Scanning
<1>4. ~SplitAt(P + 1)
  <2>1. SUFFICES ASSUME NEW r \in DOMAIN reads, reads[r] = P + 1
                 PROVE  FALSE
    BY DEF SplitAt
  <2>2. /\ reads \in Seq(DOMAIN typed) /\ Len(reads) \in Nat /\ r \in 1 .. Len(reads)
        /\ \A q \in 1 .. Len(reads) - 1 : reads[q] <= PrevEnd
    BY SMTT(30) DEF StdinInv, StdinTypeOK, ReadsInv
  <2>3. CASE r = Len(reads)
    <3>1. reads # << >>
      BY <2>2
    <3>2. Consumed = P + 1
      BY <2>1, <2>3, <3>1 DEF Consumed
    <3>3. QED
      BY <1>2, <3>2
  <2>4. CASE r # Len(reads)
    <3>1. r \in 1 .. Len(reads) - 1
      BY <2>2, <2>4
    <3>2. P + 1 <= PrevEnd
      BY <2>1, <2>2, <3>1
    <3>3. QED
      BY <1>2, <3>2
  <2>5. QED
    BY <2>3, <2>4
<1>5. P + 1 \in 1 .. Consumed - 1 /\ P + 1 + 1 = P + 2
  BY <1>2
<1>6. Met(P + 1)
  BY <1>2, <1>3, <1>4, <1>5 DEF Met
<1>7. QED
  BY <1>5, <1>6

\* A read: a sequence it finds begun, that may have been one, was cut.
LEMMA ReadKnows == StdinInv /\ Read => LineInv'
<1> SUFFICES ASSUME StdinInv, Read
             PROVE  LineInv'
  OBVIOUS
<1> SUFFICES ASSUME escape = "esc"
             PROVE  /\ at_line_start' => LineStart(Looked + 1)'
                    /\ ~Cut' => /\ LineStart(Looked + 1)' => at_line_start'
                                /\ Unmet(Looked, Consumed)'
  <2>1. pump' = "scanning" /\ escape' = escape
    BY DEF Read, input
  <2>2. QED
    BY <2>1 DEF LineInv
<1>1. /\ pump = "reading" /\ Consumed' \in Consumed + 1 .. Len(typed) /\ Consumed \in Nat
      /\ PrevEnd' = Consumed /\ UNCHANGED <<typed, at_line_start>>
  BY ReadMoves DEF input, StdinInv, ReadsInv
<1>2. Consumed' \in Nat /\ Consumed < Consumed'
  <2>1. \A n, c \in Nat : \A d \in c + 1 .. n : d \in Nat /\ c < d
    OBVIOUS
  <2>2. Len(typed) \in Nat
    BY DEF StdinInv, StdinTypeOK
  <2>3. QED
    BY <1>1, <2>1, <2>2
<1>3. /\ pos' = 1 /\ pump' = "scanning"
  <2>1. escape # None
    BY EscapeAssumption
  <2>2. QED
    BY <2>1 DEF Read
<1>4. Looked = Consumed /\ Looked' = Consumed
  BY <1>1, <1>3 DEF Looked
<1>5. \A i : LineStart(i)' = LineStart(i)
  BY <1>1 DEF LineStart
<1>6. LineStart(Looked + 1)' = LineStart(Looked + 1)
  BY <1>1, <1>4 DEF LineStart
<1>7. /\ at_line_start => LineStart(Looked + 1)
      /\ ~Cut => (LineStart(Looked + 1) => at_line_start) /\ Unmet(Looked, Consumed)
  BY <1>1 DEF StdinInv, LineInv
<1>8. /\ reads \in Seq(DOMAIN typed) /\ reads' \in Seq(DOMAIN typed) /\ Len(reads) \in Nat
      /\ Len(reads') = Len(reads) + 1
      /\ \A k \in 1 .. Len(reads) : reads'[k] = reads[k]
  <2>1. reads \in Seq(DOMAIN typed) /\ Len(reads) \in Nat
    BY DEF StdinInv, StdinTypeOK
  <2>2. QED
    BY <2>1, ReadMoves
<1>9. \A i : SplitAt(i) => SplitAt(i)'
  <2>1. ASSUME NEW r \in DOMAIN reads
        PROVE  r \in DOMAIN reads' /\ reads'[r] = reads[r]
    <3>1. r \in 1 .. Len(reads) /\ r \in 1 .. Len(reads')
      BY <1>8
    <3>2. DOMAIN reads' = 1 .. Len(reads')
      BY <1>8
    <3>3. QED
      BY <1>8, <3>1, <3>2
  <2>2. QED
    BY <2>1 DEF SplitAt
<1>10. Cut => Cut'
  <2>1. \A c, d \in Nat : c < d => \A i \in 1 .. c - 1 : i \in 1 .. d - 1
    OBVIOUS
  <2>2. \A i \in 1 .. Consumed - 1 : i \in 1 .. Consumed' - 1
    BY <1>1, <1>2, <2>1
  <2>3. QED
    BY <1>1, <1>9, <2>2 DEF Cut
<1>11. ASSUME ~Cut'
       PROVE  Consumed # 0 => typed[Consumed] # "esc"
  <2>1. SUFFICES ASSUME Consumed # 0, typed[Consumed] = "esc"
                 PROVE  Cut'
    BY <1>11
  <2>2. reads # << >> /\ reads[Len(reads)] = Consumed
    BY <2>1 DEF Consumed
  <2>3. Len(reads) \in DOMAIN reads
    BY <1>8, <2>2
  <2>4. SplitAt(Consumed)
    BY <2>2, <2>3 DEF SplitAt
  <2>5. ASSUME NEW c, c = Consumed
        PROVE  Cut'
    <3>1. SplitAt(c)'
      BY <1>9, <2>4, <2>5
    <3>2. c \in 1 .. Consumed' - 1
      <4>1. \A m, n \in Nat : m < n /\ m # 0 => m \in 1 .. n - 1
        OBVIOUS
      <4>2. QED
        BY <1>1, <1>2, <2>1, <2>5, <4>1
    <3>3. typed'[c] = "esc"
      BY <1>1, <2>1, <2>5
    <3>4. QED
      BY <3>1, <3>2, <3>3 DEF Cut
  <2>6. QED
    BY <2>5
<1>12. ASSUME ~Cut'
       PROVE  Unmet(Looked, Consumed)'
  <2>1. Unmet(Consumed, Consumed)
    BY <1>4, <1>7, <1>10, <1>12
  <2>2. ASSUME NEW i \in 1 .. Consumed, LineStart(i), typed[i] = "esc"
        PROVE  typed[i + 1] # "dot" /\ (i = Consumed => typed[i + 1] # "help")
    <3>1. i # Consumed
      BY <1>1, <1>11, <1>12, <2>2
    <3>2. i < Consumed
      BY <1>1, <3>1
    <3>3. QED
      BY <2>1, <2>2, <3>1, <3>2 DEF Unmet
  <2>3. QED
    BY <1>1, <1>4, <1>5, <2>2 DEF Unmet
<1>13. QED
  BY <1>1, <1>6, <1>7, <1>10, <1>12

LEMMA LineNext == StdinInv /\ [StdinNext]_stdinVars => LineInv'
<1> SUFFICES ASSUME StdinInv, [StdinNext]_stdinVars
             PROVE  LineInv'
  OBVIOUS
<1>1. LineInv
  BY DEF StdinInv
<1>2. CASE StdinEof \/ ReadFails
  <2>1. UNCHANGED <<input, reads, at_line_start>> /\ pump = "reading" /\ pump' = "ended"
    BY <1>2 DEF StdinEof, ReadFails, Reading, scanVars
  <2>2. /\ UNCHANGED <<escape, typed>> /\ Consumed' = Consumed /\ Cut' = Cut
        /\ \A i : LineStart(i)' = LineStart(i)
    BY <2>1, InputKept
  <2>3. Looked' = Looked
    BY <2>1, <2>2 DEF Looked
  <2>4. LineStart(Looked + 1)' = LineStart(Looked + 1)
    BY <2>2, <2>3 DEF LineStart
  <2>5. Unmet(Looked, Consumed)' = Unmet(Looked, Consumed)
    BY <2>2, <2>3 DEF Unmet
  <2>6. QED
    BY <1>1, <2>1, <2>2, <2>4, <2>5 DEF LineInv
<1>3. CASE Forward
  <2>1. UNCHANGED <<input, reads, at_line_start>> /\ pump' \in {"reading", "ended"}
        /\ pump = "scanning" /\ pos > Len(stream)
    BY <1>3 DEF Forward
  <2>2. /\ UNCHANGED <<escape, typed>> /\ Consumed' = Consumed /\ Cut' = Cut
        /\ \A i : LineStart(i)' = LineStart(i)
    BY <2>1, InputKept
  <2>3. Looked = Consumed
    <3>1. /\ pos \in 1 .. Len(stream) + 1 /\ Len(stream) = Consumed - PrevEnd
          /\ PrevEnd \in 0 .. Consumed - 1 /\ Consumed \in Nat
      BY <2>1 DEF StdinInv, StdinTypeOK, ReadsInv, SentInv
    <3>2. QED
      BY <2>1, <3>1 DEF Looked
  <2>4. Looked' = Looked
    BY <2>1, <2>2, <2>3 DEF Looked
  <2>5. LineStart(Looked + 1)' = LineStart(Looked + 1)
    BY <2>2, <2>4 DEF LineStart
  <2>6. Unmet(Looked, Consumed)' = Unmet(Looked, Consumed)
    BY <2>2, <2>4 DEF Unmet
  <2>7. QED
    BY <1>1, <2>1, <2>2, <2>5, <2>6 DEF LineInv
<1>4. CASE ChannelGoes \/ UNCHANGED stdinVars
  <2>1. UNCHANGED <<input, reads, at_line_start, pos, pump>>
    BY <1>4 DEF ChannelGoes, stdinVars, scanVars
  <2>2. /\ UNCHANGED <<escape, typed>> /\ Consumed' = Consumed /\ PrevEnd' = PrevEnd /\ Cut' = Cut
        /\ \A i : LineStart(i)' = LineStart(i) /\ SplitAt(i)' = SplitAt(i)
    BY <2>1, InputKept
  <2>3. Looked' = Looked
    BY <2>1, <2>2 DEF Looked
  <2>4. LineStart(Looked + 1)' = LineStart(Looked + 1)
    BY <2>2, <2>3 DEF LineStart
  <2>5. Unmet(Looked, Consumed)' = Unmet(Looked, Consumed)
    BY <2>2, <2>3 DEF Unmet
  <2>6. \A i : Met(i)' = Met(i)
    BY <2>2 DEF Met
  <2>7. QED
    BY <1>1, <2>1, <2>2, <2>4, <2>5, <2>6 DEF LineInv
<1>5. QED
  BY <1>2, <1>3, <1>4, LineFeedKnows, HelpKnows, DataKnows, DisconnectKnows, ReadKnows
     DEF StdinNext

LEMMA StdinInvariant == StdinSpec => []StdinInv
<1>1. StdinInv /\ [StdinNext]_stdinVars => StdinInv'
  BY ReadsNext, StdinTypes, SentNext, LineNext DEF StdinInv
<1>2. QED
  BY <1>1, StdinStart, PTL DEF StdinSpec

\* The buffer behind what the channel has, while it is scanned.
LEMMA SentAndStream ==
  ASSUME StdinInv, pump = "scanning"
  PROVE  /\ sent \o stream \in Seq(Bytes) /\ Len(sent \o stream) = Consumed
         /\ \A k \in 1 .. Consumed : (sent \o stream)[k] = typed[k]
<1>1. /\ sent \in Seq(Bytes) /\ stream \in Seq(Bytes) /\ Consumed \in Nat
      /\ PrevEnd \in 0 .. Consumed - 1 /\ Len(stream) = Consumed - PrevEnd
      /\ \A k \in 1 .. Len(stream) : stream[k] = typed[PrevEnd + k]
      /\ Len(sent) = PrevEnd /\ \A k \in 1 .. PrevEnd : sent[k] = typed[k]
  BY DEF StdinInv, StdinTypeOK, ReadsInv, SentInv, HasFirst
<1>2. /\ Len(sent \o stream) = Len(sent) + Len(stream) /\ sent \o stream \in Seq(Bytes)
      /\ \A k \in 1 .. Len(sent) + Len(stream) :
           (sent \o stream)[k] = IF k <= Len(sent) THEN sent[k] ELSE stream[k - Len(sent)]
  BY <1>1
<1>3. Len(sent) + Len(stream) = Consumed
  BY <1>1
<1>4. ASSUME NEW k \in 1 .. Consumed
      PROVE  (sent \o stream)[k] = typed[k]
  <2>1. CASE k <= PrevEnd
    <3>1. k \in 1 .. PrevEnd
      BY <1>1, <2>1
    <3>2. QED
      BY <1>1, <1>2, <1>3, <2>1, <3>1
  <2>2. CASE ~(k <= PrevEnd)
    <3>1. k - PrevEnd \in 1 .. Len(stream) /\ PrevEnd + (k - PrevEnd) = k
      BY <1>1, <2>2
    <3>2. stream[k - PrevEnd] = typed[k]
      BY <1>1, <3>1
    <3>3. QED
      BY <1>1, <1>2, <1>3, <2>2, <3>2
  <2>3. QED
    BY <2>1, <2>2
<1>5. QED
  BY <1>2, <1>3, <1>4

\* Whatever is typed and in whatever pieces it is read: the channel has the first
\* bytes of it, all of them but those the pump holds, or the last read when that
\* held a disconnect or the channel refused it (run_session's escape_pump).
THEOREM AllForwarded == StdinSpec => []ForwardsAll
<1>1. StdinInv => ForwardsAll
  <2> SUFFICES ASSUME StdinInv
               PROVE  ForwardsAll
    OBVIOUS
  <2>1. /\ typed \in Seq(Bytes) /\ Len(typed) \in Nat /\ sent \in Seq(Bytes)
        /\ Consumed \in 0 .. Len(typed) /\ (reads # << >> => PrevEnd \in 0 .. Consumed - 1)
        /\ pump \in {"reading", "scanning", "disconnected", "ended"} /\ SentInv
        /\ Len(reads) \in Nat
    BY DEF StdinInv, StdinTypeOK, ReadsInv
  <2>2. ASSUME NEW s \in Seq(Bytes), Len(s) \in 0 .. Len(typed),
               \A k \in 1 .. Len(s) : s[k] = typed[k]
        PROVE  s = SubSeq(typed, 1, Len(s))
    <3>1. /\ SubSeq(typed, 0 + 1, Len(s)) \in Seq(Bytes)
          /\ Len(SubSeq(typed, 0 + 1, Len(s))) = Len(s) - 0
          /\ \A k \in 1 .. Len(s) - 0 : SubSeq(typed, 0 + 1, Len(s))[k] = typed[0 + k]
      BY <2>1, <2>2, PartOfBytes
    <3>2. 0 + 1 = 1 /\ Len(s) - 0 = Len(s) /\ \A k \in 1 .. Len(s) : 0 + k = k
      BY <2>2
    <3>3. ASSUME NEW t \in Seq(Bytes), Len(t) = Len(s), \A k \in 1 .. Len(s) : s[k] = t[k]
          PROVE  s = t
      BY <2>2, <3>3
    <3>4. QED
      BY <2>2, <3>1, <3>2, <3>3
  <2>3. ASSUME NEW n \in 0 .. Len(typed), HasFirst(n)
        PROVE  sent = SubSeq(typed, 1, Len(sent)) /\ Len(sent) = n
    BY <2>1, <2>2, <2>3 DEF HasFirst
  <2>4. sent \o << >> = sent
    BY <2>1
  <2>5. CASE pump = "scanning"
    <3>1. sent \o stream = SubSeq(typed, 1, Len(sent \o stream)) /\ Len(sent \o stream) = Consumed
      BY <2>1, <2>2, <2>5, SentAndStream
    <3>2. QED
      BY <2>5, <3>1 DEF ForwardsAll
  <2>6. CASE pump = "reading" \/ (pump = "ended" /\ HasFirst(Consumed))
    <3>1. /\ sent = SubSeq(typed, 1, Len(sent)) /\ Len(sent) = Consumed
          /\ pump = "reading" => carry = << >>
      BY <2>1, <2>3, <2>6 DEF SentInv
    <3>2. QED
      BY <2>4, <2>6, <3>1 DEF ForwardsAll
  <2>7. CASE pump = "disconnected" \/ (pump = "ended" /\ ~HasFirst(Consumed))
    <3>1. reads # << >> /\ HasFirst(PrevEnd) /\ PrevEnd \in 0 .. Len(typed)
      BY <2>1, <2>7 DEF SentInv
    <3>2. /\ sent = SubSeq(typed, 1, Len(sent)) /\ Len(sent) = PrevEnd
          /\ pump = "ended" => gone
          /\ pump = "disconnected" => eof
      BY <2>1, <2>3, <2>7, <3>1 DEF SentInv
    <3>3. PrevEnd = IF Len(reads) < 2 THEN 0 ELSE reads[Len(reads) - 1]
      <4>1. Len(reads) # 0
        BY <3>1 DEF StdinInv, StdinTypeOK
      <4>2. \A n \in Nat : n # 0 => (n < 2 <=> n = 1)
        OBVIOUS
      <4>3. Len(reads) < 2 <=> Len(reads) = 1
        BY <2>1, <4>1, <4>2
      <4>4. QED
        BY <4>3 DEF PrevEnd
    <3>4. QED
      BY <2>4, <2>7, <3>2, <3>3 DEF ForwardsAll
  <2>8. QED
    BY <2>1, <2>5, <2>6, <2>7
<1>2. QED
  BY <1>1, StdinInvariant, PTL

\* With a PTY, whatever is typed and in whatever pieces it is read: only "~." at the
\* start of a line disconnects, and it always does unless a read has cut a sequence in two
\* (run_session's escape_pump, its at_line_start carried from read to read).
THEOREM DisconnectsWhereMeant == StdinSpec => []DisconnectsAtLineStart
<1>1. StdinInv => DisconnectsAtLineStart
  <2> SUFFICES ASSUME StdinInv, escape = "esc"
               PROVE  /\ pump = "disconnected" => \E i \in 1 .. Consumed - 1 : Met(i)
                      /\ pump \in {"reading", "ended"} /\ (\E i \in 1 .. Consumed - 1 : Met(i)) => Cut
    BY DEF DisconnectsAtLineStart, Met, Cut
  <2>1. LineInv /\ Consumed \in Nat
    BY DEF StdinInv, ReadsInv
  <2>2. ASSUME pump \in {"reading", "ended"}, NEW i \in 1 .. Consumed - 1, Met(i), ~Cut
        PROVE  FALSE
    <3>1. Unmet(Consumed, Consumed)
      BY <2>1, <2>2 DEF LineInv, Looked
    <3>2. i \in 1 .. Consumed /\ i < Consumed
      BY <2>1
    <3>3. QED
      BY <2>2, <3>1, <3>2 DEF Unmet, Met
  <2>3. QED
    BY <2>1, <2>2 DEF LineInv
<1>2. QED
  BY <1>1, StdinInvariant, PTL
==============================================================================
