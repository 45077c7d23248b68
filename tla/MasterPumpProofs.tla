--------------------------- MODULE MasterPumpProofs ---------------------------
(***************************************************************************)
(* For any frame order sshd may send: a client of a resume that is given   *)
(* an exit code has been given the whole output, and the remote command's  *)
(* code unless the status came after EOF or close.                         *)
(***************************************************************************)
EXTENDS MasterPump, FiniteSetTheorems, SequenceTheorems, TLAPS

-----------------------------------------------------------------------------
(* The channel: its frames counted, what a step of the connection task keeps *)
(* and what rx.wait() returns.  run_session and the pump of a resume both    *)
(* read one, and the proofs about either stand by themselves.                *)

\* rx.wait() has returned the first r frames of the script, and the queue holds
\* the next ones, up to the latest received or to what ended the queue.
ReadUpTo(r) ==
  LET q == r + Len(queue) IN
    /\ q <= seen
    /\ \A i \in 1 .. Len(queue) : queue[i] = script[r + i]
    /\ sender => q = seen
    /\ ~sender => q = Len(script) \/ (q < seen /\ script[q + 1] = "close")

ChannelInv == ChannelTypeOK /\ OutputFirst(script)

\* How a step changes the script: it may lose frames that were never received.
ScriptKept ==
  /\ seen <= seen' /\ seen' <= Len(script') /\ Len(script') <= Len(script)
  /\ \A k \in 1 .. Len(script') : script'[k] = script[k]

LEMMA DataInStep ==
  ASSUME NEW s, NEW n \in Nat
  PROVE  /\ DataIn(s, n) \in Nat
         /\ DataIn(s, n + 1) = DataIn(s, n) + IF s[n + 1] = "data" THEN 1 ELSE 0
<1> DEFINE D(m) == {k \in 1 .. m : s[k] = "data"}
<1>1. IsFiniteSet(D(n))
  <2>1. IsFiniteSet(1 .. n) /\ D(n) \in SUBSET (1 .. n)
    BY FS_Interval
  <2>2. QED
    BY <2>1, FS_Subset
<1>2. DataIn(s, n) \in Nat
  BY <1>1, FS_CardinalityType DEF DataIn
<1>3. CASE s[n + 1] = "data"
  <2>1. D(n + 1) = D(n) \cup {n + 1} /\ n + 1 \notin D(n)
    BY <1>3
  <2>2. QED
    BY <1>1, <1>2, <1>3, <2>1, FS_AddElement DEF DataIn
<1>4. CASE s[n + 1] # "data"
  <2>1. D(n + 1) = D(n)
    BY <1>4
  <2>2. QED
    BY <1>2, <1>4, <2>1 DEF DataIn
<1>5. QED
  BY <1>3, <1>4

LEMMA DataInSame ==
  ASSUME NEW s, NEW t, NEW m \in Nat, NEW n \in Nat, m <= n,
         \A k \in 1 .. m : s[k] = t[k], \A k \in m + 1 .. n : t[k] # "data"
  PROVE  DataIn(s, m) = DataIn(t, n)
<1>1. {k \in 1 .. m : s[k] = "data"} = {k \in 1 .. n : t[k] = "data"}
  OBVIOUS
<1>2. QED
  BY <1>1 DEF DataIn

\* What Init establishes and every step of the connection task preserves.
LEMMA ChannelInitInv == ChannelInit => ChannelInv /\ ReadUpTo(0)
<1> SUFFICES ASSUME ChannelInit
             PROVE  ChannelInv /\ ReadUpTo(0)
  OBVIOUS
<1>1. script \in Seq(Frames) /\ OutputFirst(script)
  BY ChannelAssumption DEF ChannelInit
<1>2. Len(queue) = 0 /\ queue \in Seq(Frames)
  BY DEF ChannelInit
<1>3. ReadUpTo(0)
  BY <1>2 DEF ChannelInit, ReadUpTo
<1>4. Len(script) \in Nat /\ seen \in 0 .. Len(script)
  BY <1>1 DEF ChannelInit
<1>5. sender \in BOOLEAN /\ callback \in BOOLEAN /\ recorded \in BOOLEAN
  BY DEF ChannelInit
<1>6. ChannelInv
  BY <1>1, <1>2, <1>4, <1>5 DEF ChannelInv, ChannelTypeOK
<1>7. QED
  BY <1>3, <1>6

LEMMA ChannelStep ==
  ASSUME ChannelInv, ChannelNext
  PROVE  ChannelInv' /\ ScriptKept /\ \A r \in Nat : ReadUpTo(r) => ReadUpTo(r)'
<1> USE DEF ChannelInv, ChannelTypeOK, ScriptKept, ReadUpTo
<1>1. CASE Receive
  <2> DEFINE frame == script[seen + 1]
  <2>1. frame \in Frames
    BY <1>1 DEF Receive
  <2>2. /\ script' = script /\ seen' = seen + 1 /\ seen' \in 0 .. Len(script)
        /\ sender' \in BOOLEAN /\ callback' \in BOOLEAN /\ recorded' \in BOOLEAN
    BY <1>1 DEF Receive
  <2>3. CASE sender'
    <3>1. sender /\ queue' = Append(queue, frame)
      BY <1>1, <2>3 DEF Receive
    <3>2. /\ queue' \in Seq(Frames) /\ Len(queue') = Len(queue) + 1
          /\ \A i \in 1 .. Len(queue) : queue'[i] = queue[i]
          /\ queue'[Len(queue) + 1] = frame
      BY <2>1, <3>1
    <3>3. ASSUME NEW r \in Nat, ReadUpTo(r)
          PROVE  ReadUpTo(r)'
      <4>1. \A i \in 1 .. Len(queue') : queue'[i] = script'[r + i]
        BY <2>2, <3>1, <3>2, <3>3
      <4>2. QED
        BY <2>2, <2>3, <3>1, <3>2, <3>3, <4>1
    <3>4. QED
      BY <2>2, <3>2, <3>3 DEF OutputFirst
  <2>4. CASE ~sender'
    <3>1. queue' = queue /\ (sender => frame = "close")
      BY <1>1, <2>4 DEF Receive
    <3>2. QED
      BY <2>2, <2>4, <3>1 DEF OutputFirst
  <2>5. QED
    BY <2>2, <2>3, <2>4
<1>2. CASE RunCallback
  <2>1. UNCHANGED <<script, seen, queue, sender>> /\ {callback', recorded'} \subseteq BOOLEAN
    BY <1>2 DEF RunCallback
  <2>2. QED
    BY <2>1 DEF OutputFirst
<1>3. CASE Disconnect
  <2>1. /\ script' \in Seq(Frames) /\ Len(script') = seen
        /\ \A k \in 1 .. seen : script'[k] = script[k]
    BY <1>3, SubSeqProperties DEF Disconnect
  <2>2. OutputFirst(script')
    <3>1. ASSUME NEW i \in 1 .. seen, NEW j \in 1 .. seen, i < j,
                 script'[i] \in {"eof", "close"}
          PROVE  script'[j] # "data"
      BY <2>1, <3>1, SMTT(30) DEF OutputFirst, Precedes
    <3>2. QED
      BY <2>1, <3>1 DEF OutputFirst, Precedes
  <2>3. /\ seen < Len(script) /\ sender' = FALSE
        /\ UNCHANGED <<seen, queue, callback, recorded>>
    BY <1>3 DEF Disconnect
  <2>4. ASSUME NEW r \in Nat, ReadUpTo(r)
        PROVE  ReadUpTo(r)'
    <3>1. \A i \in 1 .. Len(queue) : script'[r + i] = script[r + i]
      BY <2>1, <2>3, <2>4
    <3>2. QED
      BY <2>1, <2>3, <2>4, <3>1
  <2>5. ScriptKept
    BY <2>1, <2>3
  <2>6. ChannelInv'
    <3>1. {sender', callback', recorded'} \subseteq BOOLEAN /\ queue' \in Seq(Frames)
      BY <2>3
    <3>2. seen' \in 0 .. Len(script')
      BY <2>1, <2>3
    <3>3. OutputFirst(script)'
      BY <2>2
    <3>4. QED
      BY <2>1, <3>1, <3>2, <3>3
  <2>7. QED
    BY <2>4, <2>5, <2>6
<1>4. QED
  BY <1>1, <1>2, <1>3 DEF ChannelNext

\* What rx.wait() returns is the next frame of the script; None means that all has
\* been read, or all that came before the close.
LEMMA WaitStep ==
  ASSUME ChannelInv, NEW f, Wait(f), NEW r \in Nat, ReadUpTo(r)
  PROVE  /\ ChannelInv' /\ ScriptKept /\ ReadUpTo(r + 1)'
         /\ r < seen /\ script[r + 1] = f
<1> USE DEF ChannelInv, ChannelTypeOK, ReadUpTo, Wait
<1>1. /\ Len(queue) > 0 /\ f = queue[1]
      /\ queue' \in Seq(Frames) /\ Len(queue') = Len(queue) - 1
      /\ \A i \in 1 .. Len(queue') : queue'[i] = queue[i + 1]
  OBVIOUS
<1>2. \A i \in 1 .. Len(queue') : queue'[i] = script'[r + 1 + i]
  BY <1>1
<1>3. r < seen /\ script[r + 1] = f
  BY <1>1
<1>4. QED
  BY <1>1, <1>2, <1>3 DEF ScriptKept

LEMMA NoneStep ==
  ASSUME ChannelInv, WaitNone, NEW r \in Nat, ReadUpTo(r)
  PROVE  r <= seen /\ (r = Len(script) \/ (r < seen /\ script[r + 1] = "close"))
BY DEF ChannelInv, ChannelTypeOK, ReadUpTo, WaitNone

-----------------------------------------------------------------------------
(* The reader.                                                               *)

\* n is the number of data frames sshd sends, and all of them have arrived.
Complete(n) ==
  \E r \in 0 .. seen :
    /\ n = DataIn(script, r)
    /\ \A k \in r + 1 .. Len(script) : script[k] # "data"

\* Every status in the script comes after the end of the output.
LateStatus ==
  \A k \in 1 .. Len(script) :
    script[k] = "status" => \E j \in 1 .. k : script[j] \in {"eof", "close"}

\* Data frames the client has written or still has in the socket.
Given == shown + Len(socket) - (IF pump = "ended" THEN 1 ELSE 0)

\* The pump has passed on what it has read.
LoopInv ==
  \E r \in Nat :
    /\ ReadUpTo(r)
    /\ pump = "pump" =>
         /\ \A k \in 1 .. r : script[k] = "status" => code
         /\ client = "read" => Given = DataIn(script, r) /\ Given <= r

\* What a client that reads has in its socket: data frames, and after them the done
\* frame if it has been written.
WireInv ==
  client = "read" =>
    /\ Given \in shown .. seen
    /\ \A i \in 1 .. Len(socket) :
         socket[i] = "data" <=> ~(pump = "ended" /\ i = Len(socket))
    /\ pump = "ended" /\ socket[Len(socket)] = "done 0" => LateStatus
    /\ pump \in {"done", "ended"} => Complete(Given)

ExitInv == client = "exited" => Complete(shown) /\ (~result => LateStatus)

PumpInv ==
  /\ TypeOK
  /\ OutputFirst(script)
  /\ LoopInv
  /\ pump = "done" /\ ~code => LateStatus
  /\ WireInv
  /\ ExitInv

------------------------------------------------------------------------------
LEMMA PumpInvInit == Init => PumpInv
<1> SUFFICES ASSUME Init
             PROVE  PumpInv
  OBVIOUS
<1>1. ChannelInv /\ ReadUpTo(0)
  BY ChannelInitInv DEF Init
<1>2. DataIn(script, 0) = 0
  <2>1. {k \in 1 .. 0 : script[k] = "data"} = {}
    OBVIOUS
  <2>2. QED
    BY <2>1, FS_EmptySet DEF DataIn
<1>3. Given = 0
  BY DEF Init, Given
<1>4. LoopInv
  BY <1>1, <1>2, <1>3 DEF Init, LoopInv
<1>5. TypeOK
  <2>1. ChannelTypeOK /\ shown \in 0 .. seen
    BY <1>1 DEF Init, ChannelInv, ChannelTypeOK
  <2>2. code \in BOOLEAN /\ result \in BOOLEAN
    BY DEF Init
  <2>3. socket \in Seq(SocketFrames)
    BY DEF Init
  <2>4. QED
    BY <2>1, <2>2, <2>3 DEF Init, TypeOK
<1>6. WireInv
  <2>1. Given \in shown .. seen
    BY <1>3 DEF Init, ChannelInit
  <2>2. QED
    BY <2>1 DEF Init, WireInv
<1>7. QED
  BY <1>1, <1>4, <1>5, <1>6 DEF Init, PumpInv, ChannelInv, ExitInv

\* Frames that never arrive take nothing from what has.
LEMMA CompleteKept ==
  ASSUME ChannelInv, ChannelInv', ScriptKept, NEW n, Complete(n)
  PROVE  Complete(n)'
<1> USE DEF ChannelInv, ChannelTypeOK, ScriptKept
<1>1. PICK r \in 0 .. seen :
        /\ n = DataIn(script, r)
        /\ \A k \in r + 1 .. Len(script) : script[k] # "data"
  BY DEF Complete
<1>2. Len(script') \in Nat /\ r \in 0 .. seen' /\ r <= Len(script')
  OBVIOUS
<1>3. DataIn(script', r) = DataIn(script, r)
  BY <1>2, DataInSame
<1>4. ASSUME NEW k \in r + 1 .. Len(script')
      PROVE  script'[k] # "data"
  <2>1. k \in r + 1 .. Len(script) /\ k \in 1 .. Len(script')
    BY <1>2, <1>4
  <2>2. QED
    BY <1>1, <2>1
<1>5. QED
  BY <1>1, <1>2, <1>3, <1>4 DEF Complete

LEMMA LateStatusKept ==
  ASSUME ChannelInv, ChannelInv', ScriptKept, LateStatus
  PROVE  LateStatus'
<1> USE DEF ChannelInv, ChannelTypeOK, ScriptKept
<1> SUFFICES ASSUME NEW k \in 1 .. Len(script'), script'[k] = "status"
             PROVE  \E j \in 1 .. k : script'[j] \in {"eof", "close"}
  BY DEF LateStatus
<1>1. k \in 1 .. Len(script) /\ script[k] = "status"
  OBVIOUS
<1>2. PICK j \in 1 .. k : script[j] \in {"eof", "close"}
  BY <1>1 DEF LateStatus
<1>3. script'[j] = script[j]
  BY <1>1, <1>2
<1>4. QED
  BY <1>2, <1>3

\* The pump may stop at EOF and at the end of the queue.
LEMMA PumpMayStop ==
  ASSUME ChannelInv, NEW r \in 0 .. seen,
         \/ r = Len(script)
         \/ r < Len(script) /\ script[r + 1] \in {"eof", "close"}
  PROVE  /\ Complete(DataIn(script, r))
         /\ (\A k \in 1 .. r : script[k] # "status") => LateStatus
<1> USE DEF ChannelInv, ChannelTypeOK
<1>1. ASSUME NEW k \in r + 1 .. Len(script)
      PROVE  script[k] # "data"
  <2>1. r + 1 \in 1 .. Len(script) /\ script[r + 1] \in {"eof", "close"}
    BY <1>1
  <2>2. QED
    BY <1>1, <2>1 DEF OutputFirst, Precedes
<1>2. ASSUME \A k \in 1 .. r : script[k] # "status",
             NEW k \in 1 .. Len(script), script[k] = "status"
      PROVE  \E j \in 1 .. k : script[j] \in {"eof", "close"}
  BY <1>2
<1>3. QED
  BY <1>1, <1>2 DEF Complete, LateStatus

LEMMA PumpInvNext == PumpInv /\ [Next]_vars => PumpInv'
<1> SUFFICES ASSUME PumpInv, [Next]_vars
             PROVE  PumpInv'
  OBVIOUS
<1> USE DEF PumpInv
<1>1. ChannelInv
  BY DEF TypeOK, ChannelInv
<1>2. PICK r \in Nat :
        /\ ReadUpTo(r)
        /\ pump = "pump" =>
             /\ \A k \in 1 .. r : script[k] = "status" => code
             /\ client = "read" => Given = DataIn(script, r) /\ Given <= r
  BY DEF LoopInv
<1>3. r <= seen /\ seen <= Len(script) /\ {seen, Len(script)} \subseteq Nat
  BY <1>1, <1>2 DEF ChannelInv, ChannelTypeOK, ReadUpTo
<1>4. /\ socket \in Seq(SocketFrames) /\ Len(socket) \in Nat /\ shown \in Nat
      /\ \A i \in 1 .. Len(socket) : socket[i] \in SocketFrames
      /\ socket # <<>> => 1 \in 1 .. Len(socket) /\ Head(socket) = socket[1]
      /\ Given = IF pump = "ended" THEN shown + Len(socket) - 1 ELSE shown + Len(socket)
      /\ Given \in Int
  <2>1. socket \in Seq(SocketFrames) /\ shown \in Nat
    BY DEF TypeOK, ChannelTypeOK
  <2>2. Len(socket) \in Nat
    BY <2>1
  <2>3. Given = IF pump = "ended" THEN shown + Len(socket) - 1 ELSE shown + Len(socket)
    BY <2>1, <2>2 DEF Given
  <2>4. QED
    BY <2>1, <2>2, <2>3
<1>5. CASE Connection
  <2>1. ChannelInv' /\ ScriptKept /\ ReadUpTo(r)'
    BY <1>1, <1>2, <1>5, ChannelStep DEF Connection
  <2>2. UNCHANGED endVars /\ Given' = Given
    BY <1>5 DEF Connection, endVars, Given
  <2>3. TypeOK'
    BY <2>1, <2>2 DEF TypeOK, endVars, ChannelInv, ChannelTypeOK, ScriptKept
  <2>4. LoopInv'
    <3>1. \A k \in 1 .. r : script'[k] = script[k]
      BY <1>3, <2>1 DEF ScriptKept, ChannelInv, ChannelTypeOK
    <3>2. DataIn(script', r) = DataIn(script, r)
      BY <3>1, DataInSame
    <3>3. QED
      BY <1>2, <2>1, <2>2, <3>1, <3>2 DEF LoopInv, endVars
  <2>5. LateStatus => LateStatus'
    BY <1>1, <2>1, LateStatusKept
  <2>6. (Complete(Given) => Complete(Given)') /\ (Complete(shown) => Complete(shown)')
    <3>1. \A n : Complete(n) => Complete(n)'
      BY <1>1, <2>1, CompleteKept
    <3>2. \A n : n = Given => (Complete(n)' <=> Complete(Given)')
      BY <2>2 DEF Complete
    <3>3. \A n : n = shown => (Complete(n)' <=> Complete(shown)')
      BY <2>2 DEF Complete, endVars
    <3>4. QED
      BY <3>1, <3>2, <3>3
  <2>7. WireInv'
    <3>1. UNCHANGED <<client, pump, socket, shown>>
      BY <2>2 DEF endVars
    <3>2. seen <= seen' /\ seen' \in Nat
      BY <2>1 DEF ScriptKept, ChannelInv, ChannelTypeOK
    <3>3. Given \in shown .. seen => Given' \in shown' .. seen'
      BY <1>3, <1>4, <2>2, <3>1, <3>2
    <3>4. QED
      BY <2>2, <2>5, <2>6, <3>1, <3>3 DEF WireInv
  <2>8. ExitInv'
    BY <2>2, <2>5, <2>6 DEF ExitInv, endVars
  <2>9. QED
    BY <2>1, <2>2, <2>3, <2>4, <2>5, <2>7, <2>8 DEF endVars, ChannelInv
<1>6. CASE PumpData
  <2>1. /\ Wait("data") /\ pump = "pump"
        /\ UNCHANGED <<code, client, shown, result>>
    BY <1>6 DEF PumpData
  <2>2. /\ ChannelInv' /\ ReadUpTo(r + 1)' /\ r < seen /\ script[r + 1] = "data"
        /\ UNCHANGED <<script, seen, sender, callback, recorded>>
    BY <1>1, <1>2, <2>1, WaitStep DEF Wait
  <2>3. CASE client = "killed"
    <3>1. pump' = "aborted" /\ UNCHANGED socket
      BY <1>6, <2>3 DEF PumpData
    <3>2. TypeOK'
      BY <2>1, <2>2, <3>1 DEF TypeOK, ChannelInv
    <3>3. QED
      BY <2>1, <2>2, <2>3, <3>1, <3>2 DEF LoopInv, WireInv, ExitInv, ChannelInv
  <2>4. CASE client # "killed"
    <3>1. socket' = Append(socket, "data") /\ pump' = "pump"
      BY <1>6, <2>1, <2>4 DEF PumpData
    <3>2. /\ socket' \in Seq(SocketFrames) /\ Len(socket') = Len(socket) + 1
          /\ \A i \in 1 .. Len(socket) : socket'[i] = socket[i]
          /\ socket'[Len(socket) + 1] = "data"
      <4>1. "data" \in SocketFrames
        BY DEF SocketFrames
      <4>2. QED
        BY <1>4, <3>1, <4>1
    <3>3. TypeOK'
      BY <2>1, <2>2, <3>1, <3>2 DEF TypeOK, ChannelInv
    <3>4. Given' = Given + 1
      BY <1>4, <2>1, <3>1, <3>2 DEF Given
    <3>5. DataIn(script, r + 1) = DataIn(script, r) + 1
      BY <2>2, DataInStep
    <3>6. LoopInv'
      <4>1. \A k \in 1 .. r + 1 : script'[k] = "status" => code'
        BY <1>2, <2>1, <2>2
      <4>2. client' = "read" => Given' = DataIn(script', r + 1) /\ Given' <= r + 1
        BY <1>2, <1>4, <2>1, <2>2, <3>4, <3>5
      <4>3. r + 1 \in Nat
        OBVIOUS
      <4>4. QED
        BY <2>2, <4>1, <4>2, <4>3 DEF LoopInv
    <3>7. WireInv'
      <4>1. client = "read" => Given + 1 \in shown .. seen
        BY <1>2, <1>3, <1>4, <2>1, <2>2 DEF WireInv
      <4>2. client = "read" => \A i \in 1 .. Len(socket') : socket'[i] = "data"
        BY <1>4, <2>1, <3>2 DEF WireInv
      <4>3. QED
        BY <2>1, <2>2, <3>1, <3>4, <4>1, <4>2 DEF WireInv
    <3>8. ExitInv'
      BY <2>1, <2>2 DEF ExitInv, Complete, LateStatus
    <3>9. QED
      BY <2>1, <2>2, <3>1, <3>3, <3>6, <3>7, <3>8 DEF ChannelInv
  <2>5. QED
    BY <2>3, <2>4
<1>7. CASE PumpStatus
  <2>1. /\ Wait("status") /\ pump = "pump" /\ code' = TRUE
        /\ UNCHANGED <<pump, socket, client, shown, result>>
    BY <1>7 DEF PumpStatus
  <2>2. /\ ChannelInv' /\ ReadUpTo(r + 1)' /\ r < seen /\ script[r + 1] = "status"
        /\ UNCHANGED <<script, seen, sender, callback, recorded>>
    BY <1>1, <1>2, <2>1, WaitStep DEF Wait
  <2>3. TypeOK'
    BY <2>1, <2>2 DEF TypeOK, ChannelInv
  <2>4. DataIn(script, r + 1) = DataIn(script, r)
    BY <2>2, DataInStep
  <2>5. Given' = Given
    BY <2>1 DEF Given
  <2>6. LoopInv'
    BY <1>2, <1>4, <2>1, <2>2, <2>4, <2>5 DEF LoopInv
  <2>7. WireInv' /\ ExitInv'
    BY <2>1, <2>2, <2>5 DEF WireInv, ExitInv, Complete, LateStatus
  <2>8. QED
    BY <2>1, <2>2, <2>3, <2>6, <2>7 DEF ChannelInv
<1>8. CASE PumpEnd
  <2>1. /\ pump = "pump" /\ pump' = "done"
        /\ UNCHANGED <<code, socket, client, shown, result>>
        /\ UNCHANGED <<script, seen, sender, callback, recorded>>
    BY <1>8 DEF PumpEnd, Wait, WaitNone, channelVars
  <2>2. \E n \in Nat : ChannelInv' /\ ReadUpTo(n)'
    <3>1. CASE Wait("eof")
      BY <1>1, <1>2, <3>1, WaitStep
    <3>2. CASE WaitNone
      BY <1>1, <1>2, <3>2 DEF WaitNone, channelVars, ChannelInv, ChannelTypeOK, ReadUpTo
    <3>3. QED
      BY <1>8, <3>1, <3>2 DEF PumpEnd
  <2>3. \/ r = Len(script)
        \/ r < Len(script) /\ script[r + 1] \in {"eof", "close"}
    <3>1. CASE Wait("eof")
      BY <1>1, <1>2, <1>3, <3>1, WaitStep
    <3>2. CASE WaitNone
      BY <1>1, <1>2, <1>3, <3>2, NoneStep
    <3>3. QED
      BY <1>8, <3>1, <3>2 DEF PumpEnd
  <2>4. /\ Complete(DataIn(script, r))
        /\ (\A k \in 1 .. r : script[k] # "status") => LateStatus
    BY <1>1, <1>3, <2>3, PumpMayStop
  <2>5. TypeOK'
    BY <2>1, <2>2 DEF TypeOK, ChannelInv
  <2>6. Given' = Given
    BY <2>1 DEF Given
  <2>7. client = "read" => Complete(Given)
    BY <1>2, <2>1, <2>4
  <2>8. ~code => LateStatus
    BY <1>2, <2>1, <2>4
  <2>9. WireInv' /\ ExitInv' /\ LateStatus' = LateStatus
    BY <2>1, <2>6, <2>7 DEF WireInv, ExitInv, Complete, LateStatus
  <2>10. QED
    BY <2>1, <2>2, <2>5, <2>8, <2>9 DEF LoopInv, ChannelInv
<1>9. CASE WriteDone
  <2>1. pump = "done" /\ UNCHANGED <<channelVars, code, client, shown, result>>
    BY <1>9 DEF WriteDone
  <2>2. CASE client = "killed"
    <3>1. pump' = "aborted" /\ UNCHANGED socket
      BY <1>9, <2>2 DEF WriteDone
    <3>2. TypeOK'
      BY <2>1, <3>1 DEF TypeOK, channelVars, ChannelTypeOK
    <3>3. QED
      BY <1>2, <2>1, <2>2, <3>1, <3>2
         DEF channelVars, LoopInv, ReadUpTo, WireInv, ExitInv
  <2>3. CASE client # "killed"
    <3> DEFINE last == IF code THEN "done code" ELSE "done 0"
    <3>1. socket' = Append(socket, last) /\ pump' = "ended"
      BY <1>9, <2>3 DEF WriteDone
    <3>2. /\ socket' \in Seq(SocketFrames) /\ Len(socket') = Len(socket) + 1
          /\ \A i \in 1 .. Len(socket) : socket'[i] = socket[i]
          /\ socket'[Len(socket) + 1] = last /\ last # "data"
      <4>1. last \in SocketFrames /\ last # "data"
        BY DEF SocketFrames
      <4> HIDE DEF last
      <4>2. QED
        BY <1>4, <3>1, <4>1
    <3>3. TypeOK'
      BY <2>1, <3>1, <3>2 DEF TypeOK, channelVars, ChannelTypeOK
    <3>4. Given' = Given
      <4>1. Len(socket') = Len(socket) + 1 /\ shown' = shown
        BY <2>1, <3>2
      <4>2. Given' = shown + (Len(socket) + 1) - 1
        BY <3>1, <4>1 DEF Given
      <4>3. QED
        BY <1>4, <2>1, <4>2
    <3>5. LoopInv'
      BY <1>2, <2>1, <3>1 DEF channelVars, LoopInv, ReadUpTo
    <3>6. WireInv'
      <4>1. ASSUME client = "read", NEW i \in 1 .. Len(socket')
            PROVE  socket'[i] = "data" <=> i # Len(socket')
        <5>1. CASE i = Len(socket')
          BY <3>2, <5>1
        <5>2. CASE i \in 1 .. Len(socket)
          BY <1>4, <2>1, <3>2, <4>1, <5>2 DEF WireInv
        <5>3. i = Len(socket') \/ i \in 1 .. Len(socket)
          <6>1. Len(socket) \in Nat /\ Len(socket') = Len(socket) + 1
            BY <1>4, <3>2
          <6>2. QED
            BY <6>1
        <5>4. QED
          BY <5>1, <5>2, <5>3
      <4>2. last = "done 0" => LateStatus
        BY <2>1
      <4>3. client = "read" => Given \in shown .. seen /\ Complete(Given)
        BY <2>1 DEF WireInv
      <4>4. LateStatus' = LateStatus /\ Complete(Given)' = Complete(Given)
        BY <2>1, <3>4 DEF channelVars, LateStatus, Complete
      <4>5. QED
        BY <2>1, <3>1, <3>2, <3>4, <4>1, <4>2, <4>3, <4>4 DEF WireInv, channelVars
    <3>7. ExitInv'
      BY <2>1 DEF channelVars, ExitInv, Complete, LateStatus
    <3>8. QED
      BY <2>1, <3>1, <3>3, <3>5, <3>6, <3>7 DEF channelVars
  <2>4. QED
    BY <2>2, <2>3
<1>10. CASE MasterStops
  <2>1. /\ pump \in {"pump", "done"} /\ pump' = "aborted"
        /\ UNCHANGED <<channelVars, code, socket, client, shown, result>>
    BY <1>10 DEF MasterStops
  <2>2. TypeOK' /\ OutputFirst(script)' /\ Given' = Given
    BY <2>1 DEF TypeOK, channelVars, ChannelTypeOK, Given
  <2>3. LoopInv'
    BY <1>2, <2>1 DEF channelVars, LoopInv, ReadUpTo
  <2>4. WireInv' /\ ExitInv'
    BY <2>1, <2>2 DEF channelVars, WireInv, ExitInv, Complete, LateStatus
  <2>5. QED
    BY <2>1, <2>2, <2>3, <2>4
<1>11. CASE ClientData
  <2>1. /\ client = "read" /\ socket # <<>> /\ socket[1] = "data"
        /\ socket' = Tail(socket) /\ shown' = shown + 1
        /\ UNCHANGED <<channelVars, pump, code, client, result>>
    BY <1>11 DEF ClientData, TypeOK
  <2>2. /\ socket' \in Seq(SocketFrames) /\ Len(socket') = Len(socket) - 1
        /\ \A i \in 1 .. Len(socket') : socket'[i] = socket[i + 1]
    BY <2>1 DEF TypeOK
  <2>3. Given' = Given /\ Len(socket') \in Nat
    BY <1>4, <2>1, <2>2 DEF Given
  <2>4. Given' \in shown' .. seen'
    <3>1. 1 \in 1 .. Len(socket) /\ Given \in shown .. seen
      BY <1>4, <2>1 DEF WireInv
    <3>2. pump = "ended" => Len(socket) # 1
      BY <2>1, <3>1 DEF WireInv
    <3>3. shown + 1 <= Given
      <4>1. CASE pump = "ended"
        <5>1. Len(socket) \in Nat /\ Len(socket) >= 2 /\ shown \in Nat
          <6>1. Len(socket) \in Nat /\ shown \in Nat /\ Len(socket) # 1
            BY <1>4, <3>2, <4>1
          <6>2. Len(socket) # 0
            BY <3>1, <6>1
          <6>3. \A n \in Nat : n # 0 /\ n # 1 => n >= 2
            OBVIOUS
          <6>4. QED
            BY <6>1, <6>2, <6>3, Zenon
        <5>2. Given = shown + Len(socket) - 1
          BY <1>4, <4>1
        <5>3. QED
          BY <5>1, <5>2
      <4>2. CASE pump # "ended"
        BY <1>4, <3>1, <4>2
      <4>3. QED
        BY <4>1, <4>2
    <3>4. QED
      BY <1>3, <1>4, <2>1, <2>3, <3>1, <3>3 DEF channelVars
  <2>5. TypeOK'
    <3>1. shown' \in 0 .. seen'
      BY <1>3, <1>4, <2>1, <2>4 DEF channelVars
    <3>2. QED
      BY <2>1, <2>2, <3>1 DEF TypeOK, channelVars, ChannelTypeOK
  <2>6. LoopInv'
    BY <1>2, <2>1, <2>3 DEF channelVars, LoopInv, ReadUpTo
  <2>7. WireInv'
    <3>1. ASSUME NEW i \in 1 .. Len(socket')
          PROVE  socket'[i] = "data" <=> ~(pump = "ended" /\ i = Len(socket'))
      <4>1. i + 1 \in 1 .. Len(socket) /\ (i = Len(socket') <=> i + 1 = Len(socket))
        BY <1>4, <2>2
      <4>2. QED
        BY <2>1, <2>2, <4>1 DEF WireInv
    <3>2. pump = "ended" => Len(socket') > 0 /\ socket'[Len(socket')] = socket[Len(socket)]
      <4>1. pump = "ended" => Len(socket) # 1
        <5>1. 1 \in 1 .. Len(socket)
          BY <1>4, <2>1
        <5>2. QED
          BY <2>1, <5>1 DEF WireInv
      <4>2. QED
        BY <1>4, <2>1, <2>2, <2>3, <4>1
    <3>3. QED
      BY <2>1, <2>3, <2>4, <3>1, <3>2 DEF WireInv, channelVars, Complete, LateStatus
  <2>8. QED
    BY <2>1, <2>5, <2>6, <2>7 DEF channelVars, ExitInv, LateStatus
<1>12. CASE ClientDone
  <2>1. /\ client = "read" /\ socket # <<>> /\ socket[1] # "data"
        /\ socket' = Tail(socket) /\ client' = "exited"
        /\ UNCHANGED <<channelVars, pump, code, shown>>
    BY <1>4, <1>12, Zenon DEF ClientDone
  <2>2. /\ socket' \in Seq(SocketFrames) /\ 1 \in 1 .. Len(socket)
        /\ socket[1] \in {"done code", "done 0"}
    <3>1. 1 \in 1 .. Len(socket)
      BY <1>4, <2>1
    <3>2. socket[1] \in SocketFrames /\ socket' \in Seq(SocketFrames)
      BY <1>4, <2>1, <3>1
    <3>3. QED
      BY <2>1, <3>1, <3>2 DEF SocketFrames
  <2>3. pump = "ended" /\ Len(socket) = 1
    BY <2>1, <2>2 DEF WireInv
  <2>4. Given = shown
    BY <1>4, <2>3 DEF Given
  <2>5. result' \in BOOLEAN /\ (~result' => socket[1] = "done 0")
    <3>1. result' = (socket[1] = "done code")
      BY <1>4, <1>12, Zenon DEF ClientDone
    <3>2. QED
      BY <2>2, <3>1, Zenon
  <2>6. TypeOK'
    BY <2>1, <2>2, <2>5 DEF TypeOK, channelVars, ChannelTypeOK
  <2>7. LoopInv'
    BY <1>2, <2>1 DEF channelVars, LoopInv, ReadUpTo
  <2>8. Complete(shown) /\ (~result' => LateStatus)
    BY <2>1, <2>3, <2>4, <2>5 DEF WireInv
  <2>9. ExitInv'
    BY <2>1, <2>8 DEF channelVars, ExitInv, Complete, LateStatus
  <2>10. QED
    BY <2>1, <2>3, <2>6, <2>7, <2>9 DEF channelVars, WireInv
<1>13. CASE ClientEof \/ ClientKilled
  <2>1. /\ client' \in {"error", "killed"}
        /\ UNCHANGED <<channelVars, pump, code, socket, shown, result>>
    BY <1>13 DEF ClientEof, ClientKilled
  <2>2. TypeOK' /\ OutputFirst(script)'
    BY <2>1 DEF TypeOK, channelVars, ChannelTypeOK
  <2>3. LoopInv'
    BY <1>2, <2>1 DEF channelVars, LoopInv, ReadUpTo
  <2>4. QED
    BY <2>1, <2>2, <2>3 DEF channelVars, WireInv, ExitInv, LateStatus
<1>14. CASE UNCHANGED vars
  <2>1. TypeOK' /\ OutputFirst(script)' /\ Given' = Given
    BY <1>14 DEF vars, TypeOK, ChannelTypeOK, Given
  <2>2. LoopInv'
    BY <1>2, <1>14, <2>1 DEF vars, LoopInv, ReadUpTo
  <2>3. QED
    BY <1>14, <2>1, <2>2 DEF vars, WireInv, ExitInv, Complete, LateStatus
<1>15. QED
  BY <1>5, <1>6, <1>7, <1>8, <1>9, <1>10, <1>11, <1>12, <1>13, <1>14 DEF Next, Pump, Client

\* The values the model's variables take.
THEOREM TypeCorrect == Spec => []TypeOK
<1>1. PumpInv => TypeOK
  BY DEF PumpInv
<1>2. QED
  BY <1>1, PumpInvInit, PumpInvNext, PTL DEF Spec

\* A client that exits with a code has written all the output of the command.
THEOREM OutputKept == Spec => []ResumeKeepsOutput
<1>1. PumpInv => ResumeKeepsOutput
  <2> SUFFICES ASSUME PumpInv, client = "exited"
               PROVE  shown = DataIn(script, Len(script))
    BY DEF ResumeKeepsOutput
  <2>1. PICK r \in 0 .. seen :
          /\ shown = DataIn(script, r)
          /\ \A k \in r + 1 .. Len(script) : script[k] # "data"
    BY DEF PumpInv, ExitInv, Complete
  <2>2. QED
    BY <2>1, DataInSame DEF PumpInv, TypeOK, ChannelTypeOK
<1>2. QED
  BY <1>1, PumpInvInit, PumpInvNext, PTL DEF Spec

\* Its code is the remote command's when the status came before EOF and close.
THEOREM StatusKept == Spec => []EarlyStatusReported
<1>1. PumpInv => EarlyStatusReported
  <2> SUFFICES ASSUME PumpInv, client = "exited", ~result,
                      NEW k \in 1 .. Len(script), script[k] = "status"
               PROVE  Precedes(script, "eof", "status") \/ Precedes(script, "close", "status")
    BY DEF EarlyStatusReported, Sends
  <2>1. PICK j \in 1 .. k : script[j] \in {"eof", "close"}
    BY DEF PumpInv, ExitInv, LateStatus
  <2>2. j < k /\ j \in 1 .. Len(script)
    BY <2>1
  <2>3. QED
    BY <2>1, <2>2 DEF Precedes
<1>2. QED
  BY <1>1, PumpInvInit, PumpInvNext, PTL DEF Spec
==============================================================================
