----------------------------- MODULE RusshChannel -----------------------------
(***************************************************************************)
(* One SSH session channel as passhrs sees it: the frames sshd sends, the  *)
(* russh connection task that receives them, the FIFO queue rx.wait()      *)
(* reads, and the Handler::exit_status callback with the map it fills.     *)
(* russh itself is external: it is modelled from how ssh.rs and control.rs *)
(* use it and from what their comments rely on.                            *)
(***************************************************************************)
EXTENDS Integers, Sequences, FiniteSets

CONSTANTS
  Scripts,      \* the frame sequences sshd may send on the channel
  ConnMayDrop   \* the transport can be lost before the script ends

Frames == {"data", "eof", "status", "close"}

\* Data frames among the first n of a script.
DataIn(s, n) == Cardinality({k \in 1 .. n : s[k] = "data"})
Sends(s, frame) == \E k \in 1 .. Len(s) : s[k] = frame
Precedes(s, f, g) == \E i, j \in 1 .. Len(s) : i < j /\ s[i] = f /\ s[j] = g

\* A side that has sent EOF or CLOSE sends no more data (RFC 4254, 5.3): both
\* readers of the channel take EOF and None for the end of the output.
OutputFirst(s) == ~Precedes(s, "eof", "data") /\ ~Precedes(s, "close", "data")

ASSUME ChannelAssumption ==
  /\ \A s \in Scripts : s \in Seq(Frames) /\ OutputFirst(s)
  /\ ConnMayDrop \in BOOLEAN

VARIABLES
  script,     \* what sshd sends on this channel; cut short if the connection ends
  seen,       \* how many of its frames the connection task has received
  queue,      \* received and not yet read by rx.wait()
  sender,     \* the queue's sender is alive: neither closed nor disconnected
  callback,   \* Handler::exit_status is about to run for a received status
  recorded    \* record_exit_status has put the status in the handler's map

channelVars == <<script, seen, queue, sender, callback, recorded>>

ChannelTypeOK ==
  /\ script \in Seq(Frames)
  /\ seen \in 0 .. Len(script)
  /\ queue \in Seq(Frames)
  /\ {sender, callback, recorded} \subseteq BOOLEAN

ChannelInit ==
  /\ script \in Scripts
  /\ seen = 0
  /\ queue = <<>>
  /\ sender = TRUE
  /\ callback = FALSE
  /\ recorded = FALSE

\* The next frame arrives.  Close removes the channel, which drops the sender;
\* any other frame is queued while the sender lives.  A status is handed to the
\* callback afterwards, whether or not there was a queue to put it in.
Receive ==
  /\ seen < Len(script)
  /\ ~callback
  /\ seen' = seen + 1
  /\ LET frame == script[seen + 1] IN
       /\ sender' = (sender /\ frame # "close")
       /\ queue' = IF sender' THEN Append(queue, frame) ELSE queue
       /\ callback' = (frame = "status")
  /\ UNCHANGED <<script, recorded>>

\* Handler::exit_status -> record_exit_status.
RunCallback ==
  /\ callback
  /\ callback' = FALSE
  /\ recorded' = TRUE
  /\ UNCHANGED <<script, seen, queue, sender>>

\* The connection ends: nothing more arrives, and every sender is dropped.
Disconnect ==
  /\ ConnMayDrop
  /\ ~callback
  /\ seen < Len(script)
  /\ script' = SubSeq(script, 1, seen)
  /\ sender' = FALSE
  /\ UNCHANGED <<seen, queue, callback, recorded>>

ChannelNext == Receive \/ RunCallback \/ Disconnect

\* rx.wait() returns the frame, or None once the queue is drained for good.
Wait(frame) ==
  /\ queue # <<>>
  /\ frame = Head(queue)
  /\ queue' = Tail(queue)
  /\ UNCHANGED <<script, seen, sender, callback, recorded>>

WaitNone ==
  /\ queue = <<>>
  /\ ~sender
  /\ UNCHANGED channelVars
==============================================================================
