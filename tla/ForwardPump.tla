------------------------------ MODULE ForwardPump ------------------------------
(***************************************************************************)
(* The pair of tasks that relays one connection: c2s from the SSH channel  *)
(* to a byte stream, s2c back.  The code has it six times: -L, -D, -H, -R, *)
(* the agent socket of -A, and -W, where the stream is the process's own   *)
(* stdin and stdout.  The pairs differ only in whether somebody joins the  *)
(* tasks.  Each task is named by the side it copies from.                  *)
(***************************************************************************)
EXTENDS Integers

CONSTANT Blocks   \* side -> blocks its peer may send

Sides == {"channel", "stream"}

ASSUME PumpAssumption == Blocks \in [Sides -> Nat]

VARIABLES
  waits,      \* the sides whose peer ends only after it has read EOF itself
  sent,       \* side -> blocks of its peer that have arrived
  finished,   \* the sides whose peer has ended its direction
  broken,     \* the sides whose transport is gone: reset, closed, disconnected
  start,      \* blocks that had been read from the stream when the tasks began
  read,       \* blocks that have been read from it
  got,        \* side -> blocks of the other side that reached its peer
  told,       \* ctx.eof() has been sent to the channel's peer
  task        \* side -> the task that copies from it: "copying" or "ended"

pumpVars == <<waits, sent, finished, broken, start, read, got, told, task>>
peerVars == <<waits, sent, finished, broken, start>>

PumpTypeOK ==
  /\ waits \subseteq Sides
  /\ sent \in [Sides -> Nat] /\ \A s \in Sides : sent[s] <= Blocks[s]
  /\ finished \subseteq Sides
  /\ broken \subseteq Sides
  /\ read \in 0 .. sent["stream"]
  /\ start \in 0 .. read
  /\ got \in [Sides -> Nat]
  /\ got["channel"] <= read - start /\ got["stream"] <= sent["channel"]
  /\ told \in BOOLEAN
  /\ task \in [Sides -> {"copying", "ended"}]

PumpInit ==
  /\ waits \in SUBSET Sides
  /\ sent = [s \in Sides |-> 0]
  /\ finished = {}
  /\ broken = {}
  /\ start = 0 /\ read = 0
  /\ got = [s \in Sides |-> 0]
  /\ told = FALSE
  /\ task = [s \in Sides |-> "copying"]

End(s) == task' = [task EXCEPT ![s] = "ended"]
Reach(s) == got' = [got EXCEPT ![s] = @ + 1]

\* The halves of a split stream share it: only when both tasks have dropped
\* theirs is it closed, and its peer reads EOF.
StreamClosed == \A s \in Sides : task[s] = "ended"

------------------------------------------------------------------------------
(* c2s *)

\* stx.write_all: an error ends the task.
ToStream ==
  /\ task["channel"] = "copying"
  /\ got["stream"] < sent["channel"]
  /\ IF "stream" \in broken
     THEN End("channel") /\ UNCHANGED got
     ELSE Reach("stream") /\ UNCHANGED task
  /\ UNCHANGED <<peerVars, read, told>>

\* Mutant: only the end of the channel ends the task, its EOF does not.
ToStreamEndsAtNone ==
  /\ task["channel"] = "copying"
  /\ got["stream"] = sent["channel"]
  /\ "channel" \in broken
  /\ End("channel")
  /\ UNCHANGED <<peerVars, read, got, told>>

\* Eof, Close or None, after every block before it.
ToStreamEnds ==
  /\ task["channel"] = "copying"
  /\ got["stream"] = sent["channel"]
  /\ "channel" \in finished \cup broken
  /\ End("channel")
  /\ UNCHANGED <<peerVars, read, got, told>>

------------------------------------------------------------------------------
(* s2c *)

\* ctx.data: on a channel that is gone it fails or the block is lost.
ToChannel ==
  /\ task["stream"] = "copying"
  /\ "stream" \notin broken
  /\ read < sent["stream"]
  /\ read' = read + 1
  /\ \/ "channel" \notin broken /\ Reach("channel") /\ UNCHANGED task
     \/ "channel" \in broken /\ UNCHANGED <<got, task>>
     \/ "channel" \in broken /\ End("stream") /\ UNCHANGED got
  /\ UNCHANGED <<peerVars, told>>

\* Mutant: the first task to end takes the other with it, as a select! would.
ToChannelEndsBoth ==
  /\ task["stream"] = "copying"
  /\ "stream" \notin broken
  /\ read = sent["stream"] /\ "stream" \in finished
  /\ told' = ("channel" \notin broken)
  /\ task' = [s \in Sides |-> "ended"]
  /\ UNCHANGED <<peerVars, read, got>>

\* Mutant: read() = 0 ends the task without eof().
ToChannelEndsSilently ==
  /\ task["stream"] = "copying"
  /\ "stream" \notin broken
  /\ read = sent["stream"] /\ "stream" \in finished
  /\ End("stream")
  /\ UNCHANGED <<peerVars, read, got, told>>

\* read() = 0: the channel's peer is told.
ToChannelEnds ==
  /\ task["stream"] = "copying"
  /\ "stream" \notin broken
  /\ read = sent["stream"] /\ "stream" \in finished
  /\ told' = ("channel" \notin broken)
  /\ End("stream")
  /\ UNCHANGED <<peerVars, read, got>>

\* read() fails: the channel's peer is not told.
ToChannelFails ==
  /\ task["stream"] = "copying"
  /\ "stream" \in broken
  /\ End("stream")
  /\ UNCHANGED <<peerVars, read, got, told>>

------------------------------------------------------------------------------
(* The peers and the transports *)

PeerSends(s) ==
  /\ s \notin finished \cup broken
  /\ sent[s] < Blocks[s]
  /\ sent' = [sent EXCEPT ![s] = @ + 1]
  /\ UNCHANGED <<waits, finished, broken, start, read, got, told, task>>

Finish(s) ==
  /\ s \notin finished \cup broken
  /\ s \in waits => IF s = "stream" THEN StreamClosed ELSE told
  /\ finished' = finished \cup {s}
  /\ UNCHANGED <<waits, sent, broken, start, read, got, told, task>>

Break(s) ==
  /\ s \notin broken
  /\ broken' = broken \cup {s}
  /\ UNCHANGED <<waits, sent, finished, start, read, got, told, task>>

C2S == ToStream \/ ToStreamEnds
S2C == ToChannel \/ ToChannelEnds \/ ToChannelFails

------------------------------------------------------------------------------
\* A peer that ends its direction keeps receiving: every block the channel's
\* peer sends still reaches the stream's (tokio::join! on both tasks, never
\* select!), unless a transport breaks.
AnswerDelivered ==
  \A n \in 1 .. Blocks["channel"] :
    sent["channel"] = n ~> got["stream"] >= n \/ "stream" \in broken

\* Once both peers have ended, or both transports are gone, neither task is
\* left behind.  One ended peer is not enough: a stream whose peer waits for EOF
\* is not closed while the other task still reads from it.
PumpsEnd ==
  (\A s \in Sides : s \in finished \cup broken) ~> StreamClosed
==============================================================================
