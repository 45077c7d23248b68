------------------------------ MODULE MasterPump ------------------------------
(***************************************************************************)
(* One resume request from the exec on: handle_resume's pump of the        *)
(* session channel into frames on the control socket, and try_resume's     *)
(* loop that reads them.  The master can stop and the client can be killed *)
(* at any time; either ends the other's side of the socket.                *)
(***************************************************************************)
EXTENDS RusshChannel

CONSTANT MasterMayStop   \* a signal or -O exit can end the master meanwhile

ASSUME PumpAssumption == MasterMayStop \in BOOLEAN

VARIABLES
  pump,       \* handle_resume: "pump", "done", "ended" or "aborted"
  code,       \* the pump saw the exit status
  socket,     \* frames written to the socket and not yet read
  client,     \* try_resume: "read", "exited", "error" or "killed"
  shown,      \* data frames the client wrote to its stdout / stderr
  result      \* the client's exit code is the remote's, not 0

endVars == <<pump, code, socket, client, shown, result>>
vars == <<script, seen, queue, sender, callback, recorded,
          pump, code, socket, client, shown, result>>

\* What travels on the socket: data frames (tags 1 and 2) and the done frame
\* (tag 0) with the remote's code or 0.
SocketFrames == {"data", "done code", "done 0"}

TypeOK ==
  /\ ChannelTypeOK
  /\ pump \in {"pump", "done", "ended", "aborted"}
  /\ client \in {"read", "exited", "error", "killed"}
  /\ {code, result} \subseteq BOOLEAN
  /\ socket \in Seq(SocketFrames)
  /\ shown \in 0 .. seen

Init ==
  /\ ChannelInit
  /\ pump = "pump"
  /\ code = FALSE
  /\ socket = <<>>
  /\ client = "read"
  /\ shown = 0
  /\ result = FALSE

Connection == ChannelNext /\ UNCHANGED endVars

\* write_data_frame: once the client is gone the write fails and ends the task.
PumpData ==
  /\ pump = "pump"
  /\ Wait("data")
  /\ IF client = "killed"
     THEN pump' = "aborted" /\ UNCHANGED socket
     ELSE socket' = Append(socket, "data") /\ UNCHANGED pump
  /\ UNCHANGED <<code, client, shown, result>>

\* Mutant: the status ends the pump, as it ends run_session's reader.
PumpStatusBreaks ==
  /\ pump = "pump"
  /\ Wait("status")
  /\ code' = TRUE
  /\ pump' = "done"
  /\ UNCHANGED <<socket, client, shown, result>>

\* Mutant: the status is read and not kept.
PumpStatusDropped ==
  /\ pump = "pump"
  /\ Wait("status")
  /\ UNCHANGED endVars

PumpStatus ==
  /\ pump = "pump"
  /\ Wait("status")
  /\ code' = TRUE
  /\ UNCHANGED <<pump, socket, client, shown, result>>

\* Mutant: only Eof ends the pump; a closed channel is polled forever.
PumpEndAtEof ==
  /\ pump = "pump"
  /\ Wait("eof")
  /\ pump' = "done"
  /\ UNCHANGED <<code, socket, client, shown, result>>

\* The first Eof, or None, ends the pump.
PumpEnd ==
  /\ pump = "pump"
  /\ Wait("eof") \/ WaitNone
  /\ pump' = "done"
  /\ UNCHANGED <<code, socket, client, shown, result>>

WriteDone ==
  /\ pump = "done"
  /\ IF client = "killed"
     THEN pump' = "aborted" /\ UNCHANGED socket
     ELSE /\ socket' = Append(socket, IF code THEN "done code" ELSE "done 0")
          /\ pump' = "ended"
  /\ UNCHANGED <<channelVars, code, client, shown, result>>

\* The accept loop returns and the process ends; its tasks are dropped.
MasterStops ==
  /\ MasterMayStop
  /\ pump \in {"pump", "done"}
  /\ pump' = "aborted"
  /\ UNCHANGED <<channelVars, code, socket, client, shown, result>>

ClientData ==
  /\ client = "read"
  /\ socket # <<>> /\ Head(socket) = "data"
  /\ socket' = Tail(socket)
  /\ shown' = shown + 1
  /\ UNCHANGED <<channelVars, pump, code, client, result>>

ClientDone ==
  /\ client = "read"
  /\ socket # <<>> /\ Head(socket) # "data"
  /\ result' = (Head(socket) = "done code")
  /\ socket' = Tail(socket)
  /\ client' = "exited"
  /\ UNCHANGED <<channelVars, pump, code, shown>>

\* "connection to master closed before exit code".
ClientEof ==
  /\ client = "read"
  /\ socket = <<>> /\ pump \in {"ended", "aborted"}
  /\ client' = "error"
  /\ UNCHANGED <<channelVars, pump, code, socket, shown, result>>

ClientKilled ==
  /\ client = "read"
  /\ client' = "killed"
  /\ UNCHANGED <<channelVars, pump, code, socket, shown, result>>

Pump   == PumpData \/ PumpStatus \/ PumpEnd \/ WriteDone
Client == ClientData \/ ClientDone \/ ClientEof

Next == Connection \/ Pump \/ MasterStops \/ Client \/ ClientKilled

\* The runtime polls woken tasks; nothing is assumed of sshd or of signals.
Fairness == WF_vars(Pump) /\ WF_vars(Client)

Spec == Init /\ [][Next]_vars
FairSpec == Spec /\ Fairness

------------------------------------------------------------------------------
\* A client that is told an exit code is told the remote command's ("terminate
\* with a done frame (exit code)", handle_resume) when the status comes before EOF
\* and close; the pump stops at the first EOF and makes a later one a 0.
EarlyStatusReported ==
  ~Precedes(script, "eof", "status") /\ ~Precedes(script, "close", "status")
    => (client = "exited" /\ Sends(script, "status") => result)

\* The same for a status after EOF, "the order sshd emits when -T is in effect"
\* (ssh.rs:956-958): the pump is to "return the exit status" (control.rs:359) and
\* does not wait for it.
LateStatusReported ==
  Precedes(script, "eof", "status") /\ ~Precedes(script, "close", "status")
    => (client = "exited" => result)

\* A client that is told an exit code has been given all the output the command
\* had before its channel's EOF ("drain any trailing Data", the pump's comment).
ResumeKeepsOutput ==
  client = "exited" => shown = DataIn(script, Len(script))

\* A client ends, with a code or with an error, once the session has ended or
\* the master has stopped; it never waits on a dead socket.
SessionOver == ~sender \/ (\E k \in 1 .. seen : script[k] = "eof")
ResumeEnds == (SessionOver \/ pump = "aborted") ~> (client # "read")
==============================================================================
