------------------------------ MODULE SessionExit ------------------------------
(***************************************************************************)
(* run_session: the reader task that copies the channel to stdout and      *)
(* stderr and finds the exit status, the select! that waits for it, and    *)
(* the look-up in the map that Handler::exit_status fills.  Its result is  *)
(* the exit code of the passhrs process.                                   *)
(***************************************************************************)
EXTENDS RusshChannel

CONSTANT Circumstances   \* what may happen to a session, a set of Circumstance

Circumstance ==
  [jump : BOOLEAN,     \* -J: the map looked up is not the one the callback fills
   lag : BOOLEAN,      \* a callback under way may end after the main task's look-up
   silence : BOOLEAN]  \* more than 5 s can pass between EOF and the next frame

ASSUME SessionAssumption == Circumstances \subseteq Circumstance

VARIABLES
  env,        \* the circumstances of this session
  reader,     \* "loop", "drain", "send", "exit" or "joined"
  code,       \* the reader saw the exit status: its code is the remote's, not 0
  shown,      \* data frames written to stdout / stderr
  main,       \* "select", "lookup" or "done"
  result      \* the exit code is the remote's, not 0

taskVars == <<env, reader, code, shown, main, result>>
vars == <<script, seen, queue, sender, callback, recorded, env, reader, code, shown, main, result>>

TypeOK ==
  /\ ChannelTypeOK
  /\ env \in Circumstances
  /\ reader \in {"loop", "drain", "send", "exit", "joined"}
  /\ main \in {"select", "lookup", "done"}
  /\ {code, result} \subseteq BOOLEAN
  /\ shown \in 0 .. seen

Init ==
  /\ ChannelInit
  /\ env \in Circumstances
  /\ reader = "loop"
  /\ code = FALSE
  /\ shown = 0
  /\ main = "select"
  /\ result = FALSE

\* The process exits with the result, so nothing runs after that.
Running == main # "done"

Connection == Running /\ ChannelNext /\ UNCHANGED taskVars

\* The reader's outer loop: Data and ExtendedData are written, ExitStatus ends
\* it, Eof and Close start the drain.
ReadData ==
  /\ Running /\ reader = "loop"
  /\ Wait("data")
  /\ shown' = shown + 1
  /\ UNCHANGED <<env, reader, code, main, result>>

ReadStatus ==
  /\ Running /\ reader = "loop"
  /\ Wait("status")
  /\ code' = TRUE
  /\ reader' = "send"
  /\ UNCHANGED <<env, shown, main, result>>

\* Mutant: the loop ends at EOF, as it did before issue #41.
ReadEofBreaks ==
  /\ Running /\ reader = "loop"
  /\ Wait("eof")
  /\ reader' = "send"
  /\ UNCHANGED <<env, code, shown, main, result>>

ReadEof ==
  /\ Running /\ reader = "loop"
  /\ Wait("eof")
  /\ reader' = "drain"
  /\ UNCHANGED <<env, code, shown, main, result>>

\* The drain keeps an ExitStatus and drops everything else.
DrainOne ==
  /\ Running /\ reader = "drain"
  /\ \E f \in Frames : Wait(f) /\ code' = (code \/ f = "status")
  /\ UNCHANGED <<env, reader, shown, main, result>>

ReadNone ==
  /\ Running /\ reader \in {"loop", "drain"}
  /\ WaitNone
  /\ reader' = "send"
  /\ UNCHANGED <<env, code, shown, main, result>>

\* Mutant: the drain waits without a timeout.
DrainForever == FALSE /\ UNCHANGED vars

\* The 5 s timeout around the drain.
DrainTimeout ==
  /\ Running /\ reader = "drain"
  /\ env.silence \/ (seen = Len(script) /\ queue = <<>>)
  /\ reader' = "send"
  /\ UNCHANGED <<channelVars, env, code, shown, main, result>>

\* exit_tx.send(code), then the task returns and its JoinHandle is ready.
SendCode ==
  /\ Running /\ reader = "send"
  /\ reader' = "exit"
  /\ UNCHANGED <<channelVars, env, code, shown, main, result>>

ReaderReturns ==
  /\ Running /\ reader = "exit"
  /\ reader' = "joined"
  /\ UNCHANGED <<channelVars, env, code, shown, main, result>>

\* Mutant: a status in the map is enough to stop waiting for the reader.
SelectRecorded ==
  /\ main = "select"
  /\ recorded \/ reader \in {"exit", "joined"}
  /\ result' = (recorded \/ code)
  /\ main' = "lookup"
  /\ UNCHANGED <<channelVars, env, reader, code, shown>>

\* select! { c = exit_rx => c, _ = reader => 0 }: tokio starts at a random
\* branch, so either ready one can win.
Select ==
  /\ main = "select"
  /\ \/ reader \in {"exit", "joined"} /\ result' = code
     \/ reader = "joined" /\ result' = FALSE
  /\ main' = "lookup"
  /\ UNCHANGED <<channelVars, env, reader, code, shown>>

\* A captured status overrides the code.
Lookup ==
  /\ main = "lookup"
  /\ callback => env.lag
  /\ result' = (result \/ (~env.jump /\ recorded))
  /\ main' = "done"
  /\ UNCHANGED <<channelVars, env, reader, code, shown>>

Reader == ReadData \/ ReadStatus \/ ReadEof \/ DrainOne \/ ReadNone \/ SendCode \/ ReaderReturns

Next == Connection \/ Reader \/ DrainTimeout \/ Select \/ Lookup

\* tokio polls every woken task and fires every timer.  That sshd sends its
\* frames is assumed only of a session in which it never falls silent; that the
\* connection drops is not assumed.
Fairness ==
  /\ WF_vars(~env.silence /\ Running /\ Receive /\ UNCHANGED taskVars)
  /\ WF_vars(Running /\ RunCallback /\ UNCHANGED taskVars)
  /\ WF_vars(Reader)
  /\ WF_vars(DrainTimeout)
  /\ WF_vars(Select)
  /\ WF_vars(Lookup)

Spec == Init /\ [][Next]_vars
FairSpec == Spec /\ Fairness

------------------------------------------------------------------------------
\* The exit code of passhrs is the remote command's, in either order of status
\* and EOF (the comments on exit_statuses, Handler::exit_status and the look-up),
\* when the connection is direct, the callback keeps up, nothing pauses for 5 s
\* before the status, and the status comes before the close.  Without any one of
\* these the code loses it.
Undisturbed == ~env.jump /\ ~env.lag /\ ~env.silence /\ ~Precedes(script, "close", "status")
StatusReported == Undisturbed => (main = "done" /\ Sends(script, "status") => result)

\* "We use the captured map as the authoritative source", and the code of the frames
\* only "if the callback never ran" (ssh.rs:1133-1135), so also with a jump host.
\* There the map is the one of the jump connection's handler, and the select! may
\* have taken the reader's end for a 0.
JumpStatusReported ==
  env.jump /\ ~env.lag /\ ~env.silence /\ ~Precedes(script, "close", "status") =>
    (main = "done" /\ Sends(script, "status") => result)

\* The callback "reliably sees ExitStatus in the Close-then-exit-status ordering"
\* (ssh.rs:44-47), for which the map was made.  Nothing waits for that frame: the
\* reader ends with the close, and the look-up follows at once.
ClosedStatusReported ==
  ~env.jump /\ ~env.lag /\ ~env.silence /\ Precedes(script, "close", "status") =>
    (main = "done" => result)

\* What the command printed has been written to stdout or stderr when
\* run_session returns, whatever the circumstances ("drain remaining data before
\* breaking"); only what follows the exit status is not waited for.
NoOutputLost ==
  main = "done" /\ ~Precedes(script, "status", "data") =>
    shown = DataIn(script, Len(script))

\* run_session returns once the channel is gone, and also when sshd sends EOF
\* and then neither a status nor a close: the drain's timeout is "a safety net
\* for hung connections".
EofReceived == \E k \in 1 .. seen : script[k] = "eof"
SessionEnds == (~sender \/ EofReceived) ~> (main = "done")
==============================================================================
