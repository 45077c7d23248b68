---------------------------- MODULE ControlMaster ----------------------------
(***************************************************************************)
(* The -S control socket: masters that bind the path (run_master,          *)
(* bind_listener, ControlSocketGuard, accept_loop), the task handle_resume *)
(* runs for each connection, and the clients that connect to the path      *)
(* (try_resume, send_control_command).  A command's execution over SSH is  *)
(* one step here; module MasterPump has its detail.                        *)
(***************************************************************************)
EXTENDS Integers, Sequences

CONSTANTS
  Masters,      \* passhrs -S processes that authenticated and become masters
  Clients,      \* passhrs -S clients without credentials, and -O clients
  None,         \* no file at the path, no master
  Wishes        \* what the clients may come for: functions from Clients

(***************************************************************************)
(* A request is what the first frame asks for: -O check, -O exit (or stop, *)
(* which is the same), a command, or a command whose first word is "exit". *)
(***************************************************************************)
RequestKinds == {"check", "exit", "command", "exit command"}

ASSUME ControlAssumption ==
  /\ None \notin Masters
  /\ Wishes \subseteq [Clients -> RequestKinds]

VARIABLES
  alone,      \* no master is started while another one is alive
  path,       \* the master whose socket the path names, dead or alive; None
  master,     \* master -> its stage, in the order of MasterStages
  notified,   \* the masters whose SHOULD_EXIT holds a permit
  signalled,  \* the masters that were sent SIGINT or SIGTERM
  backlog,    \* master -> connections its listener has not accepted
  request,    \* client -> what it asks for
  peer,       \* client -> the master it is connected to; None
  task,       \* client -> the stage of its handle_resume task
  answer      \* client -> "none" until it ends, then what it reports; "gone"
              \* when it was killed

vars == <<alone, path, master, notified, signalled, backlog, request, peer, task, answer>>
masterVars == <<alone, path, master, notified, signalled>>
clientVars == <<request, peer, task, answer>>

MasterStages == {"down", "unlinked", "claimed", "guarded", "bound", "accepting",
                 "closed", "removed", "not removed", "exited", "left behind",
                 "bind failed", "setup failed", "interrupted", "killed"}
TaskStages == {"none", "queued", "accepted", "running", "bye sent", "over"}
Answers == {"none", "pid", "bye", "code", "no master", "error", "gone"}

TypeOK ==
  /\ alone \in BOOLEAN
  /\ path \in Masters \cup {None}
  /\ master \in [Masters -> MasterStages]
  /\ notified \in SUBSET Masters
  /\ signalled \in SUBSET Masters
  /\ backlog \in [Masters -> Seq(Clients)]
  /\ request \in Wishes
  /\ peer \in [Clients -> Masters \cup {None}]
  /\ task \in [Clients -> TaskStages]
  /\ answer \in [Clients -> Answers]

Init ==
  /\ alone \in BOOLEAN
  /\ path = None
  /\ master = [m \in Masters |-> "down"]
  /\ notified = {}
  /\ signalled = {}
  /\ backlog = [m \in Masters |-> <<>>]
  /\ request \in Wishes
  /\ peer = [c \in Clients |-> None]
  /\ task = [c \in Clients |-> "none"]
  /\ answer = [c \in Clients |-> "none"]

Dead(m)      == master[m] \in {"exited", "left behind", "bind failed", "setup failed",
                               "interrupted", "killed"}
Alive(m)     == master[m] # "down" /\ ~Dead(m)
Listening(m) == master[m] \in {"claimed", "guarded", "bound", "accepting"}
MoveTo(m, stage) == master' = [master EXCEPT ![m] = stage]

\* Connections of m that its end cuts: their clients read EOF before an answer.
Unanswered(m, stages) ==
  {c \in Clients : peer[c] = m /\ task[c] \in stages}
Cut(cs) ==
  /\ answer' = [c \in Clients |-> IF c \in cs /\ answer[c] = "none"
                                  THEN IF request[c] \in {"check", "exit"}
                                       THEN "no master" ELSE "error"
                                  ELSE answer[c]]
  /\ task' = [c \in Clients |-> IF c \in cs THEN "over" ELSE task[c]]
  /\ UNCHANGED <<alone, request, peer>>

\* The process is gone without its guard: the file stays where it is.
Die(m, stage) ==
  /\ MoveTo(m, stage)
  /\ backlog' = [backlog EXCEPT ![m] = <<>>]
  /\ Cut(Unanswered(m, TaskStages \ {"none", "over"}))
  /\ UNCHANGED <<path, notified, signalled>>

------------------------------------------------------------------------------
(* bind_listener.  An error in it ends the process; there is a guard only    *)
(* once it has returned.                                                     *)

\* remove_file(path): whatever is there, the socket of a live master included.
\* Any error but ENOENT is the end of it.
UnlinkStale(m) ==
  /\ master[m] = "down"
  /\ alone => \A n \in Masters : ~Alive(n)
  /\ \/ path' = None /\ MoveTo(m, "unlinked")
     \/ MoveTo(m, "bind failed") /\ UNCHANGED path
  /\ UNCHANGED <<alone, notified, signalled, backlog, clientVars>>

\* Mutant: the stale file is removed after the bind instead of before.
BindThenUnlink(m) ==
  /\ master[m] = "unlinked"
  /\ path = None
  /\ MoveTo(m, "claimed")
  /\ UNCHANGED <<alone, path, notified, signalled, backlog, clientVars>>

\* bind(path), which listens too: it may fail, and must when another master has
\* bound the path since the unlink.
Bind(m) ==
  /\ master[m] = "unlinked"
  /\ \/ path = None /\ path' = m /\ MoveTo(m, "claimed")
     \/ MoveTo(m, "bind failed") /\ UNCHANGED path
  /\ UNCHANGED <<alone, notified, signalled, backlog, clientVars>>

\* set_permissions(path), whoever's socket it names by now, and from_std.
SetPermissions(m) ==
  /\ master[m] = "claimed"
  /\ path # None
  /\ MoveTo(m, "guarded")
  /\ UNCHANGED <<alone, path, notified, signalled, backlog, clientVars>>

\* Either of them failed: the listener is dropped and no guard removes the file.
SetupFails(m) ==
  /\ master[m] = "claimed"
  /\ Die(m, "setup failed")

\* run_master: signal() for SIGTERM, and ctrl_c() at its first poll in select!.
RegisterSignals(m) ==
  /\ master[m] = "guarded"
  /\ MoveTo(m, "bound")
  /\ UNCHANGED <<alone, path, notified, signalled, backlog, clientVars>>

\* SIGINT or SIGTERM before that has its default action.
Interrupt(m) ==
  /\ master[m] \in {"unlinked", "claimed", "guarded"}
  /\ Die(m, "interrupted")

------------------------------------------------------------------------------
(* accept_loop.  "bound" is the loop parked in select!, "accepting" the body *)
(* of its accept branch.                                                     *)

Wakes(m) == m \in notified \/ m \in signalled

\* biased: the signals and the notify are polled before accept.
Accept(m) ==
  /\ master[m] = "bound"
  /\ ~Wakes(m)
  /\ backlog[m] # <<>>
  /\ task' = [task EXCEPT ![Head(backlog[m])] = "accepted"]
  /\ backlog' = [backlog EXCEPT ![m] = Tail(@)]
  /\ MoveTo(m, "accepting")
  /\ UNCHANGED <<alone, path, notified, signalled, request, peer, answer>>

SpawnedTask(m) ==
  /\ master[m] = "accepting"
  /\ MoveTo(m, "bound")
  /\ UNCHANGED <<alone, path, notified, signalled, backlog, clientVars>>

\* Mutant: the listener and its queue outlive the loop.
LeaveLoopOnly(m) ==
  /\ master[m] = "bound"
  /\ Wakes(m)
  /\ MoveTo(m, "closed")
  /\ UNCHANGED <<alone, path, notified, signalled, backlog, clientVars>>

\* The loop returns and drops the listener with its queue of connections; the
\* spawned tasks run on.
LeaveLoop(m) ==
  /\ master[m] = "bound"
  /\ Wakes(m)
  /\ MoveTo(m, "closed")
  /\ backlog' = [backlog EXCEPT ![m] = <<>>]
  /\ Cut(Unanswered(m, {"queued"}))
  /\ UNCHANGED <<alone, path, notified, signalled>>

\* Mutant: the guard was moved out, so its drop removes nothing.
DropEmptyGuard(m) ==
  /\ master[m] = "closed"
  /\ MoveTo(m, "removed")
  /\ UNCHANGED <<alone, path, notified, signalled, backlog, clientVars>>

\* ControlSocketGuard::drop: remove_file(path), whatever is there; a failure is
\* only logged.
DropGuard(m) ==
  /\ master[m] = "closed"
  /\ \/ path' = None /\ MoveTo(m, "removed")
     \/ path # None /\ MoveTo(m, "not removed") /\ UNCHANGED path
  /\ UNCHANGED <<alone, notified, signalled, backlog, clientVars>>

\* run and main return; the runtime drops the tasks that are still running.
Exit(m) ==
  /\ \/ master[m] = "removed" /\ MoveTo(m, "exited")
     \/ master[m] = "not removed" /\ MoveTo(m, "left behind")
  /\ Cut(Unanswered(m, {"accepted", "running", "bye sent"}))
  /\ UNCHANGED <<alone, path, notified, signalled, backlog>>

\* SIGINT or SIGTERM to a master that handles them; once the loop is left, the
\* handlers stay and nobody listens to them.
Signal(m) ==
  /\ master[m] \in {"bound", "accepting"}
  /\ m \notin signalled
  /\ signalled' = signalled \cup {m}
  /\ UNCHANGED <<alone, path, master, notified, backlog, clientVars>>

\* SIGKILL: no guard runs and the file stays.
Kill9(m) == Alive(m) /\ Die(m, "killed")

------------------------------------------------------------------------------
(* Clients *)

\* connect(path) and the request frame.  No file and a socket nobody listens on
\* end the client's business with this path: -O reports no master, try_resume's
\* caller goes on with a direct connection of its own.
Connect(c) ==
  /\ answer[c] = "none" /\ task[c] = "none"
  /\ IF path # None /\ Listening(path)
     THEN /\ peer' = [peer EXCEPT ![c] = path]
          /\ task' = [task EXCEPT ![c] = "queued"]
          /\ backlog' = [backlog EXCEPT ![path] = Append(@, c)]
          /\ UNCHANGED answer
     ELSE /\ answer' = [answer EXCEPT ![c] = "no master"]
          /\ UNCHANGED <<alone, peer, task, backlog>>
  /\ UNCHANGED <<masterVars, request>>

\* The client is killed while it waits: its end of the socket is closed.
Hangup(c) ==
  /\ task[c] \in {"queued", "accepted", "running"}
  /\ answer[c] = "none"
  /\ answer' = [answer EXCEPT ![c] = "gone"]
  /\ UNCHANGED <<masterVars, backlog, request, peer, task>>

\* What is written reaches a client that still waits.
Reply(c, a, stage) ==
  /\ answer' = [answer EXCEPT ![c] = IF @ = "none" THEN a ELSE @]
  /\ task' = [task EXCEPT ![c] = stage]

------------------------------------------------------------------------------
(* handle_resume dispatches on the first word of the frame. *)

HandleCheck(c) ==
  /\ task[c] = "accepted" /\ request[c] = "check"
  /\ Reply(c, "pid", "over")
  /\ UNCHANGED <<masterVars, backlog, request, peer>>

\* handle_ctrl_exit writes bye; a resume client reads it as a frame with a bad
\* tag.  Nobody there to read it is an error, which returns before the notify.
HandleExit(c) ==
  /\ task[c] = "accepted" /\ request[c] \in {"exit", "exit command"}
  /\ Reply(c, IF request[c] = "exit" THEN "bye" ELSE "error",
              IF answer[c] = "none" THEN "bye sent" ELSE "over")
  /\ UNCHANGED <<masterVars, backlog, request, peer>>

\* Mutant: notify_waiters, which wakes only a loop parked in select!.
NotifyWaiters(c) ==
  /\ task[c] = "bye sent"
  /\ notified' = IF master[peer[c]] = "bound" THEN notified \cup {peer[c]} ELSE notified
  /\ task' = [task EXCEPT ![c] = "over"]
  /\ UNCHANGED <<alone, path, master, signalled, backlog, request, peer, answer>>

\* set_should_exit: notify_one leaves a permit for a loop that is not parked.
SetShouldExit(c) ==
  /\ task[c] = "bye sent"
  /\ notified' = notified \cup {peer[c]}
  /\ task' = [task EXCEPT ![c] = "over"]
  /\ UNCHANGED <<alone, path, master, signalled, backlog, request, peer, answer>>

\* channel_open_session and exec: sshd may refuse either.
OpenSession(c) ==
  /\ task[c] = "accepted" /\ request[c] = "command"
  /\ \/ task' = [task EXCEPT ![c] = "running"] /\ UNCHANGED answer
     \/ Reply(c, "error", "over")
  /\ UNCHANGED <<masterVars, backlog, request, peer>>

CommandEnds(c) ==
  /\ task[c] = "running"
  /\ Reply(c, "code", "over")
  /\ UNCHANGED <<masterVars, backlog, request, peer>>

Task(c) == HandleCheck(c) \/ HandleExit(c) \/ SetShouldExit(c) \/ OpenSession(c)

Startup(m) == Bind(m) \/ SetPermissions(m) \/ SetupFails(m) \/ RegisterSignals(m)

AcceptLoop(m) == Accept(m) \/ SpawnedTask(m) \/ LeaveLoop(m) \/ DropGuard(m) \/ Exit(m)

Next ==
  \/ \E m \in Masters : UnlinkStale(m) \/ Startup(m) \/ AcceptLoop(m)
  \/ \E m \in Masters : Interrupt(m) \/ Signal(m) \/ Kill9(m)
  \/ \E c \in Clients : Connect(c) \/ Hangup(c) \/ Task(c) \/ CommandEnds(c)

\* run_master runs on, the runtime polls the accept loop and every task, and a remote command ends
\* in the end.  Nobody has to start a master, connect, or send a signal.
Fairness ==
  /\ \A m \in Masters : WF_vars(Startup(m)) /\ WF_vars(AcceptLoop(m))
  /\ \A c \in Clients : WF_vars(Task(c)) /\ WF_vars(CommandEnds(c))

Spec == Init /\ [][Next]_vars
FairSpec == Spec /\ Fairness

------------------------------------------------------------------------------
\* A listening master is the one the path leads to ("removing any stale file
\* from a prior aborted master", bind_listener; "removed automatically on
\* master exit", README): neither a later master nor an earlier one's guard
\* takes its socket away.  True of masters that are started one at a time: of
\* two at once the second takes the first one's socket.
Reachable == alone => \A m \in Masters : Listening(m) => path = m

\* The file of a master that is past its guard or gone has a cause: SIGKILL, a
\* signal before the handlers were registered, an error of bind_listener after the
\* bind, or a removal that was refused.  Whatever else ends a master takes its
\* file away (the guard's doc), also when several masters fight for the path.
LeftoverHasACause ==
  path # None => \/ Listening(path) \/ master[path] = "closed"
                 \/ master[path] \in {"killed", "interrupted", "setup failed",
                                     "not removed", "left behind"}

\* "SIGKILL is the only path that bypasses this and leaves a stale file"
\* (accept_loop's doc).  Not so before the guard exists and the signals are
\* handled.
OnlySigkillLeavesFile == path # None /\ Dead(path) => master[path] = "killed"

\* A client that was told "bye" sees its master end: the wake-up is not lost,
\* whatever the accept loop was doing when it was sent.
ByeEndsMaster ==
  \A c \in Clients : answer[c] = "bye" ~> peer[c] # None /\ Dead(peer[c])

\* Every client that connected is answered or cut off; none waits for ever.
EveryClientEnds ==
  \A c \in Clients : task[c] = "queued" ~> answer[c] # "none"
==============================================================================
