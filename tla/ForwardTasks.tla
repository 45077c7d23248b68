----------------------------- MODULE ForwardTasks -----------------------------
(***************************************************************************)
(* The forwards of one passhrs process: spawn_forward_tasks' task for each *)
(* of -L, -D and -H, which takes its specs one after the other, the        *)
(* listener a spec gets, its clients, and what the main task does          *)
(* meanwhile.  A client's handshake, dial and relay are one stage here;    *)
(* module ForwardPump has the relay in detail.                             *)
(***************************************************************************)
EXTENDS Integers, Sequences, FiniteSets

Forwards == {"L", "D", "H"}

CONSTANTS
  Commands,  \* the command lines the process may have been given
  Busy,      \* ports another process has
  SshFails,  \* a forward's own SSH connection may fail
  Conns,     \* local clients, each connects at most once
  NoClient   \* nobody

\* -L, -D and -H: kind of forward -> the ports of its specs, in order.
CommandLine(specs, remote, no_command, exit_on_failure) ==
  [specs |-> specs,                      \* the kinds that have any
   remote |-> remote,                    \* there is a -R spec
   no_command |-> no_command,            \* -N
   exit_on_failure |-> exit_on_failure]  \* -o ExitOnForwardFailure=yes

ASSUME ForwardAssumption ==
  /\ \A o \in Commands :
       /\ DOMAIN o.specs \subseteq Forwards
       /\ \A k \in DOMAIN o.specs : o.specs[k] \in Seq(Nat) \ {<< >>}
       /\ {o.remote, o.no_command, o.exit_on_failure} \subseteq BOOLEAN
  /\ SshFails \in BOOLEAN
  /\ NoClient \notin Conns

VARIABLES
  cmd,       \* the command line
  main_task, \* "proxies", "remote", "local", "session", "waiting", "exited"
  stage,     \* kind -> where its task is
  spec,      \* kind -> the number of the spec it is at
  failed,    \* the ports whose bind failed
  queue,     \* kind -> clients connected to its listener, not accepted yet
  client,    \* kind -> the client its accept loop is busy with
  conn       \* client -> what it sees of its connection

tasksVars == <<cmd, main_task, stage, spec, failed, queue, client, conn>>

Specs == cmd.specs
Kinds == DOMAIN Specs
Proxies == Kinds \ {"L"}
Current(k) == Specs[k][spec[k]]
Ports == UNION {{Specs[k][i] : i \in DOMAIN Specs[k]} : k \in Kinds}
Listens(k) == stage[k] \in {"accept", "serve"}

TasksTypeOK ==
  /\ cmd \in Commands
  /\ main_task \in {"proxies", "remote", "local", "session", "waiting", "exited"}
  /\ stage \in [Forwards -> {"none", "connect", "bind", "accept", "serve", "parked"}]
  /\ spec \in [Forwards -> Nat] /\ \A k \in Kinds : spec[k] \in DOMAIN Specs[k]
  /\ failed \subseteq Ports
  /\ queue \in [Forwards -> Seq(Conns)]
  /\ client \in [Forwards -> Conns \cup {NoClient}]
  /\ conn \in [Conns -> {"idle", "refused", "queued", "served", "left", "closed"}]

TasksInit ==
  /\ cmd \in Commands
  /\ main_task = "proxies"
  /\ stage = [k \in Forwards |-> "none"]
  /\ spec = [k \in Forwards |-> 1]
  /\ failed = {}
  /\ queue = [k \in Forwards |-> << >>]
  /\ client = [k \in Forwards |-> NoClient]
  /\ conn = [c \in Conns |-> "idle"]

------------------------------------------------------------------------------
(* The main task *)

\* The end of the process takes every task, listener and connection with it.
Exit ==
  /\ main_task' = "exited"
  /\ stage' = [k \in Forwards |-> "none"]
  /\ queue' = [k \in Forwards |-> << >>]
  /\ client' = [k \in Forwards |-> NoClient]
  /\ conn' = [c \in Conns |-> IF conn[c] \in {"queued", "served"} THEN "closed" ELSE conn[c]]
  /\ UNCHANGED <<cmd, spec, failed>>

Spawn(ks) == stage' = [k \in Forwards |-> IF k \in ks THEN "connect" ELSE stage[k]]

SpawnProxies ==
  /\ main_task = "proxies"
  /\ Spawn(Proxies)
  /\ main_task' = "remote"
  /\ UNCHANGED <<cmd, spec, failed, queue, client, conn>>

\* Here, and only here, ExitOnForwardFailure ends the process.
RequestRemote ==
  /\ main_task = "remote"
  /\ \/ main_task' = "local" /\ UNCHANGED <<cmd, stage, spec, failed, queue, client, conn>>
     \/ cmd.remote /\ cmd.exit_on_failure /\ Exit

\* pure_fwd skips the session channel; then only -L and -R make the process wait.
SpawnLocal ==
  LET pure_fwd == cmd.no_command /\ (cmd.remote \/ Proxies # {})
  IN  /\ main_task = "local"
      /\ \/ /\ pure_fwd /\ ~cmd.remote /\ "L" \notin Kinds
            /\ Exit
         \/ /\ ~(pure_fwd /\ ~cmd.remote /\ "L" \notin Kinds)
            /\ Spawn(Kinds \cap {"L"})
            /\ main_task' = IF cmd.no_command THEN "waiting" ELSE "session"
            /\ UNCHANGED <<cmd, spec, failed, queue, client, conn>>

\* run_session returned: process::exit.
SessionEnds == main_task = "session" /\ Exit

------------------------------------------------------------------------------
(* The task of kind k *)

NextSpec(k) ==
  IF spec[k] < Len(Specs[k])
  THEN /\ spec' = [spec EXCEPT ![k] = @ + 1]
       /\ stage' = [stage EXCEPT ![k] = "connect"]
  ELSE /\ stage' = [stage EXCEPT ![k] = "parked"]
       /\ UNCHANGED spec

\* Mutant: a failed connection ends the task, return for continue.
ConnectSshReturns(k) ==
  /\ stage[k] = "connect"
  /\ \/ stage' = [stage EXCEPT ![k] = "bind"] /\ UNCHANGED spec
     \/ SshFails /\ stage' = [stage EXCEPT ![k] = "none"] /\ UNCHANGED spec
  /\ UNCHANGED <<cmd, main_task, failed, queue, client, conn>>

\* client::connect, then authenticate_fwd, whose result is dropped.
ConnectSsh(k) ==
  /\ stage[k] = "connect"
  /\ \/ stage' = [stage EXCEPT ![k] = "bind"] /\ UNCHANGED spec
     \/ SshFails /\ NextSpec(k)
  /\ UNCHANGED <<cmd, main_task, failed, queue, client, conn>>

Taken(k) == Current(k) \in Busy \/ \E j \in Forwards \ {k} : Listens(j) /\ Current(j) = Current(k)

\* A failed bind is an error with exit_on_failure and Ok without: the caller
\* drops either and goes on to the next spec.
BindListener(k) ==
  /\ stage[k] = "bind"
  /\ IF Taken(k)
     THEN failed' = failed \cup {Current(k)} /\ NextSpec(k)
     ELSE stage' = [stage EXCEPT ![k] = "accept"] /\ UNCHANGED <<spec, failed>>
  /\ UNCHANGED <<cmd, main_task, queue, client, conn>>

AcceptConn(k) ==
  /\ stage[k] = "accept"
  /\ queue[k] # << >>
  /\ client' = [client EXCEPT ![k] = Head(queue[k])]
  /\ queue' = [queue EXCEPT ![k] = Tail(@)]
  /\ conn' = [conn EXCEPT ![Head(queue[k])] = IF @ = "queued" THEN "served" ELSE @]
  /\ stage' = [stage EXCEPT ![k] = "serve"]
  /\ UNCHANGED <<cmd, main_task, spec, failed>>

\* The clients the listener of k leaves behind are reset.
CutQueue(k) ==
  /\ queue' = [queue EXCEPT ![k] = << >>]
  /\ conn' = [c \in Conns |->
                IF conn[c] = "queued" /\ \E i \in DOMAIN queue[k] : queue[k][i] = c
                THEN "closed" ELSE conn[c]]

\* Mutant: the listener is forgotten, not dropped.
AcceptFailsUndropped(k) ==
  /\ stage[k] = "accept"
  /\ NextSpec(k)
  /\ UNCHANGED <<cmd, main_task, failed, queue, client, conn>>

\* accept().await? gives up the listener for good.
AcceptFails(k) ==
  /\ stage[k] = "accept"
  /\ NextSpec(k)
  /\ CutQueue(k)
  /\ UNCHANGED <<cmd, main_task, failed, client>>

Released(k) ==
  /\ client' = [client EXCEPT ![k] = NoClient]
  /\ conn' = [c \in Conns |-> IF c = client[k] /\ conn[c] = "served" THEN "closed" ELSE conn[c]]

\* Mutant: the error of one connection is passed on with "?".
ServeEndsPropagates(k) ==
  /\ stage[k] = "serve"
  /\ Released(k)
  /\ \/ stage' = [stage EXCEPT ![k] = "accept"] /\ UNCHANGED spec
     \/ NextSpec(k)
  /\ UNCHANGED <<cmd, main_task, failed, queue>>

\* A bad handshake, a refused channel or the end of both pumps: the next client.
ServeEnds(k) ==
  /\ stage[k] = "serve"
  /\ Released(k)
  /\ stage' = [stage EXCEPT ![k] = "accept"]
  /\ UNCHANGED <<cmd, main_task, spec, failed, queue>>

------------------------------------------------------------------------------
(* The clients *)

Connect(c, p) ==
  /\ conn[c] = "idle"
  /\ main_task # "exited"
  /\ \/ \E k \in Forwards :
          /\ Listens(k) /\ Current(k) = p
          /\ queue' = [queue EXCEPT ![k] = Append(@, c)]
          /\ conn' = [conn EXCEPT ![c] = "queued"]
     \/ /\ ~\E k \in Forwards : Listens(k) /\ Current(k) = p
        /\ conn' = [conn EXCEPT ![c] = "refused"]
        /\ UNCHANGED queue
  /\ UNCHANGED <<cmd, main_task, stage, spec, failed, client>>

\* The accept loop still finds a client that gave up in its queue.
Leave(c) ==
  /\ conn[c] = "queued"
  /\ conn' = [conn EXCEPT ![c] = "left"]
  /\ UNCHANGED <<cmd, main_task, stage, spec, failed, queue, client>>

TaskStep(k) == ConnectSsh(k) \/ BindListener(k) \/ AcceptConn(k) \/ ServeEnds(k)

TasksNext ==
  \/ SpawnProxies \/ RequestRemote \/ SpawnLocal \/ SessionEnds
  \/ \E k \in Forwards : TaskStep(k) \/ AcceptFails(k)
  \/ \E c \in Conns : Leave(c) \/ \E p \in Ports : Connect(c, p)

\* The runtime runs every task; a connect is answered or fails; a client ends
\* its connection in the end, and so does its relay (PumpsEnd in ForwardPump).
TasksFairness ==
  /\ WF_tasksVars(SpawnProxies) /\ WF_tasksVars(RequestRemote) /\ WF_tasksVars(SpawnLocal)
  /\ \A k \in Forwards : WF_tasksVars(TaskStep(k))

TasksSpec == TasksInit /\ [][TasksNext]_tasksVars
TasksFairSpec == TasksSpec /\ TasksFairness

------------------------------------------------------------------------------
\* Without ExitOnForwardFailure a spec that cannot connect or bind does not take
\* the later ones of its kind with it: the task reaches a listener or the end of
\* its list (spawn_forward_tasks' continue, and forward_fn's Ok).
FailuresPassOn ==
  \A k \in Forwards :
    stage[k] = "connect" /\ ~cmd.exit_on_failure
      ~> Listens(k) \/ stage[k] = "parked" \/ main_task = "exited"

\* "ExitOnForwardFailure=yes/no: Exit on forward failure" (README, -o keys, and
\* under Port Forwarding for -L, -D and -H too).  The error of forward_fn is
\* dropped, so the process stays.
ExitsOnFailure == cmd.exit_on_failure /\ failed # {} ~> main_task = "exited"

\* A client that got through to a listener is served, or cut off, or gives up:
\* it is never left in the queue of a listener nobody accepts from.
NoClientForgotten ==
  \A c \in Conns : conn[c] = "queued" ~> conn[c] \in {"served", "left", "closed"}

\* However a client's connection ends, its listener accepts the next one: the
\* loops log or drop the error of a connection.
ListenerSurvives ==
  [][\A k \in Forwards :
       stage[k] = "serve" /\ main_task' # "exited" => Listens(k)' /\ spec'[k] = spec[k]]_tasksVars

\* With -N the forwards stay until the process is killed: "passhrs -H 8888 -N
\* user@host" and then curl through it (README.md, HTTP CONNECT proxy).
ForwardsStay == cmd.no_command /\ ~cmd.exit_on_failure => main_task # "exited"
==============================================================================
