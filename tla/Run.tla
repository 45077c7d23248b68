--------------------------------- MODULE Run ---------------------------------
(***************************************************************************)
(* One invocation from main() to its exit (src/main.rs, main and run): what*)
(* is answered on the spot, the background child of -f, the configuration  *)
(* (ConfigInclude) and what it adds to the command line, the resume through*)
(* a master, the connection with its host keys, timeouts and              *)
(* authentication, directly or through a jump host, and the work in the    *)
(* order the code does it.  The sessions, forwards, transfers and the      *)
(* master themselves are other modules; here each is one step that succeeds*)
(* or fails.                                                               *)
(***************************************************************************)
EXTENDS ConfigInclude

CONSTANT
  Meets(_, _, _)   \* the command lines, the worlds and the files they can meet

\* None is none of the words an option, or why, may hold.
ASSUME NoneAssumption ==
  None \notin {"-G", "-f", "--fork", "yes", "no", "accept-new", "transferred", "stdio", "session",
               "forwards", "authentication", "ok"}

VARIABLES
  asked,      \* the command line as typed
  world,      \* servers, master, and the steps that will fail or stay silent
  cli,        \* the command line as -f and the configuration change it
  phase,      \* where the process (after -f, the child) is
  hop,        \* the connection it is about: "jump" or "target"
  left,       \* the keys authenticate has yet to load for it, and the password
  attempts,   \* what it has still to try of the one it has taken
  tries,      \* how many attempts the server has turned down on it
  tasks,      \* the forwards whose tasks have been spawned and not yet connected
  offered,    \* <<host, login, credential>>: every proof of identity sent
  done,       \* the work done so far
  exit,       \* the exit code, None while the process runs
  why         \* the return that led to the exit

authVars == <<left, attempts, tries>>
runVars == <<asked, world, cli, phase, hop, authVars, tasks, offered, done, exit, why>>
vars == <<configVars, runVars>>

NoHost == ""
Password == "password"
Spawned == {"http", "dynamic", "local"}       \* forwards with tasks of their own

-----------------------------------------------------------------------------
Exit(code, reason) ==
  /\ phase' = "exit" /\ exit' = code /\ why' = reason

Fails(step) == step \in world.fails
Silent == <<hop, phase>> \in world.silent

\* has_no_fresh_auth: looks at what is there after the configuration has been
\* applied.
HasNoFreshAuth(c) == c.identity = <<>> /\ ~c.password

\* The host connected to and the name logged in with: HostName over the alias;
\* -l or the configuration's User over user@host over root.
Target == cli.host
Login ==
  CASE hop = "jump" /\ cli.jump.user # None -> cli.jump.user
    [] cli.login # None -> cli.login
    [] cli.login = None /\ cli.user # None -> cli.user
    [] OTHER -> "root"
Peer == IF hop = "jump" THEN cli.jump.host ELSE Target

\* check_server_key.
Strict == cli.strict \in {"yes", "accept-new"}
\* Mutant: without a known_hosts file the host key is not looked at.
AcceptsHostKeyUnchecked(host) ==
  \/ cli.acceptAll
  \/ cli.known # "file"
  \/ cli.known = "file" /\ world.servers[host].key = "known"
  \/ ~Strict

AcceptsHostKey(host) ==
  \/ cli.acceptAll
  \/ cli.known = "file" /\ world.servers[host].key = "known"
  \/ ~Strict

\* Mutant: only the first hash of an RSA key is tried.
HashesFirst(key) == IF key \in world.rsa THEN <<"sha512">> ELSE <<"own">>

\* What is tried of a credential: a key that does not load is passed over, an RSA
\* key has three hashes.
Hashes(key) == IF key \in world.rsa THEN <<"sha512", "sha256", "sha1">> ELSE <<"own">>
KeyTrials(key) ==
  IF key \in world.broken THEN <<>>
  ELSE [n \in DOMAIN Hashes(key) |-> <<key, Hashes(key)[n]>>]
PasswordTrial == <<Password, "own">>

\* authenticate_fwd tries "none" between the keys and the password.
ForwardAttempts ==
  FlattenSeq([i \in DOMAIN cli.identity |-> KeyTrials(cli.identity[i])])
    \o <<<<"none", "own">>>>
    \o (IF cli.password THEN <<PasswordTrial>> ELSE <<>>)

Accepts(host, attempt) ==
  /\ attempt[1] \in world.servers[host].accepts
  /\ attempt[2] \in world.servers[host].hashes \cup {"own"}

\* The attempts a server sees: to the first it accepts, or to its limit.
Seen(host, sequence) ==
  LET stops == {n \in DOMAIN sequence :
                  Accepts(host, sequence[n]) \/ n = world.servers[host].limit}
  IN IF stops = {} THEN sequence
     ELSE SubSeq(sequence, 1, CHOOSE n \in stops : \A m \in stops : n <= m)

-----------------------------------------------------------------------------
\* What clap makes of the arguments, as far as the model keeps it.
Parsed(c) ==
  /\ DOMAIN c =
       {"ask", "fork", "host", "user", "login", "command", "identity", "password", "control",
        "jump", "noCommand", "forwards", "transfers", "stdio", "named", "skip", "strict",
        "known", "acceptAll", "timeout", "exitOnForward", "bind"}
  /\ c.transfers \in Seq({"push", "pull", "rsync"})
  /\ c.forwards \subseteq {"local", "remote"} \cup Spawned

Init ==
  /\ Meets(cli, world, fs) /\ Parsed(cli)
  /\ asked = cli /\ alias = cli.host /\ FilesWellFormed
  /\ stack = <<>> /\ seen = {} /\ merged = <<>> /\ result = None
  /\ phase = "start" /\ hop = "target"
  /\ left = [keys |-> {}, password |-> FALSE] /\ attempts = <<>> /\ tries = 0
  /\ tasks = {} /\ offered = {} /\ done = {} /\ exit = None /\ why = None

Quiet == UNCHANGED <<asked, world, cli, hop, authVars, tasks, offered, done>>

\* main(): --help, -Q and -O are answered and end the process; -G asks the
\* configuration first.
Answer ==
  /\ phase = "start" /\ cli.ask \in {"help", "-Q", "-O"}
  /\ \E code \in (IF cli.ask = "help" THEN {0} ELSE {0, 1}) : Exit(code, "asked")
  /\ Quiet /\ UNCHANGED configVars

\* Mutant: the child keeps its --fork.
ChildKeepsLong(c) ==
  [c EXCEPT !.fork = IF @ = "-f" THEN None ELSE @,
            !.command = SelectSeq(@, LAMBDA word : word # "-f")]

\* -f: the arguments without every "-f" and "--fork" word, in a new process; the
\* parent exits with 0, whatever becomes of the child, which the model follows.
WithoutFork(words) == SelectSeq(words, LAMBDA word : word \notin {"-f", "--fork"})
Child(c) ==
  [c EXCEPT !.fork = IF @ \in {"-f", "--fork"} THEN None ELSE @,
            !.command = WithoutFork(@)]
Fork ==
  /\ phase = "start" /\ cli.ask = None /\ cli.fork # None
  /\ cli' = Child(cli)
  /\ UNCHANGED <<asked, world, phase, hop, authVars, tasks, offered, done, exit, why>>
  /\ UNCHANGED configVars

Help ==
  /\ phase = "start" /\ cli.ask = None /\ cli.fork = None
  /\ cli.host = NoHost /\ cli.forwards \cap {"local", "remote", "dynamic"} = {}
  /\ Exit(0, "help")
  /\ Quiet /\ UNCHANGED configVars

BeginConfig ==
  /\ phase = "start"
  /\ \/ cli.ask = "-G"
     \/ /\ cli.ask = None /\ cli.fork = None
        /\ cli.host # NoHost \/ cli.forwards \cap {"local", "remote", "dynamic"} # {}
  /\ ConfigStart(cli.named, cli.skip)
  /\ phase' = "config"
  /\ Quiet /\ UNCHANGED <<exit, why>>

Configure == phase = "config" /\ ConfigStep /\ UNCHANGED runVars

ConfigRefused ==
  /\ phase = "config" /\ result \notin {None, "ok"}
  /\ Exit(1, "config")
  /\ Quiet /\ UNCHANGED configVars

\* What the configuration says of a keyword, or None.
Value(key) == IF FoundValues(key) = {} THEN {None} ELSE FoundValues(key)
Or(value, default) == IF value # None THEN value ELSE default

\* apply_resolved and the options of run that fall back to the configuration:
\* the command line first, except that the configuration's User comes before the
\* user of user@host; IdentityFile lines follow the -i keys.
Layered(c, name, user, jump, strict, known) ==
  [c EXCEPT !.host = Or(name, @),
            !.login = Or(@, user),
            !.identity = @ \o FoundInOrder("identity"),
            !.jump = Or(@, jump),
            !.strict = Or(@, Or(strict, "no")),
            !.known = Or(@, known)]

ApplyConfig ==
  /\ phase = "config" /\ result = "ok"
  /\ \E name \in Value("hostname"), user \in Value("user"), jump \in Value("jump"),
        strict \in Value("strict"), known \in Value("known") :
       cli' = Layered(cli, name, user, jump, strict, known)
  /\ \/ cli.ask = "-G" /\ Exit(0, "asked")
     \/ cli.ask = None /\ Fails("spec") /\ Exit(1, "spec")
     \/ /\ cli.ask = None /\ ~Fails("spec")
        /\ phase' = "resume" /\ UNCHANGED <<exit, why>>
  /\ UNCHANGED <<asked, world, hop, authVars, tasks, offered, done, configVars>>

-----------------------------------------------------------------------------
\* -S without credentials: try_resume, which runs the command and nothing else;
\* with no master, or with credentials, a connection of its own.
Resumes == cli.control /\ Target # NoHost /\ HasNoFreshAuth(cli)
Resume ==
  /\ phase = "resume" /\ Resumes /\ world.master # "none"
  /\ \/ /\ world.master = "live" /\ Exit(0, "resumed")
        /\ done' = IF cli.command # <<>> THEN {"command"} ELSE {}
     \/ world.master = "broken" /\ Exit(1, "resume failed") /\ UNCHANGED done
  /\ UNCHANGED <<asked, world, cli, hop, authVars, tasks, offered, configVars>>

Connect ==
  /\ phase = "resume" /\ (Resumes => world.master = "none")
  /\ IF Target = NoHost
     THEN Exit(1, "no destination") /\ UNCHANGED hop
     ELSE /\ phase' = "tcp"
          /\ hop' = IF cli.jump # None THEN "jump" ELSE "target"
          /\ UNCHANGED <<exit, why>>
  /\ UNCHANGED <<asked, world, cli, authVars, tasks, offered, done, configVars>>

\* The TCP connection, the tunnel through the jump host and the SSH handshake
\* with its host key.  connect_with_bind panics for -B without -b; a jump has no
\* socket of its own to bind to the target.
Panics == phase = "tcp" /\ hop = "target" /\ cli.bind = "interface"
Reach ==
  /\ phase \in {"tcp", "tunnel"} /\ (Panics \/ ~Silent)
  /\ \/ Panics /\ Exit(101, "panic") /\ UNCHANGED hop
     \/ ~Panics /\ Fails(phase) /\ Exit(1, "unreachable") /\ UNCHANGED hop
     \/ /\ ~Panics /\ ~Fails(phase)
        /\ phase' = "ssh"
        /\ hop' = IF phase = "tunnel" THEN "target" ELSE hop
        /\ UNCHANGED <<exit, why>>
  /\ UNCHANGED <<asked, world, cli, authVars, tasks, offered, done, configVars>>

Handshake ==
  /\ phase = "ssh" /\ ~Silent
  /\ \/ ~AcceptsHostKey(Peer) /\ Exit(1, "host key") /\ UNCHANGED authVars
     \/ /\ AcceptsHostKey(Peer)
        /\ phase' = "auth" /\ attempts' = <<>> /\ tries' = 0
        /\ left' = [keys |-> DOMAIN cli.identity, password |-> cli.password]
        /\ UNCHANGED <<exit, why>>
  /\ UNCHANGED <<asked, world, cli, hop, tasks, offered, done, configVars>>

\* --connect-timeout runs over the whole direct connection, but only over the
\* handshake with the target when there is a jump.
TimeOut ==
  /\ cli.timeout /\ hop = "target" /\ phase \in {"tcp", "ssh"} /\ ~Panics
  /\ Exit(1, "timeout")
  /\ Quiet /\ UNCHANGED configVars

\* authenticate: the keys in their order, then the password.
TakeNext ==
  /\ phase = "auth" /\ attempts = <<>>
  /\ \/ \E k \in left.keys :
          /\ \A other \in left.keys : k <= other
          /\ left' = [left EXCEPT !.keys = @ \ {k}]
          /\ attempts' = KeyTrials(cli.identity[k])
     \/ /\ left.keys = {} /\ left.password
        /\ left' = [left EXCEPT !.password = FALSE]
        /\ attempts' = <<PasswordTrial>>
  /\ UNCHANGED <<asked, world, cli, phase, hop, tries, tasks, offered, done, exit, why>>
  /\ UNCHANGED configVars

\* One attempt of authenticate.  A server that has had enough disconnects, and
\* the error ends the run.
Attempt ==
  /\ phase = "auth" /\ ~Silent /\ attempts # <<>>
  /\ offered' = offered \cup {<<Peer, Login, Head(attempts)[1]>>}
  /\ \/ /\ Accepts(Peer, Head(attempts))
        /\ phase' = CASE hop = "jump" -> "tunnel"
                      [] hop = "target" /\ cli.control -> "master"
                      [] OTHER -> "transfer"
        /\ attempts' = <<>> /\ UNCHANGED <<tries, exit, why>>
     \/ /\ ~Accepts(Peer, Head(attempts))
        /\ tries' = tries + 1 /\ attempts' = Tail(attempts)
        /\ IF tries + 1 = world.servers[Peer].limit
           THEN Exit(1, "disconnected")
           ELSE UNCHANGED <<phase, exit, why>>
  /\ UNCHANGED <<asked, world, cli, hop, left, tasks, done, configVars>>

AuthFails ==
  /\ phase = "auth" /\ attempts = <<>> /\ left.keys = {} /\ ~left.password
  /\ Exit(1, "authentication")
  /\ Quiet /\ UNCHANGED configVars

-----------------------------------------------------------------------------
\* run_master takes over for good; it returns on a shutdown or an error.
MasterReturns ==
  /\ phase = "master"
  /\ \E code \in {0, 1} : Exit(code, "master")
  /\ Quiet /\ UNCHANGED configVars

\* --push, --pull, --rsync, one after the other; the first error ends the run.
\* Transfers alone are all there is to do unless there is a command or -N.
ToTransfer == ToSet(cli.transfers) \ done
IsNext(n) ==
  /\ n \in DOMAIN cli.transfers /\ cli.transfers[n] \in ToTransfer
  /\ \A m \in 1 .. n - 1 : cli.transfers[m] \notin ToTransfer
\* Mutant: a transfer that fails is passed over.
TransferCarriesOn ==
  /\ phase = "transfer"
  /\ \E n \in DOMAIN cli.transfers :
       /\ IsNext(n)
       /\ IF Fails(cli.transfers[n]) THEN phase' = "forward" /\ UNCHANGED done
          ELSE done' = done \cup {cli.transfers[n]} /\ UNCHANGED phase
  /\ UNCHANGED <<asked, world, cli, hop, authVars, tasks, offered, exit, why, configVars>>

Transfer ==
  /\ phase = "transfer"
  /\ \E n \in DOMAIN cli.transfers :
       /\ IsNext(n)
       /\ \/ Fails(cli.transfers[n]) /\ Exit(1, "transfer") /\ UNCHANGED done
          \/ /\ ~Fails(cli.transfers[n])
             /\ done' = done \cup {cli.transfers[n]}
             /\ UNCHANGED <<phase, exit, why>>
  /\ UNCHANGED <<asked, world, cli, hop, authVars, tasks, offered, configVars>>

TransfersDone ==
  /\ phase = "transfer" /\ ToTransfer = {}
  /\ IF cli.transfers # <<>> /\ cli.command = <<>> /\ ~cli.noCommand
     THEN Exit(0, "transferred")
     ELSE phase' = "forward" /\ UNCHANGED <<exit, why>>
  /\ Quiet /\ UNCHANGED configVars

\* The tasks of -H and -D are spawned, the -R are requested, the tasks of -L are
\* spawned; a -R that is refused matters to ExitOnForwardFailure only.
Forward ==
  /\ phase = "forward"
  /\ LET refused == "remote" \in cli.forwards /\ Fails("remote")
     IN IF refused /\ cli.exitOnForward
        THEN /\ tasks' = cli.forwards \cap {"http", "dynamic"}
             /\ Exit(1, "forward") /\ UNCHANGED done
        ELSE /\ tasks' = cli.forwards \cap Spawned
             /\ done' = done \cup (IF refused THEN {} ELSE cli.forwards \cap {"remote"})
             /\ phase' = "session" /\ UNCHANGED <<exit, why>>
  /\ UNCHANGED <<asked, world, cli, hop, authVars, offered, configVars>>

\* A spawned task opens an SSH connection of its own to the target, checks its key,
\* offers what authenticate_fwd has, and serves its port even when all is refused.
ForwardConnects(forward) ==
  /\ phase # "exit" /\ forward \in tasks
  /\ tasks' = tasks \ {forward}
  /\ IF Fails("task") \/ ~AcceptsHostKey(Target)
     THEN UNCHANGED <<offered, done>>
     ELSE
        /\ LET sent == Seen(Target, ForwardAttempts)
           IN offered' = offered \cup {<<Target, Login, sent[n][1]>> : n \in DOMAIN sent}
        /\ done' = done \cup {forward}
  /\ UNCHANGED <<asked, world, cli, phase, hop, authVars, exit, why, configVars>>

\* -W: refused beside a transfer, else it is the whole session.
Stdio ==
  /\ phase = "session" /\ cli.stdio
  /\ \/ cli.transfers # <<>> /\ Exit(1, "-W beside a transfer") /\ UNCHANGED done
     \/ cli.transfers = <<>> /\ Fails("session") /\ Exit(1, "channel") /\ UNCHANGED done
     \/ /\ cli.transfers = <<>> /\ ~Fails("session")
        /\ Exit(0, "stdio") /\ done' = done \cup {"stdio"}
  /\ UNCHANGED <<asked, world, cli, hop, authVars, tasks, offered, configVars>>

\* The command, else the shell, whose status is the exit code (0 here), else the
\* wait of -N.  -N with a -R, -D or -H opens
\* no channel at all, runs no command, and waits only if there is a -L or -R.
PureForward == cli.noCommand /\ cli.forwards \cap {"remote", "dynamic", "http"} # {}
Session ==
  /\ phase = "session" /\ ~cli.stdio /\ ~PureForward
  /\ \/ Fails("session") /\ Exit(1, "channel") /\ UNCHANGED done
     \/ /\ ~Fails("session") /\ (cli.command # <<>> \/ ~cli.noCommand)
        /\ Exit(0, "session")
        /\ done' = done \cup {IF cli.command # <<>> THEN "command" ELSE "shell"}
     \/ /\ ~Fails("session") /\ cli.command = <<>> /\ cli.noCommand
        /\ phase' = "wait" /\ UNCHANGED <<exit, why, done>>
  /\ UNCHANGED <<asked, world, cli, hop, authVars, tasks, offered, configVars>>

NoSession ==
  /\ phase = "session" /\ ~cli.stdio /\ PureForward
  /\ IF cli.forwards \cap {"local", "remote"} # {}
     THEN phase' = "wait" /\ UNCHANGED <<exit, why>>
     ELSE Exit(0, "forwards")
  /\ Quiet /\ UNCHANGED configVars

-----------------------------------------------------------------------------
Progress ==
  \/ Answer \/ Fork \/ Help \/ BeginConfig \/ Configure \/ ConfigRefused \/ ApplyConfig
  \/ Resume \/ Connect \/ Reach \/ Handshake \/ TakeNext \/ Attempt \/ AuthFails
  \/ Transfer \/ TransfersDone \/ Forward \/ Stdio \/ Session \/ NoSession

Next ==
  \/ Progress \/ TimeOut \/ MasterReturns
  \/ \E forward \in Spawned : ForwardConnects(forward)

\* The process goes on as long as nobody it talks to stays silent; a timer fires.
Fairness == WF_vars(Progress) /\ WF_vars(TimeOut)

Spec == Init /\ [][Next]_vars
FairSpec == Spec /\ Fairness

-----------------------------------------------------------------------------
\* Under StrictHostKeyChecking, from -o or from the configuration, no key, no
\* password and no login reaches a host, the jump host, the target or the target
\* of a forward's own connection, whose key known_hosts does not hold.
OffersOnlyToKnown ==
  /\ ~asked.acceptAll
  /\ \/ asked.strict \in {"yes", "accept-new"}
     \/ phase # "config" /\ asked.strict = None /\ FoundValues("strict") = {"yes"}
  => \A offer \in offered : world.servers[offer[1]].key = "known"

\* A run that gives up on authentication has tried everything it was given, -i,
\* IdentityFile and password, with every hash the server may insist on.
AuthUsesWhatItHas ==
  why = "authentication" =>
    /\ \A key \in ToSet(asked.identity \o FoundInOrder("identity")) \ world.broken :
         \A hash \in (IF key \in world.rsa THEN {"sha512", "sha256", "sha1"} ELSE {"own"}) :
           ~Accepts(Peer, <<key, hash>>)
    /\ asked.password => ~Accepts(Peer, <<Password, "own">>)

\* The command there is to run: the filter of -f takes its words out of it too.
Command == IF asked.fork = None THEN asked.command ELSE WithoutFork(asked.command)

\* Nothing is passed over.  The command comes last: it starts only after every
\* transfer has succeeded and, under ExitOnForwardFailure, sshd has granted the -R.
\* A run of its own that ends with 0 has done the transfers, the -W or the command
\* it was asked for, and one that was to keep a -L or -R open does not end with 0.
\* (-W beside a transfer or a command is the case the code gets wrong.)
NothingSkipped ==
  /\ "command" \in done /\ why # "resumed" =>
       /\ ToSet(asked.transfers) \subseteq done
       /\ asked.exitOnForward /\ "remote" \in asked.forwards => "remote" \in done
  /\ /\ exit = 0 /\ why \in {"transferred", "stdio", "session", "forwards"}
     /\ ~(asked.stdio /\ (asked.transfers # <<>> \/ Command # <<>>))
     => /\ ToSet(asked.transfers) \subseteq done
        /\ asked.stdio => "stdio" \in done
        /\ Command # <<>> /\ ~asked.noCommand => "command" \in done
        /\ asked.noCommand /\ Command = <<>> /\ ~asked.stdio
             => asked.forwards \cap {"local", "remote"} = {}

\* Whatever the command line, the configuration and the failures, the run exits,
\* waits on purpose or becomes the master; a target that falls silent before
\* authentication is met by --connect-timeout.  (-f inside a cluster of short
\* options, -fN, forks for ever.)
Settles ==
  /\ asked.fork \in {None, "-f", "--fork"}
  /\ world.silent \subseteq {<<"target", "tcp">>, <<"target", "ssh">>}
  /\ world.silent # {} => asked.timeout
  => <>(phase \in {"wait", "master", "exit"})
==============================================================================
