------------------------------- MODULE RunProofs -------------------------------
(***************************************************************************)
(* For any command lines, worlds and configuration files: no credential    *)
(* reaches an unknown host under StrictHostKeyChecking, a run that gives up*)
(* on authentication has tried all it had, nothing that was asked for is   *)
(* passed over, a setting keeps its Host line in the merged text, and the  *)
(* included files stand in it where their Includes stood.                  *)
(***************************************************************************)
EXTENDS Run, SequenceTheorems, FiniteSetTheorems, WellFoundedInduction, TLAPS

(* What is known of the command line.                                        *)

Early == phase \in {"start", "config"}

\* What the child of -f, the configuration and run have left as it was typed.
Kept ==
  /\ cli.ask = asked.ask /\ cli.password = asked.password
  /\ cli.acceptAll = asked.acceptAll /\ cli.stdio = asked.stdio
  /\ cli.noCommand = asked.noCommand /\ cli.exitOnForward = asked.exitOnForward
  /\ cli.transfers = asked.transfers /\ cli.forwards = asked.forwards

\* Before run has started: as typed, or forked, or about to be forked for ever.
NotStarted ==
  \/ cli.command = asked.command /\ cli.fork = asked.fork
  \/ cli.command = WithoutFork(asked.command) /\ cli.fork = None /\ asked.fork # None
  \/ cli.fork \notin {None, "-f", "--fork"}

\* What the configuration has made of the options the properties are about.
Resolved ==
  /\ cli.identity = asked.identity \o FoundInOrder("identity")
  /\ \E strict \in Value("strict") : cli.strict = Or(asked.strict, Or(strict, "no"))

CliInv ==
  /\ Parsed(asked) /\ Parsed(cli) /\ Kept
  /\ Early => /\ cli.strict = asked.strict /\ cli.identity = asked.identity
              /\ offered = {} /\ tasks = {} /\ done = {}
  /\ phase # "exit" => exit = None /\ why = None
  /\ phase = "start" => NotStarted
  /\ phase \notin {"start", "exit"} /\ asked.ask = None => cli.command = Command
  /\ ~Early /\ phase # "exit" => asked.ask = None /\ Resolved

\* What a phase finds in the configuration stays while nobody works on it.
LEMMA FoundSame ==
  ASSUME UNCHANGED configVars
  PROVE  /\ FoundValues("strict")' = FoundValues("strict")
         /\ FoundInOrder("identity")' = FoundInOrder("identity")
<1>1. UNCHANGED <<fs, alias, merged>>
  BY DEF configVars
<1>2. Found("strict")' = Found("strict")
  BY <1>1 DEF Found, Settings, LineAt, Governor, HostLines
<1>3. Found("identity")' = Found("identity")
  BY <1>1 DEF Found, Settings, LineAt, Governor, HostLines
<1>4. FoundValues("strict")' = FoundValues("strict")
  BY <1>1, <1>2 DEF FoundValues, LineAt
<1>5. FoundInOrder("identity")' = FoundInOrder("identity")
  <2>1. Ascending(Found("identity"))' = Ascending(Found("identity"))
    BY <1>3
  <2>2. QED
    BY <1>1, <2>1 DEF FoundInOrder, LineAt
<1>6. QED
  BY <1>4, <1>5

LEMMA CliInit == Init => CliInv
BY NoneAssumption DEF Init, CliInv, Kept, Early, NotStarted, Parsed

LEMMA EarlyActions ==
  ASSUME CliInv, Early, Next
  PROVE  \/ Answer \/ Fork \/ Help \/ BeginConfig \/ Configure \/ ConfigRefused
         \/ ApplyConfig
<1>1. phase \in {"start", "config"} /\ tasks = {}
  BY DEF CliInv, Early
<1>2. ~Resume /\ ~Connect /\ ~Reach /\ ~Handshake /\ ~TakeNext /\ ~Attempt /\ ~AuthFails
  BY <1>1 DEF Resume, Connect, Reach, Handshake, TakeNext, Attempt, AuthFails
<1>3. ~Transfer /\ ~TransfersDone /\ ~Forward /\ ~Stdio /\ ~Session /\ ~NoSession
  BY <1>1 DEF Transfer, TransfersDone, Forward, Stdio, Session, NoSession
<1>4. ~TimeOut /\ ~MasterReturns /\ \A f \in Spawned : ~ForwardConnects(f)
  BY <1>1 DEF TimeOut, MasterReturns, ForwardConnects
<1>5. QED
  BY <1>2, <1>3, <1>4 DEF Next, Progress

\* After the configuration the command line and what was read stay as they are.
Settled ==
  /\ phase # "exit" /\ phase' \notin {"start", "config"}
  /\ UNCHANGED <<asked, world, cli, configVars>>
  /\ phase' = "exit" \/ UNCHANGED <<exit, why>>

LEMMA LaterActions ==
  ASSUME ~Early, Next
  PROVE  /\ Settled
         /\ \/ Resume \/ Connect \/ Reach \/ Handshake \/ TakeNext \/ Attempt \/ AuthFails
            \/ Transfer \/ TransfersDone \/ Forward \/ Stdio \/ Session \/ NoSession
            \/ TimeOut \/ MasterReturns \/ \E f \in Spawned : ForwardConnects(f)
<1>1. phase \notin {"start", "config"}
  BY DEF Early
<1>2. ~Answer /\ ~Fork /\ ~Help /\ ~BeginConfig /\ ~Configure /\ ~ConfigRefused
      /\ ~ApplyConfig
  BY <1>1 DEF Answer, Fork, Help, BeginConfig, Configure, ConfigRefused, ApplyConfig
<1> USE DEF Settled, Exit, Quiet
<1>3. CASE Resume
  BY <1>3 DEF Resume
<1>4. CASE Connect
  BY <1>4 DEF Connect
<1>5. CASE Reach
  BY <1>5 DEF Reach
<1>6. CASE Handshake
  BY <1>6 DEF Handshake
<1>7. CASE TakeNext
  BY <1>7 DEF TakeNext
<1>8. CASE Attempt
  BY <1>8 DEF Attempt
<1>9. CASE AuthFails
  BY <1>9 DEF AuthFails
<1>10. CASE Transfer
  BY <1>10 DEF Transfer
<1>11. CASE TransfersDone
  BY <1>11 DEF TransfersDone
<1>12. CASE Forward
  BY <1>12 DEF Forward
<1>13. CASE Stdio
  BY <1>13 DEF Stdio
<1>14. CASE Session
  BY <1>14 DEF Session
<1>15. CASE NoSession
  BY <1>15 DEF NoSession
<1>16. CASE TimeOut
  BY <1>16 DEF TimeOut
<1>17. CASE MasterReturns
  BY <1>17 DEF MasterReturns
<1>18. CASE \E f \in Spawned : ForwardConnects(f)
  BY <1>1, <1>18 DEF ForwardConnects
<1>19. QED
  BY <1>2, <1>3, <1>4, <1>5, <1>6, <1>7, <1>8, <1>9, <1>10, <1>11, <1>12, <1>13, <1>14,
     <1>15, <1>16, <1>17, <1>18 DEF Next, Progress

LEMMA CliStep == CliInv /\ [Next]_vars => CliInv'
<1> SUFFICES ASSUME CliInv, [Next]_vars
             PROVE  CliInv'
  OBVIOUS
<1>1. CASE ~Early /\ Next
  <2>1. Settled
    BY <1>1, LaterActions
  <2>2. Parsed(asked)' /\ Parsed(cli)' /\ Kept'
    BY <2>1 DEF CliInv, Kept, Parsed, Settled
  <2>3. ~Early' /\ phase' # "start" /\ (phase' # "exit" => exit' = None /\ why' = None)
    BY <2>1 DEF CliInv, Early, Settled
  <2>4. asked.ask = None /\ Resolved /\ cli.command = Command
    BY <1>1, <2>1 DEF CliInv, Early, Settled
  <2>5. Resolved'
    BY <2>1, <2>4, FoundSame DEF Resolved, Value, Or, Settled
  <2>6. Command' = Command
    BY <2>1 DEF Command, Settled
  <2>7. QED
    BY <2>1, <2>2, <2>3, <2>4, <2>5, <2>6 DEF CliInv, Settled
<1>2. CASE Early /\ Next
  <2>1. \/ Answer \/ Fork \/ Help \/ BeginConfig \/ Configure \/ ConfigRefused
        \/ ApplyConfig
    BY <1>2, EarlyActions
  <2>2. /\ UNCHANGED <<asked, tasks, offered, done>>
        /\ phase' \in {"start", "config", "resume", "exit"}
        /\ phase' # "exit" => UNCHANGED <<exit, why>>
    BY <1>2, <2>1
       DEF Answer, Fork, Help, BeginConfig, Configure, ConfigRefused, ApplyConfig, Exit,
           Quiet, runVars, Early
  <2>3. phase # "exit" /\ exit = None /\ why = None
    BY <1>2 DEF CliInv, Early
  <2>4. CASE Answer \/ Help \/ ConfigRefused
    <3>1. phase' = "exit" /\ UNCHANGED <<asked, cli>>
      BY <2>4 DEF Answer, Help, ConfigRefused, Exit, Quiet
    <3>2. Parsed(asked)' /\ Parsed(cli)' /\ Kept'
      BY <3>1 DEF CliInv, Kept, Parsed
    <3>3. QED
      BY <3>1, <3>2 DEF CliInv, Early
  <2>5. CASE Fork
    <3>1. phase = "start" /\ phase' = "start" /\ cli' = Child(cli) /\ cli.fork # None
      BY <2>5 DEF Fork
    <3>2. Parsed(asked)' /\ Parsed(cli)' /\ Kept' /\ cli'.strict = cli.strict
          /\ cli'.identity = cli.identity
      BY <2>2, <3>1 DEF CliInv, Kept, Parsed, Child
    <3>3. /\ cli'.fork = IF cli.fork \in {"-f", "--fork"} THEN None ELSE cli.fork
          /\ cli'.command = WithoutFork(cli.command)
      BY <3>1 DEF CliInv, Parsed, Child
    <3>4. NotStarted'
      BY <2>2, <3>1, <3>3 DEF CliInv, NotStarted
    <3>5. QED
      BY <1>2, <2>2, <2>3, <3>1, <3>2, <3>4 DEF CliInv, Early
  <2>6. CASE BeginConfig
    <3>1. /\ phase = "start" /\ phase' = "config" /\ cli' = cli
          /\ cli.ask = None => cli.fork = None
      BY <2>6, NoneAssumption DEF BeginConfig, Quiet
    <3>2. Parsed(asked)' /\ Parsed(cli)' /\ Kept'
      BY <2>2, <3>1 DEF CliInv, Kept, Parsed
    <3>3. asked.ask = None => cli.command = Command
      BY <3>1 DEF CliInv, Kept, NotStarted, Command
    <3>4. Command' = Command
      BY <2>2 DEF Command
    <3>5. QED
      BY <1>2, <2>2, <2>3, <3>1, <3>2, <3>3, <3>4 DEF CliInv, Early
  <2>7. CASE Configure
    <3>1. phase = "config" /\ UNCHANGED <<asked, cli, phase, offered, tasks, done, exit, why>>
      BY <2>7 DEF Configure, runVars
    <3>2. Parsed(asked)' /\ Parsed(cli)' /\ Kept'
      BY <3>1 DEF CliInv, Kept, Parsed
    <3>3. Command' = Command
      BY <3>1 DEF Command
    <3>4. QED
      BY <1>2, <3>1, <3>2, <3>3 DEF CliInv, Early
  <2>8. CASE ApplyConfig
    <3>1. PICK name \in Value("hostname"), user \in Value("user"), jump \in Value("jump"),
              strict \in Value("strict"), known \in Value("known") :
            cli' = Layered(cli, name, user, jump, strict, known)
      BY <2>8 DEF ApplyConfig
    <3>2. /\ Parsed(asked)' /\ Parsed(cli)' /\ Kept' /\ cli'.command = cli.command
          /\ cli'.identity = cli.identity \o FoundInOrder("identity")
          /\ cli'.strict = Or(cli.strict, Or(strict, "no"))
      BY <2>2, <3>1 DEF CliInv, Kept, Parsed, Layered
    <3>3. /\ UNCHANGED configVars /\ phase = "config"
          /\ phase' = "exit" \/ (phase' = "resume" /\ cli.ask = None)
      BY <2>8 DEF ApplyConfig, Exit
    <3>4. Resolved'
      BY <1>2, <2>2, <3>2, <3>3, FoundSame DEF CliInv, Resolved, Value, Or
    <3>5. Command' = Command
      BY <2>2 DEF Command
    <3>6. QED
      BY <2>2, <2>3, <3>2, <3>3, <3>4, <3>5 DEF CliInv, Early, Kept
  <2>9. QED
    BY <2>1, <2>4, <2>5, <2>6, <2>7, <2>8
<1>3. CASE UNCHANGED vars
  <2>1. /\ UNCHANGED <<asked, world, cli, phase, offered, tasks, done, exit, why>>
        /\ UNCHANGED configVars
    BY <1>3 DEF vars, runVars
  <2>2. Parsed(asked)' /\ Parsed(cli)' /\ Kept'
    BY <2>1 DEF CliInv, Kept, Parsed
  <2>3. Command' = Command /\ NotStarted' = NotStarted /\ Early' = Early
    BY <2>1 DEF Command, NotStarted, Early
  <2>4. Resolved' = Resolved
    BY <2>1, FoundSame DEF Resolved, Value, Or
  <2>5. QED
    BY <2>1, <2>2, <2>3, <2>4 DEF CliInv
<1>4. QED
  BY <1>1, <1>2, <1>3

-----------------------------------------------------------------------------
(* Known hosts.                                                              *)

\* Host keys are checked: the condition of OffersOnlyToKnown once the configuration
\* has been read.
Checks ==
  /\ ~asked.acceptAll
  /\ \/ asked.strict \in {"yes", "accept-new"}
     \/ asked.strict = None /\ FoundValues("strict") = {"yes"}

OfferInv ==
  /\ phase = "auth" /\ Checks => world.servers[Peer].key = "known"
  /\ Checks => \A offer \in offered : world.servers[offer[1]].key = "known"

\* What check_server_key lets through under it.
LEMMA AcceptedIsKnown ==
  ASSUME CliInv, ~Early, phase # "exit", Checks, NEW host, AcceptsHostKey(host)
  PROVE  world.servers[host].key = "known"
<1>1. PICK strict \in Value("strict") : cli.strict = Or(asked.strict, Or(strict, "no"))
  BY DEF CliInv, Resolved
<1>2. cli.strict \in {"yes", "accept-new"} /\ ~cli.acceptAll
  BY <1>1, NoneAssumption DEF CliInv, Kept, Checks, Or, Value
<1>3. QED
  BY <1>2 DEF AcceptsHostKey, Strict

LEMMA OfferStep ==
  ASSUME CliInv, OfferInv, [Next]_vars
  PROVE  OfferInv'
<1>1. CASE Early /\ Next
  <2>1. offered = {} /\ offered' = {} /\ phase' # "auth"
    BY <1>1, EarlyActions
       DEF CliInv, Early, Answer, Fork, Help, BeginConfig, Configure, ConfigRefused,
           ApplyConfig, Exit, Quiet, runVars
  <2>2. QED
    BY <2>1 DEF OfferInv
<1>2. CASE ~Early /\ Next
  <2>1. Settled /\ Checks' = Checks
    BY <1>2, LaterActions, FoundSame DEF Settled, Checks
  <2>2. UNCHANGED hop => Peer' = Peer
    BY <2>1 DEF Peer, Target, Settled
  <2>3. CASE Handshake
    <3>1. UNCHANGED <<hop, offered>> /\ (phase' = "auth" => AcceptsHostKey(Peer))
      BY <2>3 DEF Handshake, Exit
    <3>2. QED
      BY <1>2, <2>1, <2>2, <3>1, AcceptedIsKnown DEF OfferInv, Settled
  <2>4. CASE Attempt
    <3>1. /\ phase = "auth" /\ UNCHANGED hop
          /\ offered' = offered \cup {<<Peer, Login, Head(attempts)[1]>>}
      BY <2>4 DEF Attempt
    <3>2. QED
      BY <2>1, <2>2, <3>1 DEF OfferInv, Settled
  <2>5. CASE \E f \in Spawned : ForwardConnects(f)
    <3>1. PICK f \in Spawned : ForwardConnects(f)
      BY <2>5
    <3>2. UNCHANGED <<phase, hop>>
      BY <3>1 DEF ForwardConnects
    <3>3. CASE UNCHANGED offered
      BY <2>1, <2>2, <3>2, <3>3 DEF OfferInv, Settled
    <3>4. CASE ~UNCHANGED offered
      <4>1. /\ AcceptsHostKey(Target)
            /\ \A offer \in offered' : offer \in offered \/ offer[1] = Target
        BY <3>1, <3>4 DEF ForwardConnects
      <4>2. QED
        BY <1>2, <2>1, <2>2, <3>2, <4>1, AcceptedIsKnown DEF OfferInv, Settled
    <3>5. QED
      BY <3>3, <3>4
  <2>6. CASE TakeNext
    <3>1. UNCHANGED <<phase, hop, offered>>
      BY <2>6 DEF TakeNext
    <3>2. QED
      BY <2>1, <2>2, <3>1 DEF OfferInv, Settled
  <2>7. CASE \/ Resume \/ Connect \/ Reach \/ AuthFails \/ Transfer \/ TransfersDone
             \/ Forward \/ Stdio \/ Session \/ NoSession \/ TimeOut \/ MasterReturns
    <3>1. UNCHANGED offered /\ phase' # "auth"
      BY <2>7 DEF Resume, Connect, Reach, AuthFails, Transfer, TransfersDone, Forward, Stdio,
                  Session, NoSession, TimeOut, MasterReturns, Exit, Quiet
    <3>2. QED
      BY <2>1, <3>1 DEF OfferInv, Settled
  <2>8. QED
    BY <1>2, <2>3, <2>4, <2>5, <2>6, <2>7, LaterActions
<1>3. CASE UNCHANGED vars
  <2>1. UNCHANGED <<asked, world, cli, phase, hop, offered>> /\ UNCHANGED configVars
    BY <1>3 DEF vars, runVars
  <2>2. Checks' = Checks /\ Peer' = Peer
    BY <2>1, FoundSame DEF Checks, Peer, Target
  <2>3. QED
    BY <2>1, <2>2 DEF OfferInv
<1>4. QED
  BY <1>1, <1>2, <1>3

\* Under StrictHostKeyChecking, from the command line or the configuration, no proof
\* of identity is sent to the target, the jump host or a forward's target unless
\* known_hosts holds the key it presented (check_server_key before authenticate).
THEOREM KnownHostsOnly == Spec => []OffersOnlyToKnown
<1>1. Init => CliInv /\ OfferInv
  BY CliInit DEF Init, OfferInv
<1>2. CliInv /\ OfferInv /\ [Next]_vars => (CliInv /\ OfferInv)'
  BY CliStep, OfferStep
<1>3. CliInv /\ OfferInv => OffersOnlyToKnown
  BY DEF CliInv, OfferInv, OffersOnlyToKnown, Checks, Early
<1>4. QED
  BY <1>1, <1>2, <1>3, PTL DEF Spec

-----------------------------------------------------------------------------
(* The order of the work.                                                    *)

Transferred == ToSet(asked.transfers) \subseteq done
Granted == asked.exitOnForward /\ "remote" \in asked.forwards => "remote" \in done

WorkInv ==
  /\ phase # "exit" => "command" \notin done
  /\ phase \in {"forward", "session", "wait"} => Transferred
  /\ phase \in {"session", "wait"} => Granted
  /\ NothingSkipped

\* The returns that end a run of its own with 0.
Completed == why \in {"transferred", "stdio", "session", "forwards"}

LEMMA WorkStep ==
  ASSUME CliInv, WorkInv, [Next]_vars
  PROVE  WorkInv'
<1>1. CASE Early /\ Next
  <2>1. /\ done' = {} /\ phase' \notin {"forward", "session", "wait"}
        /\ why' \in {"asked", "help", "config", "spec", why} /\ ~Completed
    BY <1>1, EarlyActions, NoneAssumption
       DEF CliInv, Early, Answer, Fork, Help, BeginConfig, Configure, ConfigRefused,
           ApplyConfig, Exit, Quiet, runVars, Completed
  <2>2. QED
    BY <2>1 DEF WorkInv, NothingSkipped, Completed
<1>2. CASE ~Early /\ Next
  <2>1. Settled /\ Kept /\ cli.command = Command /\ why = None /\ "command" \notin done
    BY <1>2, LaterActions DEF CliInv, WorkInv, Early, Settled
  <2>2. UNCHANGED asked /\ Command' = Command
    BY <2>1 DEF Settled, Command
  <2>3. ToSet(cli.transfers) \subseteq {"push", "pull", "rsync"}
        /\ \A n \in DOMAIN cli.transfers : cli.transfers[n] \in {"push", "pull", "rsync"}
    BY DEF CliInv, Parsed, ToSet
  <2>4. ASSUME "command" \notin done', why' = None \/ ~Completed'
        PROVE  NothingSkipped'
    BY <2>4, NoneAssumption DEF NothingSkipped, Completed
  <2>5. CASE Resume
    <3>1. /\ phase' = "exit" /\ why' \in {"resumed", "resume failed"}
          /\ why' = "resume failed" => UNCHANGED done
      BY <2>5 DEF Resume, Exit
    <3>2. QED
      BY <2>1, <3>1 DEF WorkInv, NothingSkipped
  <2>6. CASE Connect \/ Reach \/ Handshake \/ TakeNext \/ Attempt \/ AuthFails \/ TimeOut
             \/ MasterReturns
    <3>1. UNCHANGED done /\ phase' \notin {"forward", "session", "wait"}
          /\ (why' = None \/ ~Completed')
      BY <2>1, <2>6
         DEF Connect, Reach, Handshake, TakeNext, Attempt, AuthFails, TimeOut,
             MasterReturns, Exit, Quiet, Completed
    <3>2. QED
      BY <2>1, <2>4, <3>1 DEF WorkInv
  <2>7. CASE Transfer
    <3>1. PICK n \in DOMAIN cli.transfers :
            \/ Exit(1, "transfer") /\ UNCHANGED done
            \/ done' = done \cup {cli.transfers[n]} /\ UNCHANGED <<phase, exit, why>>
      BY <2>7 DEF Transfer
    <3>2. "command" \notin done' /\ phase' \in {"transfer", "exit"}
          /\ (why' = None \/ ~Completed')
      BY <2>1, <2>3, <2>7, <3>1 DEF Transfer, Exit, Completed
    <3>3. QED
      BY <2>4, <3>2 DEF WorkInv
  <2>8. CASE TransfersDone
    <3>1. Transferred /\ UNCHANGED done
      BY <2>1, <2>8 DEF TransfersDone, ToTransfer, Transferred, Kept, Quiet
    <3>2. \/ phase' = "forward" /\ why' = None
          \/ /\ phase' = "exit" /\ why' = "transferred"
             /\ cli.transfers # <<>> /\ cli.command = <<>> /\ ~cli.noCommand
      BY <2>1, <2>8 DEF TransfersDone, Exit
    <3>3. NothingSkipped'
      BY <2>1, <2>2, <2>4, <3>1, <3>2 DEF NothingSkipped, Transferred, Kept
    <3>4. QED
      BY <2>1, <2>2, <3>1, <3>2, <3>3 DEF WorkInv, Transferred
  <2>9. CASE Forward
    <3>1. Transferred /\ why' # "transferred"
      BY <2>1, <2>9, NoneAssumption DEF Forward, WorkInv, Exit
    <3>2. /\ done \subseteq done' /\ "command" \notin done'
          /\ \/ phase' = "exit" /\ why' = "forward"
             \/ phase' = "session" /\ why' = None /\ Granted'
      BY <2>1, <2>2, <2>9 DEF Forward, Exit, Granted, Kept
    <3>3. QED
      BY <2>1, <2>2, <2>4, <3>1, <3>2 DEF WorkInv, Transferred, Completed
  <2>10. CASE Stdio
    <3>1. Transferred /\ Granted /\ phase' = "exit"
      BY <2>10 DEF Stdio, WorkInv, Exit
    <3>2. \/ why' \in {"-W beside a transfer", "channel"} /\ UNCHANGED done
          \/ why' = "stdio" /\ done' = done \cup {"stdio"} /\ cli.stdio
      BY <2>10 DEF Stdio, Exit
    <3>3. NothingSkipped'
      BY <2>1, <2>2, <3>1, <3>2 DEF NothingSkipped, Transferred, Kept
    <3>4. QED
      BY <3>1, <3>3 DEF WorkInv
  <2>11. CASE Session
    <3>1. Transferred /\ Granted /\ ~cli.stdio
      BY <2>11 DEF Session, WorkInv
    <3>2. \/ phase' = "exit" /\ why' = "channel" /\ UNCHANGED done
          \/ /\ phase' = "exit" /\ why' = "session"
             /\ cli.command # <<>> \/ ~cli.noCommand
             /\ done' = done \cup {IF cli.command # <<>> THEN "command" ELSE "shell"}
          \/ phase' = "wait" /\ why' = None /\ UNCHANGED done
      BY <2>1, <2>11 DEF Session, Exit
    <3>3. NothingSkipped'
      BY <2>1, <2>2, <2>4, <3>1, <3>2 DEF NothingSkipped, Transferred, Granted, Kept, Completed
    <3>4. QED
      BY <2>1, <2>2, <3>1, <3>2, <3>3 DEF WorkInv, Transferred, Granted
  <2>12. CASE NoSession
    <3>1. Transferred /\ Granted /\ ~cli.stdio /\ cli.noCommand /\ UNCHANGED done
      BY <2>12 DEF NoSession, PureForward, WorkInv, Quiet
    <3>2. \/ phase' = "wait" /\ why' = None
          \/ /\ phase' = "exit" /\ why' = "forwards"
             /\ cli.forwards \cap {"local", "remote"} = {}
      BY <2>1, <2>12 DEF NoSession, Exit
    <3>3. NothingSkipped'
      BY <2>1, <2>2, <2>4, <3>1, <3>2 DEF NothingSkipped, Transferred, Kept
    <3>4. QED
      BY <2>1, <2>2, <3>1, <3>2, <3>3 DEF WorkInv, Transferred, Granted
  <2>13. CASE \E f \in Spawned : ForwardConnects(f)
    <3>1. /\ UNCHANGED <<phase, why>> /\ done \subseteq done'
          /\ "command" \notin done'
      BY <2>1, <2>13 DEF ForwardConnects, Spawned
    <3>2. QED
      BY <2>1, <2>2, <2>4, <3>1 DEF WorkInv, Transferred, Granted
  <2>14. QED
    BY <1>2, <2>5, <2>6, <2>7, <2>8, <2>9, <2>10, <2>11, <2>12, <2>13, LaterActions
<1>3. CASE UNCHANGED vars
  <2>1. UNCHANGED <<asked, phase, done, exit, why>> /\ Command' = Command
    BY <1>3 DEF vars, runVars, Command
  <2>2. QED
    BY <2>1 DEF WorkInv, NothingSkipped, Transferred, Granted
<1>4. QED
  BY <1>1, <1>2, <1>3

\* The command starts only after all transfers and, under ExitOnForwardFailure, the
\* grant of -R, and a run that ends with 0 has done what it was asked for, for every
\* command line and every failure of a step (the order of run in main.rs).
THEOREM NothingIsSkipped == Spec => []NothingSkipped
<1>1. Init => CliInv /\ WorkInv
  BY CliInit, NoneAssumption DEF Init, WorkInv, NothingSkipped
<1>2. CliInv /\ WorkInv /\ [Next]_vars => (CliInv /\ WorkInv)'
  BY CliStep, WorkStep
<1>3. CliInv /\ WorkInv => NothingSkipped
  BY DEF WorkInv
<1>4. QED
  BY <1>1, <1>2, <1>3, PTL DEF Spec

-----------------------------------------------------------------------------
(* Authentication.                                                           *)

\* Turned down by the peer, or about to be tried.
Covered(trial) == ~Accepts(Peer, trial) \/ \E n \in DOMAIN attempts : attempts[n] = trial

HashesOf(key) == IF key \in world.rsa THEN {"sha512", "sha256", "sha1"} ELSE {"own"}
KeyCovered(key) ==
  key \notin world.broken => \A hash \in HashesOf(key) : Covered(<<key, hash>>)

Trials ==
  (ToSet(cli.identity) \cup {Password}) \X {"sha512", "sha256", "sha1", "own"}

\* Every key but those left to load has been tried with each of its hashes or is
\* about to be, and so has the password.
TrialsInv ==
  /\ attempts \in Seq(Trials)
  /\ \A k \in DOMAIN cli.identity : k \in left.keys \/ KeyCovered(cli.identity[k])
  /\ cli.password => left.password \/ Covered(PasswordTrial)

LeftType == left \in [keys : SUBSET DOMAIN cli.identity, password : {cli.password, FALSE}]

AuthInv ==
  /\ phase = "auth" => TrialsInv /\ LeftType
  /\ AuthUsesWhatItHas

\* A trial stays covered while no attempt is dropped that has not been made.
LEMMA CoveredStays ==
  ASSUME UNCHANGED <<world, cli, hop>>, NEW trial, Covered(trial),
         \A n \in DOMAIN attempts :
           attempts[n] = trial =>
             ~Accepts(Peer, trial) \/ \E m \in DOMAIN attempts' : attempts'[m] = trial
  PROVE  Covered(trial)'
<1>1. Peer' = Peer /\ Accepts(Peer, trial)' = Accepts(Peer, trial)
  BY DEF Peer, Target, Accepts
<1>2. QED
  BY <1>1 DEF Covered

LEMMA KeyTrialsType ==
  ASSUME NEW key \in ToSet(cli.identity)
  PROVE  /\ KeyTrials(key) \in Seq(Trials)
         /\ key \notin world.broken =>
              \A hash \in HashesOf(key) :
                \E n \in DOMAIN KeyTrials(key) : KeyTrials(key)[n] = <<key, hash>>
<1>1. CASE key \in world.broken
  BY <1>1 DEF KeyTrials
<1>2. CASE key \notin world.broken /\ key \in world.rsa
  <2>1. KeyTrials(key) = [n \in 1 .. 3 |-> <<key, <<"sha512", "sha256", "sha1">>[n]>>]
    BY <1>2 DEF KeyTrials, Hashes
  <2>2. /\ KeyTrials(key)[1] = <<key, "sha512">> /\ KeyTrials(key)[2] = <<key, "sha256">>
        /\ KeyTrials(key)[3] = <<key, "sha1">>
    BY <2>1
  <2>3. \A n \in 1 .. 3 : KeyTrials(key)[n] \in Trials
    BY <2>2 DEF Trials
  <2>4. KeyTrials(key) \in Seq(Trials)
    BY <2>1, <2>3
  <2>5. QED
    BY <1>2, <2>1, <2>2, <2>4 DEF HashesOf
<1>3. CASE key \notin world.broken /\ key \notin world.rsa
  <2>1. KeyTrials(key) = [n \in 1 .. 1 |-> <<key, <<"own">>[n]>>]
    BY <1>3 DEF KeyTrials, Hashes
  <2>2. KeyTrials(key)[1] = <<key, "own">>
    BY <2>1
  <2>3. \A n \in 1 .. 1 : KeyTrials(key)[n] \in Trials
    BY <2>2 DEF Trials
  <2>4. KeyTrials(key) \in Seq(Trials)
    BY <2>1, <2>3
  <2>5. QED
    BY <1>3, <2>1, <2>2, <2>4 DEF HashesOf
<1>4. QED
  BY <1>1, <1>2, <1>3

LEMMA TakeNextStep ==
  ASSUME AuthInv, TakeNext, UNCHANGED <<world, cli, hop>>, why # "authentication"
  PROVE  AuthInv'
<1>1. /\ phase = "auth" /\ attempts = <<>> /\ UNCHANGED <<phase, why>> /\ TrialsInv
      /\ LeftType
  BY DEF TakeNext, AuthInv
<1>2. ASSUME NEW trial, Covered(trial)
      PROVE  Covered(trial)'
  BY <1>1, <1>2, CoveredStays
<1>3. ASSUME NEW key, KeyCovered(key)
      PROVE  KeyCovered(key)'
  BY <1>2, <1>3 DEF KeyCovered, HashesOf
<1>4. Trials' = Trials
  BY DEF Trials
<1>5. AuthUsesWhatItHas'
  BY <1>1 DEF AuthUsesWhatItHas
<1>6. CASE left.keys = {} /\ left.password
  <2>1. left' = [left EXCEPT !.password = FALSE] /\ attempts' = <<PasswordTrial>>
    BY <1>6 DEF TakeNext
  <2>2. Covered(PasswordTrial)'
    BY <2>1 DEF Covered, PasswordTrial
  <2>3. attempts' \in Seq(Trials)
    BY <2>1 DEF PasswordTrial, Trials
  <2>4. LeftType' /\ left'.keys = left.keys
    BY <1>1, <2>1 DEF LeftType
  <2>5. TrialsInv'
    BY <1>1, <1>3, <1>4, <2>2, <2>3, <2>4 DEF TrialsInv
  <2>6. QED
    BY <1>5, <2>4, <2>5 DEF AuthInv
<1>7. ASSUME NEW k \in left.keys,
             left' = [left EXCEPT !.keys = @ \ {k}],
             attempts' = KeyTrials(cli.identity[k])
      PROVE  AuthInv'
  <2>1. cli.identity[k] \in ToSet(cli.identity) /\ k \in DOMAIN cli.identity
    BY <1>1 DEF ToSet, LeftType
  <2>2. attempts' \in Seq(Trials)
    BY <1>7, <2>1, KeyTrialsType
  <2>3. KeyCovered(cli.identity[k])'
    BY <1>7, <2>1, KeyTrialsType DEF KeyCovered, HashesOf, Covered
  <2>4. /\ LeftType'
        /\ left'.keys = left.keys \ {k} /\ left'.password = left.password
    BY <1>1, <1>7 DEF LeftType
  <2>5. \A i \in DOMAIN cli.identity : i \in left'.keys \/ KeyCovered(cli.identity[i])'
    BY <1>1, <1>3, <2>3, <2>4 DEF TrialsInv
  <2>6. cli.password => left'.password \/ Covered(PasswordTrial)'
    BY <1>1, <1>2, <2>4 DEF TrialsInv
  <2>7. TrialsInv'
    BY <1>4, <2>2, <2>5, <2>6 DEF TrialsInv, PasswordTrial
  <2>8. QED
    BY <1>5, <2>4, <2>7 DEF AuthInv
<1>8. QED
  BY <1>1, <1>6, <1>7 DEF TakeNext

LEMMA AttemptStep ==
  ASSUME AuthInv, Attempt, phase' = "auth", UNCHANGED <<world, cli, hop>>
  PROVE  TrialsInv' /\ UNCHANGED left
<1>1. /\ phase = "auth" /\ attempts # <<>> /\ attempts' = Tail(attempts) /\ UNCHANGED left
      /\ ~Accepts(Peer, Head(attempts))
  BY DEF Attempt, Exit
<1>2. TrialsInv /\ attempts \in Seq(Trials)
  BY <1>1 DEF AuthInv, TrialsInv
<1>3. /\ attempts' \in Seq(Trials) /\ Head(attempts) = attempts[1]
      /\ \A n \in DOMAIN attempts : n = 1 \/ (n - 1 \in DOMAIN attempts' /\ attempts'[n - 1] = attempts[n])
  BY <1>1, <1>2
<1>4. ASSUME NEW trial, Covered(trial)
      PROVE  Covered(trial)'
  BY <1>1, <1>3, <1>4, CoveredStays
<1>5. ASSUME NEW key, KeyCovered(key)
      PROVE  KeyCovered(key)'
  BY <1>4, <1>5 DEF KeyCovered, HashesOf
<1>6. Trials' = Trials
  BY DEF Trials
<1>7. QED
  BY <1>1, <1>2, <1>3, <1>4, <1>5, <1>6 DEF TrialsInv, PasswordTrial

LEMMA AuthSame ==
  ASSUME UNCHANGED <<world, cli, hop, left, attempts>>
  PROVE  /\ Peer' = Peer /\ LeftType' = LeftType /\ TrialsInv' = TrialsInv
         /\ \A trial : Accepts(Peer, trial)' = Accepts(Peer, trial)
<1>1. Peer' = Peer /\ \A trial : Accepts(Peer, trial)' = Accepts(Peer, trial)
  BY DEF Peer, Target, Accepts
<1>2. \A trial : Covered(trial)' = Covered(trial)
  BY <1>1 DEF Covered
<1>3. \A key : KeyCovered(key)' = KeyCovered(key)
  BY <1>2 DEF KeyCovered, HashesOf
<1>4. LeftType' = LeftType /\ Trials' = Trials
  BY DEF LeftType, Trials
<1>5. TrialsInv' = TrialsInv
  BY <1>2, <1>3, <1>4 DEF TrialsInv, PasswordTrial
<1>6. QED
  BY <1>1, <1>4, <1>5

LEMMA AuthStep ==
  ASSUME CliInv, AuthInv, [Next]_vars
  PROVE  AuthInv'
<1>1. CASE Early /\ Next
  <2>1. phase' # "auth" /\ why' # "authentication"
    BY <1>1, EarlyActions, NoneAssumption
       DEF CliInv, Early, Answer, Fork, Help, BeginConfig, Configure, ConfigRefused,
           ApplyConfig, Exit, Quiet, runVars
  <2>2. QED
    BY <2>1 DEF AuthInv, AuthUsesWhatItHas
<1>2. CASE ~Early /\ Next
  <2>1. Settled /\ Kept /\ why = None /\ Resolved
    BY <1>2, LaterActions DEF CliInv, Settled
  <2>2. CASE TakeNext
    BY <2>1, <2>2, TakeNextStep, NoneAssumption DEF TakeNext, Settled
  <2>3. CASE Attempt
    <3>1. UNCHANGED <<world, cli, hop>> /\ phase = "auth" /\ why' # "authentication"
      BY <2>1, <2>3, NoneAssumption DEF Attempt, Exit, Settled
    <3>2. phase' = "auth" => TrialsInv' /\ UNCHANGED left
      BY <2>3, <3>1, AttemptStep
    <3>3. QED
      BY <3>1, <3>2 DEF AuthInv, AuthUsesWhatItHas, LeftType
  <2>4. CASE Handshake
    <3>1. why' # "authentication" /\ UNCHANGED <<world, cli, hop>>
      BY <2>1, <2>4, NoneAssumption DEF Handshake, Exit, Settled
    <3>2. phase' = "auth" =>
            /\ attempts' = <<>>
            /\ left' = [keys |-> DOMAIN cli.identity, password |-> cli.password]
      BY <2>4 DEF Handshake, Exit
    <3>3. phase' = "auth" => TrialsInv' /\ LeftType'
      <4>1. SUFFICES ASSUME phase' = "auth"
                     PROVE  TrialsInv' /\ LeftType'
        OBVIOUS
      <4>2. attempts' = <<>> /\ left'.keys = DOMAIN cli.identity /\ left'.password = cli.password
        BY <3>2, <4>1
      <4>3. attempts' \in Seq(Trials')
        BY <4>2
      <4>4. TrialsInv'
        BY <3>1, <4>2, <4>3 DEF TrialsInv
      <4>5. LeftType'
        <5>1. left' \in [keys : SUBSET DOMAIN cli.identity, password : {cli.password, FALSE}]
          <6>1. ASSUME NEW K, NEW w
                PROVE  [keys |-> K, password |-> w] \in [keys : SUBSET K, password : {w, FALSE}]
            OBVIOUS
          <6>2. [keys |-> DOMAIN cli.identity, password |-> cli.password]
                  \in [keys : SUBSET DOMAIN cli.identity, password : {cli.password, FALSE}]
            BY <6>1, Zenon
          <6>3. left' = [keys |-> DOMAIN cli.identity, password |-> cli.password]
            BY <3>2, <4>1
          <6>4. QED
            BY <6>2, <6>3, Zenon
        <5>2. QED
          BY <3>1, <5>1 DEF LeftType
      <4>6. QED
        BY <4>4, <4>5
    <3>4. QED
      BY <3>1, <3>3 DEF AuthInv, AuthUsesWhatItHas
  <2>5. CASE AuthFails
    <3>1. /\ phase' = "exit" /\ UNCHANGED <<world, cli, hop, asked>> /\ UNCHANGED configVars
          /\ attempts = <<>> /\ left.keys = {} /\ ~left.password /\ TrialsInv
      BY <2>5 DEF AuthFails, Exit, Quiet, AuthInv
    <3>2. \A key \in ToSet(cli.identity) \ world.broken :
            \A hash \in HashesOf(key) : ~Accepts(Peer, <<key, hash>>)
      BY <3>1 DEF TrialsInv, KeyCovered, Covered, ToSet
    <3>3. cli.password => ~Accepts(Peer, <<Password, "own">>)
      BY <3>1 DEF TrialsInv, Covered, PasswordTrial
    <3>4. /\ cli.identity = (asked.identity \o FoundInOrder("identity"))'
          /\ cli.password = asked.password'
      BY <2>1, <3>1, FoundSame DEF Resolved, Kept
    <3>5. Peer' = Peer /\ \A trial : Accepts(Peer, trial)' = Accepts(Peer, trial)
      BY <3>1 DEF Peer, Target, Accepts
    <3>6. AuthUsesWhatItHas'
      BY <3>1, <3>2, <3>3, <3>4, <3>5 DEF AuthUsesWhatItHas, HashesOf
    <3>7. QED
      BY <3>1, <3>6 DEF AuthInv
  <2>6. CASE \E f \in Spawned : ForwardConnects(f)
    <3>1. UNCHANGED <<phase, hop, authVars, why>>
      BY <2>6 DEF ForwardConnects
    <3>2. phase = "auth" => TrialsInv' /\ LeftType'
      BY <2>1, <3>1, AuthSame DEF AuthInv, Settled, authVars
    <3>3. QED
      BY <2>1, <3>1, <3>2, NoneAssumption DEF AuthInv, AuthUsesWhatItHas
  <2>7. CASE \/ Resume \/ Connect \/ Reach \/ Transfer \/ TransfersDone
             \/ Forward \/ Stdio \/ Session \/ NoSession \/ TimeOut \/ MasterReturns
    <3>1. why' # "authentication" /\ phase' # "auth"
      BY <2>1, <2>7, NoneAssumption
         DEF Resume, Connect, Reach, Transfer, TransfersDone, Forward, Stdio,
             Session, NoSession, TimeOut, MasterReturns, Exit, Quiet
    <3>2. QED
      BY <3>1 DEF AuthInv, AuthUsesWhatItHas
  <2>8. QED
    BY <1>2, <2>2, <2>3, <2>4, <2>5, <2>6, <2>7, LaterActions
<1>3. CASE UNCHANGED vars
  <2>1. UNCHANGED <<asked, world, cli, phase, hop, left, attempts, why>> /\ UNCHANGED configVars
    BY <1>3 DEF vars, runVars, authVars
  <2>2. QED
    BY <2>1, AuthSame, FoundSame DEF AuthInv, AuthUsesWhatItHas
<1>4. QED
  BY <1>1, <1>2, <1>3

\* A run that ends with "Authentication failed" has had every key that loads turned
\* down with every hash, and the password, by the server it was about, for any keys
\* and any server (authenticate's chain).
THEOREM EverythingTried == Spec => []AuthUsesWhatItHas
<1>1. Init => CliInv /\ AuthInv
  BY CliInit, NoneAssumption DEF Init, AuthInv, AuthUsesWhatItHas
<1>2. CliInv /\ AuthInv /\ [Next]_vars => (CliInv /\ AuthInv)'
  BY CliStep, AuthStep
<1>3. CliInv /\ AuthInv => AuthUsesWhatItHas
  BY DEF AuthInv
<1>4. QED
  BY <1>1, <1>2, <1>3, PTL DEF Spec

-----------------------------------------------------------------------------
(* The configuration's text.                                                 *)

OpensBlock(file, n) == fs[file][n].kind \in {"host", "match"}

\* One call of preprocess_includes: seen_block_keyword is what it says, and when it
\* is set the last line copied is the one before this call's.
CallInv(call) ==
  /\ DOMAIN call = {"file", "line", "todo", "block"}
  /\ call.line \in Nat \ {0}
  /\ call.block <=> \E n \in 1 .. call.line - 1 : OpensBlock(call.file, n)
  /\ call.block => Len(merged) > 0 /\ merged[Len(merged)] = <<call.file, call.line - 1>>

\* Where line line of file stands in the text, the lines of the file from a Host or
\* Match line on stand right before it.
Follows(text, i, file, line) ==
  /\ line \in Nat \ {0}
  /\ \A h \in 1 .. line - 1 : OpensBlock(file, h) =>
       \A n \in h .. line : i - (line - n) >= 1 /\ text[i - (line - n)] = <<file, n>>
InBlock(text, i) == Follows(text, i, text[i][1], text[i][2])

\* It is not set in a call whose Include is under way.
TextInv ==
  /\ stack \in Seq(ToSet(stack))
  /\ merged \in Seq(ToSet(merged))
  /\ \A k \in 1 .. Len(stack) :
       /\ CallInv(stack[k])
       /\ k < Len(stack) \/ stack[k].todo # <<>> => ~stack[k].block
  /\ \A i \in 1 .. Len(merged) : InBlock(merged, i)

LEMMA SeqOfItsOwn ==
  ASSUME NEW S, NEW s \in Seq(S)
  PROVE  s \in Seq(ToSet(s))
<1>1. s \in [1 .. Len(s) -> ToSet(s)] /\ Len(s) \in Nat
  BY DEF ToSet
<1>2. QED
  BY <1>1

\* What the parser files a setting under, if its own file opens a block above it.
LEMMA OwnHost ==
  ASSUME TextInv
  PROVE  BlockOwnsItsLines
<1> SUFFICES ASSUME NEW i \in Settings, NEW h \in 1 .. merged[i][2] - 1,
                    OpensBlock(merged[i][1], h),
                    \A n \in 1 .. merged[i][2] - 1 : OpensBlock(merged[i][1], n) => n <= h,
                    fs[merged[i][1]][h].kind = "host"
             PROVE  Governor(i) = <<merged[i][1], h>>
  BY DEF BlockOwnsItsLines, OpensBlock
<1> DEFINE file == merged[i][1]
           line == merged[i][2]
           g == i - (line - h)
<1>1. i \in 1 .. Len(merged) /\ Len(merged) \in Nat /\ Follows(merged, i, file, line)
  BY DEF TextInv, Settings, InBlock
<1>2. line \in Nat \ {0} /\ h \in 1 .. line - 1
  BY <1>1 DEF Follows
<1>3. \A n \in h .. line : i - (line - n) >= 1 /\ merged[i - (line - n)] = <<file, n>>
  BY <1>1, <1>2 DEF Follows
<1>4. g \in 1 .. i - 1 /\ merged[g] = <<file, h>>
  BY <1>1, <1>2, <1>3
<1>5. g \in HostLines(i)
  BY <1>4 DEF HostLines, LineAt
<1>6. ASSUME NEW k \in HostLines(i), k > g
      PROVE  FALSE
  <2>1. k \in 1 .. i - 1 /\ LineAt(merged[k]).kind = "host"
    BY DEF HostLines
  <2> DEFINE n == line - (i - k)
  <2>2. n \in h + 1 .. line - 1
    <3>1. i \in Nat /\ k \in Nat /\ k < i /\ h \in Nat
      BY <1>1, <1>2, <2>1
    <3>2. ASSUME NEW l \in Nat, k > i - (l - h)
          PROVE  l - (i - k) \in h + 1 .. l - 1
      BY <3>1, <3>2
    <3>3. QED
      BY <1>2, <1>6, <3>2
  <2>3. i - (line - n) = k
    BY <1>1, <1>2, <2>1
  <2>4. merged[k] = <<file, n>>
    BY <1>2, <1>3, <2>2, <2>3
  <2>5. OpensBlock(file, n)
    BY <2>1, <2>4 DEF LineAt, OpensBlock
  <2>6. QED
    BY <1>2, <2>2, <2>5
<1>7. \A k \in HostLines(i) : k <= g
  BY <1>1, <1>4, <1>6 DEF HostLines
<1>8. \A j \in HostLines(i) : (\A k \in HostLines(i) : k <= j) => j = g
  BY <1>1, <1>4, <1>5, <1>7 DEF HostLines
<1>9. (CHOOSE j \in HostLines(i) : \A k \in HostLines(i) : k <= j) = g
  BY <1>5, <1>7, <1>8
<1>10. QED
  BY <1>4, <1>9 DEF Governor

\* The text grows by a line.
LEMMA TextGrows ==
  ASSUME TextInv, UNCHANGED fs, ~AtEnd, NEW call, call = Top, Len(stack) > 0,
         merged' = Append(merged, <<call.file, call.line>>)
  PROVE  /\ merged' \in Seq(ToSet(merged')) /\ Len(merged') = Len(merged) + 1
         /\ merged'[Len(merged')] = <<call.file, call.line>>
         /\ \A i \in 1 .. Len(merged') : InBlock(merged, i)'
<1>1. CallInv(call)
  <2>1. Len(stack) \in 1 .. Len(stack) /\ call = stack[Len(stack)]
    BY DEF TextInv, Top, Last
  <2>2. QED
    BY <2>1 DEF TextInv
<1>2. /\ merged \in Seq(ToSet(merged)) /\ Len(merged) \in Nat
      /\ Len(merged') = Len(merged) + 1 /\ merged'[Len(merged) + 1] = <<call.file, call.line>>
      /\ \A i \in 1 .. Len(merged) : merged'[i] = merged[i]
  BY DEF TextInv
<1>3. merged' \in Seq(ToSet(merged'))
  <2>1. merged' \in Seq(ToSet(merged) \cup {<<call.file, call.line>>})
    BY <1>2
  <2>2. QED
    BY <2>1, SeqOfItsOwn
<1>4. \A file, n : OpensBlock(file, n)' = OpensBlock(file, n)
  BY DEF OpensBlock
<1>5. ASSUME NEW i \in 1 .. Len(merged)
      PROVE  InBlock(merged, i)'
  <2>1. InBlock(merged, i) /\ merged'[i] = merged[i]
    BY <1>2 DEF TextInv
  <2>2. \A n \in Nat : i - n >= 1 => merged'[i - n] = merged[i - n]
    BY <1>2
  <2>3. QED
    BY <1>4, <2>1, <2>2, SMTT(30) DEF InBlock, Follows
<1>6. ASSUME NEW last, last = Len(merged) + 1, NEW here, here = call.file,
             NEW at, at = call.line
      PROVE  InBlock(merged, last)'
  <2>1. /\ at \in Nat \ {0} /\ last \in Nat /\ Len(merged) = last - 1
        /\ merged'[last] = <<here, at>>
        /\ \A i \in 1 .. last - 1 : merged'[i] = merged[i]
    BY <1>1, <1>2, <1>6 DEF CallInv
  <2>2. ASSUME NEW h \in 1 .. at - 1, OpensBlock(here, h)
        PROVE  /\ last > 1 /\ merged[last - 1] = <<here, at - 1>>
               /\ Follows(merged, last - 1, here, at - 1)
    <3>1. Len(merged) > 0 /\ merged[Len(merged)] = <<here, at - 1>>
      BY <1>1, <1>6, <2>2 DEF CallInv
    <3>2. InBlock(merged, last - 1) /\ merged[last - 1] = <<here, at - 1>>
      BY <2>1, <3>1 DEF TextInv
    <3>3. QED
      BY <2>1, <3>1, <3>2 DEF InBlock
  <2>3. ASSUME NEW h \in 1 .. at - 1, OpensBlock(here, h), NEW n \in h .. at
        PROVE  last - (at - n) >= 1 /\ merged'[last - (at - n)] = <<here, n>>
    <3>1. last > 1 /\ merged[last - 1] = <<here, at - 1>> /\ Follows(merged, last - 1, here, at - 1)
      BY <2>2, <2>3
    <3>2. n \in Nat /\ h \in Nat /\ h >= 1 /\ h <= n
      BY <2>1
    <3>3. CASE n = at
      BY <2>1, <3>3
    <3>4. CASE n = at - 1
      <4>1. last - (at - n) = last - 1 /\ last - 1 \in 1 .. last - 1
        BY <2>1, <3>1, <3>4
      <4>2. QED
        BY <2>1, <3>1, <3>4, <4>1
    <3>5. CASE n < at - 1
      <4>1. h \in 1 .. (at - 1) - 1 /\ n \in h .. at - 1
        BY <2>1, <2>3, <3>2, <3>5
      <4>2. /\ (last - 1) - ((at - 1) - n) >= 1
            /\ merged[(last - 1) - ((at - 1) - n)] = <<here, n>>
        BY <2>3, <3>1, <4>1 DEF Follows
      <4>3. (last - 1) - ((at - 1) - n) = last - (at - n)
        BY <2>1, <3>2
      <4>4. last - (at - n) \in 1 .. last - 1
        BY <2>1, <3>2, <3>5, <4>2, <4>3
      <4>5. QED
        BY <2>1, <4>2, <4>3, <4>4
    <3>6. n = at \/ n = at - 1 \/ n < at - 1
      BY <2>1, <3>2
    <3>7. QED
      BY <3>3, <3>4, <3>5, <3>6
  <2>4. merged'[last][1] = here /\ merged'[last][2] = at
    BY <2>1
  <2>5. ASSUME NEW h \in 1 .. at - 1, OpensBlock(here, h)', NEW n \in h .. at
        PROVE  last - (at - n) >= 1 /\ merged'[last - (at - n)] = <<here, n>>
    BY <1>4, <2>3, <2>5
  <2>6. Follows(merged, last, here, at)'
    BY <2>1, <2>5 DEF Follows
  <2>7. QED
    BY <2>4, <2>6 DEF InBlock
<1>7. \A i \in 1 .. Len(merged') : i \in 1 .. Len(merged) \/ i = Len(merged) + 1
  BY <1>2
<1>8. QED
  BY <1>2, <1>3, <1>5, <1>6, <1>7

LEMMA TextInit == Init => TextInv
BY DEF Init, TextInv, ToSet

\* Another call at the top.
LEMMA TopReplaced ==
  ASSUME NEW s, NEW call, NEW t, s \in Seq(ToSet(s)), s # <<>>,
         t = [s EXCEPT ![Len(s)] = call]
  PROVE  /\ t \in Seq(ToSet(t)) /\ Len(t) = Len(s) /\ t[Len(s)] = call
         /\ \A k \in 1 .. Len(s) - 1 : t[k] = s[k]
<1>1. Len(s) \in Nat \ {0} /\ DOMAIN s = 1 .. Len(s)
  OBVIOUS
<1>2. t \in Seq(ToSet(s) \cup {call}) /\ Len(t) = Len(s)
  BY <1>1 DEF ToSet
<1>3. t \in Seq(ToSet(t))
  BY <1>2, SeqOfItsOwn
<1>4. QED
  BY <1>1, <1>2, <1>3

LEMMA CallKept ==
  ASSUME UNCHANGED fs, NEW call, CallInv(call), ~call.block \/ UNCHANGED merged
  PROVE  CallInv(call)'
BY DEF CallInv, OpensBlock

\* The stack after a step that leaves the calls below the top as they are.
LEMMA CallsKept ==
  ASSUME TextInv, UNCHANGED fs, stack # <<>>, NEW call, NEW s,
         s = [stack EXCEPT ![Len(stack)] = call]
  PROVE  /\ s \in Seq(ToSet(s)) /\ Len(s) = Len(stack) /\ s[Len(s)] = call
         /\ \A k \in 1 .. Len(s) - 1 : CallInv(s[k])' /\ ~s[k].block
<1>1. stack \in Seq(ToSet(stack)) /\ Len(stack) \in Nat
  BY DEF TextInv
<1>2. /\ s \in Seq(ToSet(s)) /\ Len(s) = Len(stack) /\ s[Len(s)] = call
      /\ \A k \in 1 .. Len(s) - 1 : s[k] = stack[k]
  <2>1. ASSUME NEW old, old = stack
        PROVE  /\ s \in Seq(ToSet(s)) /\ Len(s) = Len(old) /\ s[Len(old)] = call
               /\ \A k \in 1 .. Len(old) - 1 : s[k] = old[k]
    <3>1. old \in Seq(ToSet(old)) /\ old # <<>>
      BY <1>1, <2>1
    <3>2. s = [old EXCEPT ![Len(old)] = call]
      BY <2>1
    <3>3. s \in Seq(ToSet(s)) /\ Len(s) = Len(old)
      BY <3>1, <3>2, TopReplaced
    <3>4. s[Len(old)] = call
      BY <3>1, <3>2, TopReplaced
    <3>5. \A k \in 1 .. Len(old) - 1 : s[k] = old[k]
      BY <3>1, <3>2, TopReplaced
    <3>6. QED
      BY <3>3, <3>4, <3>5
  <2>2. QED
    BY <2>1
<1>3. ASSUME NEW k \in 1 .. Len(s) - 1
      PROVE  CallInv(s[k])' /\ ~s[k].block
  <2>1. s[k] = stack[k] /\ Len(s) = Len(stack)
    BY <1>2
  <2>2. ASSUME NEW kept, kept = stack[k]
        PROVE  CallInv(kept)' /\ ~kept.block
    <3>1. k \in 1 .. Len(stack) /\ k < Len(stack)
      <4>1. \A n \in Nat : \A m \in 1 .. n - 1 : m \in 1 .. n /\ m < n
        OBVIOUS
      <4>2. k \in 1 .. Len(stack) - 1
        BY <2>1
      <4>3. QED
        BY <1>1, <4>1, <4>2
    <3>2. CallInv(kept) /\ ~kept.block
      BY <2>2, <3>1 DEF TextInv
    <3>3. QED
      BY <3>2, CallKept
  <2>3. QED
    BY <2>1, <2>2
<1>4. QED
  BY <1>2, <1>3

\* TextInv after a step, put together from its parts.
LEMMA TextFrom ==
  ASSUME NEW s, s = stack', s \in Seq(ToSet(s)), merged' \in Seq(ToSet(merged')),
         \A k \in 1 .. Len(s) : CallInv(s[k])',
         \A k \in 1 .. Len(s) : k < Len(s) \/ s[k].todo # <<>> => ~s[k].block,
         \A i \in 1 .. Len(merged') : InBlock(merged, i)'
  PROVE  TextInv'
BY DEF TextInv, CallInv

\* The text when nothing is written.
LEMMA TextKept ==
  ASSUME TextInv, UNCHANGED <<fs, merged>>
  PROVE  /\ merged' \in Seq(ToSet(merged'))
         /\ \A i \in 1 .. Len(merged') : InBlock(merged, i)'
<1>1. \A file, n : OpensBlock(file, n)' = OpensBlock(file, n)
  BY DEF OpensBlock
<1>2. QED
  BY <1>1 DEF TextInv, InBlock, Follows

\* A step that replaces the call at the top and may write a line.
LEMMA TopMoves ==
  ASSUME TextInv, UNCHANGED fs, stack # <<>>, NEW call, CallInv(call)',
         call.todo # <<>> => ~call.block, stack' = [stack EXCEPT ![Len(stack)] = call],
         merged' \in Seq(ToSet(merged')),
         \A i \in 1 .. Len(merged') : InBlock(merged, i)'
  PROVE  TextInv'
<1>1. ASSUME NEW s, s = stack'
      PROVE  TextInv'
  <2>1. /\ s \in Seq(ToSet(s)) /\ Len(s) = Len(stack) /\ s[Len(s)] = call
        /\ \A k \in 1 .. Len(s) - 1 : CallInv(s[k])' /\ ~s[k].block
    BY <1>1, CallsKept
  <2>2. \A k \in 1 .. Len(s) : k \in 1 .. Len(s) - 1 \/ (k = Len(s) /\ ~(k < Len(s)))
    BY <2>1
  <2>3. ASSUME NEW k \in 1 .. Len(s)
        PROVE  CallInv(s[k])' /\ (k < Len(s) \/ s[k].todo # <<>> => ~s[k].block)
    <3>1. CASE k \in 1 .. Len(s) - 1
      BY <2>1, <3>1
    <3>2. CASE k = Len(s) /\ ~(k < Len(s))
      <4>1. s[k] = call
        BY <2>1, <3>2
      <4>2. QED
        BY <3>2, <4>1
    <3>3. QED
      BY <2>2, <3>1, <3>2
  <2>4. QED
    BY <1>1, <2>1, <2>3, TextFrom
<1>2. QED
  BY <1>1

\* A step that empties the stack, or only takes its last call off.
LEMMA TopLeaves ==
  ASSUME TextInv, UNCHANGED <<fs, merged>>, NEW s, s = stack', Len(s) \in Nat,
         Len(s) <= Len(stack), s \in Seq(ToSet(s)),
         \A k \in 1 .. Len(s) : s[k] = stack[k]
  PROVE  TextInv'
<1>1. stack \in Seq(ToSet(stack)) /\ Len(stack) \in Nat
  BY DEF TextInv
<1>2. ASSUME NEW k \in 1 .. Len(s)
      PROVE  CallInv(s[k])' /\ (k < Len(s) \/ s[k].todo # <<>> => ~s[k].block)
  <2>1. k \in 1 .. Len(stack) /\ s[k] = stack[k] /\ (k < Len(s) => k < Len(stack))
    BY <1>1
  <2>2. CallInv(stack[k]) /\ (k < Len(stack) \/ stack[k].todo # <<>> => ~stack[k].block)
    BY <2>1 DEF TextInv
  <2>3. ASSUME NEW kept, kept = s[k]
        PROVE  CallInv(kept)' /\ (k < Len(s) \/ kept.todo # <<>> => ~kept.block)
    <3>1. CallInv(kept) /\ (k < Len(s) \/ kept.todo # <<>> => ~kept.block)
      BY <2>1, <2>2, <2>3
    <3>2. QED
      BY <3>1, CallKept
  <2>4. QED
    BY <2>3
<1>3. QED
  BY <1>2, TextFrom, TextKept

\* A step of preprocess_includes.
LEMMA TextStep ==
  ASSUME TextInv, ConfigStep
  PROVE  TextInv'
<1>1. stack # <<>> /\ (CopyLine \/ ReadInclude \/ OpenIncluded \/ FinishFile)
  BY DEF ConfigStep
<1>2. /\ stack \in Seq(ToSet(stack)) /\ Len(stack) \in Nat \ {0}
      /\ Top = stack[Len(stack)]
  BY <1>1 DEF TextInv, Last, Top
<1>3. CallInv(Top) /\ (Top.todo # <<>> => ~Top.block)
  <2>1. Len(stack) \in 1 .. Len(stack)
    BY <1>2
  <2>2. CallInv(stack[Len(stack)])
        /\ (stack[Len(stack)].todo # <<>> => ~stack[Len(stack)].block)
    BY <2>1 DEF TextInv
  <2>3. QED
    BY <1>2, <2>2
<1>4. UNCHANGED fs
  BY <1>1 DEF CopyLine, ReadInclude, Refuse, OpenIncluded, FinishFile
<1>5. ASSUME NEW why_, Refuse(why_)
      PROVE  TextInv'
  <2>1. stack' = <<>> /\ UNCHANGED merged
    BY <1>5 DEF Refuse
  <2>2. <<>> \in Seq(ToSet(<<>>)) /\ Len(<<>>) = 0
    OBVIOUS
  <2>3. ASSUME NEW s, s = stack'
        PROVE  TextInv'
    <3>1. s = <<>> /\ s \in Seq(ToSet(s)) /\ Len(s) = 0
      BY <2>1, <2>2, <2>3
    <3>2. Len(s) \in Nat /\ Len(s) <= Len(stack) /\ \A k \in 1 .. Len(s) : s[k] = stack[k]
      BY <1>2, <3>1
    <3>3. QED
      BY <1>4, <2>1, <2>3, <3>1, <3>2, TopLeaves
  <2>4. QED
    BY <2>3
<1>6. ASSUME NEW top, top = Top
      PROVE  TextInv'
  <2>1. CallInv(top) /\ (top.todo # <<>> => ~top.block) /\ top = stack[Len(stack)]
    BY <1>2, <1>3, <1>6
  <2>2. DOMAIN top = {"file", "line", "todo", "block"} /\ top.line \in Nat \ {0}
    BY <2>1 DEF CallInv
  <2>3. CASE CopyLine
    <3> DEFINE opens == Here.kind \in {"host", "match"}
    <3>1. top.todo = <<>> /\ ~AtEnd /\ merged' = Append(merged, <<top.file, top.line>>)
      BY <1>6, <2>3 DEF CopyLine
    <3>2. opens = OpensBlock(top.file, top.line)
      BY <1>6 DEF Here, OpensBlock
    <3>3. ASSUME NEW call, call = [top EXCEPT !.line = @ + 1, !.block = @ \/ opens]
          PROVE  TextInv'
      <4>1. /\ call.file = top.file /\ call.line = top.line + 1 /\ call.todo = <<>>
            /\ call.block = (top.block \/ opens)
            /\ DOMAIN call = {"file", "line", "todo", "block"}
        BY <2>2, <3>1, <3>3
      <4>2. stack' = [stack EXCEPT ![Len(stack)] = call]
        BY <1>2, <2>1, <2>3, <3>3 DEF CopyLine
      <4>3. /\ merged' \in Seq(ToSet(merged')) /\ Len(merged') = Len(merged) + 1
            /\ merged'[Len(merged')] = <<top.file, top.line>>
            /\ \A i \in 1 .. Len(merged') : InBlock(merged, i)'
        <5>1. Len(stack) > 0
          BY <1>2
        <5>2. QED
          BY <1>4, <1>6, <3>1, <5>1, TextGrows
      <4>4. call.line \in Nat \ {0} /\ call.line - 1 = top.line
        BY <2>2, <4>1
      <4>5. call.block <=> \E n \in 1 .. call.line - 1 : OpensBlock(call.file, n)'
        <5>1. \A n : OpensBlock(call.file, n)' = OpensBlock(top.file, n)
          BY <1>4, <4>1 DEF OpensBlock
        <5>2. top.block <=> \E n \in 1 .. top.line - 1 : OpensBlock(top.file, n)
          BY <2>1 DEF CallInv
        <5>3. \A n \in 1 .. top.line : n \in 1 .. top.line - 1 \/ n = top.line
          BY <2>2
        <5>4. \A n \in 1 .. top.line - 1 : n \in 1 .. top.line
          BY <2>2
        <5>5. top.line \in 1 .. top.line
          BY <2>2
        <5>6. call.block <=> \E n \in 1 .. top.line : OpensBlock(top.file, n)
          BY <3>2, <4>1, <5>2, <5>3, <5>4, <5>5
        <5>7. QED
          BY <4>4, <5>1, <5>6
      <4>6. Len(merged') > 0 /\ merged'[Len(merged')] = <<call.file, call.line - 1>>
        <5>1. Len(merged) \in Nat
          BY DEF TextInv
        <5>2. QED
          BY <4>1, <4>3, <4>4, <5>1
      <4>7. CallInv(call)'
        BY <4>1, <4>4, <4>5, <4>6 DEF CallInv
      <4>8. QED
        BY <1>1, <1>4, <4>1, <4>2, <4>3, <4>7, TopMoves
    <3>4. QED
      BY <3>3
  <2>4. CASE ReadInclude
    <3>1. CASE \E reason \in {"malformed", "block", "no match"} : Refuse(reason)
      BY <1>5, <3>1
    <3>2. CASE ~\E reason \in {"malformed", "block", "no match"} : Refuse(reason)
      <4>1. /\ Here.kind = "include" /\ ~top.block /\ UNCHANGED merged
            /\ stack' = [stack EXCEPT ![Len(stack)].line = @ + 1,
                                      ![Len(stack)].todo = Matches(Here)]
        BY <1>6, <2>4, <3>2 DEF ReadInclude
      <4>2. ASSUME NEW call, call = [top EXCEPT !.line = @ + 1, !.todo = Matches(Here)]
            PROVE  TextInv'
        <5>1. /\ call.file = top.file /\ call.line = top.line + 1 /\ ~call.block
              /\ DOMAIN call = {"file", "line", "todo", "block"}
          BY <2>2, <4>1, <4>2
        <5>2. stack' = [stack EXCEPT ![Len(stack)] = call]
          BY <1>2, <2>1, <4>1, <4>2
        <5>3. ~OpensBlock(top.file, top.line)
          BY <1>6, <4>1 DEF Here, OpensBlock
        <5>4. \A n \in 1 .. top.line - 1 : ~OpensBlock(top.file, n)
          BY <2>1, <4>1 DEF CallInv
        <5>5. \A n \in 1 .. call.line - 1 : n \in 1 .. top.line - 1 \/ n = top.line
          BY <2>2, <5>1
        <5>6. CallInv(call)
          BY <2>2, <5>1, <5>3, <5>4, <5>5 DEF CallInv
        <5>7. CallInv(call)'
          BY <1>4, <5>1, <5>6, CallKept
        <5>8. QED
          BY <1>1, <1>4, <4>1, <5>1, <5>2, <5>7, TextKept, TopMoves
      <4>3. QED
        BY <4>2
    <3>3. QED
      BY <3>1, <3>2
  <2>5. CASE OpenIncluded
    <3>1. CASE \E reason \in {"cycle", "unreadable", "depth"} : Refuse(reason)
      BY <1>5, <3>1
    <3>2. CASE ~\E reason \in {"cycle", "unreadable", "depth"} : Refuse(reason)
      <4>1. ASSUME NEW call, call = [top EXCEPT !.todo = Tail(@)],
                   NEW new, new = Frame(Head(top.todo)),
                   NEW below, below = [stack EXCEPT ![Len(stack)] = call],
                   NEW s, s = stack'
            PROVE  TextInv'
        <5>1. top.todo # <<>> /\ UNCHANGED merged
              /\ stack' = Append([stack EXCEPT ![Len(stack)].todo = Tail(@)], Frame(Head(top.todo)))
          BY <1>6, <2>5, <3>2 DEF OpenIncluded
        <5>2. s = Append(below, new)
          BY <1>2, <2>1, <4>1, <5>1
        <5>3. /\ call.file = top.file /\ call.line = top.line /\ call.block = top.block
              /\ DOMAIN call = {"file", "line", "todo", "block"} /\ ~call.block
          BY <2>1, <2>2, <4>1, <5>1
        <5>4. CallInv(call)'
          <6>1. CallInv(call)
            BY <2>1, <5>3 DEF CallInv
          <6>2. QED
            BY <1>4, <5>3, <6>1, CallKept
        <5>5. /\ below \in Seq(ToSet(below)) /\ Len(below) = Len(stack)
              /\ below[Len(below)] = call
              /\ \A k \in 1 .. Len(below) - 1 : CallInv(below[k])' /\ ~below[k].block
          BY <1>1, <1>4, <4>1, CallsKept
        <5>6. CallInv(new)' /\ ~new.block
          <6>1. new.line = 1 /\ ~new.block /\ DOMAIN new = {"file", "line", "todo", "block"}
            BY <4>1 DEF Frame
          <6>2. QED
            BY <6>1 DEF CallInv
        <5>7. \A k \in 1 .. Len(below) : CallInv(below[k])' /\ ~below[k].block
          <6>1. \A k \in 1 .. Len(below) : k \in 1 .. Len(below) - 1 \/ k = Len(below)
            BY <5>5
          <6>2. QED
            BY <5>3, <5>4, <5>5, <6>1
        <5>8. /\ Len(s) = Len(below) + 1 /\ s[Len(s)] = new /\ Len(below) \in Nat
              /\ \A k \in 1 .. Len(below) : s[k] = below[k]
          BY <5>2, <5>5
        <5>9. s \in Seq(ToSet(s))
          <6>1. s \in Seq(ToSet(below) \cup {new})
            BY <5>2, <5>5
          <6>2. QED
            BY <6>1, SeqOfItsOwn
        <5>10. ASSUME NEW k \in 1 .. Len(s)
               PROVE  CallInv(s[k])' /\ ~s[k].block
          <6>1. CASE k \in 1 .. Len(below)
            BY <5>7, <5>8, <6>1
          <6>2. CASE k = Len(s)
            BY <5>6, <5>8, <6>2
          <6>3. k \in 1 .. Len(below) \/ k = Len(s)
            BY <5>8
          <6>4. QED
            BY <6>1, <6>2, <6>3
        <5>11. QED
          BY <1>4, <4>1, <5>1, <5>9, <5>10, TextKept, TextFrom
      <4>2. QED
        BY <4>1
    <3>3. QED
      BY <3>1, <3>2
  <2>6. CASE FinishFile
    <3>1. stack' = Front(stack) /\ UNCHANGED merged
      BY <2>6 DEF FinishFile
    <3>2. \A k \in 1 .. Len(stack) - 1 : stack[k] \in ToSet(stack)
      BY <1>2
    <3>3. 1 \in Int /\ Len(stack) - 1 \in Int
      BY <1>2
    <3>4. ASSUME NEW s, s = stack'
          PROVE  TextInv'
      <4>1. s = SubSeq(stack, 1, Len(stack) - 1)
        BY <3>1, <3>4 DEF Front
      <4>2. Len(s) = Len(stack) - 1 /\ \A k \in 1 .. Len(s) : s[k] = stack[k]
        <5>1. /\ Len(s) = IF 1 <= Len(stack) - 1 THEN (Len(stack) - 1) - 1 + 1 ELSE 0
              /\ \A k \in 1 .. (Len(stack) - 1) - 1 + 1 : s[k] = stack[1 + k - 1]
          BY <1>2, <3>2, <3>3, <4>1, SubSeqProperties
        <5>2. \A n \in Nat \ {0} : (IF 1 <= n - 1 THEN (n - 1) - 1 + 1 ELSE 0) = n - 1
          OBVIOUS
        <5>3. Len(s) = Len(stack) - 1
          BY <1>2, <5>1, <5>2
        <5>4. \A k \in 1 .. Len(s) : k \in 1 .. (Len(stack) - 1) - 1 + 1 /\ 1 + k - 1 = k
          BY <1>2, <5>3
        <5>5. QED
          BY <5>1, <5>3, <5>4
      <4>3. s \in Seq(ToSet(stack))
        BY <1>2, <3>2, <3>3, <4>1, SubSeqProperties
      <4>4. s \in Seq(ToSet(s))
        BY <4>3, SeqOfItsOwn
      <4>5. QED
        BY <1>2, <1>4, <3>1, <3>4, <4>2, <4>4, TopLeaves
    <3>5. QED
      BY <3>4
  <2>7. QED
    BY <1>1, <2>3, <2>4, <2>5, <2>6
<1>7. QED
  BY <1>6

LEMMA TextSame ==
  ASSUME TextInv, UNCHANGED configVars
  PROVE  TextInv'
<1>1. UNCHANGED <<fs, stack, merged>>
  BY DEF configVars
<1>2. QED
  BY <1>1 DEF TextInv, CallInv, OpensBlock, InBlock, Follows

LEMMA TextNext == CliInv /\ TextInv /\ [Next]_vars => TextInv'
<1> SUFFICES ASSUME CliInv, TextInv, [Next]_vars
             PROVE  TextInv'
  OBVIOUS
<1>1. CASE BeginConfig
  <2>1. /\ UNCHANGED fs /\ merged' = <<>>
        /\ stack' = <<>> \/ stack' = <<Frame(Main)>>
    BY <1>1 DEF BeginConfig, ConfigStart
  <2>2. CASE stack' = <<>>
    BY <2>1, <2>2 DEF TextInv, ToSet
  <2>3. CASE stack' = <<Frame(Main)>>
    <3>1. ASSUME NEW call, call = Frame(Main)
          PROVE  CallInv(call)' /\ ~call.block
      <4>1. call.line = 1 /\ ~call.block /\ DOMAIN call = {"file", "line", "todo", "block"}
        BY <3>1 DEF Frame
      <4>2. QED
        BY <4>1 DEF CallInv
    <3>2. ASSUME NEW s, s = stack'
          PROVE  TextInv'
      <4>1. Len(s) = 1 /\ s[1] = Frame(Main) /\ s \in Seq({Frame(Main)})
        BY <2>3, <3>2
      <4>2. s \in Seq(ToSet(s))
        BY <4>1, SeqOfItsOwn
      <4>3. \A k \in 1 .. Len(s) : CallInv(s[k])' /\ ~s[k].block
        BY <3>1, <4>1
      <4>4. merged' \in Seq(ToSet(merged')) /\ Len(merged') = 0
        BY <2>1
      <4>5. QED
        BY <3>2, <4>2, <4>3, <4>4, TextFrom
    <3>3. QED
      BY <3>2
  <2>4. QED
    BY <2>1, <2>2, <2>3
<1>2. CASE Configure
  BY <1>2, TextStep DEF Configure
<1>3. CASE UNCHANGED configVars
  BY <1>3, TextSame
<1>4. CASE Early /\ Next
  <2>1. \/ Answer \/ Fork \/ Help \/ BeginConfig \/ Configure \/ ConfigRefused
        \/ ApplyConfig
    BY <1>4, EarlyActions
  <2>2. BeginConfig \/ Configure \/ UNCHANGED configVars
    BY <2>1 DEF Answer, Fork, Help, ConfigRefused, ApplyConfig, configVars
  <2>3. QED
    BY <2>2, <1>1, <1>2, <1>3
<1>5. CASE ~Early /\ Next
  BY <1>3, <1>5, LaterActions DEF Settled
<1>6. CASE UNCHANGED vars
  BY <1>3, <1>6 DEF vars
<1>7. QED
  BY <1>4, <1>5, <1>6

\* For any configuration files, however they include one another: a setting that
\* follows a Host line in its own file is filed under that Host line in the text the
\* parser reads, because Include is refused after the first Host or Match of a file
\* (preprocess_includes' seen_block_keyword).
THEOREM BlocksOwnTheirLines == Spec => []BlockOwnsItsLines
<1>1. Init => CliInv /\ TextInv
  BY CliInit, TextInit
<1>2. CliInv /\ TextInv /\ [Next]_vars => (CliInv /\ TextInv)'
  BY CliStep, TextNext
<1>3. CliInv /\ TextInv => BlockOwnsItsLines
  BY OwnHost
<1>4. QED
  BY <1>1, <1>2, <1>3, PTL DEF Spec

-----------------------------------------------------------------------------
(* Numbers, and that what is defined by iterating a step exists.             *)

\* Any set of numbers has a least member.
LEMMA LeastNumber ==
  ASSUME NEW S \in SUBSET Nat, S # {}
  PROVE  \E least \in S : \A n \in S : least <= n
<1> DEFINE R == OpToRel(<, Nat)
<1>1. \A x, y \in Nat : x < y => <<x, y>> \in R
  BY DEF OpToRel
<1>2. IsWellFoundedOn(R, Nat)
  BY NatLessThanWellFounded
<1> HIDE DEF R
<1>3. PICK least \in S : \A n \in S : ~ (<<n, least>> \in R)
  BY <1>2, WFMin
<1>4. \A n \in S : ~ (n < least)
  BY <1>1, <1>3
<1>5. QED
  BY <1>4

\* Induction.
LEMMA AllNumbers ==
  ASSUME NEW S \in SUBSET Nat, 0 \in S, \A n \in S : n + 1 \in S
  PROVE  S = Nat
<1> DEFINE Missing == Nat \ S
<1>1. CASE Missing # {}
  <2>1. PICK least \in Missing : \A n \in Missing : least <= n
    BY <1>1, LeastNumber
  <2>2. least - 1 \in S
    BY <2>1
  <2>3. QED
    BY <2>1, <2>2
<1>2. QED
  BY <1>1

\* The first m + 1 values of an iteration.
Segment(S, first, G, m) ==
  {g \in [0 .. m -> S] : g[0] = first /\ \A n \in 0 .. m - 1 : g[n + 1] = G[<<n, g[n]>>]}

LEMMA SegmentExists ==
  ASSUME NEW S, NEW first \in S, NEW G \in [Nat \X S -> S]
  PROVE  \A m \in Nat : Segment(S, first, G, m) # {}
<1> DEFINE T == {m \in Nat : Segment(S, first, G, m) # {}}
<1>1. 0 \in T
  <2> DEFINE g == [n \in 0 .. 0 |-> first]
  <2>1. g \in Segment(S, first, G, 0)
    BY DEF Segment
  <2>2. QED
    BY <2>1
<1>2. ASSUME NEW m \in T
      PROVE  m + 1 \in T
  <2>1. PICK g \in [0 .. m -> S] :
          g[0] = first /\ \A n \in 0 .. m - 1 : g[n + 1] = G[<<n, g[n]>>]
    BY DEF Segment
  <2> DEFINE h == [n \in 0 .. m + 1 |-> IF n = m + 1 THEN G[<<m, g[m]>>] ELSE g[n]]
  <2>2. m \in Nat /\ G[<<m, g[m]>>] \in S
    BY <2>1
  <2>3. h \in [0 .. m + 1 -> S] /\ h[0] = first
    BY <2>1, <2>2
  <2>4. \A n \in 0 .. m : h[n + 1] = G[<<n, h[n]>>]
    <3> TAKE n \in 0 .. m
    <3>1. h[n] = g[n]
      BY <2>2
    <3>2. CASE n = m
      <4>1. m + 1 \in 0 .. m + 1
        BY <2>2
      <4>2. h[m + 1] = G[<<m, g[m]>>]
        BY <4>1
      <4>3. QED
        BY <3>1, <3>2, <4>2
    <3>3. CASE n # m
      <4>1. n \in 0 .. m - 1 /\ n + 1 \in 0 .. m
        BY <2>2, <3>3
      <4>2. h[n + 1] = g[n + 1]
        BY <2>2, <4>1
      <4>3. QED
        BY <2>1, <3>1, <4>1, <4>2
    <3>4. QED
      BY <3>2, <3>3
  <2>5. (m + 1) - 1 = m
    BY <2>2
  <2>6. h \in Segment(S, first, G, m + 1)
    <3> HIDE DEF h
    <3>1. QED
      BY <2>3, <2>4, <2>5 DEF Segment
  <2>7. QED
    BY <2>2, <2>6
<1>3. T = Nat
  <2> HIDE DEF T
  <2>1. T \in SUBSET Nat
    BY DEF T
  <2>2. QED
    BY <1>1, <1>2, <2>1, AllNumbers
<1>4. QED
  BY <1>3

\* Two of them agree where both are defined.
LEMMA SegmentUnique ==
  ASSUME NEW S, NEW first \in S, NEW G \in [Nat \X S -> S], NEW m \in Nat,
         NEW g \in Segment(S, first, G, m), NEW h \in Segment(S, first, G, m + 1)
  PROVE  g[m] = h[m]
<1> DEFINE T == {n \in Nat : n <= m => g[n] = h[n]}
<1>1. /\ g[0] = first /\ \A n \in 0 .. m - 1 : g[n + 1] = G[<<n, g[n]>>]
      /\ h[0] = first /\ \A n \in 0 .. (m + 1) - 1 : h[n + 1] = G[<<n, h[n]>>]
  BY DEF Segment
<1>2. ASSUME NEW n \in T
      PROVE  n + 1 \in T
  <2>1. CASE n + 1 <= m
    <3>1. n \in 0 .. m - 1 /\ n \in 0 .. (m + 1) - 1 /\ n <= m
      BY <2>1
    <3>2. g[n] = h[n]
      BY <3>1
    <3>3. g[n + 1] = G[<<n, g[n]>>] /\ h[n + 1] = G[<<n, h[n]>>]
      BY <1>1, <3>1
    <3>4. g[n + 1] = h[n + 1]
      BY <3>2, <3>3
    <3>5. QED
      BY <3>4
  <2>2. QED
    BY <2>1
<1>3. T = Nat
  <2>1. T \in SUBSET Nat /\ 0 \in T
    BY <1>1
  <2> HIDE DEF T
  <2>2. QED
    BY <1>2, <2>1, AllNumbers
<1>4. QED
  BY <1>3

\* A first value and a step from each value to the next make a function.
Iterates(f, first, G) ==
  f[0] = first /\ \A n \in Nat : f[n + 1] = G[<<n, f[n]>>]

THEOREM Iterated ==
  ASSUME NEW S, NEW first \in S, NEW G \in [Nat \X S -> S]
  PROVE  \E f \in [Nat -> S] : Iterates(f, first, G)
<1> DEFINE g(m) == CHOOSE x \in Segment(S, first, G, m) : TRUE
           f == [m \in Nat |-> g(m)[m]]
<1>1. \A m \in Nat : g(m) \in Segment(S, first, G, m)
  BY SegmentExists
<1> HIDE DEF g
<1>2. f \in [Nat -> S]
  BY <1>1 DEF Segment
<1>3. f[0] = first
  BY <1>1 DEF Segment
<1>4. ASSUME NEW n \in Nat
      PROVE  f[n + 1] = G[<<n, f[n]>>]
  <2>1. g(n)[n] = g(n + 1)[n]
    <3>1. n + 1 \in Nat
      OBVIOUS
    <3>2. g(n) \in Segment(S, first, G, n) /\ g(n + 1) \in Segment(S, first, G, n + 1)
      BY <1>1, <3>1
    <3>3. \A x \in Segment(S, first, G, n), y \in Segment(S, first, G, n + 1) : x[n] = y[n]
      BY SegmentUnique, ZenonT(30)
    <3>4. QED
      BY <3>2, <3>3
  <2>2. g(n + 1)[n + 1] = G[<<n, g(n + 1)[n]>>]
    <3>1. n \in 0 .. (n + 1) - 1 /\ n + 1 \in Nat
      OBVIOUS
    <3>2. QED
      BY <1>1, <3>1 DEF Segment
  <2>3. QED
    BY <2>1, <2>2
<1>5. QED
  BY <1>2, <1>3, <1>4 DEF Iterates

-----------------------------------------------------------------------------
(* The included files, spliced in.                                           *)

\* FlattenSeq part by part: p[n] is the first n sequences of s, one after the other.
Steps(s, m, p) == \A n \in 0 .. m - 1 : p[n + 1] = p[n] \o s[n + 1]
IsPrefixes(s, p) ==
  p[0] = <<>> /\ Steps(s, Len(s), p) /\ p[Len(s)] = FlattenSeq(s)
PrefixesOf(s) == CHOOSE p : IsPrefixes(s, p)

\* Two functions with the same first value and the same steps.
LEMMA SamePrefixes ==
  ASSUME NEW s, NEW m \in Nat, NEW p, NEW q, NEW k \in 0 .. m, p[0] = q[0],
         Steps(s, m, p), Steps(s, m, q)
  PROVE  p[k] = q[k]
<1> DEFINE Same == {n \in Nat : n <= m => p[n] = q[n]}
<1>1. Same \in SUBSET Nat /\ 0 \in Same
  OBVIOUS
<1>2. ASSUME NEW n \in Same
      PROVE  n + 1 \in Same
  <2>1. CASE n + 1 <= m
    <3>1. n \in 0 .. m - 1 /\ n <= m /\ n \in Nat
      BY <2>1
    <3>2. p[n] = q[n]
      BY <3>1
    <3>3. p[n + 1] = q[n + 1]
      BY <3>1, <3>2 DEF Steps
    <3>4. QED
      BY <3>1, <3>3
  <2>2. QED
    BY <2>1
<1>3. Same = Nat
  <2> HIDE DEF Same
  <2>1. QED
    BY <1>1, <1>2, AllNumbers
<1>4. QED
  BY <1>3

LEMMA PrefixesExist ==
  ASSUME NEW T, NEW s \in Seq(Seq(T))
  PROVE  \E p : IsPrefixes(s, p) /\ \A n \in 0 .. Len(s) : p[n] \in Seq(T)
<1> DEFINE G == [x \in Nat \X Seq(T) |-> IF x[1] + 1 \in 1 .. Len(s) THEN x[2] \o s[x[1] + 1]
                                         ELSE x[2]]
<1>1. Len(s) \in Nat /\ \A n \in 1 .. Len(s) : s[n] \in Seq(T)
  OBVIOUS
<1>2. G \in [Nat \X Seq(T) -> Seq(T)]
  BY <1>1
<1>3. <<>> \in Seq(T)
  OBVIOUS
<1>4. PICK g \in [Nat -> Seq(T)] : Iterates(g, <<>>, G)
  <2> HIDE DEF G
  <2>1. QED
    BY <1>2, <1>3, Iterated
<1>5. \A n \in 0 .. Len(s) - 1 : g[n + 1] = g[n] \o s[n + 1]
  <2> TAKE n \in 0 .. Len(s) - 1
  <2>1. n \in Nat /\ n + 1 \in 1 .. Len(s) /\ g[n] \in Seq(T)
    BY <1>1, <1>4
  <2>2. G[<<n, g[n]>>] = g[n] \o s[n + 1]
    BY <2>1
  <2>3. QED
    BY <1>4, <2>1, <2>2 DEF Iterates
<1> HIDE DEF G
<1>6. CASE Len(s) = 0
  <2>1. s = <<>>
    BY <1>6
  <2>2. FlattenSeq(s) = <<>>
    BY <1>6, <2>1 DEF FlattenSeq
  <2>3. QED
    BY <1>4, <1>5, <1>6, <2>2 DEF IsPrefixes, Steps, Iterates
<1>7. CASE Len(s) # 0
  <2> DEFINE Is(f) == f = [i \in 1 .. Len(s) |-> IF i = 1 THEN s[i] ELSE f[i - 1] \o s[i]]
             flatten == CHOOSE f : Is(f)
             q == [n \in 0 .. Len(s) |-> IF n = 0 THEN <<>> ELSE flatten[n]]
  <2>1. FlattenSeq(s) = flatten[Len(s)]
    BY <1>7 DEF FlattenSeq
  <2>2. Is([i \in 1 .. Len(s) |-> g[i]])
    <3> DEFINE h == [i \in 1 .. Len(s) |-> g[i]]
    <3>1. ASSUME NEW i \in 1 .. Len(s)
          PROVE  h[i] = IF i = 1 THEN s[i] ELSE h[i - 1] \o s[i]
      <4>1. i - 1 \in 0 .. Len(s) - 1 /\ (i - 1) + 1 = i
        BY <1>1
      <4>2. g[i] = g[i - 1] \o s[i]
        BY <1>5, <4>1
      <4>3. CASE i = 1
        <5>1. g[0] = <<>> /\ s[1] \in Seq(T)
          BY <1>1, <1>4, <4>3 DEF Iterates
        <5>2. g[1] = <<>> \o s[1]
          <6>1. i - 1 = 0
            BY <4>3
          <6>2. g[i] = g[0] \o s[i]
            BY <4>2, <6>1
          <6>3. QED
            BY <4>3, <5>1, <6>2
        <5>3. <<>> \o s[1] = s[1]
          BY <5>1
        <5>4. QED
          BY <4>3, <5>2, <5>3
      <4>4. CASE i # 1
        <5>1. i - 1 \in 1 .. Len(s)
          BY <1>1, <4>4
        <5>2. QED
          BY <4>2, <4>4, <5>1
      <4>5. QED
        BY <4>3, <4>4
    <3>2. QED
      BY <3>1
  <2>3. Is(flatten)
    <3> HIDE DEF Is
    <3>1. QED
      BY <2>2
  <2>4. \A i \in 1 .. Len(s) : flatten[i] = IF i = 1 THEN s[i] ELSE flatten[i - 1] \o s[i]
    <3> HIDE DEF flatten
    <3>1. QED
      BY <2>3
  <2> HIDE DEF flatten, Is
  <2>5. \A n \in 0 .. Len(s) - 1 : q[n + 1] = q[n] \o s[n + 1]
    <3> TAKE n \in 0 .. Len(s) - 1
    <3>1. n + 1 \in 1 .. Len(s) /\ n + 1 \in 0 .. Len(s) /\ n \in 0 .. Len(s)
      BY <1>1
    <3>2. q[n + 1] = flatten[n + 1]
      BY <3>1
    <3>3. CASE n = 0
      <4>1. flatten[1] = s[1] /\ s[1] \in Seq(T) /\ q[0] = <<>>
        BY <1>1, <2>4, <3>1, <3>3
      <4>2. <<>> \o s[1] = s[1]
        BY <4>1
      <4>3. q[0 + 1] = flatten[1] /\ 0 + 1 = 1
        BY <3>2, <3>3
      <4>4. q[0 + 1] = <<>> \o s[1]
        BY <4>1, <4>2, <4>3
      <4>5. QED
        BY <3>3, <4>1, <4>3, <4>4
    <3>4. CASE n # 0
      <4>1. q[n] = flatten[n] /\ (n + 1) - 1 = n /\ n + 1 # 1
        BY <3>1, <3>4
      <4>2. QED
        BY <2>4, <3>1, <3>2, <4>1
    <3>5. QED
      BY <3>3, <3>4
  <2>6. q[0] = <<>> /\ q[Len(s)] = FlattenSeq(s)
    BY <1>1, <1>7, <2>1
  <2> HIDE DEF q
  <2>7. \A n \in 0 .. Len(s) : q[n] = g[n]
    <3>1. q[0] = g[0]
      BY <1>4, <2>6 DEF Iterates
    <3>2. Steps(s, Len(s), q) /\ Steps(s, Len(s), g)
      BY <1>5, <2>5 DEF Steps
    <3>3. ASSUME NEW r, r = q
          PROVE  \A n \in 0 .. Len(s) : r[n] = g[n]
      <4>1. r[0] = g[0] /\ Steps(s, Len(s), r) /\ Steps(s, Len(s), g)
        BY <3>1, <3>2, <3>3
      <4>2. Len(s) \in Nat
        BY <1>1
      <4>3. QED
        BY <4>1, <4>2, SamePrefixes, ZenonT(30)
    <3>4. QED
      BY <3>3
  <2>8. \A n \in 0 .. Len(s) : q[n] \in Seq(T)
    BY <1>4, <2>7
  <2>9. IsPrefixes(s, q)
    BY <2>5, <2>6 DEF IsPrefixes, Steps
  <2>10. QED
    BY <2>8, <2>9
<1>8. QED
  BY <1>6, <1>7

LEMMA PrefixFacts ==
  ASSUME NEW T, NEW s \in Seq(Seq(T))
  PROVE  /\ PrefixesOf(s)[0] = <<>>
         /\ \A n \in 0 .. Len(s) - 1 : PrefixesOf(s)[n + 1] = PrefixesOf(s)[n] \o s[n + 1]
         /\ PrefixesOf(s)[Len(s)] = FlattenSeq(s)
         /\ \A n \in 0 .. Len(s) : PrefixesOf(s)[n] \in Seq(T)
         /\ FlattenSeq(s) \in Seq(T)
<1>1. PICK p : IsPrefixes(s, p) /\ \A n \in 0 .. Len(s) : p[n] \in Seq(T)
  BY PrefixesExist
<1>2. IsPrefixes(s, PrefixesOf(s))
  BY <1>1 DEF PrefixesOf
<1>3. Len(s) \in Nat
  OBVIOUS
<1>4. ASSUME NEW q, q = PrefixesOf(s)
      PROVE  \A n \in 0 .. Len(s) : q[n] = p[n]
  <2>1. IsPrefixes(s, q)
    BY <1>2, <1>4
  <2>2. q[0] = p[0] /\ Steps(s, Len(s), q) /\ Steps(s, Len(s), p)
    BY <1>1, <2>1 DEF IsPrefixes
  <2>3. QED
    BY <1>3, <2>2, SamePrefixes
<1>5. \A n \in 0 .. Len(s) : PrefixesOf(s)[n] \in Seq(T)
  BY <1>1, <1>4
<1>6. Len(s) \in 0 .. Len(s)
  BY <1>3
<1>7. QED
  BY <1>2, <1>5, <1>6 DEF IsPrefixes, Steps

Place == (DOMAIN fs) \X Nat
TextsOf == [DOMAIN fs -> Seq(Place)]
Depth == Cardinality(DOMAIN fs) + 1

\* What the lines of a file, and the files of an Include, add to the text.
LinesOf(f, t) == [i \in DOMAIN fs[f] |-> LineText(f, i, t)]
MatchTexts(m, t) == [n \in DOMAIN m |-> IF m[n] \in DOMAIN fs THEN t[m[n]] ELSE <<>>]

LEMMA MatchesType ==
  ASSUME FilesWellFormed, NEW f \in DOMAIN fs, fs[f] # None, NEW i \in DOMAIN fs[f],
         fs[f][i].kind = "include"
  PROVE  Matches(fs[f][i]) \in Seq(ToSet(Matches(fs[f][i])))
<1>1. ASSUME NEW S, IsFiniteSet(S)
      PROVE  Ascending(S) \in Seq(ToSet(Ascending(S)))
  <2>1. Cardinality(S) \in Nat
    BY <1>1, FS_CardinalityType
  <2>2. ASSUME NEW n \in Nat, NEW s, NEW e, s = [j \in 1 .. n |-> e[j]]
        PROVE  s \in Seq(ToSet(s))
    <3>1. s \in Seq({e[j] : j \in 1 .. n})
      BY <2>2
    <3>2. QED
      BY <3>1, SeqOfItsOwn
  <2> DEFINE e == [j \in 1 .. Cardinality(S) |-> Nth(S, j)]
  <2>3. Ascending(S) = e /\ e = [j \in 1 .. Cardinality(S) |-> e[j]]
    BY DEF Ascending
  <2> HIDE DEF e
  <2>4. QED
    BY <2>1, <2>2, <2>3
<1> DEFINE wanted == fs[f][i].of[alias]
<1>2. IsFiniteSet(wanted)
  BY DEF FilesWellFormed
<1>3. IsFiniteSet(wanted \cap DOMAIN fs)
  BY <1>2, FS_Subset
<1>4. \/ Matches(fs[f][i]) = Ascending(wanted)
      \/ Matches(fs[f][i]) = Ascending(wanted \cap DOMAIN fs)
  BY DEF Matches
<1>5. QED
  BY <1>1, <1>2, <1>3, <1>4

LEMMA MatchTextsType ==
  ASSUME NEW m, m \in Seq(ToSet(m)), NEW t \in TextsOf
  PROVE  MatchTexts(m, t) \in Seq(Seq(Place)) /\ Len(MatchTexts(m, t)) = Len(m)
<1>1. Len(m) \in Nat /\ DOMAIN m = 1 .. Len(m)
  OBVIOUS
<1>2. \A n \in DOMAIN m : (IF m[n] \in DOMAIN fs THEN t[m[n]] ELSE <<>>) \in Seq(Place)
  BY DEF TextsOf
<1>3. QED
  BY <1>1, <1>2 DEF MatchTexts

LEMMA IncludeText ==
  ASSUME NEW f, NEW i, NEW t, fs[f][i].kind = "include"
  PROVE  LineText(f, i, t) = FlattenSeq(MatchTexts(Matches(fs[f][i]), t))
BY DEF LineText, MatchTexts

LEMMA LinesType ==
  ASSUME FilesWellFormed, NEW f \in DOMAIN fs, fs[f] # None, NEW t \in TextsOf
  PROVE  LinesOf(f, t) \in Seq(Seq(Place)) /\ Len(LinesOf(f, t)) = Len(fs[f])
<1>1. fs[f] \in Seq(ToSet(fs[f])) /\ Len(fs[f]) \in Nat /\ DOMAIN fs[f] = 1 .. Len(fs[f])
  BY DEF FilesWellFormed
<1>2. ASSUME NEW i \in DOMAIN fs[f]
      PROVE  LineText(f, i, t) \in Seq(Place)
  <2>1. CASE fs[f][i].kind = "include"
    <3>1. MatchTexts(Matches(fs[f][i]), t) \in Seq(Seq(Place))
      BY <2>1, MatchesType, MatchTextsType
    <3>2. FlattenSeq(MatchTexts(Matches(fs[f][i]), t)) \in Seq(Place)
      BY <3>1, PrefixFacts
    <3>3. QED
      BY <2>1, <3>2, IncludeText
  <2>2. CASE fs[f][i].kind # "include"
    <3>1. i \in Nat
      BY <1>1
    <3>2. ASSUME NEW n \in Nat
          PROVE  <<<<f, n>>>> \in Seq(Place)
      <4>1. <<f, n>> \in Place
        BY DEF Place
      <4>2. QED
        BY <4>1
    <3>3. <<<<f, i>>>> \in Seq(Place)
      BY <3>1, <3>2
    <3>4. QED
      BY <2>2, <3>3 DEF LineText
  <2>3. QED
    BY <2>1, <2>2
<1>3. QED
  BY <1>1, <1>2 DEF LinesOf

LEMMA ExpandedType ==
  ASSUME FilesWellFormed, NEW t \in TextsOf
  PROVE  /\ Expanded(t) \in TextsOf
         /\ \A f \in DOMAIN fs : fs[f] # None => Expanded(t)[f] = FlattenSeq(LinesOf(f, t))
<1>1. ASSUME NEW f \in DOMAIN fs
      PROVE  /\ Expanded(t)[f] = IF fs[f] = None THEN <<>> ELSE FlattenSeq(LinesOf(f, t))
             /\ Expanded(t)[f] \in Seq(Place)
  <2>1. Expanded(t)[f] = IF fs[f] = None THEN <<>> ELSE FlattenSeq(LinesOf(f, t))
    BY DEF Expanded, LinesOf
  <2>2. CASE fs[f] = None
    BY <2>1, <2>2
  <2>3. CASE fs[f] # None
    <3>1. LinesOf(f, t) \in Seq(Seq(Place))
      BY <2>3, LinesType
    <3>2. FlattenSeq(LinesOf(f, t)) \in Seq(Place)
      BY <3>1, PrefixFacts
    <3>3. QED
      BY <2>1, <2>3, <3>2
  <2>4. QED
    BY <2>1, <2>2, <2>3
<1>2. Expanded(t) = [f \in DOMAIN fs |-> Expanded(t)[f]]
  BY DEF Expanded
<1>3. QED
  BY <1>1, <1>2 DEF TextsOf

\* The texts of the files when Includes are followed to a depth of d.
ByDepth(t) ==
  /\ \A d \in 0 .. Depth : t[d] \in TextsOf
  /\ \A d \in 0 .. Depth - 1 : t[d + 1] = Expanded(t[d])
  /\ \A f \in DOMAIN fs : t[Depth][f] = Splice(f)
Texts == CHOOSE t : ByDepth(t)

LEMMA TextsExist ==
  ASSUME FilesWellFormed
  PROVE  ByDepth(Texts)
<1> DEFINE empty == [f \in DOMAIN fs |-> <<>>]
           G == [x \in Nat \X TextsOf |-> Expanded(x[2])]
           Is(s) == s = [d \in 0 .. Depth |-> IF d = 0 THEN empty ELSE Expanded(s[d - 1])]
           spliced == CHOOSE s : Is(s)
<1>1. Depth \in Nat
  BY FS_CardinalityType DEF FilesWellFormed, Depth
<1>2. G \in [Nat \X TextsOf -> TextsOf]
  BY ExpandedType
<1>3. empty \in TextsOf
  BY DEF TextsOf
<1>4. PICK g \in [Nat -> TextsOf] : Iterates(g, empty, G)
  <2> HIDE DEF G, empty
  <2>1. QED
    BY <1>2, <1>3, Iterated
<1>5. g[0] = empty /\ \A n \in Nat : g[n + 1] = Expanded(g[n])
  BY <1>4 DEF Iterates
<1>6. Is([d \in 0 .. Depth |-> g[d]])
  <2> HIDE DEF empty, G
  <2>1. ASSUME NEW d \in 0 .. Depth, d # 0
        PROVE  d - 1 \in 0 .. Depth /\ g[d] = Expanded(g[d - 1])
    <3>1. d - 1 \in Nat /\ (d - 1) + 1 = d
      BY <1>1, <2>1
    <3>2. QED
      BY <1>1, <1>5, <3>1
  <2>2. QED
    BY <1>5, <2>1
<1>7. Is(spliced)
  <2> HIDE DEF Is
  <2>1. QED
    BY <1>6
<1>8. /\ spliced[0] = empty
      /\ \A d \in 0 .. Depth : d # 0 => spliced[d] = Expanded(spliced[d - 1])
  <2> HIDE DEF spliced, empty
  <2>1. QED
    BY <1>1, <1>7
<1>9. \A f \in DOMAIN fs : spliced[Depth][f] = Splice(f)
  BY DEF Splice, Depth
<1> HIDE DEF spliced, empty, Is, G
<1>10. \A d \in 0 .. Depth - 1 : spliced[d + 1] = Expanded(spliced[d])
  <2> TAKE d \in 0 .. Depth - 1
  <2>1. d + 1 \in 0 .. Depth /\ d + 1 # 0 /\ (d + 1) - 1 = d
    BY <1>1
  <2>2. QED
    BY <1>8, <2>1
<1>11. \A d \in 0 .. Depth : spliced[d] \in TextsOf
  <2> DEFINE T == {d \in Nat : d <= Depth => spliced[d] \in TextsOf}
  <2>1. T \in SUBSET Nat /\ 0 \in T
    BY <1>3, <1>8
  <2>2. ASSUME NEW d \in T
        PROVE  d + 1 \in T
    <3>1. CASE d + 1 <= Depth
      <4>1. d \in 0 .. Depth - 1 /\ d <= Depth
        BY <1>1, <3>1
      <4>2. spliced[d] \in TextsOf /\ spliced[d + 1] = Expanded(spliced[d])
        BY <1>10, <4>1
      <4>3. QED
        BY <4>1, <4>2, ExpandedType
    <3>2. QED
      BY <3>1
  <2>3. T = Nat
    <3> HIDE DEF T
    <3>1. QED
      BY <2>1, <2>2, AllNumbers
  <2>4. QED
    BY <1>1, <2>3
<1>12. ByDepth(spliced)
  BY <1>9, <1>10, <1>11 DEF ByDepth
<1>13. QED
  BY <1>12 DEF Texts

-----------------------------------------------------------------------------
\* What has become of the text of a call: the lines above the one it is at, and of an
\* Include under way the texts of its first j files.
Written(call, t, w) ==
  /\ call.todo = <<>> /\ call.line - 1 <= Len(fs[call.file])
  /\ w = PrefixesOf(LinesOf(call.file, t))[call.line - 1]
Included(call) == Matches(fs[call.file][call.line - 1])
Inside(call, t, j, w) ==
  /\ call.line - 1 \in 1 .. Len(fs[call.file])
  /\ fs[call.file][call.line - 1].kind = "include"
  /\ j \in 0 .. Len(Included(call)) - 1
  /\ w = PrefixesOf(LinesOf(call.file, t))[call.line - 2]
           \o PrefixesOf(MatchTexts(Included(call), t))[j]
Remains(todo, m, j) ==
  /\ todo \in Seq(ToSet(m)) /\ Len(todo) = Len(m) - j
  /\ \A n \in 1 .. Len(todo) : todo[n] = m[j + n]

\* The call at the top, and one that waits for the call above it, which is for child.
At(call, t, w) ==
  Written(call, t, w)
    \/ \E j \in Nat : Inside(call, t, j, w) /\ Remains(call.todo, Included(call), j)
Under(call, t, child, w) ==
  \E j \in Nat : /\ Inside(call, t, j, w) /\ Remains(call.todo, Included(call), j + 1)
                 /\ child = Included(call)[j + 1]

ReadableFile(f) == f \in DOMAIN fs /\ fs[f] # None

LEMMA LinePrefix ==
  ASSUME FilesWellFormed, NEW f, ReadableFile(f), NEW t \in TextsOf,
         NEW i \in 1 .. Len(fs[f])
  PROVE  /\ PrefixesOf(LinesOf(f, t))[i] = PrefixesOf(LinesOf(f, t))[i - 1] \o LineText(f, i, t)
         /\ PrefixesOf(LinesOf(f, t))[i - 1] \in Seq(Place)
         /\ LineText(f, i, t) \in Seq(Place)
<1>1. fs[f] \in Seq(ToSet(fs[f])) /\ Len(fs[f]) \in Nat
  BY DEF FilesWellFormed, ReadableFile
<1>2. LinesOf(f, t) \in Seq(Seq(Place)) /\ Len(LinesOf(f, t)) = Len(fs[f])
  BY LinesType DEF ReadableFile
<1>3. i - 1 \in 0 .. Len(fs[f]) - 1 /\ i - 1 \in 0 .. Len(fs[f]) /\ (i - 1) + 1 = i
  BY <1>1
<1>4. LinesOf(f, t)[i] = LineText(f, i, t)
  BY <1>1 DEF LinesOf
<1>5. LinesOf(f, t)[i] \in Seq(Place)
  BY <1>2
<1>6. \A n \in 0 .. Len(LinesOf(f, t)) - 1 :
        PrefixesOf(LinesOf(f, t))[n + 1] = PrefixesOf(LinesOf(f, t))[n] \o LinesOf(f, t)[n + 1]
  BY <1>2, PrefixFacts
<1>7. \A n \in 0 .. Len(LinesOf(f, t)) : PrefixesOf(LinesOf(f, t))[n] \in Seq(Place)
  BY <1>2, PrefixFacts
<1>8. QED
  BY <1>2, <1>3, <1>4, <1>5, <1>6, <1>7

LEMMA MatchPrefix ==
  ASSUME NEW m, m \in Seq(ToSet(m)), NEW t \in TextsOf, NEW j \in 1 .. Len(m),
         m[j] \in DOMAIN fs
  PROVE  /\ PrefixesOf(MatchTexts(m, t))[j] = PrefixesOf(MatchTexts(m, t))[j - 1] \o t[m[j]]
         /\ PrefixesOf(MatchTexts(m, t))[j - 1] \in Seq(Place)
         /\ t[m[j]] \in Seq(Place)
<1>1. MatchTexts(m, t) \in Seq(Seq(Place)) /\ Len(MatchTexts(m, t)) = Len(m) /\ Len(m) \in Nat
  BY MatchTextsType
<1>2. j - 1 \in 0 .. Len(m) - 1 /\ j - 1 \in 0 .. Len(m) /\ (j - 1) + 1 = j
  BY <1>1
<1>3. MatchTexts(m, t)[j] = t[m[j]]
  BY DEF MatchTexts
<1>4. t[m[j]] \in Seq(Place)
  BY DEF TextsOf
<1>5. \A n \in 0 .. Len(MatchTexts(m, t)) - 1 :
        PrefixesOf(MatchTexts(m, t))[n + 1]
          = PrefixesOf(MatchTexts(m, t))[n] \o MatchTexts(m, t)[n + 1]
  BY <1>1, PrefixFacts
<1>6. \A n \in 0 .. Len(MatchTexts(m, t)) : PrefixesOf(MatchTexts(m, t))[n] \in Seq(Place)
  BY <1>1, PrefixFacts
<1>7. QED
  BY <1>1, <1>2, <1>3, <1>4, <1>5, <1>6

\* A call that begins.
LEMMA AtStart ==
  ASSUME FilesWellFormed, NEW f, ReadableFile(f), NEW t \in TextsOf
  PROVE  At(Frame(f), t, <<>>)
<1>1. Len(fs[f]) \in Nat
  BY DEF FilesWellFormed, ReadableFile
<1>2. LinesOf(f, t) \in Seq(Seq(Place))
  BY LinesType DEF ReadableFile
<1>3. PrefixesOf(LinesOf(f, t))[0] = <<>>
  BY <1>2, PrefixFacts
<1>4. Frame(f).todo = <<>> /\ Frame(f).line - 1 = 0 /\ Frame(f).file = f
  BY DEF Frame
<1>5. QED
  BY <1>1, <1>3, <1>4 DEF At, Written

\* A call with no Include under way.
LEMMA AtSettled ==
  ASSUME NEW call, NEW t, NEW w, At(call, t, w), call.todo = <<>>
  PROVE  Written(call, t, w)
<1>1. ASSUME NEW j \in Nat, Inside(call, t, j, w), Remains(call.todo, Included(call), j)
      PROVE  FALSE
  <2>1. Len(call.todo) = 0 /\ Len(call.todo) = Len(Included(call)) - j
    BY <1>1 DEF Remains
  <2>2. j <= Len(Included(call)) - 1
    BY <1>1 DEF Inside
  <2>3. QED
    BY <2>1, <2>2
<1>2. QED
  BY <1>1 DEF At

\* A line that is copied.
LEMMA AtCopied ==
  ASSUME FilesWellFormed, NEW call, ReadableFile(call.file), NEW t \in TextsOf, NEW w,
         Written(call, t, w), call.line \in 1 .. Len(fs[call.file]),
         fs[call.file][call.line].kind # "include",
         NEW next, next.file = call.file, next.line = call.line + 1, next.todo = <<>>
  PROVE  At(next, t, w \o <<<<call.file, call.line>>>>)
<1>1. next.line - 1 = call.line /\ Len(fs[call.file]) \in Nat
  BY DEF FilesWellFormed, ReadableFile
<1>2. LineText(call.file, call.line, t) = <<<<call.file, call.line>>>>
  BY DEF LineText
<1>3. PrefixesOf(LinesOf(call.file, t))[call.line]
        = PrefixesOf(LinesOf(call.file, t))[call.line - 1] \o LineText(call.file, call.line, t)
  BY LinePrefix
<1>4. PrefixesOf(LinesOf(next.file, t))[next.line - 1] = w \o <<<<call.file, call.line>>>>
  BY <1>1, <1>2, <1>3 DEF Written
<1>5. QED
  BY <1>1, <1>4 DEF At, Written

\* An Include that is begun.
LEMMA AtIncluded ==
  ASSUME FilesWellFormed, NEW call, ReadableFile(call.file), NEW t \in TextsOf, NEW w,
         Written(call, t, w), call.line \in 1 .. Len(fs[call.file]),
         fs[call.file][call.line].kind = "include",
         NEW next, next.file = call.file, next.line = call.line + 1,
         next.todo = Matches(fs[call.file][call.line]), next.todo # <<>>
  PROVE  At(next, t, w)
<1>1. next.line - 1 = call.line /\ next.line - 2 = call.line - 1
  BY SMTT(30)
<1>2. Included(next) = next.todo
  BY <1>1 DEF Included
<1>3. next.todo \in Seq(ToSet(next.todo))
  <2>1. call.line \in DOMAIN fs[call.file]
    BY DEF FilesWellFormed, ReadableFile
  <2>2. QED
    BY <2>1, MatchesType DEF ReadableFile
<1>4. Len(next.todo) \in Nat \ {0}
  BY <1>3
<1>5. Remains(next.todo, Included(next), 0)
  BY <1>2, <1>3, <1>4 DEF Remains
<1>6. PrefixesOf(MatchTexts(Included(next), t))[0] = <<>>
  <2>1. MatchTexts(Included(next), t) \in Seq(Seq(Place))
    BY <1>2, <1>3, MatchTextsType
  <2>2. QED
    BY <2>1, PrefixFacts
<1>7. PrefixesOf(LinesOf(call.file, t))[call.line - 1] \in Seq(Place)
  BY LinePrefix
<1>8. w \o <<>> = w /\ w = PrefixesOf(LinesOf(call.file, t))[call.line - 1]
  <2>1. w = PrefixesOf(LinesOf(call.file, t))[call.line - 1]
    BY DEF Written
  <2>2. \A x \in Seq(Place) : x \o <<>> = x
    OBVIOUS
  <2>3. QED
    BY <1>7, <2>1, <2>2
<1>9. w = PrefixesOf(LinesOf(next.file, t))[next.line - 2]
            \o PrefixesOf(MatchTexts(Included(next), t))[0]
  BY <1>1, <1>6, <1>8
<1>10. 0 \in 0 .. Len(Included(next)) - 1
  BY <1>2, <1>4
<1>11. Inside(next, t, 0, w)
  BY <1>1, <1>9, <1>10 DEF Inside
<1>12. QED
  BY <1>5, <1>11 DEF At

\* The next file of an Include.
LEMMA UnderOpened ==
  ASSUME NEW call, NEW t, NEW w, At(call, t, w), call.todo # <<>>,
         NEW next, next.file = call.file, next.line = call.line, next.todo = Tail(call.todo)
  PROVE  Under(next, t, Head(call.todo), w)
<1>1. ~Written(call, t, w)
  BY DEF Written
<1>2. PICK j \in Nat : Inside(call, t, j, w) /\ Remains(call.todo, Included(call), j)
  BY <1>1 DEF At
<1>3. Included(next) = Included(call)
  BY DEF Included
<1>4. Inside(next, t, j, w)
  BY <1>2, <1>3 DEF Inside
<1>5. ASSUME NEW todo, todo = call.todo, NEW m, m = Included(call)
      PROVE  Remains(Tail(todo), m, j + 1) /\ Head(todo) = m[j + 1]
  <2>1. /\ todo \in Seq(ToSet(m)) /\ todo # <<>> /\ Len(todo) = Len(m) - j
        /\ \A n \in 1 .. Len(todo) : todo[n] = m[j + n]
    BY <1>2, <1>5 DEF Remains
  <2>2. Len(todo) \in Nat \ {0} /\ Tail(todo) \in Seq(ToSet(m)) /\ Head(todo) = todo[1]
    BY <2>1
  <2>3. Len(Tail(todo)) = Len(todo) - 1 /\ \A n \in 1 .. Len(todo) - 1 : Tail(todo)[n] = todo[n + 1]
    BY <2>1
  <2>4. Len(m) \in Int
    <3>1. j \in 0 .. Len(m) - 1
      BY <1>2, <1>5 DEF Inside
    <3>2. QED
      BY <2>1, <2>2, <3>1
  <2>5. Len(Tail(todo)) = Len(m) - (j + 1)
    BY <2>1, <2>3, <2>4
  <2>6. ASSUME NEW n \in 1 .. Len(Tail(todo))
        PROVE  Tail(todo)[n] = m[(j + 1) + n]
    <3>1. n \in 1 .. Len(todo) - 1 /\ n + 1 \in 1 .. Len(todo) /\ (j + 1) + n = j + (n + 1)
      BY <2>2, <2>3
    <3>2. QED
      BY <2>1, <2>3, <3>1
  <2>7. Head(todo) = m[j + 1]
    BY <2>1, <2>2
  <2>8. QED
    BY <2>2, <2>5, <2>6, <2>7 DEF Remains
<1>6. QED
  BY <1>3, <1>4, <1>5 DEF Under

\* The end of an included file.
LEMMA AtReturned ==
  ASSUME FilesWellFormed, NEW call, ReadableFile(call.file), NEW t \in TextsOf, NEW w,
         NEW child \in DOMAIN fs, call.line \in Nat, Under(call, t, child, w)
  PROVE  At(call, t, w \o t[child])
<1>1. PICK j \in Nat : /\ Inside(call, t, j, w) /\ Remains(call.todo, Included(call), j + 1)
                       /\ child = Included(call)[j + 1]
  BY DEF Under
<1> DEFINE m == Included(call)
           i == call.line - 1
           a == PrefixesOf(LinesOf(call.file, t))[i - 1]
<1>2. /\ i \in 1 .. Len(fs[call.file]) /\ fs[call.file][i].kind = "include"
      /\ j \in 0 .. Len(m) - 1
      /\ w = a \o PrefixesOf(MatchTexts(m, t))[j]
  <2>1. call.line - 2 = i - 1
    OBVIOUS
  <2>2. QED
    BY <1>1, <2>1 DEF Inside
<1>3. m \in Seq(ToSet(m)) /\ Len(m) \in Nat
  <2>1. i \in DOMAIN fs[call.file]
    BY <1>2 DEF FilesWellFormed, ReadableFile
  <2>2. QED
    BY <1>2, <2>1, MatchesType, SMTT(30) DEF ReadableFile, Included
<1>4. /\ PrefixesOf(LinesOf(call.file, t))[i] = a \o LineText(call.file, i, t)
      /\ a \in Seq(Place)
  BY <1>2, LinePrefix
<1>5. /\ PrefixesOf(MatchTexts(m, t))[j + 1] = PrefixesOf(MatchTexts(m, t))[j] \o t[child]
      /\ PrefixesOf(MatchTexts(m, t))[j] \in Seq(Place) /\ t[child] \in Seq(Place)
  <2>1. j + 1 \in 1 .. Len(m) /\ (j + 1) - 1 = j
    BY <1>2, <1>3
  <2>2. m[j + 1] = child
    BY <1>1
  <2> HIDE DEF m
  <2>3. QED
    BY <1>3, <2>1, <2>2, MatchPrefix
<1>6. w \o t[child] = a \o PrefixesOf(MatchTexts(m, t))[j + 1]
  <2>1. \A x, y, z \in Seq(Place) : (x \o y) \o z = x \o (y \o z)
    OBVIOUS
  <2> DEFINE b == PrefixesOf(MatchTexts(m, t))[j]
  <2>2. w = a \o b /\ PrefixesOf(MatchTexts(m, t))[j + 1] = b \o t[child]
    BY <1>2, <1>5
  <2>3. a \in Seq(Place) /\ b \in Seq(Place) /\ t[child] \in Seq(Place)
    BY <1>4, <1>5
  <2> HIDE DEF m, a, b
  <2>4. (a \o b) \o t[child] = a \o (b \o t[child])
    BY <2>1, <2>3
  <2>5. QED
    BY <2>2, <2>4
<1>7. CASE j + 1 < Len(m)
  <2>1. j + 1 \in 0 .. Len(m) - 1
    BY <1>2, <1>3, <1>7
  <2>2. call.line - 2 = i - 1
    OBVIOUS
  <2>3. Inside(call, t, j + 1, w \o t[child])
    BY <1>2, <1>6, <2>1, <2>2 DEF Inside
  <2>4. j + 1 \in Nat
    OBVIOUS
  <2>5. QED
    BY <1>1, <2>3, <2>4 DEF At
<1>8. CASE j + 1 = Len(m)
  <2>1. call.todo = <<>>
    <3>1. call.todo \in Seq(ToSet(m)) /\ Len(call.todo) = 0
      BY <1>1, <1>8 DEF Remains
    <3>2. QED
      BY <3>1
  <2>2. MatchTexts(m, t) \in Seq(Seq(Place)) /\ Len(MatchTexts(m, t)) = Len(m)
    BY <1>3, MatchTextsType
  <2>3. PrefixesOf(MatchTexts(m, t))[Len(m)] = FlattenSeq(MatchTexts(m, t))
    BY <2>2, PrefixFacts
  <2>4. LineText(call.file, i, t) = FlattenSeq(MatchTexts(m, t))
    BY <1>2, IncludeText DEF Included
  <2>5. w \o t[child] = PrefixesOf(LinesOf(call.file, t))[i]
    BY <1>4, <1>6, <1>8, <2>3, <2>4
  <2>6. i <= Len(fs[call.file])
    BY <1>2
  <2>7. QED
    BY <2>1, <2>5, <2>6 DEF At, Written
<1>9. QED
  BY <1>2, <1>3, <1>7, <1>8

\* The end of a file: its text is all there.
LEMMA AtFinished ==
  ASSUME FilesWellFormed, NEW call, ReadableFile(call.file), NEW t \in TextsOf, NEW w,
         At(call, t, w), call.todo = <<>>, call.line \in Nat,
         call.line > Len(fs[call.file])
  PROVE  w = Expanded(t)[call.file]
<1>1. Written(call, t, w)
  BY AtSettled
<1>2. Len(fs[call.file]) \in Nat
  BY DEF FilesWellFormed, ReadableFile
<1>3. call.line - 1 = Len(fs[call.file])
  BY <1>1, <1>2 DEF Written
<1>4. LinesOf(call.file, t) \in Seq(Seq(Place)) /\ Len(LinesOf(call.file, t)) = Len(fs[call.file])
  BY LinesType DEF ReadableFile
<1>5. PrefixesOf(LinesOf(call.file, t))[Len(fs[call.file])] = FlattenSeq(LinesOf(call.file, t))
  BY <1>4, PrefixFacts
<1>6. QED
  BY <1>1, <1>3, <1>5, ExpandedType DEF Written, ReadableFile

-----------------------------------------------------------------------------
\* The calls of the stack one inside the other: c[k] is the text there was when the
\* k-th began, and to it each has added its own.
Linked(s, k, c) ==
  \E w \in Seq(Place) :
    /\ c[k + 1] = c[k] \o w
    /\ IF k = Len(s) THEN At(s[k], Texts[Depth - k], w)
       ELSE Under(s[k], Texts[Depth - k], s[k + 1].file, w)
Chain(s, c, text) ==
  /\ c[1] = <<>> /\ c[Len(s) + 1] = text
  /\ \A k \in 1 .. Len(s) + 1 : c[k] \in Seq(Place)
  /\ \A k \in 1 .. Len(s) : ReadableFile(s[k].file) /\ Linked(s, k, c)
ExpandedInto(s, text) == \E c : Chain(s, c, text)

\* Below the top nothing changes.
SameBelow(s, u) ==
  /\ \A k \in 1 .. Len(s) - 1 : u[k] = s[k]
  /\ u[Len(s)].file = s[Len(s)].file

LEMMA LinkedBelow ==
  ASSUME NEW s, Len(s) \in Nat, NEW u, Len(u) \in Nat, SameBelow(s, u), NEW c, NEW d,
         NEW k \in 1 .. Len(s) - 1, Len(u) > k, d[k] = c[k], d[k + 1] = c[k + 1],
         Linked(s, k, c)
  PROVE  Linked(u, k, d)
<1>1. u[k] = s[k]
  BY DEF SameBelow
<1>2. u[k + 1].file = s[k + 1].file
  <2>1. CASE k + 1 = Len(s)
    BY <2>1 DEF SameBelow
  <2>2. CASE k + 1 # Len(s)
    <3>1. k + 1 \in 1 .. Len(s) - 1
      BY <2>2
    <3>2. QED
      BY <3>1 DEF SameBelow
  <2>3. QED
    BY <2>1, <2>2
<1>3. k # Len(s) /\ k # Len(u)
  OBVIOUS
<1>4. QED
  BY <1>1, <1>2, <1>3 DEF Linked

LEMMA Joined ==
  ASSUME NEW x \in Seq(Place), NEW y \in Seq(Place), NEW z \in Seq(Place)
  PROVE  /\ x \o y \in Seq(Place) /\ y \o z \in Seq(Place)
         /\ (x \o y) \o z = x \o (y \o z)
OBVIOUS

\* The call at the top goes on and writes added.
Moves(call, next, t, added) ==
  \A w \in Seq(Place) : At(call, t, w) => At(next, t, w \o added)

LEMMA ChainMoves ==
  ASSUME NEW s, NEW u, NEW text, NEW added \in Seq(Place), Len(s) \in Nat \ {0},
         Len(u) = Len(s), SameBelow(s, u), ExpandedInto(s, text),
         Moves(s[Len(s)], u[Len(s)], Texts[Depth - Len(s)], added)
  PROVE  ExpandedInto(u, text \o added)
<1> DEFINE n == Len(s)
<1>1. PICK c : Chain(s, c, text)
  BY DEF ExpandedInto
<1>2. /\ c[1] = <<>> /\ c[n + 1] = text
      /\ \A k \in 1 .. n + 1 : c[k] \in Seq(Place)
      /\ \A k \in 1 .. n : ReadableFile(s[k].file) /\ Linked(s, k, c)
  BY <1>1 DEF Chain
<1> DEFINE d == [k \in 1 .. n + 1 |-> IF k = n + 1 THEN text \o added ELSE c[k]]
<1>3. d[n + 1] = text \o added /\ \A k \in 1 .. n : d[k] = c[k]
  OBVIOUS
<1>4. PICK w \in Seq(Place) : c[n + 1] = c[n] \o w /\ At(s[n], Texts[Depth - n], w)
  <2>1. n \in 1 .. n
    OBVIOUS
  <2>2. Linked(s, n, c)
    BY <1>2, <2>1
  <2>3. QED
    BY <2>2 DEF Linked
<1>5. c[n] \in Seq(Place) /\ text \in Seq(Place)
  <2>1. n \in 1 .. n + 1 /\ n + 1 \in 1 .. n + 1
    OBVIOUS
  <2>2. QED
    BY <1>2, <2>1
<1>6. text \o added \in Seq(Place) /\ w \o added \in Seq(Place)
      /\ text \o added = c[n] \o (w \o added)
  <2> DEFINE b == c[n]
  <2>1. b \in Seq(Place) /\ text = b \o w
    BY <1>2, <1>4, <1>5
  <2> HIDE DEF b, n
  <2>2. /\ b \o w \in Seq(Place) /\ w \o added \in Seq(Place)
        /\ (b \o w) \o added = b \o (w \o added)
    BY <2>1, Joined
  <2>3. text \o added \in Seq(Place)
    BY <1>5, Joined
  <2>4. text \o added = b \o (w \o added) /\ w \o added \in Seq(Place)
    BY <2>1, <2>2
  <2>5. QED
    BY <2>3, <2>4 DEF b, n
<1> HIDE DEF d
<1>7. Linked(u, n, d)
  <2>1. At(u[n], Texts[Depth - n], w \o added)
    BY <1>4 DEF Moves
  <2>2. n \in 1 .. n
    OBVIOUS
  <2>3. d[n + 1] = d[n] \o (w \o added)
    BY <1>3, <1>6, <2>2
  <2>4. QED
    BY <1>6, <2>1, <2>3 DEF Linked
<1>8. ASSUME NEW k \in 1 .. n
      PROVE  ReadableFile(u[k].file) /\ Linked(u, k, d)
  <2>1. CASE k = n
    <3>1. ReadableFile(s[n].file)
      BY <1>2, <2>1
    <3>2. QED
      BY <1>7, <2>1, <3>1 DEF SameBelow
  <2>2. CASE k # n
    <3>1. k \in 1 .. n - 1 /\ k + 1 \in 1 .. n /\ Len(u) > k
      BY <2>2
    <3>2. d[k] = c[k] /\ d[k + 1] = c[k + 1]
      BY <1>3, <3>1
    <3>3. Linked(u, k, d)
      BY <1>2, <3>1, <3>2, LinkedBelow
    <3>4. u[k] = s[k]
      BY <3>1 DEF SameBelow
    <3>5. QED
      BY <1>2, <3>3, <3>4
  <2>3. QED
    BY <2>1, <2>2
<1>9. d[1] = <<>>
  BY <1>2, <1>3
<1>10. ASSUME NEW k \in 1 .. n + 1
       PROVE  d[k] \in Seq(Place)
  <2>1. k = n + 1 \/ k \in 1 .. n
    OBVIOUS
  <2>2. QED
    BY <1>2, <1>3, <1>6, <2>1
<1>11. Chain(u, d, text \o added)
  BY <1>3, <1>8, <1>9, <1>10 DEF Chain
<1>12. QED
  BY <1>11 DEF ExpandedInto

\* The call at the top opens file.
Opens(call, next, t, file) ==
  \A w \in Seq(Place) : At(call, t, w) => Under(next, t, file, w)

LEMMA ChainOpens ==
  ASSUME FilesWellFormed, NEW s, NEW u, NEW text, NEW file, Len(s) \in Nat \ {0},
         Len(u) = Len(s) + 1, SameBelow(s, u), u[Len(s) + 1] = Frame(file),
         ReadableFile(file), ExpandedInto(s, text),
         Opens(s[Len(s)], u[Len(s)], Texts[Depth - Len(s)], file),
         Texts[Depth - (Len(s) + 1)] \in TextsOf
  PROVE  ExpandedInto(u, text)
<1> DEFINE n == Len(s)
<1>1. PICK c : Chain(s, c, text)
  BY DEF ExpandedInto
<1>2. /\ c[1] = <<>> /\ c[n + 1] = text
      /\ \A k \in 1 .. n + 1 : c[k] \in Seq(Place)
      /\ \A k \in 1 .. n : ReadableFile(s[k].file) /\ Linked(s, k, c)
  BY <1>1 DEF Chain
<1> DEFINE d == [k \in 1 .. n + 2 |-> IF k = n + 2 THEN text ELSE c[k]]
<1>3. d[n + 2] = text /\ \A k \in 1 .. n + 1 : d[k] = c[k]
  OBVIOUS
<1>4. PICK w \in Seq(Place) : c[n + 1] = c[n] \o w /\ At(s[n], Texts[Depth - n], w)
  <2>1. n \in 1 .. n
    OBVIOUS
  <2>2. Linked(s, n, c)
    BY <1>2, <2>1
  <2>3. QED
    BY <2>2 DEF Linked
<1> HIDE DEF d
<1>5. Linked(u, n, d)
  <2>1. Under(u[n], Texts[Depth - n], file, w)
    BY <1>4 DEF Opens
  <2>2. n \in 1 .. n + 1 /\ n + 1 \in 1 .. n + 1 /\ n # Len(u)
    OBVIOUS
  <2>3. d[n + 1] = d[n] \o w
    BY <1>3, <1>4, <2>2
  <2>4. u[n + 1].file = file
    BY DEF Frame
  <2>5. QED
    BY <2>1, <2>2, <2>3, <2>4 DEF Linked
<1>6. Linked(u, n + 1, d)
  <2>1. At(u[n + 1], Texts[Depth - (n + 1)], <<>>)
    BY AtStart
  <2>2. text \in Seq(Place) /\ n + 1 \in 1 .. n + 1 /\ (n + 1) + 1 = n + 2 /\ <<>> \in Seq(Place)
    BY <1>2
  <2>3. text \o <<>> = text
    BY <2>2
  <2>4. d[(n + 1) + 1] = d[n + 1] \o <<>>
    BY <1>2, <1>3, <2>2, <2>3
  <2>5. QED
    BY <2>1, <2>2, <2>4 DEF Linked
<1>7. ASSUME NEW k \in 1 .. n + 1
      PROVE  ReadableFile(u[k].file) /\ Linked(u, k, d)
  <2>1. CASE k = n + 1
    <3>1. u[n + 1].file = file
      BY DEF Frame
    <3>2. QED
      BY <1>6, <2>1, <3>1
  <2>2. CASE k = n
    <3>1. ReadableFile(s[n].file)
      BY <1>2, <2>2
    <3>2. QED
      BY <1>5, <2>2, <3>1 DEF SameBelow
  <2>3. CASE k # n /\ k # n + 1
    <3>1. k \in 1 .. n - 1 /\ k + 1 \in 1 .. n + 1 /\ k \in 1 .. n /\ Len(u) > k
      BY <2>3
    <3>2. d[k] = c[k] /\ d[k + 1] = c[k + 1]
      BY <1>3, <3>1
    <3>3. Linked(u, k, d)
      <4>1. Linked(s, k, c)
        BY <1>2, <3>1
      <4>2. Len(u) \in Nat /\ Len(s) \in Nat
        OBVIOUS
      <4>3. QED
        BY <3>1, <3>2, <4>1, <4>2, LinkedBelow
    <3>4. u[k] = s[k]
      BY <3>1 DEF SameBelow
    <3>5. QED
      BY <1>2, <3>1, <3>3, <3>4
  <2>4. QED
    BY <2>1, <2>2, <2>3
<1>8. d[1] = <<>>
  BY <1>2, <1>3
<1>9. ASSUME NEW k \in 1 .. n + 2
      PROVE  d[k] \in Seq(Place)
  <2>1. (k = n + 2 \/ k \in 1 .. n + 1) /\ n + 1 \in 1 .. n + 1
    OBVIOUS
  <2>2. QED
    BY <1>2, <1>3, <2>1
<1>10. Len(u) + 1 = n + 2
  OBVIOUS
<1>11. Chain(u, d, text)
  BY <1>3, <1>7, <1>8, <1>9, <1>10 DEF Chain
<1>12. QED
  BY <1>11 DEF ExpandedInto

\* The call at the top returns to the one below.
LEMMA ChainCloses ==
  ASSUME FilesWellFormed, NEW s, NEW u, NEW text, Len(s) \in Nat, Len(s) > 1,
         Len(u) = Len(s) - 1, \A k \in 1 .. Len(u) : u[k] = s[k],
         ExpandedInto(s, text),
         s[Len(s)].todo = <<>>, s[Len(s)].line \in Nat,
         s[Len(s)].line > Len(fs[s[Len(s)].file]), s[Len(u)].line \in Nat,
         NEW t \in TextsOf, t = Texts[Depth - Len(s)],
         NEW r \in TextsOf, r = Texts[Depth - Len(u)], r = Expanded(t)
  PROVE  ExpandedInto(u, text)
<1> DEFINE n == Len(s)
           m == Len(u)
<1>1. PICK c : Chain(s, c, text)
  BY DEF ExpandedInto
<1>2. /\ c[1] = <<>> /\ c[n + 1] = text
      /\ \A k \in 1 .. n + 1 : c[k] \in Seq(Place)
      /\ \A k \in 1 .. n : ReadableFile(s[k].file) /\ Linked(s, k, c)
  BY <1>1 DEF Chain
<1>3. m \in 1 .. n /\ m + 1 = n /\ m # n /\ n \in 1 .. n /\ n \in 1 .. n + 1 /\ m \in 1 .. n + 1
      /\ m \in 1 .. m /\ m \in Nat
  OBVIOUS
<1>4. PICK w \in Seq(Place) : c[n + 1] = c[n] \o w /\ At(s[n], t, w)
  <2>1. Linked(s, n, c)
    BY <1>2, <1>3
  <2>2. QED
    BY <2>1 DEF Linked
<1>5. PICK v \in Seq(Place) : c[n] = c[m] \o v /\ Under(s[m], r, s[n].file, v)
  <2>1. Linked(s, m, c)
    BY <1>2, <1>3
  <2>2. QED
    BY <1>3, <2>1 DEF Linked
<1>6. ReadableFile(s[n].file) /\ ReadableFile(s[m].file)
  BY <1>2, <1>3
<1>7. w = r[s[n].file]
  BY <1>4, <1>6, AtFinished
<1>8. At(s[m], r, v \o w)
  <2>1. s[n].file \in DOMAIN fs
    BY <1>6 DEF ReadableFile
  <2>2. At(s[m], r, v \o r[s[n].file])
    BY <1>5, <1>6, <2>1, AtReturned
  <2>3. QED
    BY <1>7, <2>2
<1>9. v \o w \in Seq(Place) /\ text = c[m] \o (v \o w)
  <2> DEFINE b == c[m]
  <2>1. b \in Seq(Place) /\ text = (b \o v) \o w
    BY <1>2, <1>3, <1>4, <1>5
  <2> HIDE DEF b, n, m
  <2>2. v \o w \in Seq(Place) /\ (b \o v) \o w = b \o (v \o w)
    BY <2>1, Joined
  <2>3. text = b \o (v \o w)
    BY <2>1, <2>2
  <2>4. QED
    BY <2>2, <2>3 DEF b, n, m
<1> DEFINE d == [k \in 1 .. m + 1 |-> IF k = m + 1 THEN text ELSE c[k]]
<1>10. d[m + 1] = text /\ \A k \in 1 .. m : d[k] = c[k]
  OBVIOUS
<1> HIDE DEF d
<1>11. Linked(u, m, d)
  <2>1. At(u[m], r, v \o w)
    BY <1>3, <1>8
  <2>2. d[m + 1] = d[m] \o (v \o w)
    BY <1>3, <1>9, <1>10
  <2>3. QED
    BY <1>9, <2>1, <2>2 DEF Linked
<1>12. ASSUME NEW k \in 1 .. m
       PROVE  ReadableFile(u[k].file) /\ Linked(u, k, d)
  <2>1. u[k] = s[k] /\ k \in 1 .. n
    OBVIOUS
  <2>2. CASE k = m
    BY <1>2, <1>11, <2>1, <2>2
  <2>3. CASE k # m
    <3>1. k + 1 \in 1 .. m /\ k # n
      BY <1>3, <2>3
    <3>2. d[k] = c[k] /\ d[k + 1] = c[k + 1] /\ u[k + 1] = s[k + 1]
      BY <1>10, <3>1
    <3>3. Linked(s, k, c) /\ ReadableFile(s[k].file)
      BY <1>2, <2>1
    <3>4. Linked(u, k, d)
      BY <2>1, <2>3, <3>1, <3>2, <3>3 DEF Linked
    <3>5. QED
      BY <2>1, <3>3, <3>4
  <2>4. QED
    BY <2>2, <2>3
<1>13. d[1] = <<>>
  <2>1. 1 \in 1 .. m
    BY <1>3
  <2>2. QED
    BY <1>2, <1>10, <2>1
<1>14. ASSUME NEW k \in 1 .. m + 1
       PROVE  d[k] \in Seq(Place)
  <2>1. CASE k = m + 1
    <3>1. n + 1 \in 1 .. n + 1
      BY <1>3
    <3>2. text \in Seq(Place)
      BY <1>2, <3>1
    <3>3. QED
      BY <1>10, <2>1, <3>2
  <2>2. CASE k \in 1 .. m
    <3>1. k \in 1 .. n + 1
      BY <1>3, <2>2
    <3>2. QED
      BY <1>2, <1>10, <2>2, <3>1
  <2>3. QED
    BY <1>3, <2>1, <2>2
<1>15. Chain(u, d, text)
  BY <1>10, <1>12, <1>13, <1>14 DEF Chain
<1>16. QED
  BY <1>15 DEF ExpandedInto

\* The call for the main file ends.
LEMMA ChainEnds ==
  ASSUME FilesWellFormed, NEW s, NEW text, Len(s) = 1, ExpandedInto(s, text),
         s[1].todo = <<>>, s[1].line \in Nat, s[1].line > Len(fs[s[1].file]),
         NEW t \in TextsOf, t = Texts[Depth - 1], Texts[Depth] = Expanded(t), ByDepth(Texts)
  PROVE  text = Splice(s[1].file)
<1>1. PICK c : Chain(s, c, text)
  BY DEF ExpandedInto
<1>2. /\ c[1] = <<>> /\ c[2] = text /\ text \in Seq(Place)
      /\ ReadableFile(s[1].file) /\ Linked(s, 1, c)
  <2>1. 1 \in 1 .. 1 /\ 2 \in 1 .. 2 /\ 1 + 1 = 2
    OBVIOUS
  <2>2. QED
    BY <1>1, <2>1 DEF Chain
<1>3. PICK w \in Seq(Place) : c[1 + 1] = c[1] \o w /\ At(s[1], t, w)
  BY <1>2 DEF Linked
<1>4. w = Expanded(t)[s[1].file]
  BY <1>2, <1>3, AtFinished
<1>5. text = w
  <2>1. <<>> \o w = w
    OBVIOUS
  <2>2. 1 + 1 = 2
    OBVIOUS
  <2>3. QED
    BY <1>2, <1>3, <2>1, <2>2
<1>6. QED
  BY <1>2, <1>4, <1>5 DEF ByDepth, ReadableFile

-----------------------------------------------------------------------------
\* What the stack has written so far, and, once the configuration is accepted, the
\* whole text.  seen has a file for every call but the first, so that the calls are
\* never more than the depth the reference goes to.
Expanding(s, text) ==
  /\ s[1].file = Main /\ ExpandedInto(s, text)
ExpandInv ==
  /\ FilesWellFormed /\ seen \subseteq DOMAIN fs
  /\ stack # <<>> => result = None /\ Len(stack) <= Cardinality(seen) + 1
  /\ \A s, text : s = stack /\ text = merged /\ s # <<>> => Expanding(s, text)
  /\ result = "ok" /\ merged # <<>> => stack = <<>> /\ merged = Splice(Main)

LEMMA SpliceKept ==
  ASSUME UNCHANGED <<fs, alias>>
  PROVE  FilesWellFormed' = FilesWellFormed /\ Splice(Main)' = Splice(Main)
BY DEF FilesWellFormed, Splice, Expanded, LineText, Matches, Ascending, Nth, Main

LEMMA ChainKept ==
  ASSUME UNCHANGED <<fs, alias>>, NEW s, NEW text, Expanding(s, text)
  PROVE  Expanding(s, text)'
<1>1. Place' = Place /\ Depth' = Depth
  BY DEF Place, Depth
<1>2. Texts' = Texts
  BY DEF Texts, ByDepth, TextsOf, Place, Depth, Splice, Expanded, LineText, Matches,
         Ascending, Nth
<1>3. ASSUME NEW k, NEW c, Linked(s, k, c)
      PROVE  Linked(s, k, c)'
  <2>1. ASSUME NEW t, NEW w
        PROVE  At(s[k], t, w)' = At(s[k], t, w)
    BY DEF At, Written, Inside, Remains, Included, Matches, Ascending, Nth, PrefixesOf,
           IsPrefixes, Steps, LinesOf, LineText, MatchTexts
  <2>2. ASSUME NEW t, NEW w, NEW child
        PROVE  Under(s[k], t, child, w)' = Under(s[k], t, child, w)
    BY DEF Under, Inside, Remains, Included, Matches, Ascending, Nth, PrefixesOf,
           IsPrefixes, Steps, LinesOf, LineText, MatchTexts
  <2>3. QED
    BY <1>1, <1>2, <1>3, <2>1, <2>2 DEF Linked
<1>4. PICK c : Chain(s, c, text)
  BY DEF Expanding, ExpandedInto
<1>5. Chain(s, c, text)'
  <2>1. \A k \in 1 .. Len(s) : ReadableFile(s[k].file)' /\ Linked(s, k, c)'
    BY <1>3, <1>4 DEF Chain, ReadableFile
  <2>2. QED
    BY <1>1, <1>4, <2>1 DEF Chain
<1>6. QED
  BY <1>4, <1>5 DEF Expanding, ExpandedInto, Main

LEMMA ExpandFrom ==
  ASSUME UNCHANGED <<fs, alias>>, FilesWellFormed, seen' \subseteq DOMAIN fs,
         NEW s, s = stack', NEW text, text = merged',
         s # <<>> => /\ result' = None /\ Len(s) <= Cardinality(seen') + 1
                     /\ Expanding(s, text),
         result' = "ok" /\ text # <<>> => s = <<>> /\ text = Splice(Main)
  PROVE  ExpandInv'
<1>1. FilesWellFormed' /\ Splice(Main)' = Splice(Main) /\ (seen \subseteq DOMAIN fs)'
  BY SpliceKept
<1>2. s # <<>> => Expanding(s, text)'
  BY ChainKept
<1>3. QED
  BY <1>1, <1>2 DEF ExpandInv

\* The depths the calls stand at are depths of the reference.
LEMMA DepthOf ==
  ASSUME FilesWellFormed, NEW files \in SUBSET DOMAIN fs, NEW n \in Nat \ {0},
         n <= Cardinality(files) + 1
  PROVE  /\ Depth - n \in 0 .. Depth - 1 /\ Texts[Depth - n] \in TextsOf
         /\ Texts[Depth - n + 1] = Expanded(Texts[Depth - n])
         /\ Texts[Depth - n + 1] \in TextsOf
<1>1. IsFiniteSet(DOMAIN fs) /\ Cardinality(DOMAIN fs) \in Nat
  BY FS_CardinalityType DEF FilesWellFormed
<1>2. Cardinality(files) \in Nat /\ Cardinality(files) <= Cardinality(DOMAIN fs)
  BY <1>1, FS_Subset, FS_CardinalityType
<1>3. Depth \in Nat /\ n <= Depth
  BY <1>1, <1>2 DEF Depth
<1>4. Depth - n \in 0 .. Depth - 1 /\ Depth - n \in 0 .. Depth /\ Depth - n + 1 \in 0 .. Depth
  BY <1>3
<1>5. ByDepth(Texts)
  BY TextsExist
<1>6. \A d \in 0 .. Depth : Texts[d] \in TextsOf
  BY <1>5 DEF ByDepth
<1>7. \A d \in 0 .. Depth - 1 : Texts[d + 1] = Expanded(Texts[d])
  BY <1>5 DEF ByDepth
<1>8. QED
  BY <1>4, <1>6, <1>7
LEMMA ExpandStep ==
  ASSUME TextInv, ExpandInv, ConfigStep
  PROVE  ExpandInv'
<1>1. stack # <<>> /\ (CopyLine \/ ReadInclude \/ OpenIncluded \/ FinishFile)
  BY DEF ConfigStep
<1>2. /\ stack \in Seq(ToSet(stack)) /\ Len(stack) \in Nat \ {0}
      /\ Top = stack[Len(stack)]
  BY <1>1 DEF TextInv, Last, Top
<1>3. UNCHANGED <<fs, alias>>
  BY <1>1 DEF CopyLine, ReadInclude, Refuse, OpenIncluded, FinishFile
<1>4. /\ FilesWellFormed /\ seen \subseteq DOMAIN fs /\ IsFiniteSet(DOMAIN fs)
      /\ result = None /\ Len(stack) <= Cardinality(seen) + 1
  BY <1>1 DEF ExpandInv, FilesWellFormed
<1>5. Cardinality(seen) \in Nat
  BY <1>4, FS_Subset, FS_CardinalityType
<1>6. ASSUME NEW why_, Refuse(why_), why_ # "ok"
      PROVE  ExpandInv'
  <2>1. stack' = <<>> /\ seen' = seen /\ result' # "ok"
    BY <1>6 DEF Refuse
  <2>2. ASSUME NEW s, s = stack', NEW text, text = merged'
        PROVE  ExpandInv'
    BY <1>3, <1>4, <2>1, <2>2, ExpandFrom
  <2>3. QED
    BY <2>2
<1>7. ASSUME NEW st, st = stack, NEW n, n = Len(stack), NEW top, top = Top,
             NEW old, old = merged, NEW s, s = stack', NEW text, text = merged'
      PROVE  ExpandInv'
  <2>1. /\ n \in Nat \ {0} /\ n = Len(st) /\ top = st[n] /\ top.line \in Nat \ {0}
        /\ DOMAIN top = {"file", "line", "todo", "block"}
    <3>1. Len(stack) \in 1 .. Len(stack)
      BY <1>2
    <3>2. CallInv(stack[Len(stack)])
      BY <3>1 DEF TextInv
    <3>3. QED
      BY <1>2, <1>7, <3>2 DEF CallInv
  <2>2. st[1].file = Main /\ ExpandedInto(st, old)
    BY <1>1, <1>7 DEF ExpandInv, Expanding
  <2>3. ReadableFile(top.file)
    <3>1. n \in 1 .. n
      BY <2>1
    <3>2. QED
      BY <2>1, <2>2, <3>1 DEF ExpandedInto, Chain
  <2>4. fs[top.file] \in Seq(ToSet(fs[top.file])) /\ Len(fs[top.file]) \in Nat
    BY <1>4, <2>3 DEF FilesWellFormed, ReadableFile
  <2>5. /\ Texts[Depth - n] \in TextsOf /\ Texts[Depth - n + 1] \in TextsOf
        /\ Texts[Depth - n + 1] = Expanded(Texts[Depth - n])
    BY <1>4, <1>7, <2>1, DepthOf
  <2>6. ASSUME NEW call, call.file = top.file, s = [st EXCEPT ![n] = call],
               NEW added \in Seq(Place), text = old \o added, seen' = seen, result' = None,
               Moves(top, call, Texts[Depth - n], added)
        PROVE  ExpandInv'
    <3>1. /\ s \in Seq(ToSet(s)) /\ Len(s) = n /\ s[n] = call
          /\ \A k \in 1 .. n - 1 : s[k] = st[k]
      <4>1. st \in Seq(ToSet(st)) /\ st # <<>>
        BY <1>1, <1>2, <1>7
      <4>2. s = [st EXCEPT ![Len(st)] = call]
        BY <2>1, <2>6
      <4>3. s \in Seq(ToSet(s)) /\ Len(s) = Len(st)
        BY <4>1, <4>2, TopReplaced
      <4>4. s[Len(st)] = call
        BY <4>1, <4>2, TopReplaced
      <4>5. \A k \in 1 .. Len(st) - 1 : s[k] = st[k]
        BY <4>1, <4>2, TopReplaced
      <4>6. QED
        BY <2>1, <4>3, <4>4, <4>5
    <3>2. SameBelow(st, s)
      BY <2>1, <2>6, <3>1 DEF SameBelow
    <3>3. ExpandedInto(s, old \o added)
      BY <2>1, <2>2, <2>6, <3>1, <3>2, ChainMoves
    <3>4. s[1].file = Main
      <4>1. n = 1 \/ 1 \in 1 .. n - 1
        BY <2>1
      <4>2. QED
        BY <2>1, <2>2, <2>6, <3>1, <4>1
    <3>5. Expanding(s, text)
      BY <2>6, <3>3, <3>4 DEF Expanding
    <3>6. Len(s) <= Cardinality(seen') + 1
      BY <1>4, <1>7, <2>6, <3>1
    <3>7. QED
      BY <1>3, <1>4, <1>7, <2>6, <3>5, <3>6, ExpandFrom, NoneAssumption
  <2>7. CASE CopyLine
    <3>1. /\ top.todo = <<>> /\ ~(top.line > Len(fs[top.file]))
          /\ fs[top.file][top.line].kind # "include"
          /\ text = Append(old, <<top.file, top.line>>) /\ seen' = seen /\ result' = None
      BY <1>4, <1>7, <2>7 DEF CopyLine, AtEnd, Here
    <3>2. top.line \in 1 .. Len(fs[top.file])
      BY <2>1, <2>4, <3>1
    <3> DEFINE call == [top EXCEPT !.line = @ + 1, !.block = @ \/ Here.kind \in {"host", "match"}]
               added == <<<<top.file, top.line>>>>
    <3>3. call.file = top.file /\ call.line = top.line + 1 /\ call.todo = <<>>
      BY <2>1, <3>1
    <3>4. s = [st EXCEPT ![n] = call]
      BY <1>2, <1>7, <2>1, <2>7 DEF CopyLine
    <3> HIDE DEF call
    <3>5. added \in Seq(Place)
      <4>1. <<top.file, top.line>> \in Place
        BY <2>1, <2>3 DEF Place, ReadableFile
      <4>2. QED
        BY <4>1
    <3>6. text = old \o added
      <4>1. old \in Seq(ToSet(old))
        BY <1>7 DEF TextInv
      <4>2. ASSUME NEW S, NEW q \in Seq(S), NEW x
            PROVE  Append(q, x) = q \o <<x>>
        OBVIOUS
      <4>3. QED
        BY <3>1, <4>1, <4>2
    <3>7. Moves(top, call, Texts[Depth - n], added)
      <4>1. ASSUME NEW w \in Seq(Place), At(top, Texts[Depth - n], w)
            PROVE  At(call, Texts[Depth - n], w \o added)
        <5>1. Written(top, Texts[Depth - n], w)
          BY <3>1, <4>1, AtSettled
        <5>2. QED
          BY <1>4, <2>3, <2>5, <3>1, <3>2, <3>3, <5>1, AtCopied
      <4>2. QED
        BY <4>1 DEF Moves
    <3>8. QED
      BY <2>6, <3>1, <3>3, <3>4, <3>5, <3>6, <3>7
  <2>8. CASE ReadInclude
    <3>1. CASE \E reason \in {"malformed", "block", "no match"} : Refuse(reason)
      BY <1>6, <3>1
    <3>2. CASE ~\E reason \in {"malformed", "block", "no match"} : Refuse(reason)
      <4>1. /\ Here.kind = "include" /\ Matches(Here) # <<>> /\ ~AtEnd /\ Top.todo = <<>>
            /\ stack' = [stack EXCEPT ![Len(stack)].line = @ + 1,
                                      ![Len(stack)].todo = Matches(Here)]
            /\ UNCHANGED <<fs, alias, seen, merged, result>>
        BY <2>8, <3>2 DEF ReadInclude
      <4>2. Here = fs[top.file][top.line] /\ top.line \in 1 .. Len(fs[top.file])
        BY <1>7, <2>1, <2>4, <4>1 DEF Here, AtEnd
      <4> DEFINE call == [top EXCEPT !.line = @ + 1, !.todo = Matches(Here)]
      <4>3. call.file = top.file /\ call.line = top.line + 1 /\ call.todo = Matches(Here)
        BY <2>1
      <4>4. s = [st EXCEPT ![n] = call]
        BY <1>2, <1>7, <2>1, <4>1
      <4> HIDE DEF call
      <4>5. text = old \o <<>> /\ <<>> \in Seq(Place)
        <5>1. old \in Seq(ToSet(old)) /\ text = old
          BY <1>7, <4>1 DEF TextInv
        <5>2. QED
          BY <5>1
      <4>6. Moves(top, call, Texts[Depth - n], <<>>)
        <5>1. ASSUME NEW w \in Seq(Place), At(top, Texts[Depth - n], w)
              PROVE  At(call, Texts[Depth - n], w \o <<>>)
          <6>1. Written(top, Texts[Depth - n], w)
            BY <1>7, <4>1, <5>1, AtSettled
          <6>2. At(call, Texts[Depth - n], w)
            BY <1>4, <2>3, <2>5, <4>1, <4>2, <4>3, <6>1, AtIncluded
          <6>3. w \o <<>> = w
            OBVIOUS
          <6>4. QED
            BY <6>2, <6>3
        <5>2. QED
          BY <5>1 DEF Moves
      <4>7. seen' = seen /\ result' = None
        BY <1>4, <4>1
      <4>8. QED
        BY <2>6, <4>3, <4>4, <4>5, <4>6, <4>7
    <3>3. QED
      BY <3>1, <3>2
  <2>9. CASE OpenIncluded
    <3>1. CASE \E reason \in {"cycle", "unreadable", "depth"} : Refuse(reason)
      BY <1>6, <3>1
    <3>2. CASE ~\E reason \in {"cycle", "unreadable", "depth"} : Refuse(reason)
      <4> DEFINE file == Head(top.todo)
                 call == [top EXCEPT !.todo = Tail(@)]
                 below == [st EXCEPT ![n] = call]
      <4>1. /\ top.todo # <<>> /\ file \notin seen /\ Readable(file)
            /\ seen' = seen \cup {file} /\ UNCHANGED <<merged, result>>
            /\ stack' = Append([stack EXCEPT ![Len(stack)].todo = Tail(@)], Frame(file))
        BY <1>7, <2>9, <3>2 DEF OpenIncluded
      <4>2. s = Append(below, Frame(file))
        BY <1>2, <1>7, <2>1, <4>1
      <4>3. call.file = top.file /\ call.line = top.line /\ call.todo = Tail(top.todo)
        BY <2>1
      <4> HIDE DEF call, file
      <4>4. /\ below \in Seq(ToSet(below)) /\ Len(below) = n /\ below[n] = call
            /\ \A k \in 1 .. n - 1 : below[k] = st[k]
        <5>1. st \in Seq(ToSet(st)) /\ st # <<>>
          BY <1>1, <1>2, <1>7
        <5>2. below = [st EXCEPT ![Len(st)] = call]
          BY <2>1
        <5> HIDE DEF below
        <5>3. below \in Seq(ToSet(below)) /\ Len(below) = Len(st)
          BY <5>1, <5>2, TopReplaced
        <5>4. below[Len(st)] = call
          BY <5>1, <5>2, TopReplaced
        <5>5. \A k \in 1 .. Len(st) - 1 : below[k] = st[k]
          BY <5>1, <5>2, TopReplaced
        <5>6. QED
          BY <2>1, <5>3, <5>4, <5>5
      <4> HIDE DEF below
      <4>5. /\ Len(s) = n + 1 /\ s[n + 1] = Frame(file) /\ s[n] = call
            /\ \A k \in 1 .. n - 1 : s[k] = st[k]
        <5>1. Len(s) = n + 1 /\ s[n + 1] = Frame(file) /\ \A k \in 1 .. n : s[k] = below[k]
          BY <2>1, <4>2, <4>4
        <5>2. n \in 1 .. n /\ \A k \in 1 .. n - 1 : k \in 1 .. n
          BY <2>1
        <5>3. QED
          BY <4>4, <5>1, <5>2
      <4>6. SameBelow(st, s)
        BY <2>1, <4>3, <4>5 DEF SameBelow
      <4>7. seen' \in SUBSET DOMAIN fs /\ Cardinality(seen') = Cardinality(seen) + 1
        <5>1. file \in DOMAIN fs /\ IsFiniteSet(seen)
          BY <1>4, <4>1, FS_Subset DEF Readable
        <5>2. QED
          BY <1>4, <4>1, <5>1, FS_AddElement
      <4>8. n + 1 <= Cardinality(seen') + 1
        BY <1>4, <1>5, <1>7, <2>1, <4>7
      <4>9. Texts[Depth - (n + 1)] \in TextsOf
        <5>1. n + 1 \in Nat \ {0}
          BY <2>1
        <5>2. QED
          BY <1>4, <4>7, <4>8, <5>1, DepthOf
      <4>10. Opens(top, call, Texts[Depth - n], file)
        <5>1. ASSUME NEW w \in Seq(Place), At(top, Texts[Depth - n], w)
              PROVE  Under(call, Texts[Depth - n], file, w)
          BY <4>1, <4>3, <5>1, UnderOpened DEF file
        <5>2. QED
          BY <5>1 DEF Opens
      <4>11. ExpandedInto(s, old)
        <5>1. ReadableFile(file)
          BY <4>1 DEF Readable, ReadableFile
        <5>2. st[Len(st)] = top /\ s[Len(st)] = call /\ Len(s) = Len(st) + 1
              /\ s[Len(st) + 1] = Frame(file)
          BY <2>1, <4>5
        <5>3. Opens(st[Len(st)], s[Len(st)], Texts[Depth - Len(st)], file)
          BY <2>1, <4>10, <5>2
        <5>4. Texts[Depth - (Len(st) + 1)] \in TextsOf /\ Len(st) \in Nat \ {0}
          BY <2>1, <4>9
        <5>5. QED
          BY <1>4, <2>2, <4>6, <5>1, <5>2, <5>3, <5>4, ChainOpens
      <4>12. s[1].file = Main
        <5>1. n = 1 \/ 1 \in 1 .. n - 1
          BY <2>1
        <5>2. QED
          BY <2>1, <2>2, <4>3, <4>5, <5>1
      <4>13. Expanding(s, text) /\ result' = None
        BY <1>4, <1>7, <4>1, <4>11, <4>12 DEF Expanding
      <4>14. QED
        BY <1>3, <1>4, <1>7, <4>5, <4>7, <4>8, <4>13, ExpandFrom, NoneAssumption
    <3>3. QED
      BY <3>1, <3>2
  <2>10. CASE FinishFile
    <3>1. /\ top.todo = <<>> /\ top.line > Len(fs[top.file]) /\ UNCHANGED <<seen, merged>>
          /\ stack' = Front(stack)
          /\ Len(stack) > 1 => result' = None
      BY <1>7, <2>10 DEF FinishFile, AtEnd
    <3>2. Len(s) = n - 1 /\ \A k \in 1 .. n - 1 : s[k] = st[k]
      <4>1. s = SubSeq(st, 1, n - 1)
        BY <1>7, <3>1 DEF Front
      <4>2. /\ st \in Seq(ToSet(st)) /\ \A k \in 1 .. n - 1 : st[k] \in ToSet(st)
            /\ 1 \in Int /\ n - 1 \in Int
        BY <1>2, <1>7, <2>1
      <4>3. /\ Len(s) = IF 1 <= n - 1 THEN (n - 1) - 1 + 1 ELSE 0
            /\ \A k \in 1 .. (n - 1) - 1 + 1 : s[k] = st[1 + k - 1]
        BY <4>1, <4>2, SubSeqProperties
      <4>4. (IF 1 <= n - 1 THEN (n - 1) - 1 + 1 ELSE 0) = n - 1
        BY <2>1
      <4>5. \A k \in 1 .. n - 1 : k \in 1 .. (n - 1) - 1 + 1 /\ 1 + k - 1 = k
        BY <2>1
      <4>6. QED
        BY <4>3, <4>4, <4>5
    <3>3. CASE n > 1
      <4>1. ExpandedInto(s, old)
        <5>1. st[Len(s)].line \in Nat
          <6>1. n - 1 \in 1 .. Len(stack)
            BY <1>7, <2>1, <3>3
          <6>2. CallInv(stack[n - 1])
            BY <6>1 DEF TextInv
          <6>3. QED
            BY <1>7, <3>2, <6>2 DEF CallInv
        <5>2. Depth - n + 1 = Depth - Len(s)
          <6>1. Depth \in Nat
            BY <1>4, FS_CardinalityType DEF Depth
          <6>2. QED
            BY <2>1, <3>2, <6>1
        <5>3. /\ Texts[Depth - Len(s)] \in TextsOf
              /\ Texts[Depth - Len(s)] = Expanded(Texts[Depth - Len(st)])
              /\ Texts[Depth - Len(st)] \in TextsOf
          BY <2>1, <2>5, <5>2
        <5>4. /\ Len(st) \in Nat /\ Len(st) > 1 /\ Len(s) = Len(st) - 1
              /\ \A k \in 1 .. Len(s) : s[k] = st[k]
          BY <2>1, <3>2, <3>3
        <5>5. /\ st[Len(st)].todo = <<>> /\ st[Len(st)].line \in Nat
              /\ st[Len(st)].line > Len(fs[st[Len(st)].file])
          BY <2>1, <3>1
        <5>6. QED
          BY <1>4, <2>2, <5>1, <5>3, <5>4, <5>5, ChainCloses
      <4>2. s[1].file = Main
        BY <2>1, <2>2, <3>2, <3>3
      <4>3. Expanding(s, text) /\ result' = None
        BY <1>7, <3>1, <3>3, <4>1, <4>2 DEF Expanding
      <4>4. Len(s) <= Cardinality(seen') + 1
        BY <1>4, <1>5, <1>7, <2>1, <3>1, <3>2
      <4>5. QED
        BY <1>3, <1>4, <1>7, <3>1, <4>3, <4>4, ExpandFrom, NoneAssumption
    <3>4. CASE n = 1
      <4>1. s = <<>>
        <5>1. Len(s) = 0 /\ s = SubSeq(st, 1, n - 1)
          BY <1>7, <3>1, <3>2, <3>4 DEF Front
        <5>2. QED
          BY <3>4, <5>1
      <4>2. text = Splice(Main)
        <5>1. ByDepth(Texts)
          BY <1>4, TextsExist
        <5>2. Depth - 1 + 1 = Depth
          BY <1>4, FS_CardinalityType DEF Depth
        <5>3. /\ Texts[Depth - 1] \in TextsOf /\ Texts[Depth] = Expanded(Texts[Depth - 1])
          BY <2>5, <3>4, <5>2
        <5>4. /\ Len(st) = 1 /\ st[1].todo = <<>> /\ st[1].line \in Nat
              /\ st[1].line > Len(fs[st[1].file])
          BY <2>1, <3>1, <3>4
        <5>5. old = Splice(st[1].file)
          BY <1>4, <2>2, <5>1, <5>3, <5>4, ChainEnds
        <5>6. QED
          BY <1>7, <2>2, <3>1, <5>5
      <4>3. QED
        BY <1>3, <1>4, <1>7, <3>1, <4>1, <4>2, ExpandFrom
    <3>5. QED
      BY <2>1, <3>3, <3>4
  <2>11. QED
    BY <1>1, <2>7, <2>8, <2>9, <2>10
<1>8. QED
  BY <1>7
LEMMA ExpandNext == CliInv /\ TextInv /\ ExpandInv /\ [Next]_vars => ExpandInv'
<1> SUFFICES ASSUME CliInv, TextInv, ExpandInv, [Next]_vars
             PROVE  ExpandInv'
  OBVIOUS
<1>1. CASE BeginConfig
  <2>1. /\ UNCHANGED <<fs, alias>> /\ merged' = <<>> /\ seen' = {}
        /\ \/ stack' = <<>>
           \/ Readable(Main) /\ stack' = <<Frame(Main)>> /\ result' = None
    BY <1>1 DEF BeginConfig, ConfigStart
  <2>2. FilesWellFormed
    BY DEF ExpandInv
  <2>3. ASSUME NEW s, s = stack', NEW text, text = merged', s = <<Frame(Main)>>, Readable(Main),
               result' = None
        PROVE  ExpandInv'
    <3>1. Len(s) = 1 /\ s[1] = Frame(Main) /\ s[1].file = Main
      BY <2>3 DEF Frame
    <3>2. Cardinality({}) = 0 /\ {} \in SUBSET DOMAIN fs /\ 1 \in Nat \ {0} /\ 1 <= 0 + 1
      BY FS_EmptySet
    <3>3. Texts[Depth - 1] \in TextsOf
      BY <2>2, <3>2, DepthOf
    <3>4. ReadableFile(Main)
      BY <2>3 DEF Readable, ReadableFile
    <3>5. At(Frame(Main), Texts[Depth - 1], <<>>)
      BY <2>2, <3>3, <3>4, AtStart
    <3>6. Chain(s, [k \in 1 .. 2 |-> <<>>], text)
      <4>1. ASSUME NEW c, c = [k \in 1 .. 2 |-> <<>>]
            PROVE  Chain(s, c, text)
        <5>1. c[1] = <<>> /\ c[1 + 1] = <<>> /\ text = <<>> /\ <<>> \in Seq(Place)
              /\ c[2] = <<>> /\ <<>> \o <<>> = <<>>
          BY <2>1, <2>3, <4>1
        <5>2. Linked(s, 1, c)
          BY <3>1, <3>5, <5>1 DEF Linked
        <5>3. ReadableFile(s[1].file)
          BY <3>1, <3>4
        <5>4. \A k \in 1 .. 1 : k = 1
          OBVIOUS
        <5>5. \A k \in 1 .. 1 + 1 : c[k] \in Seq(Place)
          BY <4>1, <5>1
        <5>6. QED
          BY <3>1, <5>1, <5>2, <5>3, <5>4, <5>5 DEF Chain
      <4>2. QED
        BY <4>1
    <3>7. Expanding(s, text)
      BY <3>1, <3>6 DEF Expanding, ExpandedInto
    <3>8. text = <<>> /\ seen' \subseteq DOMAIN fs /\ Len(s) <= Cardinality(seen') + 1
      BY <2>1, <2>3, <3>1, <3>2
    <3>9. QED
      BY <2>1, <2>2, <2>3, <3>7, <3>8, ExpandFrom
  <2>4. ASSUME NEW s, s = stack', NEW text, text = merged', s = <<>>
        PROVE  ExpandInv'
    <3>1. text = <<>> /\ seen' \subseteq DOMAIN fs
      BY <2>1, <2>4
    <3>2. QED
      BY <2>1, <2>2, <2>4, <3>1, ExpandFrom
  <2>5. QED
    BY <2>1, <2>3, <2>4
<1>2. CASE Configure
  BY <1>2, ExpandStep DEF Configure
<1>3. CASE UNCHANGED configVars
  <2>1. UNCHANGED <<fs, alias, stack, seen, merged, result>>
    BY <1>3 DEF configVars
  <2>2. ASSUME NEW s, s = stack', NEW text, text = merged'
        PROVE  ExpandInv'
    <3>1. s = stack /\ text = merged
      BY <2>1, <2>2
    <3>2. UNCHANGED <<fs, alias>> /\ FilesWellFormed /\ seen' \subseteq DOMAIN fs
      BY <2>1 DEF ExpandInv
    <3>3. s # <<>> => /\ result' = None /\ Len(s) <= Cardinality(seen') + 1
                      /\ Expanding(s, text)
      BY <2>1, <3>1 DEF ExpandInv
    <3>4. result' = "ok" /\ text # <<>> => s = <<>> /\ text = Splice(Main)
      BY <2>1, <3>1 DEF ExpandInv
    <3>5. QED
      BY <2>2, <3>2, <3>3, <3>4, ExpandFrom
  <2>3. QED
    BY <2>2
<1>4. CASE Early /\ Next
  <2>1. \/ Answer \/ Fork \/ Help \/ BeginConfig \/ Configure \/ ConfigRefused
        \/ ApplyConfig
    BY <1>4, EarlyActions
  <2>2. BeginConfig \/ Configure \/ UNCHANGED configVars
    BY <2>1 DEF Answer, Fork, Help, ConfigRefused, ApplyConfig, configVars
  <2>3. QED
    BY <2>2, <1>1, <1>2, <1>3
<1>5. CASE ~Early /\ Next
  BY <1>3, <1>5, LaterActions DEF Settled
<1>6. CASE UNCHANGED vars
  BY <1>3, <1>6 DEF vars
<1>7. QED
  BY <1>4, <1>5, <1>6

\* For any configuration files, however they include one another: an accepted
\* configuration is the main file with every included file spliced in where its
\* Include stood (preprocess_includes, its recursion and its shared visited set).
THEOREM IncludesExpandInPlace == Spec => []ExpandsInPlace
<1>1. Init => CliInv /\ TextInv /\ ExpandInv
  <2>1. Init => ExpandInv
    BY NoneAssumption DEF Init, ExpandInv
  <2>2. QED
    BY <2>1, CliInit, TextInit
<1>2. CliInv /\ TextInv /\ ExpandInv /\ [Next]_vars => (CliInv /\ TextInv /\ ExpandInv)'
  BY CliStep, TextNext, ExpandNext
<1>3. ExpandInv => ExpandsInPlace
  BY DEF ExpandInv, ExpandsInPlace
<1>4. QED
  BY <1>1, <1>2, <1>3, PTL DEF Spec
==============================================================================
