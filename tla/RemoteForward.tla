----------------------------- MODULE RemoteForward -----------------------------
(***************************************************************************)
(* -R and -A: the channels sshd opens towards passhrs.  russh runs one     *)
(* event loop per connection; it calls the handler for each packet and     *)
(* waits for it, and it sends what tasks have queued for it only between   *)
(* two packets.  The dial of a -R target is awaited inside the handler,    *)
(* the reply to the open is not.  ForwardPump has what follows an accepted *)
(* open.                                                                   *)
(***************************************************************************)
EXTENDS Integers, Sequences

CONSTANTS
  CommandLines,  \* the lists of -R specs the process may be given
  Opens,         \* channels sshd may open
  Ephemeral,     \* the ports sshd may pick for a -R of port 0
  OutputBlocks,  \* blocks of session output sshd sends
  Slots,         \* replies russh holds before the sender has to wait
  None           \* nothing

\* [bind:]port:host:port
RemoteSpec(addr, port, target) == [addr |-> addr, port |-> port, target |-> target]

ASSUME RemoteForwardAssumption ==
  /\ \A line \in CommandLines :
       /\ Len(line) \in Nat /\ DOMAIN line = 1 .. Len(line)
       /\ \A i \in DOMAIN line : line[i].port \in Nat
  /\ Ephemeral \subseteq Nat \ {0}
  /\ OutputBlocks \in Nat /\ Slots \in Nat \ {0}

VARIABLES
  specs,      \* the -R specs, in the order of the command line
  bound,      \* spec -> the port its listener has, should sshd grant it
  agent,      \* agent_sock_path: "none", "dead" (nobody listens there), "live"
  exits,      \* ExitOnForwardFailure
  main,       \* the spec run() is at; past the last one the session; 0: the process is gone
  asked,      \* its tcpip_forward waits for the reply
  listens,    \* server: the specs it listens for
  inbox,      \* packets on their way to passhrs
  loop,       \* None: between two packets; else the open whose handler it awaits
  replies,    \* replies queued for the loop
  chan,       \* open -> what has become of it
  via,        \* open -> the spec whose listener it came through; 0: the agent socket
  reached,    \* open -> the target that was dialled; None
  produced,   \* blocks of session output sent
  delivered,  \* blocks of session output the loop has passed on
  lost        \* the SSH connection is gone

vars == <<specs, bound, agent, exits, main, asked, listens, inbox, loop, replies, chan,
          via, reached, produced, delivered, lost>>
options == <<specs, bound, agent, exits>>
server == <<listens, via, produced>>

Agent == 0

Packet(kind, arg) == [kind |-> kind, arg |-> arg]
PacketKinds ==
  {Packet("open", o) : o \in Opens} \cup {Packet("reply", ok) : ok \in BOOLEAN}
    \cup {Packet("data", None)}

TypeOK ==
  /\ specs \in CommandLines
  /\ bound \in [DOMAIN specs -> Nat \ {0}]
  /\ agent \in {"none", "dead", "live"}
  /\ exits \in BOOLEAN
  /\ main \in Nat
  /\ {asked, lost} \subseteq BOOLEAN
  /\ listens \subseteq DOMAIN specs
  /\ inbox \in Seq(PacketKinds)
  /\ loop \in Opens \cup {None}
  /\ replies \in Seq(Opens)
  /\ chan \in [Opens -> {"idle", "sent", "dialing", "accepting", "rejecting",
                         "refusal", "replied", "confirmed", "rejected"}]
  /\ via \in [Opens -> {Agent} \cup DOMAIN specs]
  /\ DOMAIN reached = Opens
  /\ delivered \in Nat /\ produced \in 0 .. OutputBlocks

Init ==
  /\ specs \in CommandLines
  /\ \E picked \in [DOMAIN specs -> Ephemeral] :
       bound = [i \in DOMAIN specs |-> IF specs[i].port = 0 THEN picked[i] ELSE specs[i].port]
  /\ agent \in {"none", "dead", "live"}
  /\ exits \in BOOLEAN
  /\ main = 1
  /\ asked = FALSE
  /\ listens = {}
  /\ inbox = << >>
  /\ loop = None
  /\ replies = << >>
  /\ chan = [o \in Opens |-> "idle"]
  /\ via = [o \in Opens |-> Agent]
  /\ reached = [o \in Opens |-> None]
  /\ produced = 0 /\ delivered = 0
  /\ lost = FALSE

Up == ~lost /\ main # 0
InSession == main > Len(specs)
Idle == Up /\ loop = None
Become(o, stage) == chan' = [chan EXCEPT ![o] = stage]

------------------------------------------------------------------------------
(* The remote_forwards map: port -> spec, filled in the order of the specs *)

\* Mutant: any entry will do, the port is not compared.
AnyForward(port) == IF DOMAIN specs = {} THEN None ELSE Len(specs)

\* insert: the last one replaces those before it; the address is no part of the
\* key, and a port sshd has picked is not in it.
RemoteForwards(port) ==
  LET same == {i \in DOMAIN specs : specs[i].port = port}
  IN  IF same = {} THEN None ELSE CHOOSE i \in same : \A j \in same : j <= i

------------------------------------------------------------------------------
(* run(): one tcpip_forward after the other *)

Request ==
  /\ Idle /\ main \in DOMAIN specs /\ ~asked
  /\ asked' = TRUE
  /\ UNCHANGED <<options, main, server, inbox, loop, replies, chan, reached, delivered, lost>>

\* A refusal is passed over unless ExitOnForwardFailure asks for more.
Answered(ok) ==
  /\ asked' = FALSE
  /\ IF ok \/ ~exits THEN main' = main + 1 ELSE main' = 0

\* Keepalives run out, the server goes away: open or not, all is over.
Disconnect ==
  /\ ~lost
  /\ lost' = TRUE
  /\ UNCHANGED <<options, main, asked, server, inbox, loop, replies, chan, reached, delivered>>

------------------------------------------------------------------------------
(* sshd *)

Send(p) == inbox' = Append(inbox, p)

\* Only one listener can have an address and a port.
AnswerRequest ==
  /\ Up /\ asked /\ \A i \in DOMAIN inbox : inbox[i].kind # "reply"
  /\ \/ /\ \A i \in listens : <<specs[i].addr, bound[i]>> # <<specs[main].addr, bound[main]>>
        /\ listens' = listens \cup {main}
        /\ Send(Packet("reply", TRUE))
     \/ listens' = listens /\ Send(Packet("reply", FALSE))
  /\ UNCHANGED <<options, main, asked, via, produced, loop, replies, chan, reached,
                 delivered, lost>>

\* A connection to one of its listeners, or to the agent socket of the session.
OpenChannel(o) ==
  /\ Up /\ chan[o] = "idle"
  /\ \E v \in listens \cup {Agent} :
       /\ v = Agent => InSession
       /\ via' = [via EXCEPT ![o] = v]
  /\ Become(o, "sent")
  /\ Send(Packet("open", o))
  /\ UNCHANGED <<options, main, asked, listens, produced, loop, replies, reached,
                 delivered, lost>>

SessionOutput ==
  /\ Up /\ InSession /\ produced < OutputBlocks
  /\ produced' = produced + 1
  /\ Send(Packet("data", None))
  /\ UNCHANGED <<options, main, asked, listens, via, loop, replies, chan, reached,
                 delivered, lost>>

------------------------------------------------------------------------------
(* The event loop *)

Took == Idle /\ inbox # << >> /\ inbox' = Tail(inbox)
taskState == <<options, listens, via, produced, lost>>

TakeData ==
  /\ Took /\ Head(inbox).kind = "data"
  /\ delivered' = delivered + 1
  /\ UNCHANGED <<taskState, main, asked, loop, replies, chan, reached>>

TakeReply ==
  /\ Took /\ Head(inbox).kind = "reply"
  /\ Answered(Head(inbox).arg)
  /\ UNCHANGED <<taskState, loop, replies, chan, reached, delivered>>

\* connected_port; connected_address is not looked at.
PortOf(o) == bound[via[o]]

\* server_channel_open_forwarded_tcpip: without a mapping the reply is dropped,
\* which rejects the open; with one the handler waits for the dial.
TakeOpen ==
  LET o == Head(inbox).arg
  IN  /\ Took /\ Head(inbox).kind = "open" /\ via[o] # Agent
      /\ IF RemoteForwards(PortOf(o)) = None
         THEN Become(o, "rejecting") /\ UNCHANGED loop
         ELSE Become(o, "dialing") /\ loop' = o
      /\ UNCHANGED <<taskState, main, asked, replies, reached, delivered>>

\* server_channel_open_agent_forward: accepted at once, and the agent is dialled
\* by a task of its own.
TakeAgentOpen ==
  LET o == Head(inbox).arg
  IN  /\ Took /\ Head(inbox).kind = "open" /\ via[o] = Agent
      /\ Become(o, "accepting")
      /\ UNCHANGED <<taskState, main, asked, loop, replies, reached, delivered>>

\* Mutant: reply.accept() is awaited in the handler.
DialAcceptsInline ==
  /\ Up /\ loop # None
  /\ \/ /\ chan[loop] = "dialing"
        /\ \/ /\ reached' = [reached EXCEPT ![loop] = specs[RemoteForwards(PortOf(loop))].target]
              /\ Become(loop, "accepting")
              /\ UNCHANGED loop
           \/ Become(loop, "rejecting") /\ loop' = None /\ UNCHANGED reached
     \/ /\ chan[loop] = "replied"
        /\ loop' = None
        /\ UNCHANGED <<chan, reached>>
  /\ UNCHANGED <<taskState, main, asked, inbox, replies, delivered>>

\* Mutant: the pumps are joined in the handler, which then lasts as long as they.
DialJoinsPumps ==
  /\ Up /\ loop # None
  /\ chan[loop] = "dialing"
  /\ \/ /\ reached' = [reached EXCEPT ![loop] = specs[RemoteForwards(PortOf(loop))].target]
        /\ Become(loop, "accepting")
        /\ UNCHANGED loop
     \/ /\ Become(loop, "rejecting")
        /\ loop' = None
        /\ UNCHANGED reached
  /\ UNCHANGED <<taskState, main, asked, inbox, replies, delivered>>

\* TcpStream::connect returns: accept and both pumps are spawned, or the reply is
\* dropped; the handler returns.
Dial ==
  /\ Up /\ loop # None
  /\ \/ /\ reached' = [reached EXCEPT ![loop] = specs[RemoteForwards(PortOf(loop))].target]
        /\ Become(loop, "accepting")
     \/ Become(loop, "rejecting") /\ UNCHANGED reached
  /\ loop' = None
  /\ UNCHANGED <<taskState, main, asked, inbox, replies, delivered>>

\* The spawned accept, or the drop of the reply, hands the answer to the loop.
Reply(o) ==
  /\ Up /\ chan[o] \in {"accepting", "rejecting"}
  /\ Len(replies) < Slots
  /\ replies' = Append(replies, o)
  /\ chan' = [chan EXCEPT ![o] = IF @ = "accepting" THEN "replied" ELSE "refusal"]
  /\ UNCHANGED <<taskState, main, asked, inbox, loop, reached, delivered>>

\* The loop sends the confirmation or the failure.
SendReply ==
  /\ Idle /\ replies # << >>
  /\ replies' = Tail(replies)
  /\ chan' = [chan EXCEPT ![Head(replies)] = IF @ = "replied" THEN "confirmed" ELSE "rejected"]
  /\ UNCHANGED <<taskState, main, asked, inbox, loop, reached, delivered>>

\* pump_agent_socket's dial; where it fails, or there is no socket to dial, both
\* halves of a channel that is or will be accepted are dropped.
DialAgent(o) ==
  /\ Up /\ via[o] = Agent /\ chan[o] \in {"accepting", "replied", "confirmed"}
  /\ reached[o] = None
  /\ reached' = [reached EXCEPT ![o] = IF agent = "live" THEN "agent" ELSE "dropped"]
  /\ UNCHANGED <<taskState, main, asked, inbox, loop, replies, chan, delivered>>

Packets == TakeData \/ TakeReply \/ TakeOpen \/ TakeAgentOpen

Next ==
  \/ Request \/ AnswerRequest \/ SessionOutput \/ Disconnect
  \/ Packets \/ Dial \/ SendReply
  \/ \E o \in Opens : OpenChannel(o) \/ Reply(o) \/ DialAgent(o)

\* The loop takes packets and sends replies as long as there are any; the runtime
\* runs every task; a dial succeeds or fails in the end, and sshd answers a request.
Fairness ==
  /\ WF_vars(Request) /\ WF_vars(AnswerRequest)
  /\ WF_vars(Packets) /\ WF_vars(Dial) /\ WF_vars(SendReply)
  /\ \A o \in Opens : WF_vars(Reply(o)) /\ WF_vars(DialAgent(o))

Spec == Init /\ [][Next]_vars
FairSpec == Spec /\ Fairness

------------------------------------------------------------------------------
\* Whatever other channels are being opened, dialled or refused at the time, every
\* open is confirmed or refused: the handler never waits for the loop that runs it
\* ("the loop stays stuck inside process_packet", the comment at the accept).
EveryOpenAnswered ==
  \A o \in Opens : chan[o] = "sent" ~> chan[o] \in {"confirmed", "rejected"} \/ ~Up

\* The session's output goes on: a forward may hold the loop while its target is
\* dialled, never for as long as its connection lasts.
OutputKeepsFlowing == \A n \in 1 .. OutputBlocks : produced >= n ~> delivered >= n \/ ~Up

\* sshd is told that a forwarded connection is open only when a target has been
\* reached ("accept only once we have a live connection"), and that is the target of
\* the -R whose listener was used, unless another -R names the listener's port.
Accepted(o) == chan[o] \in {"accepting", "replied", "confirmed"}
ReachesItsTarget ==
  \A o \in Opens :
    via[o] \in DOMAIN specs /\ Accepted(o) =>
      \/ reached[o] = specs[via[o]].target
      \/ \E j \in DOMAIN specs \ {via[o]} :
           specs[j].port = bound[via[o]] /\ reached[o] = specs[j].target

\* "-R [bind:]port:host:port" (README, Port Forwarding): what comes through a
\* listener goes to that spec's host and port.  The map is keyed by port alone, so
\* of two -R with one port, at two addresses or with the later one refused, the
\* last one's target gets the connections of both.
OwnTargetOnly ==
  \A o \in Opens :
    via[o] \in DOMAIN specs /\ Accepted(o) => reached[o] = specs[via[o]].target
==============================================================================
