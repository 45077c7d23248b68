----------------------------- MODULE ForwardProofs -----------------------------
(***************************************************************************)
(* The forwards.  For any lists of -R specs, any number of channels, blocks*)
(* and reply slots, an open that is accepted has reached the target of the *)
(* -R it came through, unless another one names the port it came in at.    *)
(* For any amount of data, the relay of an -L, -D or -H connection starts  *)
(* where the client's request ends.  For any such forwards, a listener     *)
(* outlives its connections, and none of its clients is forgotten.         *)
(***************************************************************************)
EXTENDS RemoteForward, Relay, ForwardTasks, WellFoundedInduction, TLAPS

-----------------------------------------------------------------------------
(* -R                                                                        *)

\* What the look-up by port found is the target that was dialled.
Dialled(o) ==
  /\ RemoteForwards(PortOf(o)) # None
  /\ reached[o] = specs[RemoteForwards(PortOf(o))].target

\* The handler the loop awaits is that of an open with an entry in the map; nobody
\* else touches that open, so it is still the one that is dialled when it returns.
LoopInv ==
  loop # None =>
    /\ chan[loop] = "dialing" /\ via[loop] # Agent
    /\ RemoteForwards(PortOf(loop)) # None

TargetInv == \A o \in Opens : via[o] # Agent /\ Accepted(o) => Dialled(o)

\* A request that is out is for the spec run() is at.
TypeInv ==
  /\ TypeOK
  /\ asked => main \in DOMAIN specs

ForwardInv == TypeInv /\ LoopInv /\ TargetInv

-------------------------------------------------------------------------------
\* The largest of a set of positions.
LEMMA LargestPosition ==
  ASSUME NEW n \in Nat, NEW S \in SUBSET (1 .. n), S # {}
  PROVE  \E i \in S : \A j \in S : j <= i
<1> DEFINE T == {n - i : i \in S}
           R == OpToRel(<, Nat)
<1>0. \A i \in S : n - i \in Nat
  OBVIOUS
<1>1. T \subseteq Nat /\ T # {}
  <2> HIDE DEF R
  <2>1. T \subseteq Nat
    BY <1>0
  <2>2. PICK i \in S : TRUE
    OBVIOUS
  <2>3. QED
    BY <2>1, <2>2
<1>2. \A x, y \in Nat : x < y => <<x, y>> \in R
  BY DEF OpToRel
<1>3. IsWellFoundedOn(R, Nat)
  BY NatLessThanWellFounded
<1> HIDE DEF T, R
<1>4. PICK t \in T : \A u \in T : ~ (<<u, t>> \in R)
  BY <1>1, <1>3, WFMin
<1>5. \A u \in T : t <= u
  <2>1. t \in Nat
    BY <1>1
  <2> TAKE u \in T
  <2>2. u \in Nat
    BY <1>1
  <2>3. ~ (u < t)
    BY <1>2, <1>4, <2>1, <2>2
  <2>4. QED
    BY <2>1, <2>2, <2>3
<1>6. PICK i \in S : t = n - i
  BY DEF T
<1>7. \A j \in S : n - i <= n - j
  BY <1>5, <1>6 DEF T
<1>8. QED
  BY <1>7

\* What the map returns is a spec of that port, and the last one.
LEMMA LookupIsLast ==
  ASSUME specs \in CommandLines, NEW port, RemoteForwards(port) # None
  PROVE  /\ RemoteForwards(port) \in DOMAIN specs
         /\ specs[RemoteForwards(port)].port = port
         /\ \A j \in DOMAIN specs : specs[j].port = port => j <= RemoteForwards(port)
<1> DEFINE same == {i \in DOMAIN specs : specs[i].port = port}
<1>1. same # {}
  BY DEF RemoteForwards
<1>2. Len(specs) \in Nat /\ DOMAIN specs = 1 .. Len(specs)
  BY RemoteForwardAssumption
<1>3. same \in SUBSET (1 .. Len(specs))
  BY <1>2
<1> HIDE DEF same
<1>4. \E i \in same : \A j \in same : j <= i
  BY <1>1, <1>2, <1>3, LargestPosition
<1>5. RemoteForwards(port) = CHOOSE i \in same : \A j \in same : j <= i
  BY <1>1 DEF RemoteForwards, same
<1>6. RemoteForwards(port) \in same /\ \A j \in same : j <= RemoteForwards(port)
  BY <1>4, <1>5
<1>7. QED
  BY <1>6 DEF same

-------------------------------------------------------------------------------
LEMMA PacketTypes ==
  /\ \A o \in Opens : Packet("open", o) \in PacketKinds
  /\ \A ok \in BOOLEAN : Packet("reply", ok) \in PacketKinds
  /\ Packet("data", None) \in PacketKinds
  /\ \A p \in PacketKinds : p.kind = "open" => p.arg \in Opens
<1>1. /\ \A o \in Opens : Packet("open", o) \in PacketKinds
      /\ \A ok \in BOOLEAN : Packet("reply", ok) \in PacketKinds
      /\ Packet("data", None) \in PacketKinds
  BY DEF PacketKinds
<1>2. ASSUME NEW p \in PacketKinds, p.kind = "open"
      PROVE  p.arg \in Opens
  <2>1. CASE \E o \in Opens : p = Packet("open", o)
    BY <2>1 DEF Packet
  <2>2. CASE \E ok \in BOOLEAN : p = Packet("reply", ok)
    BY <1>2, <2>2 DEF Packet
  <2>3. CASE p = Packet("data", None)
    BY <1>2, <2>3 DEF Packet
  <2>4. QED
    BY <2>1, <2>2, <2>3 DEF PacketKinds
<1>3. QED
  BY <1>1, <1>2

\* The packet at the head of the inbox is one that sshd sends, and so are the rest.
LEMMA HeadOfInbox ==
  ASSUME TypeOK, inbox # << >>
  PROVE  Head(inbox) \in PacketKinds /\ Tail(inbox) \in Seq(PacketKinds)
<1> DEFINE P == PacketKinds
<1>1. inbox \in Seq(P)
  BY DEF TypeOK
<1> HIDE DEF P
<1>2. Head(inbox) \in P /\ Tail(inbox) \in Seq(P)
  BY <1>1
<1>3. QED
  BY <1>2 DEF P

LEMMA SendKeepsType ==
  ASSUME TypeOK, NEW p \in PacketKinds, Send(p)
  PROVE  inbox' \in Seq(PacketKinds)
<1> DEFINE P == PacketKinds
<1>1. inbox \in Seq(P) /\ p \in P /\ inbox' = Append(inbox, p)
  BY DEF TypeOK, Send
<1> HIDE DEF P
<1>2. inbox' \in Seq(P)
  BY <1>1
<1>3. QED
  BY <1>2 DEF P

-------------------------------------------------------------------------------
LEMMA TypeInvInit == Init => TypeInv
<1> SUFFICES ASSUME Init PROVE TypeInv
  OBVIOUS
<1>1. inbox \in Seq(PacketKinds) /\ replies \in Seq(Opens)
  BY DEF Init
<1>2. chan \in [Opens -> {"idle"}] /\ via \in [Opens -> {Agent}] /\ DOMAIN reached = Opens
  BY DEF Init
<1>3. chan \in [Opens -> {"idle", "sent", "dialing", "accepting", "rejecting",
                        "refusal", "replied", "confirmed", "rejected"}]
  BY <1>2
<1>4. via \in [Opens -> {Agent} \cup DOMAIN specs]
  BY <1>2
<1>5. produced \in 0 .. OutputBlocks /\ delivered \in Nat /\ main \in Nat
  BY RemoteForwardAssumption DEF Init
<1>6. /\ agent \in {"none", "dead", "live"} /\ exits \in BOOLEAN
      /\ {asked, lost} \subseteq BOOLEAN /\ listens \subseteq DOMAIN specs
      /\ loop \in Opens \cup {None} /\ specs \in CommandLines /\ ~asked
  BY DEF Init
<1>7. bound \in [DOMAIN specs -> Nat \ {0}]
  <2>1. PICK picked \in [DOMAIN specs -> Ephemeral] :
          bound = [i \in DOMAIN specs |-> IF specs[i].port = 0 THEN picked[i] ELSE specs[i].port]
    BY DEF Init
  <2>2. \A i \in DOMAIN specs : specs[i].port \in Nat /\ picked[i] \in Nat \ {0}
    BY <1>6, <2>1, RemoteForwardAssumption
  <2>3. QED
    BY <2>1, <2>2
<1>8. QED
  BY <1>1, <1>2, <1>3, <1>4, <1>5, <1>6, <1>7 DEF TypeInv, TypeOK

\* One step per action; under it what it changes that has a type.
LEMMA TypeInvNext == TypeInv /\ [Next]_vars => TypeInv'
<1> SUFFICES ASSUME TypeInv, [Next]_vars PROVE TypeInv'
  OBVIOUS
<1> USE DEF TypeInv, options, server, taskState
<1>1. CASE Request
  BY <1>1 DEF Request, TypeOK
<1>2. CASE AnswerRequest
  <2>1. main \in DOMAIN specs /\ listens' \subseteq DOMAIN specs
    BY <1>2 DEF AnswerRequest, TypeOK
  <2>2. inbox' \in Seq(PacketKinds)
    <3>1. CASE Send(Packet("reply", TRUE))
      BY <3>1, PacketTypes, SendKeepsType
    <3>2. CASE Send(Packet("reply", FALSE))
      BY <3>2, PacketTypes, SendKeepsType
    <3>3. QED
      BY <1>2, <3>1, <3>2 DEF AnswerRequest
  <2>3. QED
    BY <1>2, <2>1, <2>2 DEF AnswerRequest, TypeOK
<1>3. CASE SessionOutput
  <2>1. inbox' \in Seq(PacketKinds)
    BY <1>3, PacketTypes, SendKeepsType DEF SessionOutput
  <2>2. produced' \in 0 .. OutputBlocks
    BY <1>3, RemoteForwardAssumption DEF SessionOutput, TypeOK
  <2>3. QED
    BY <1>3, <2>1, <2>2 DEF SessionOutput, TypeOK
<1>4. CASE Disconnect
  BY <1>4 DEF Disconnect, TypeOK
<1>5. CASE Packets
  <2>1. inbox' \in Seq(PacketKinds) /\ Head(inbox) \in PacketKinds
    BY <1>5, HeadOfInbox DEF Packets, TakeData, TakeReply, TakeOpen, TakeAgentOpen, Took
  <2>2. CASE TakeData
    BY <2>1, <2>2 DEF TakeData, TypeOK
  <2>3. CASE TakeReply
    <3>1. main' \in Nat /\ asked' = FALSE
      BY <2>3 DEF TakeReply, Answered, TypeOK
    <3>2. UNCHANGED <<taskState, loop, replies, chan, reached, delivered>>
      BY <2>3 DEF TakeReply
    <3>3. QED
      BY <2>1, <3>1, <3>2 DEF TypeOK
  <2>4. CASE TakeOpen
    <3>1. Head(inbox).arg \in Opens
      BY <2>1, <2>4, PacketTypes DEF TakeOpen
    <3>2. QED
      BY <2>1, <2>4, <3>1 DEF TakeOpen, Become, TypeOK
  <2>5. CASE TakeAgentOpen
    BY <2>1, <2>5 DEF TakeAgentOpen, Become, TypeOK
  <2>6. QED
    BY <1>5, <2>2, <2>3, <2>4, <2>5 DEF Packets
<1>6. CASE Dial
  BY <1>6 DEF Dial, Become, TypeOK
<1>7. CASE SendReply
  <2> DEFINE o == Head(replies)
  <2>1. replies' \in Seq(Opens)
    BY <1>7 DEF SendReply, TypeOK
  <2>2. chan' = [chan EXCEPT ![o] = IF chan[o] = "replied" THEN "confirmed" ELSE "rejected"]
    BY <1>7 DEF SendReply
  <2>3. QED
    BY <1>7, <2>1, <2>2 DEF SendReply, TypeOK
<1>8. ASSUME NEW o \in Opens, OpenChannel(o) PROVE TypeInv'
  <2>1. inbox' \in Seq(PacketKinds)
    BY <1>8, PacketTypes, SendKeepsType DEF OpenChannel
  <2>2. via' \in [Opens -> {Agent} \cup DOMAIN specs]
    BY <1>8 DEF OpenChannel, TypeOK
  <2>3. QED
    BY <1>8, <2>1, <2>2 DEF OpenChannel, Become, TypeOK
<1>9. ASSUME NEW o \in Opens, Reply(o) PROVE TypeInv'
  <2>1. replies' \in Seq(Opens)
    BY <1>9 DEF Reply, TypeOK
  <2>2. chan' = [chan EXCEPT ![o] = IF chan[o] = "accepting" THEN "replied" ELSE "refusal"]
    BY <1>9 DEF Reply
  <2>3. QED
    BY <1>9, <2>1, <2>2 DEF Reply, TypeOK
<1>10. ASSUME NEW o \in Opens, DialAgent(o) PROVE TypeInv'
  BY <1>10 DEF DialAgent, TypeOK
<1>11. CASE UNCHANGED vars
  BY <1>11 DEF vars, TypeOK
<1>12. QED
  BY <1>1, <1>2, <1>3, <1>4, <1>5, <1>6, <1>7, <1>8, <1>9, <1>10, <1>11 DEF Next

\* Every variable has its type in every reachable state: packets, channels and
\* listeners never name a spec or an open that does not exist.
THEOREM TypeCorrect == Spec => []TypeOK
<1>1. TypeInv => TypeOK
  BY DEF TypeInv
<1>2. QED
  BY TypeInvInit, TypeInvNext, <1>1, PTL DEF Spec

-------------------------------------------------------------------------------
LEMMA ForwardInvInit == Init => ForwardInv
<1> SUFFICES ASSUME Init PROVE ForwardInv
  OBVIOUS
<1>1. LoopInv
  BY DEF Init, LoopInv
<1>2. TargetInv
  BY DEF Init, TargetInv, Accepted
<1>3. QED
  BY <1>1, <1>2, TypeInvInit DEF ForwardInv

\* What the look-up finds for an open depends on the specs and its listener alone.
LEMMA SameLookUp ==
  ASSUME UNCHANGED <<specs, bound>>, NEW o, UNCHANGED via[o]
  PROVE  RemoteForwards(PortOf(o))' = RemoteForwards(PortOf(o))
<1>1. PortOf(o)' = PortOf(o)
  BY DEF PortOf
<1>2. \A port : RemoteForwards(port)' = RemoteForwards(port)
  BY DEF RemoteForwards
<1>3. QED
  BY <1>1, <1>2

\* A step that leaves the specs, the channels' listeners and what the loop awaits
\* alone, accepts no open and redirects no accepted one, breaks neither part.
LEMMA NothingAccepted ==
  ASSUME LoopInv, TargetInv, UNCHANGED <<specs, bound, loop>>,
         loop # None => UNCHANGED <<chan[loop], via[loop]>>,
         \A o \in Opens : via'[o] # Agent /\ Accepted(o)' =>
           /\ Accepted(o) /\ UNCHANGED <<via[o], reached[o]>>
  PROVE  LoopInv' /\ TargetInv'
<1>1. LoopInv'
  BY DEF LoopInv, RemoteForwards, PortOf
<1>2. TargetInv'
  <2> SUFFICES ASSUME NEW o \in Opens, via'[o] # Agent, Accepted(o)'
               PROVE  Dialled(o)'
    BY DEF TargetInv
  <2>1. Dialled(o)
    BY DEF TargetInv
  <2>2. UNCHANGED <<specs, bound, via[o], reached[o]>>
    OBVIOUS
  <2>3. QED
    BY <2>1, <2>2, SameLookUp DEF Dialled
<1>3. QED
  BY <1>1, <1>2

LEMMA ForwardInvNext == ForwardInv /\ [Next]_vars => ForwardInv'
<1> SUFFICES ASSUME ForwardInv, [Next]_vars PROVE LoopInv' /\ TargetInv'
  BY TypeInvNext DEF ForwardInv
<1>0. TypeOK /\ LoopInv /\ TargetInv
  BY DEF ForwardInv, TypeInv
<1>t. chan \in [Opens -> {"idle", "sent", "dialing", "accepting", "rejecting",
                          "refusal", "replied", "confirmed", "rejected"}]
      /\ DOMAIN via = Opens /\ DOMAIN reached = Opens
  BY <1>0 DEF TypeOK
<1> USE DEF options, server, taskState
<1>1. CASE Request \/ AnswerRequest \/ SessionOutput \/ Disconnect
  <2>1. UNCHANGED <<specs, bound, loop, chan, via, reached>>
    BY <1>1 DEF Request, AnswerRequest, SessionOutput, Disconnect
  <2>2. QED
    BY <1>0, <2>1, NothingAccepted DEF Accepted
<1>2. CASE TakeData \/ TakeReply
  <2>1. UNCHANGED <<specs, bound, loop, chan, via, reached>>
    BY <1>2 DEF TakeData, TakeReply
  <2>2. QED
    BY <1>0, <2>1, NothingAccepted DEF Accepted
<1>3. CASE TakeOpen
  <2> DEFINE o == Head(inbox).arg
  <2>1. o \in Opens /\ via[o] # Agent /\ loop = None
    <3>1. Head(inbox) \in PacketKinds /\ Head(inbox).kind = "open"
      BY <1>0, <1>3, HeadOfInbox DEF TakeOpen, Took
    <3>2. QED
      BY <1>3, <3>1, PacketTypes DEF TakeOpen, Took, Idle
  <2>2. UNCHANGED <<specs, bound, via, reached>>
    BY <1>3 DEF TakeOpen
  <2>3. \A x \in Opens : Accepted(x)' => Accepted(x)
    BY <1>t, <1>3 DEF TakeOpen, Become, Accepted
  <2>4. CASE RemoteForwards(PortOf(o)) = None
    <3>1. UNCHANGED loop
      BY <1>3, <2>4 DEF TakeOpen
    <3>2. QED
      BY <1>0, <2>1, <2>2, <2>3, <3>1, NothingAccepted
  <2>5. CASE RemoteForwards(PortOf(o)) # None
    <3>1. loop' = o /\ chan'[o] = "dialing"
      BY <1>t, <1>3, <2>1, <2>5 DEF TakeOpen, Become
    <3>2. LoopInv'
      BY <2>1, <2>2, <2>5, <3>1 DEF LoopInv, RemoteForwards, PortOf
    <3>3. TargetInv'
      BY <1>0, <2>2, <2>3 DEF TargetInv, Dialled, RemoteForwards, PortOf
    <3>4. QED
      BY <3>2, <3>3
  <2>6. QED
    BY <2>4, <2>5
<1>4. CASE TakeAgentOpen
  <2> DEFINE o == Head(inbox).arg
  <2>1. via[o] = Agent /\ loop = None /\ UNCHANGED <<specs, bound, loop, via, reached>>
    BY <1>4 DEF TakeAgentOpen, Took, Idle
  <2>2. \A x \in Opens : x # o => chan'[x] = chan[x]
    BY <1>t, <1>4 DEF TakeAgentOpen, Become
  <2>3. QED
    BY <1>0, <2>1, <2>2, NothingAccepted DEF Accepted
<1>5. CASE Dial
  <2>1. /\ loop \in Opens /\ loop' = None /\ UNCHANGED <<specs, bound, via>>
        /\ RemoteForwards(PortOf(loop)) # None
    BY <1>0, <1>5 DEF Dial, LoopInv, TypeOK
  <2>2. LoopInv'
    BY <2>1 DEF LoopInv
  <2>3. SUFFICES ASSUME NEW x \in Opens, via'[x] # Agent, Accepted(x)'
                 PROVE  Dialled(x)'
    BY <2>2 DEF TargetInv
  <2>4. CASE x = loop
    <3>1. reached'[x] = specs[RemoteForwards(PortOf(x))].target
      BY <1>t, <1>5, <2>1, <2>3, <2>4 DEF Dial, Become, Accepted
    <3>2. RemoteForwards(PortOf(x))' = RemoteForwards(PortOf(x))
      BY <2>1, SameLookUp
    <3>3. RemoteForwards(PortOf(x)) # None
      BY <2>1, <2>4
    <3>4. QED
      BY <2>1, <3>1, <3>2, <3>3 DEF Dialled
  <2>5. CASE x # loop
    <3>1. chan'[x] = chan[x] /\ reached'[x] = reached[x]
      BY <1>t, <1>5, <2>1, <2>5 DEF Dial, Become
    <3>2. Dialled(x)
      BY <1>0, <2>1, <2>3, <3>1 DEF TargetInv, Accepted
    <3>3. QED
      BY <2>1, <3>1, <3>2, SameLookUp DEF Dialled
  <2>6. QED
    BY <2>4, <2>5
<1>6. CASE SendReply
  <2>1. loop = None /\ UNCHANGED <<specs, bound, loop, via, reached>>
    BY <1>6 DEF SendReply, Idle
  <2>2. \A x \in Opens : Accepted(x)' => Accepted(x)
    BY <1>t, <1>6 DEF SendReply, Accepted
  <2>3. QED
    BY <1>0, <2>1, <2>2, NothingAccepted
<1>7. ASSUME NEW o \in Opens, OpenChannel(o) PROVE LoopInv' /\ TargetInv'
  <2>1. UNCHANGED <<specs, bound, loop, reached>> /\ chan[o] = "idle" /\ chan'[o] = "sent"
    BY <1>t, <1>7 DEF OpenChannel, Become
  <2>2. \A x \in Opens \ {o} : UNCHANGED <<chan[x], via[x]>>
    BY <1>t, <1>7 DEF OpenChannel, Become
  <2>3. loop # None => loop \in Opens \ {o}
    BY <1>0, <2>1 DEF LoopInv, TypeOK
  <2>4. QED
    BY <1>0, <2>1, <2>2, <2>3, NothingAccepted DEF Accepted
<1>8. ASSUME NEW o \in Opens, Reply(o) PROVE LoopInv' /\ TargetInv'
  <2>1. UNCHANGED <<specs, bound, loop, via, reached>> /\ chan[o] \in {"accepting", "rejecting"}
    BY <1>8 DEF Reply
  <2>2. \A x \in Opens \ {o} : UNCHANGED chan[x]
    BY <1>t, <1>8 DEF Reply
  <2>3. loop # None => loop \in Opens \ {o}
    BY <1>0, <2>1 DEF LoopInv, TypeOK
  <2>4. Accepted(o)' => Accepted(o)
    BY <1>t, <1>8, <2>1 DEF Reply, Accepted
  <2>5. QED
    BY <1>0, <2>1, <2>2, <2>3, <2>4, NothingAccepted DEF Accepted
<1>9. ASSUME NEW o \in Opens, DialAgent(o) PROVE LoopInv' /\ TargetInv'
  <2>1. UNCHANGED <<specs, bound, loop, chan, via>> /\ via[o] = Agent
    BY <1>9 DEF DialAgent
  <2>2. \A x \in Opens \ {o} : UNCHANGED reached[x]
    BY <1>t, <1>9 DEF DialAgent
  <2>3. QED
    BY <1>0, <2>1, <2>2, NothingAccepted DEF Accepted
<1>10. CASE UNCHANGED vars
  <2>1. UNCHANGED <<specs, bound, loop, chan, via, reached>>
    BY <1>10 DEF vars
  <2>2. QED
    BY <1>0, <2>1, NothingAccepted DEF Accepted
<1>11. QED
  BY <1>1, <1>2, <1>3, <1>4, <1>5, <1>6, <1>7, <1>8, <1>9, <1>10 DEF Next, Packets

-------------------------------------------------------------------------------
\* What was dialled for an accepted open is the target of a spec that names the port it
\* came in at: the one it came through, or another.
LEMMA ForwardInvReaches == ForwardInv => ReachesItsTarget
<1> SUFFICES ASSUME ForwardInv, NEW o \in Opens, via[o] \in DOMAIN specs, Accepted(o)
             PROVE  \/ reached[o] = specs[via[o]].target
                    \/ \E j \in DOMAIN specs \ {via[o]} :
                         specs[j].port = bound[via[o]] /\ reached[o] = specs[j].target
  BY DEF ReachesItsTarget
<1> DEFINE i == RemoteForwards(PortOf(o))
<1>1. specs \in CommandLines /\ DOMAIN specs = 1 .. Len(specs) /\ Len(specs) \in Nat
  BY RemoteForwardAssumption DEF ForwardInv, TypeInv, TypeOK
<1>2. via[o] # Agent
  BY <1>1 DEF Agent
<1>3. i # None /\ reached[o] = specs[i].target
  BY <1>2 DEF ForwardInv, TargetInv, Dialled
<1>4. i \in DOMAIN specs /\ specs[i].port = bound[via[o]]
  BY <1>1, <1>3, LookupIsLast DEF PortOf
<1>5. QED
  BY <1>3, <1>4

\* Every open that is accepted has reached the target of the -R it came through, or
\* of another one that names the port it came in at (the handler of
\* forwarded-tcpip), for any command line, whatever ports sshd picks and whatever
\* it refuses.
THEOREM ReachesTargets == Spec => []ReachesItsTarget
BY ForwardInvInit, ForwardInvNext, ForwardInvReaches, PTL DEF Spec

-----------------------------------------------------------------------------
(* -L, -D and -H                                                             *)

\* Where the handshake is, and that the client of -H that waits has sent nothing or
\* its header.
RequestInv ==
  /\ phase = "greeting" => kind = "D" /\ start = 0
  /\ phase = "request" => \/ kind = "D" /\ start = 1
                          \/ kind = "H" /\ start = 0
  /\ phase \in {"greeting", "request", "open"} => read = start
  /\ phase = "request" /\ kind = "H" /\ patient => sent["stream"] \in {0, 3}
  /\ phase \in {"open", "relay"} /\ (kind = "H" => patient) =>
       start = RequestPieces /\ target = "asked"

RelayInv == RelayTypeOK /\ RequestInv

LEMMA RelayStart == RelayInit => RelayInv
<1> SUFFICES ASSUME RelayInit
             PROVE  RelayInv
  OBVIOUS
<1>1. PumpInit /\ phase = (CASE kind = "L" -> "open" [] kind = "D" -> "greeting"
                                [] kind = "H" -> "request")
      /\ target = (IF kind = "L" THEN "asked" ELSE "none") /\ answers = << >>
      /\ kind \in {"L", "D", "H"} /\ patient \in BOOLEAN
  BY DEF RelayInit
<1>2. sent["stream"] = 0 /\ got["channel"] = 0 /\ got["stream"] = 0 /\ sent["channel"] = 0
      /\ start = 0 /\ read = 0
  BY <1>1 DEF PumpInit, Sides
<1>3. PumpTypeOK
  <2>1. \A s \in Sides : Blocks[s] \in Nat /\ sent[s] = 0
    BY <1>1, PumpAssumption DEF PumpInit
  <2>2. /\ waits \subseteq Sides /\ finished \subseteq Sides /\ broken \subseteq Sides
        /\ sent \in [Sides -> Nat] /\ got \in [Sides -> Nat] /\ told \in BOOLEAN
        /\ task \in [Sides -> {"copying", "ended"}]
    BY <1>1 DEF PumpInit
  <2>3. QED
    BY <1>2, <2>1, <2>2 DEF PumpTypeOK
<1>4. phase \in {"open", "greeting", "request"}
  BY <1>1
<1>5. RelayTypeOK
  <2>1. answers \in Seq({"method", "ok", "failed", "400", "502"})
    BY <1>1
  <2>2. QED
    BY <1>1, <1>3, <1>4, <2>1 DEF RelayTypeOK
<1>6. RequestInv
  <2>1. kind = "L" => phase = "open" /\ target = "asked" /\ RequestPieces = 0
    BY <1>1 DEF RequestPieces, Pieces
  <2>2. kind = "D" => phase = "greeting"
    BY <1>1
  <2>3. kind = "H" => phase = "request"
    BY <1>1
  <2>4. QED
    BY <1>1, <1>2, <2>1, <2>2, <2>3 DEF RequestInv
<1>7. QED
  BY <1>5, <1>6 DEF RelayInv

\* Sending, receiving and relaying: what has been counted stays in its bounds.
LEMMA PumpTypesNext ==
  ASSUME PumpTypeOK,
         \/ C2S \/ S2C \/ PeerSends("channel")
         \/ \E s \in Sides : Finish(s) \/ Break(s)
         \/ UNCHANGED pumpVars
  PROVE  /\ PumpTypeOK' /\ start' = start /\ sent'["stream"] = sent["stream"]
<1>1. /\ waits \subseteq Sides /\ finished \subseteq Sides /\ broken \subseteq Sides
      /\ sent \in [Sides -> Nat] /\ \A s \in Sides : sent[s] <= Blocks[s] /\ Blocks[s] \in Nat
      /\ read \in 0 .. sent["stream"] /\ start \in 0 .. read
      /\ got \in [Sides -> Nat]
      /\ got["channel"] <= read - start /\ got["stream"] <= sent["channel"]
      /\ told \in BOOLEAN /\ task \in [Sides -> {"copying", "ended"}]
  BY PumpAssumption DEF PumpTypeOK
<1>2. Sides = {"channel", "stream"} /\ "channel" \in Sides /\ "stream" \in Sides
  BY DEF Sides
<1>3. sent["stream"] \in Nat /\ sent["channel"] \in Nat /\ read \in Nat /\ start \in Nat
      /\ got["channel"] \in Nat /\ got["stream"] \in Nat
  BY <1>1, <1>2
<1>4. CASE ToStream
  <2>1. UNCHANGED <<waits, sent, finished, broken, start, read, told>>
    BY <1>4 DEF ToStream, peerVars
  <2>2. task' \in [Sides -> {"copying", "ended"}]
    BY <1>1, <1>4 DEF ToStream, End
  <2>3. got' \in [Sides -> Nat] /\ got'["channel"] = got["channel"]
        /\ got'["stream"] <= sent["channel"]
    BY <1>1, <1>2, <1>3, <1>4 DEF ToStream, Reach
  <2>4. QED
    BY <1>1, <2>1, <2>2, <2>3 DEF PumpTypeOK
<1>5. CASE ToStreamEnds \/ ToChannelEnds \/ ToChannelFails
  <2>1. UNCHANGED <<waits, sent, finished, broken, start, read, got>>
    BY <1>5 DEF ToStreamEnds, ToChannelEnds, ToChannelFails, peerVars
  <2>2. task' \in [Sides -> {"copying", "ended"}] /\ told' \in BOOLEAN
    BY <1>1, <1>5 DEF ToStreamEnds, ToChannelEnds, ToChannelFails, End
  <2>3. QED
    BY <1>1, <2>1, <2>2 DEF PumpTypeOK
<1>6. CASE ToChannel
  <2>1. UNCHANGED <<waits, sent, finished, broken, start, told>> /\ read' = read + 1
        /\ read < sent["stream"]
    BY <1>6 DEF ToChannel, peerVars
  <2>2. task' \in [Sides -> {"copying", "ended"}]
    BY <1>1, <1>6 DEF ToChannel, End
  <2>3. got' \in [Sides -> Nat] /\ got'["stream"] = got["stream"]
        /\ got'["channel"] <= got["channel"] + 1
    BY <1>1, <1>2, <1>3, <1>6 DEF ToChannel, Reach
  <2>4. read' \in 0 .. sent["stream"] /\ start \in 0 .. read' /\ got'["channel"] <= read' - start
    <3>1. got'["channel"] \in Nat
      BY <1>2, <2>3
    <3>2. QED
      BY <1>1, <1>3, <2>1, <2>3, <3>1
  <2>5. QED
    BY <1>1, <2>1, <2>2, <2>3, <2>4 DEF PumpTypeOK
<1>7. CASE PeerSends("channel")
  <2>1. UNCHANGED <<waits, finished, broken, start, read, got, told, task>>
    BY <1>7 DEF PeerSends
  <2>2. sent' \in [Sides -> Nat] /\ sent'["stream"] = sent["stream"]
        /\ sent'["channel"] = sent["channel"] + 1 /\ sent["channel"] < Blocks["channel"]
    BY <1>1, <1>2, <1>3, <1>7 DEF PeerSends
  <2>3. \A s \in Sides : sent'[s] <= Blocks[s]
    BY <1>1, <1>2, <1>3, <2>2
  <2>4. got["stream"] <= sent'["channel"]
    BY <1>1, <1>3, <2>2
  <2>5. QED
    BY <1>1, <2>1, <2>2, <2>3, <2>4 DEF PumpTypeOK
<1>8. ASSUME NEW s \in Sides, Finish(s) \/ Break(s)
      PROVE  PumpTypeOK' /\ UNCHANGED <<start, sent, read>>
  <2>1. UNCHANGED <<waits, sent, start, read, got, told, task>>
    BY <1>8 DEF Finish, Break
  <2>2. finished' \subseteq Sides /\ broken' \subseteq Sides
    BY <1>1, <1>8 DEF Finish, Break
  <2>3. QED
    BY <1>1, <2>1, <2>2 DEF PumpTypeOK
<1>9. CASE UNCHANGED pumpVars
  BY <1>1, <1>9 DEF pumpVars, PumpTypeOK
<1>10. QED
  BY <1>4, <1>5, <1>6, <1>7, <1>8, <1>9 DEF C2S, S2C

\* The handshake: a part of it takes some of what has arrived, or nothing, and may
\* drop the stream.
LEMMA HandshakeTypes ==
  ASSUME PumpTypeOK, read = start, UNCHANGED peers,
         \/ \E n \in Nat : read + n <= sent["stream"] /\ Take(n)
         \/ UNCHANGED <<start, read>>,
         UNCHANGED task \/ Close
  PROVE  PumpTypeOK'
<1>1. UNCHANGED <<waits, sent, finished, broken, got, told>>
  BY DEF peers
<1>2. task' \in [Sides -> {"copying", "ended"}]
  BY DEF PumpTypeOK, Close
<1>3. /\ sent \in [Sides -> Nat] /\ read \in 0 .. sent["stream"] /\ start \in 0 .. read
      /\ got \in [Sides -> Nat] /\ got["channel"] <= read - start
  BY DEF PumpTypeOK
<1>4. sent["stream"] \in Nat /\ read \in Nat /\ got["channel"] \in Nat
  BY <1>3 DEF Sides
<1>5. read' \in 0 .. sent["stream"] /\ start' = read' /\ got["channel"] <= read' - start'
  BY <1>3, <1>4 DEF Take
<1>6. start' \in 0 .. read'
  BY <1>4, <1>5
<1>7. QED
  BY <1>1, <1>2, <1>5, <1>6 DEF PumpTypeOK

LEMMA AnswerTypes ==
  ASSUME RelayTypeOK, NEW reply \in {"method", "ok", "failed", "400", "502"}, Answer(reply)
  PROVE  answers' \in Seq({"method", "ok", "failed", "400", "502"})
BY DEF RelayTypeOK, Answer

\* What a step of the handshake does.
LEMMA GreetingStep ==
  ASSUME RelayInv, Greeting
  PROVE  /\ RelayTypeOK'
         /\ phase' \in {"request", "closed"} /\ UNCHANGED <<kind, patient>>
         /\ kind = "D" /\ (phase' = "request" => start' = 1 /\ read' = 1)
<1>1. RelayTypeOK /\ kind = "D" /\ start = 0 /\ read = 0 /\ phase = "greeting"
  BY DEF Greeting, RelayInv, RequestInv
<1>2. UNCHANGED <<kind, patient, target, sent>> /\ UNCHANGED peers
  BY DEF Greeting, peers
<1>3. CASE Readable /\ Arrived >= 1 /\ Take(1) /\ Answer("method") /\ phase' = "request"
           /\ UNCHANGED task
  <2>1. read + 1 <= sent["stream"] /\ start' = 1 /\ read' = 1
    BY <1>1, <1>3 DEF Arrived, Take, RelayTypeOK, PumpTypeOK, Sides
  <2>2. PumpTypeOK'
    BY <1>1, <1>2, <1>3, <2>1, HandshakeTypes DEF RelayTypeOK
  <2>3. answers' \in Seq({"method", "ok", "failed", "400", "502"})
    BY <1>1, <1>3, AnswerTypes
  <2>4. QED
    BY <1>1, <1>2, <1>3, <2>1, <2>2, <2>3 DEF RelayTypeOK
<1>4. CASE NoMore /\ Close /\ UNCHANGED <<start, read, answers>>
  <2>1. PumpTypeOK'
    BY <1>1, <1>2, <1>4, HandshakeTypes DEF RelayTypeOK
  <2>2. QED
    BY <1>1, <1>2, <1>4, <2>1 DEF RelayTypeOK, Close
<1>5. QED
  BY <1>3, <1>4 DEF Greeting

LEMMA SocksRequestStep ==
  ASSUME RelayInv, SocksRequest
  PROVE  /\ RelayTypeOK'
         /\ phase' \in {"open", "closed"} /\ UNCHANGED <<kind, patient>>
         /\ kind = "D"
         /\ phase' = "open" => start' = 2 /\ read' = 2 /\ target' = "asked"
<1>1. RelayTypeOK /\ kind = "D" /\ start = 1 /\ read = 1 /\ phase = "request"
  BY DEF SocksRequest, RelayInv, RequestInv
<1>2. UNCHANGED <<kind, patient, answers>> /\ UNCHANGED peers
  BY DEF SocksRequest
<1>3. CASE /\ Readable /\ Arrived >= 1 /\ Take(1)
           /\ \/ phase' = "open" /\ target' = "asked" /\ UNCHANGED task
              \/ Close /\ UNCHANGED target
  <2>1. read + 1 <= sent["stream"] /\ start' = 2 /\ read' = 2
    BY <1>1, <1>3 DEF Arrived, Take, RelayTypeOK, PumpTypeOK, Sides
  <2>2. PumpTypeOK'
    BY <1>1, <1>2, <1>3, <2>1, HandshakeTypes DEF RelayTypeOK
  <2>3. QED
    BY <1>1, <1>2, <1>3, <2>1, <2>2 DEF RelayTypeOK, Close
<1>4. CASE NoMore /\ Close /\ UNCHANGED <<start, read, target>>
  <2>1. PumpTypeOK'
    BY <1>1, <1>2, <1>4, HandshakeTypes DEF RelayTypeOK
  <2>2. QED
    BY <1>1, <1>2, <1>4, <2>1 DEF RelayTypeOK, Close
<1>5. QED
  BY <1>3, <1>4 DEF SocksRequest

LEMMA HttpRequestStep ==
  ASSUME RelayInv, HttpRequest
  PROVE  /\ RelayTypeOK'
         /\ phase' \in {"open", "closed"} /\ UNCHANGED <<kind, patient>>
         /\ kind = "H" /\ (phase' = "open" => read' = start')
         /\ phase' = "open" /\ patient => start' = 3 /\ target' = "asked"
<1>1. RelayTypeOK /\ kind = "H" /\ start = 0 /\ read = 0 /\ phase = "request"
      /\ (patient => sent["stream"] \in {0, 3}) /\ sent["stream"] \in Nat
  BY DEF HttpRequest, RelayInv, RequestInv, RelayTypeOK, PumpTypeOK, Sides
<1>2. UNCHANGED <<kind, patient>> /\ UNCHANGED peers
  BY DEF HttpRequest
<1>3. ASSUME NEW n \in 1 .. Arrived, patient => n = Arrived, Take(n), target' = ParsedTarget(n),
             IF target' = "none" THEN Answer("400") /\ Close
                                 ELSE phase' = "open" /\ UNCHANGED <<answers, task>>
      PROVE  /\ RelayTypeOK' /\ phase' \in {"open", "closed"} /\ read' = start'
             /\ phase' = "open" /\ patient => start' = 3 /\ target' = "asked"
  <2>1. n \in Nat \ {0} /\ read + n <= sent["stream"] /\ start' = n /\ read' = n
        /\ n <= sent["stream"] /\ Arrived = sent["stream"]
    BY <1>1, <1>3 DEF Arrived, Take
  <2>2. PumpTypeOK'
    <3>1. UNCHANGED task \/ Close
      BY <1>3
    <3>2. QED
      BY <1>1, <1>2, <1>3, <2>1, <3>1, HandshakeTypes DEF RelayTypeOK
  <2>3. target' \in {"none", "asked", "elsewhere"}
    <3>1. n = 1 \/ n = 2 \/ n >= 3
      BY <2>1
    <3>2. QED
      BY <1>3, <2>1, <3>1 DEF ParsedTarget
  <2>4. answers' \in Seq({"method", "ok", "failed", "400", "502"})
    BY <1>1, <1>3, AnswerTypes DEF RelayTypeOK
  <2>5. phase' \in {"open", "closed"}
    BY <1>3 DEF Close
  <2>6. patient => n = 3 /\ target' = "asked"
    <3>1. patient => n = 3
      BY <1>1, <1>3, <2>1
    <3>2. n = 3 => ParsedTarget(n) = "asked"
      BY DEF ParsedTarget
    <3>3. QED
      BY <1>3, <3>1, <3>2
  <2>7. QED
    BY <1>1, <1>2, <2>1, <2>2, <2>3, <2>4, <2>5, <2>6 DEF RelayTypeOK
<1>4. CASE NoMore /\ Close /\ UNCHANGED <<start, read, target, answers>>
  <2>1. PumpTypeOK'
    BY <1>1, <1>2, <1>4, HandshakeTypes DEF RelayTypeOK
  <2>2. QED
    BY <1>1, <1>2, <1>4, <2>1 DEF RelayTypeOK, Close
<1>5. QED
  BY <1>1, <1>2, <1>3, <1>4 DEF HttpRequest

LEMMA OpenDirectStep ==
  ASSUME RelayInv, OpenDirect
  PROVE  /\ RelayTypeOK'
         /\ phase = "open" /\ phase' \in {"relay", "closed"}
         /\ UNCHANGED <<kind, patient, start, target>>
<1>1. RelayTypeOK /\ read = start /\ phase = "open"
  BY DEF OpenDirect, RelayInv, RequestInv
<1>2. UNCHANGED <<start, read, kind, patient, target>> /\ UNCHANGED peers
  BY DEF OpenDirect
<1>3. (phase' = "relay" /\ UNCHANGED task) \/ Close
  BY DEF OpenDirect
<1>4. answers' \in Seq({"method", "ok", "failed", "400", "502"})
  <2>1. UNCHANGED answers \/ Answer("ok") \/ Answer("failed") \/ Answer("502")
    BY DEF OpenDirect, OpenRefused
  <2>2. QED
    BY <1>1, <2>1, AnswerTypes DEF RelayTypeOK
<1>5. PumpTypeOK'
  BY <1>1, <1>2, <1>3, HandshakeTypes DEF RelayTypeOK
<1>6. QED
  BY <1>1, <1>2, <1>3, <1>4, <1>5 DEF RelayTypeOK, Close

\* The client of -H that waits sends its header at once, and then waits.
LEMMA ClientSendsStep ==
  ASSUME RelayInv, ClientSends
  PROVE  /\ RelayTypeOK' /\ UNCHANGED <<start, read, phase, kind, patient, target>>
         /\ phase = "request" /\ kind = "H" /\ patient => sent'["stream"] = 3
<1>1. PICK n \in 1 .. Blocks["stream"] - sent["stream"] :
        /\ patient =>
             CASE kind = "H" /\ sent["stream"] = 0 -> n = RequestPieces
               [] kind = "D" /\ sent["stream"] = 1 -> n = 1 /\ answers # << >>
               [] sent["stream"] >= RequestPieces -> n = 1 /\ (kind = "L" \/ phase = "relay")
               [] OTHER -> n = 1
        /\ sent' = [sent EXCEPT !["stream"] = @ + n]
  BY DEF ClientSends
<1>2. UNCHANGED <<waits, finished, broken, start, read, got, told, task>>
      /\ UNCHANGED <<kind, patient, phase, target, answers>>
  BY DEF ClientSends, requestVars
<1>3. RelayTypeOK /\ PumpTypeOK /\ sent \in [Sides -> Nat] /\ sent["stream"] \in Nat
      /\ \A s \in Sides : sent[s] <= Blocks[s] /\ Blocks[s] \in Nat
  BY PumpAssumption DEF RelayInv, RelayTypeOK, PumpTypeOK, Sides
<1>4. "stream" \in Sides /\ "channel" \in Sides
  BY DEF Sides
<1>5. n \in Nat /\ sent["stream"] + n <= Blocks["stream"] /\ sent["stream"] + n \in Nat
  BY <1>1, <1>3, <1>4
<1>6. sent' \in [Sides -> Nat] /\ sent'["stream"] = sent["stream"] + n
      /\ \A s \in Sides \ {"stream"} : sent'[s] = sent[s]
  BY <1>1, <1>3, <1>4, <1>5
<1>7. \A s \in Sides : sent'[s] <= Blocks[s]
  BY <1>3, <1>5, <1>6
<1>8. read \in 0 .. sent'["stream"] /\ got["stream"] <= sent'["channel"]
  <2>1. read \in 0 .. sent["stream"] /\ got["stream"] <= sent["channel"]
    BY <1>3 DEF PumpTypeOK
  <2>2. QED
    BY <1>3, <1>4, <1>5, <1>6, <2>1
<1>9. PumpTypeOK'
  BY <1>2, <1>3, <1>6, <1>7, <1>8 DEF PumpTypeOK
<1>10. RelayTypeOK'
  BY <1>2, <1>3, <1>9 DEF RelayTypeOK
<1>11. ASSUME phase = "request", kind = "H", patient
       PROVE  sent'["stream"] = 3
  <2>1. RequestPieces = 3
    BY <1>11 DEF RequestPieces, Pieces
  <2>2. sent["stream"] = 0 \/ sent["stream"] = 3
    BY <1>11 DEF RelayInv, RequestInv
  <2>3. sent["stream"] # 3
    BY <1>1, <1>11, <2>1
  <2>4. n = 3
    BY <1>1, <1>11, <2>1, <2>2, <2>3
  <2>5. QED
    BY <1>6, <2>2, <2>3, <2>4
<1>12. QED
  BY <1>2, <1>10, <1>11

LEMMA RelayStep == RelayInv /\ [RelayNext]_relayVars => RelayInv'
<1> SUFFICES ASSUME RelayInv, [RelayNext]_relayVars
             PROVE  RelayInv'
  OBVIOUS
<1>1. RelayTypeOK /\ RequestInv /\ kind \in {"L", "D", "H"}
  BY DEF RelayInv, RelayTypeOK
<1>2. CASE Greeting
  BY <1>2, GreetingStep DEF RelayInv, RequestInv
<1>3. CASE SocksRequest
  <2>1. kind = "D" => RequestPieces = 2
    BY DEF RequestPieces, Pieces
  <2>2. RequestPieces' = RequestPieces
    BY <1>3, SocksRequestStep DEF RequestPieces
  <2>3. QED
    BY <1>3, <2>1, <2>2, SocksRequestStep DEF RelayInv, RequestInv
<1>4. CASE HttpRequest
  <2>1. kind = "H" => RequestPieces = 3
    BY DEF RequestPieces, Pieces
  <2>2. RequestPieces' = RequestPieces
    BY <1>4, HttpRequestStep DEF RequestPieces
  <2>3. QED
    BY <1>4, <2>1, <2>2, HttpRequestStep DEF RelayInv, RequestInv
<1>5. CASE OpenDirect
  <2>1. RequestPieces' = RequestPieces
    BY <1>5, OpenDirectStep DEF RequestPieces
  <2>2. QED
    BY <1>1, <1>5, <2>1, OpenDirectStep DEF RelayInv, RequestInv
<1>6. CASE ClientSends
  <2>1. RequestPieces' = RequestPieces
    BY <1>6, ClientSendsStep DEF RequestPieces
  <2>2. QED
    BY <1>1, <1>6, <2>1, ClientSendsStep DEF RelayInv, RequestInv
<1>7. ASSUME UNCHANGED requestVars,
             \/ Pumping /\ (C2S \/ S2C \/ PeerSends("channel"))
             \/ \E s \in Sides : Finish(s) \/ Break(s)
             \/ UNCHANGED pumpVars
      PROVE  RelayInv'
  <2>1. PumpTypeOK' /\ start' = start /\ sent'["stream"] = sent["stream"]
        /\ (read' = read \/ Pumping)
    <3>1. PumpTypeOK' /\ start' = start /\ sent'["stream"] = sent["stream"]
      BY <1>1, <1>7, PumpTypesNext DEF RelayTypeOK
    <3>2. read' = read \/ Pumping
      BY <1>7 DEF Finish, Break, pumpVars
    <3>3. QED
      BY <3>1, <3>2
  <2>2. UNCHANGED <<kind, patient, phase, target, answers>>
    BY <1>7 DEF requestVars
  <2>3. RequestPieces' = RequestPieces
    BY <2>2 DEF RequestPieces
  <2>4. QED
    BY <1>1, <2>1, <2>2, <2>3 DEF RelayInv, RelayTypeOK, RequestInv, Pumping
<1>8. QED
  BY <1>2, <1>3, <1>4, <1>5, <1>6, <1>7
     DEF RelayNext, Connecting, relayVars, Sides

\* The types of the relay's state: every count within what was sent and read.
THEOREM RelayTypes == RelaySpec => []RelayTypeOK
<1>1. RelayInv => RelayTypeOK
  BY DEF RelayInv
<1>2. QED
  BY <1>1, RelayStart, RelayStep, PTL DEF RelaySpec

\* For any amount of data and however it arrives: the pumps start where the request
\* ends and the channel goes where it says, for -D because of read_exact, for -H of a
\* client that sends its header in one piece (socks5_handshake, http_connect_handle_one).
THEOREM RequestsKeptApart == RelaySpec => []RequestKeptApart
<1>1. RelayInv => RequestKeptApart
  BY DEF RelayInv, RequestInv, RequestKeptApart, Pumping
<1>2. QED
  BY <1>1, RelayStart, RelayStep, PTL DEF RelaySpec

-----------------------------------------------------------------------------
(* The tasks of -L, -D and -H.                                               *)

\* A kind that has a task has specs; the tasks start when the main task starts them
\* and end when it exits.
StagesInv ==
  /\ \A k \in Forwards : stage[k] # "none" => k \in Kinds
  /\ main_task = "proxies" => \A k \in Forwards : stage[k] = "none"
  /\ main_task \in {"proxies", "remote", "local"} => stage["L"] = "none"

InQueue(c, k) == \E i \in DOMAIN queue[k] : queue[k][i] = c

\* A client that has got through is where somebody will see to it: in the queue of a
\* listener, or the one a listener's loop is busy with.
ClientsHeld ==
  \A c \in Conns :
    /\ conn[c] = "queued" => \E k \in Forwards : Listens(k) /\ InQueue(c, k)
    /\ conn[c] = "served" => \E k \in Forwards : stage[k] = "serve" /\ client[k] = c

Stages == {"none", "connect", "bind", "accept", "serve", "parked"}
Outcomes == {"idle", "refused", "queued", "served", "left", "closed"}

TasksInv == TasksTypeOK /\ StagesInv

LEMMA TasksTypes ==
  ASSUME TasksTypeOK
  PROVE  /\ cmd \in Commands /\ DOMAIN Specs \subseteq Forwards
         /\ \A k \in Kinds : Specs[k] \in Seq(Nat) /\ Specs[k] # << >>
                             /\ DOMAIN Specs[k] = 1 .. Len(Specs[k]) /\ Len(Specs[k]) \in Nat
         /\ stage \in [Forwards -> Stages] /\ spec \in [Forwards -> Nat]
         /\ \A k \in Kinds : spec[k] \in DOMAIN Specs[k]
         /\ failed \subseteq Ports /\ queue \in [Forwards -> Seq(Conns)]
         /\ client \in [Forwards -> Conns \cup {NoClient}] /\ conn \in [Conns -> Outcomes]
         /\ \A k \in Kinds : Current(k) \in Ports
<1>1. cmd \in Commands
  BY DEF TasksTypeOK
<1>2. DOMAIN Specs \subseteq Forwards /\ \A k \in Kinds : Specs[k] \in Seq(Nat) \ {<< >>}
  BY <1>1, ForwardAssumption DEF Specs, Kinds
<1>3. \A k \in Kinds : Specs[k] \in Seq(Nat) /\ Specs[k] # << >>
                       /\ DOMAIN Specs[k] = 1 .. Len(Specs[k]) /\ Len(Specs[k]) \in Nat
  BY <1>2
<1>4. \A k \in Kinds : spec[k] \in DOMAIN Specs[k]
  BY DEF TasksTypeOK
<1>5. \A k \in Kinds : Current(k) \in Ports
  BY <1>4 DEF Current, Ports
<1>6. QED
  BY <1>1, <1>2, <1>3, <1>4, <1>5 DEF TasksTypeOK, Stages, Outcomes

LEMMA TasksStart == TasksInit => TasksInv /\ ClientsHeld
<1> SUFFICES ASSUME TasksInit
             PROVE  TasksInv /\ ClientsHeld
  OBVIOUS
<1>1. cmd \in Commands /\ Kinds \subseteq Forwards
      /\ \A k \in Kinds : Specs[k] \in Seq(Nat) \ {<< >>}
  BY ForwardAssumption DEF TasksInit, Specs, Kinds
<1>2. \A k \in Kinds : 1 \in DOMAIN Specs[k]
  BY <1>1
<1>3. \A k \in Forwards : spec[k] = 1 /\ stage[k] = "none"
  BY DEF TasksInit
<1>4. TasksTypeOK
  BY <1>1, <1>2, <1>3 DEF TasksInit, TasksTypeOK
<1>5. StagesInv
  BY <1>3 DEF StagesInv, Forwards
<1>6. ClientsHeld
  BY DEF TasksInit, ClientsHeld
<1>7. QED
  BY <1>4, <1>5, <1>6 DEF TasksInv

\* The end of the process.
LEMMA ExitStep ==
  ASSUME TasksInv, Exit
  PROVE  TasksInv' /\ ClientsHeld'
<1>1. UNCHANGED <<cmd, spec, failed>> /\ main_task' = "exited"
      /\ stage' = [k \in Forwards |-> "none"]
      /\ queue' = [k \in Forwards |-> << >>] /\ client' = [k \in Forwards |-> NoClient]
      /\ conn' = [c \in Conns |-> IF conn[c] \in {"queued", "served"} THEN "closed" ELSE conn[c]]
  BY DEF Exit
<1>2. UNCHANGED <<Specs, Kinds, Ports>>
  BY <1>1 DEF Specs, Kinds, Ports
<1>3. TasksTypeOK
  BY DEF TasksInv
<1>4. conn' \in [Conns -> Outcomes]
  BY <1>1, <1>3, TasksTypes DEF Outcomes
<1>5. TasksTypeOK'
  <2>1. queue' \in [Forwards -> Seq(Conns)]
    BY <1>1
  <2>2. spec' \in [Forwards -> Nat] /\ (\A k \in Kinds : spec[k] \in DOMAIN Specs[k])
    BY <1>1, <1>3, TasksTypes
  <2>3. QED
    BY <1>1, <1>2, <1>3, <1>4, <2>1, <2>2 DEF TasksTypeOK, Outcomes
<1>6. StagesInv'
  BY <1>1 DEF StagesInv, Forwards
<1>7. ClientsHeld'
  BY <1>1 DEF ClientsHeld
<1>8. QED
  BY <1>5, <1>6, <1>7 DEF TasksInv

\* The task of one kind goes to another stage.
LEMMA TaskMoves ==
  ASSUME TasksInv, NEW k \in Kinds, NEW to \in Stages, stage' = [stage EXCEPT ![k] = to],
         stage[k] # "none",
         UNCHANGED <<cmd, main_task>>,
         spec' \in [Forwards -> Nat], \A j \in Kinds : spec'[j] \in DOMAIN Specs[j],
         failed' \subseteq Ports, queue' \in [Forwards -> Seq(Conns)],
         client' \in [Forwards -> Conns \cup {NoClient}], conn' \in [Conns -> Outcomes]
  PROVE  TasksInv'
<1>1. UNCHANGED <<Specs, Kinds, Ports>>
  BY DEF Specs, Kinds, Ports
<1>2. stage' \in [Forwards -> Stages] /\ k \in Forwards
  BY TasksTypes DEF TasksInv, Kinds
<1>3. TasksTypeOK'
  BY <1>1, <1>2 DEF TasksInv, TasksTypeOK, Stages, Outcomes
<1>4. \A j \in Forwards : stage'[j] = IF j = k THEN to ELSE stage[j]
  BY <1>2, TasksTypes DEF TasksInv
<1>5. main_task # "proxies" /\ (main_task \in {"remote", "local"} => k # "L")
  BY <1>2 DEF TasksInv, StagesInv
<1>6. "L" \in Forwards
  BY DEF Forwards
<1>7. StagesInv'
  BY <1>1, <1>4, <1>5, <1>6 DEF TasksInv, StagesInv
<1>8. QED
  BY <1>3, <1>7 DEF TasksInv

LEMMA NextSpecStep ==
  ASSUME TasksTypeOK, NEW k \in Kinds, NextSpec(k)
  PROVE  /\ \E to \in {"connect", "parked"} : stage' = [stage EXCEPT ![k] = to]
         /\ spec' \in [Forwards -> Nat] /\ \A j \in Kinds : spec'[j] \in DOMAIN Specs[j]
<1>1. /\ spec \in [Forwards -> Nat] /\ \A j \in Kinds : spec[j] \in DOMAIN Specs[j]
      /\ DOMAIN Specs[k] = 1 .. Len(Specs[k]) /\ Len(Specs[k]) \in Nat /\ k \in Forwards
      /\ Kinds \subseteq Forwards
  BY TasksTypes DEF Kinds
<1>2. CASE spec[k] < Len(Specs[k])
  <2>1. spec' = [spec EXCEPT ![k] = @ + 1] /\ stage' = [stage EXCEPT ![k] = "connect"]
    BY <1>2 DEF NextSpec
  <2>2. spec[k] \in Nat /\ spec[k] + 1 \in 1 .. Len(Specs[k])
    BY <1>1, <1>2
  <2>3. spec' \in [Forwards -> Nat] /\ spec'[k] = spec[k] + 1
        /\ \A j \in Forwards \ {k} : spec'[j] = spec[j]
    BY <1>1, <2>1, <2>2
  <2>4. ASSUME NEW j \in Kinds
        PROVE  spec'[j] \in DOMAIN Specs[j]
    BY <1>1, <2>2, <2>3
  <2>5. QED
    BY <2>1, <2>3, <2>4
<1>3. CASE ~(spec[k] < Len(Specs[k]))
  BY <1>1, <1>3 DEF NextSpec
<1>4. QED
  BY <1>2, <1>3

\* A step of the task of kind k that is not at a listener.
LEMMA BeforeListening ==
  ASSUME TasksInv, ClientsHeld, NEW k \in Forwards, ConnectSsh(k) \/ BindListener(k)
  PROVE  TasksInv' /\ ClientsHeld'
<1>1. TasksTypeOK /\ k \in Kinds /\ stage[k] \in {"connect", "bind"}
  BY DEF TasksInv, StagesInv, ConnectSsh, BindListener
<1>2. UNCHANGED <<cmd, main_task, queue, client, conn>>
  BY DEF ConnectSsh, BindListener
<1>3. /\ \E to \in Stages : stage' = [stage EXCEPT ![k] = to]
      /\ spec' \in [Forwards -> Nat] /\ \A j \in Kinds : spec'[j] \in DOMAIN Specs[j]
  <2>1. \/ NextSpec(k)
        \/ UNCHANGED spec /\ \E to \in {"bind", "accept"} : stage' = [stage EXCEPT ![k] = to]
    BY DEF ConnectSsh, BindListener
  <2>2. CASE NextSpec(k)
    BY <1>1, <2>2, NextSpecStep DEF Stages
  <2>3. CASE UNCHANGED spec /\ \E to \in {"bind", "accept"} : stage' = [stage EXCEPT ![k] = to]
    BY <1>1, <2>3, TasksTypes DEF Stages
  <2>4. QED
    BY <2>1, <2>2, <2>3
<1>4. failed' \subseteq Ports
  BY <1>1, TasksTypes DEF ConnectSsh, BindListener
<1>5. PICK to \in Stages : stage' = [stage EXCEPT ![k] = to]
  BY <1>3
<1>6. TasksInv'
  BY <1>1, <1>2, <1>3, <1>4, <1>5, TaskMoves, TasksTypes
<1>7. \A j \in Forwards : j # k => stage'[j] = stage[j]
  BY <1>1, <1>5, TasksTypes
<1>8. \A j \in Forwards : Listens(j) => Listens(j)'
  BY <1>1, <1>7 DEF Listens
<1>9. ClientsHeld'
  BY <1>1, <1>2, <1>7, <1>8 DEF ClientsHeld, InQueue
<1>10. QED
  BY <1>6, <1>9

LEMMA AcceptConnStep ==
  ASSUME TasksInv, ClientsHeld, NEW k \in Forwards, AcceptConn(k)
  PROVE  TasksInv' /\ ClientsHeld'
<1> DEFINE head == Head(queue[k])
<1>1. TasksTypeOK /\ k \in Kinds /\ stage[k] = "accept"
  BY DEF TasksInv, StagesInv, AcceptConn
<1>2. UNCHANGED <<cmd, main_task, spec, failed>>
      /\ client' = [client EXCEPT ![k] = head] /\ queue' = [queue EXCEPT ![k] = Tail(@)]
      /\ conn' = [conn EXCEPT ![head] = IF @ = "queued" THEN "served" ELSE @]
      /\ stage' = [stage EXCEPT ![k] = "serve"] /\ queue[k] # << >>
  BY DEF AcceptConn
<1>3. /\ stage \in [Forwards -> Stages] /\ queue \in [Forwards -> Seq(Conns)]
      /\ client \in [Forwards -> Conns \cup {NoClient}] /\ conn \in [Conns -> Outcomes]
  BY <1>1, TasksTypes
<1>4. /\ queue[k] \in Seq(Conns) /\ head \in Conns /\ Tail(queue[k]) \in Seq(Conns)
      /\ Len(queue[k]) \in Nat \ {0} /\ Len(Tail(queue[k])) = Len(queue[k]) - 1
      /\ \A i \in 1 .. Len(queue[k]) - 1 : Tail(queue[k])[i] = queue[k][i + 1]
      /\ head = queue[k][1]
  <2>1. queue[k] \in Seq(Conns)
    BY <1>3
  <2>2. QED
    BY <1>2, <2>1
<1> HIDE DEF head
<1>5. queue' \in [Forwards -> Seq(Conns)] /\ client' \in [Forwards -> Conns \cup {NoClient}]
      /\ queue'[k] = Tail(queue[k]) /\ client'[k] = head
      /\ \A j \in Forwards \ {k} : queue'[j] = queue[j] /\ client'[j] = client[j]
  BY <1>2, <1>3, <1>4
<1>6. /\ conn' \in [Conns -> Outcomes]
      /\ \A c \in Conns : c # head => conn'[c] = conn[c]
      /\ (conn'[head] = IF conn[head] = "queued" THEN "served" ELSE conn[head])
  BY <1>2, <1>3, <1>4 DEF Outcomes
<1>7. TasksInv'
  BY <1>1, <1>2, <1>5, <1>6, TaskMoves, TasksTypes DEF Stages
<1>8. stage'[k] = "serve" /\ \A j \in Forwards : j # k => stage'[j] = stage[j]
  BY <1>2, <1>3
<1>9. ASSUME NEW c \in Conns, conn'[c] = "queued"
      PROVE  \E j \in Forwards : Listens(j)' /\ InQueue(c, j)'
  <2>1. c # head /\ conn[c] = "queued"
    BY <1>6, <1>9
  <2>2. PICK j \in Forwards : Listens(j) /\ InQueue(c, j)
    BY <2>1 DEF ClientsHeld
  <2>3. Listens(j)'
    BY <1>8, <2>2 DEF Listens
  <2>4. CASE j = k
    <3>1. PICK i \in DOMAIN queue[k] : queue[k][i] = c
      BY <2>2, <2>4 DEF InQueue
    <3>2. i \in 1 .. Len(queue[k]) /\ i # 1
      BY <1>4, <2>1, <3>1
    <3>3. i - 1 \in 1 .. Len(queue[k]) - 1 /\ i - 1 + 1 = i
      BY <1>4, <3>2
    <3>4. i - 1 \in DOMAIN Tail(queue[k])
      BY <1>4, <3>3
    <3>5. Tail(queue[k])[i - 1] = c
      BY <1>4, <3>1, <3>3
    <3>6. InQueue(c, k)'
      BY <1>5, <3>4, <3>5 DEF InQueue
    <3>7. QED
      BY <2>3, <2>4, <3>6
  <2>5. CASE j # k
    <3>1. InQueue(c, j)'
      BY <1>5, <2>2, <2>5 DEF InQueue
    <3>2. QED
      BY <2>3, <3>1
  <2>6. QED
    BY <2>4, <2>5
<1>10. ASSUME NEW c \in Conns, conn'[c] = "served"
       PROVE  \E j \in Forwards : stage'[j] = "serve" /\ client'[j] = c
  <2>1. CASE c = head /\ conn[c] = "queued"
    BY <1>5, <1>8, <2>1
  <2>2. CASE ~(c = head /\ conn[c] = "queued")
    <3>1. conn[c] = "served"
      BY <1>6, <1>10, <2>2
    <3>2. PICK j \in Forwards : stage[j] = "serve" /\ client[j] = c
      BY <3>1 DEF ClientsHeld
    <3>3. j # k
      BY <1>1, <3>2
    <3>4. QED
      BY <1>5, <1>8, <3>2, <3>3
  <2>3. QED
    BY <2>1, <2>2
<1>11. QED
  BY <1>7, <1>9, <1>10 DEF ClientsHeld

LEMMA AcceptFailsStep ==
  ASSUME TasksInv, ClientsHeld, NEW k \in Forwards, AcceptFails(k)
  PROVE  TasksInv' /\ ClientsHeld'
<1>1. TasksTypeOK /\ k \in Kinds /\ stage[k] = "accept" /\ NextSpec(k)
  BY DEF TasksInv, StagesInv, AcceptFails
<1>2. /\ UNCHANGED <<cmd, main_task, failed, client>>
      /\ queue' = [queue EXCEPT ![k] = << >>]
      /\ conn' = [c \in Conns |-> IF conn[c] = "queued" /\ InQueue(c, k) THEN "closed" ELSE conn[c]]
  BY DEF AcceptFails, CutQueue, InQueue
<1>3. /\ stage \in [Forwards -> Stages] /\ queue \in [Forwards -> Seq(Conns)]
      /\ conn \in [Conns -> Outcomes]
  BY <1>1, TasksTypes
<1>4. PICK to \in {"connect", "parked"} : stage' = [stage EXCEPT ![k] = to]
  BY <1>1, NextSpecStep
<1>5. queue' \in [Forwards -> Seq(Conns)] /\ \A j \in Forwards \ {k} : queue'[j] = queue[j]
  BY <1>2, <1>3
<1>6. conn' \in [Conns -> Outcomes]
  BY <1>2, <1>3 DEF Outcomes
<1>7. TasksInv'
  BY <1>1, <1>2, <1>4, <1>5, <1>6, TaskMoves, NextSpecStep, TasksTypes DEF Stages
<1>8. \A j \in Forwards : j # k => stage'[j] = stage[j]
  BY <1>3, <1>4
<1>9. ASSUME NEW c \in Conns, conn'[c] = "queued"
      PROVE  \E j \in Forwards : Listens(j)' /\ InQueue(c, j)'
  <2>1. conn[c] = "queued" /\ ~InQueue(c, k)
    BY <1>2, <1>9
  <2>2. PICK j \in Forwards : Listens(j) /\ InQueue(c, j)
    BY <2>1 DEF ClientsHeld
  <2>3. j # k
    BY <2>1, <2>2
  <2>4. QED
    BY <1>5, <1>8, <2>2, <2>3 DEF Listens, InQueue
<1>10. ASSUME NEW c \in Conns, conn'[c] = "served"
       PROVE  \E j \in Forwards : stage'[j] = "serve" /\ client'[j] = c
  <2>1. conn[c] = "served"
    BY <1>2, <1>10
  <2>2. PICK j \in Forwards : stage[j] = "serve" /\ client[j] = c
    BY <2>1 DEF ClientsHeld
  <2>3. j # k
    BY <1>1, <2>2
  <2>4. QED
    BY <1>2, <1>8, <2>2, <2>3
<1>11. QED
  BY <1>7, <1>9, <1>10 DEF ClientsHeld

LEMMA ServeEndsStep ==
  ASSUME TasksInv, ClientsHeld, NEW k \in Forwards, ServeEnds(k)
  PROVE  TasksInv' /\ ClientsHeld'
<1>1. TasksTypeOK /\ k \in Kinds /\ stage[k] = "serve"
  BY DEF TasksInv, StagesInv, ServeEnds
<1>2. /\ UNCHANGED <<cmd, main_task, spec, failed, queue>>
      /\ stage' = [stage EXCEPT ![k] = "accept"] /\ client' = [client EXCEPT ![k] = NoClient]
      /\ conn' = [c \in Conns |-> IF c = client[k] /\ conn[c] = "served" THEN "closed" ELSE conn[c]]
  BY DEF ServeEnds, Released
<1>3. /\ stage \in [Forwards -> Stages] /\ conn \in [Conns -> Outcomes]
      /\ client \in [Forwards -> Conns \cup {NoClient}]
  BY <1>1, TasksTypes
<1>4. client' \in [Forwards -> Conns \cup {NoClient}] /\ conn' \in [Conns -> Outcomes]
      /\ \A j \in Forwards \ {k} : client'[j] = client[j]
  BY <1>2, <1>3 DEF Outcomes
<1>5. TasksInv'
  BY <1>1, <1>2, <1>4, TaskMoves, TasksTypes DEF Stages
<1>6. stage'[k] = "accept" /\ \A j \in Forwards : j # k => stage'[j] = stage[j]
  BY <1>2, <1>3
<1>7. \A j \in Forwards : Listens(j) => Listens(j)'
  BY <1>6 DEF Listens
<1>8. ASSUME NEW c \in Conns, conn'[c] = "served"
      PROVE  \E j \in Forwards : stage'[j] = "serve" /\ client'[j] = c
  <2>1. conn[c] = "served" /\ c # client[k]
    BY <1>2, <1>8
  <2>2. PICK j \in Forwards : stage[j] = "serve" /\ client[j] = c
    BY <2>1 DEF ClientsHeld
  <2>3. QED
    BY <1>4, <1>6, <2>1, <2>2
<1>9. \A c \in Conns : conn'[c] = "queued" => conn[c] = "queued"
  BY <1>2
<1>10. \A c, j : InQueue(c, j)' <=> InQueue(c, j)
  BY <1>2 DEF InQueue
<1>11. QED
  BY <1>5, <1>7, <1>8, <1>9, <1>10 DEF ClientsHeld

\* A client that connects, is refused or gives up.
LEMMA ClientStep ==
  ASSUME TasksInv, ClientsHeld, NEW c \in Conns, Leave(c) \/ \E p \in Ports : Connect(c, p)
  PROVE  TasksInv' /\ ClientsHeld'
<1>1. TasksTypeOK /\ StagesInv
  BY DEF TasksInv
<1>2. /\ UNCHANGED <<cmd, main_task, stage, spec, failed, client>>
      /\ \E to \in Outcomes \ {"served"} : conn' = [conn EXCEPT ![c] = to]
  BY DEF Leave, Connect, Outcomes
<1>3. PICK to \in Outcomes \ {"served"} : conn' = [conn EXCEPT ![c] = to]
  BY <1>2
<1>4. queue \in [Forwards -> Seq(Conns)] /\ conn \in [Conns -> Outcomes]
  BY <1>1, TasksTypes
<1>5. conn' \in [Conns -> Outcomes] /\ conn'[c] = to /\ \A d \in Conns \ {c} : conn'[d] = conn[d]
  BY <1>3, <1>4
<1>6. \/ UNCHANGED queue /\ to # "queued"
      \/ \E k \in Forwards : Listens(k) /\ queue' = [queue EXCEPT ![k] = Append(@, c)]
  <2>1. CASE Leave(c)
    <3>1. conn' = [conn EXCEPT ![c] = "left"] /\ UNCHANGED queue
      BY <2>1 DEF Leave
    <3>2. conn'[c] = "left"
      BY <1>4, <3>1
    <3>3. QED
      BY <1>5, <3>1, <3>2
  <2>2. ASSUME NEW p \in Ports, Connect(c, p)
        PROVE  \/ UNCHANGED queue /\ to # "queued"
               \/ \E k \in Forwards : Listens(k) /\ queue' = [queue EXCEPT ![k] = Append(@, c)]
    <3>1. CASE conn' = [conn EXCEPT ![c] = "refused"] /\ UNCHANGED queue
      <4>1. conn'[c] = "refused"
        BY <1>4, <3>1
      <4>2. QED
        BY <1>5, <3>1, <4>1
    <3>2. QED
      BY <2>2, <3>1 DEF Connect
  <2>3. QED
    BY <2>1, <2>2
<1>7. /\ queue' \in [Forwards -> Seq(Conns)]
      /\ \A d \in Conns, j \in Forwards : InQueue(d, j) => InQueue(d, j)'
      /\ to = "queued" => \E j \in Forwards : Listens(j) /\ InQueue(c, j)'
  <2>1. CASE UNCHANGED queue /\ to # "queued"
    BY <1>4, <2>1 DEF InQueue
  <2>2. ASSUME NEW k \in Forwards, Listens(k), queue' = [queue EXCEPT ![k] = Append(@, c)]
        PROVE  /\ queue' \in [Forwards -> Seq(Conns)]
               /\ \A d \in Conns, j \in Forwards : InQueue(d, j) => InQueue(d, j)'
               /\ InQueue(c, k)'
    <3>1. queue[k] \in Seq(Conns) /\ Len(queue[k]) \in Nat /\ DOMAIN queue[k] = 1 .. Len(queue[k])
      BY <1>4
    <3>2. /\ Append(queue[k], c) \in Seq(Conns)
          /\ DOMAIN Append(queue[k], c) = 1 .. Len(queue[k]) + 1
          /\ Append(queue[k], c)[Len(queue[k]) + 1] = c
          /\ \A i \in 1 .. Len(queue[k]) : Append(queue[k], c)[i] = queue[k][i]
      BY <3>1
    <3>3. /\ queue' \in [Forwards -> Seq(Conns)] /\ queue'[k] = Append(queue[k], c)
          /\ \A j \in Forwards \ {k} : queue'[j] = queue[j]
      BY <1>4, <2>2, <3>2
    <3>4. InQueue(c, k)'
      <4>1. Len(queue[k]) + 1 \in 1 .. Len(queue[k]) + 1
        BY <3>1
      <4>2. QED
        BY <3>2, <3>3, <4>1 DEF InQueue
    <3>5. ASSUME NEW d \in Conns, NEW j \in Forwards, InQueue(d, j)
          PROVE  InQueue(d, j)'
      <4>1. CASE j = k
        <5>1. PICK i \in 1 .. Len(queue[k]) : queue[k][i] = d
          BY <3>1, <3>5, <4>1 DEF InQueue
        <5>2. i \in 1 .. Len(queue[k]) + 1 /\ Append(queue[k], c)[i] = d
          BY <3>1, <3>2, <5>1
        <5>3. QED
          BY <3>2, <3>3, <4>1, <5>2 DEF InQueue
      <4>2. CASE j # k
        BY <3>3, <3>5, <4>2 DEF InQueue
      <4>3. QED
        BY <4>1, <4>2
    <3>6. QED
      BY <3>3, <3>4, <3>5
  <2>3. QED
    BY <1>6, <2>1, <2>2
<1>8. TasksInv'
  <2>1. UNCHANGED <<Specs, Kinds, Ports>>
    BY <1>2 DEF Specs, Kinds, Ports
  <2>2. TasksTypeOK'
    BY <1>1, <1>2, <1>5, <1>7, <2>1 DEF TasksTypeOK, Outcomes
  <2>3. StagesInv'
    BY <1>1, <1>2, <2>1 DEF StagesInv
  <2>4. QED
    BY <2>2, <2>3 DEF TasksInv
<1>9. \A j \in Forwards : Listens(j)' <=> Listens(j)
  BY <1>2 DEF Listens
<1>10. QED
  BY <1>2, <1>5, <1>7, <1>8, <1>9 DEF ClientsHeld

\* The main task starts others, or goes on.
LEMMA MainStep ==
  ASSUME TasksInv, ClientsHeld, SpawnProxies \/ RequestRemote \/ SpawnLocal
  PROVE  TasksInv' /\ ClientsHeld'
<1>1. TasksTypeOK /\ StagesInv /\ stage \in [Forwards -> Stages]
  BY TasksTypes DEF TasksInv
<1>2. CASE Exit
  BY <1>2, ExitStep
<1>3. CASE ~Exit
  <2>1. UNCHANGED <<cmd, spec, failed, queue, client, conn>>
    BY <1>3 DEF SpawnProxies, RequestRemote, SpawnLocal
  <2>2. UNCHANGED <<Specs, Kinds, Ports>>
    BY <2>1 DEF Specs, Kinds, Ports
  <2>3. main_task' \in {"remote", "local", "session", "waiting"}
    BY <1>3 DEF SpawnProxies, RequestRemote, SpawnLocal
  <2>4. ASSUME NEW k \in Forwards
        PROVE  /\ stage'[k] \in Stages
               /\ stage'[k] = stage[k] \/ (stage[k] = "none" /\ stage'[k] = "connect" /\ k \in Kinds)
               /\ k = "L" /\ main_task' \in {"remote", "local"} => stage'[k] = "none"
    <3>1. CASE SpawnProxies
      <4>1. stage'[k] = (IF k \in Proxies THEN "connect" ELSE stage[k]) /\ stage[k] = "none"
        BY <1>1, <3>1 DEF SpawnProxies, Spawn, StagesInv
      <4>2. QED
        BY <4>1 DEF Proxies, Stages
    <3>2. CASE RequestRemote
      <4>1. stage'[k] = stage[k] /\ main_task = "remote"
        BY <1>3, <3>2 DEF RequestRemote
      <4>2. QED
        BY <1>1, <4>1 DEF StagesInv
    <3>3. CASE SpawnLocal
      <4>1. stage'[k] = (IF k \in Kinds \cap {"L"} THEN "connect" ELSE stage[k])
            /\ stage["L"] = "none" /\ main_task' \in {"session", "waiting"}
        BY <1>1, <1>3, <3>3 DEF SpawnLocal, Spawn, StagesInv
      <4>2. QED
        BY <1>1, <4>1 DEF Stages
    <3>4. QED
      BY <3>1, <3>2, <3>3
  <2>5. stage' \in [Forwards -> Stages]
    <3>1. UNCHANGED stage \/ \E ks : Spawn(ks)
      BY <1>3 DEF SpawnProxies, RequestRemote, SpawnLocal
    <3>2. QED
      BY <1>1, <3>1 DEF Spawn, Stages
  <2>6. TasksTypeOK'
    BY <1>1, <2>1, <2>2, <2>3, <2>5 DEF TasksTypeOK, Stages
  <2>7. StagesInv'
    BY <1>1, <2>2, <2>3, <2>4 DEF StagesInv, Forwards
  <2>8. ClientsHeld'
    <3>1. \A j \in Forwards : /\ Listens(j) => Listens(j)'
                              /\ stage[j] = "serve" => stage'[j] = "serve"
      BY <2>4 DEF Listens
    <3>2. \A c, j : InQueue(c, j)' <=> InQueue(c, j)
      BY <2>1 DEF InQueue
    <3>3. QED
      BY <2>1, <3>1, <3>2 DEF ClientsHeld
  <2>9. QED
    BY <2>6, <2>7, <2>8 DEF TasksInv
<1>4. QED
  BY <1>2, <1>3

LEMMA TasksStutter ==
  ASSUME TasksInv, ClientsHeld, UNCHANGED tasksVars
  PROVE  TasksInv' /\ ClientsHeld'
<1>1. UNCHANGED <<cmd, main_task, stage, spec, failed, queue, client, conn>>
  BY DEF tasksVars
<1>2. UNCHANGED <<Specs, Kinds, Ports>>
  BY <1>1 DEF Specs, Kinds, Ports
<1>3. QED
  BY <1>1, <1>2 DEF TasksInv, TasksTypeOK, StagesInv, ClientsHeld, InQueue, Listens

LEMMA TasksInvariant == TasksSpec => [](TasksInv /\ ClientsHeld)
<1>1. TasksInv /\ ClientsHeld /\ [TasksNext]_tasksVars => (TasksInv /\ ClientsHeld)'
  <2> SUFFICES ASSUME TasksInv, ClientsHeld, [TasksNext]_tasksVars
               PROVE  (TasksInv /\ ClientsHeld)'
    OBVIOUS
  <2>1. CASE SpawnProxies \/ RequestRemote \/ SpawnLocal
    BY <2>1, MainStep
  <2>2. CASE SessionEnds
    BY <2>2, ExitStep DEF SessionEnds
  <2>3. ASSUME NEW k \in Forwards, TaskStep(k) \/ AcceptFails(k)
        PROVE  (TasksInv /\ ClientsHeld)'
    BY <2>3, BeforeListening, AcceptConnStep, ServeEndsStep, AcceptFailsStep DEF TaskStep
  <2>4. ASSUME NEW c \in Conns, Leave(c) \/ \E p \in Ports : Connect(c, p)
        PROVE  (TasksInv /\ ClientsHeld)'
    BY <2>4, ClientStep
  <2>5. CASE UNCHANGED tasksVars
    BY <2>5, TasksStutter
  <2>6. QED
    BY <2>1, <2>2, <2>3, <2>4, <2>5 DEF TasksNext
<1>2. QED
  BY <1>1, TasksStart, PTL DEF TasksSpec

\* For any command lines, busy ports and clients: a client whose connection got
\* through is in the queue of a listener or the one its loop is busy with, whatever
\* failed meanwhile (the accept loops of forward.rs and proxy.rs).
THEOREM ClientsAttended == TasksSpec => []ClientsHeld
BY TasksInvariant, PTL

\* For any command lines, busy ports and clients: the end of a connection, of whatever
\* kind, leaves its listener at the same spec, ready for the next client.
THEOREM ListenersSurvive == TasksSpec => ListenerSurvives
<1> DEFINE Survives == \A k \in Forwards :
             stage[k] = "serve" /\ main_task' # "exited" => Listens(k)' /\ spec'[k] = spec[k]
<1>1. TasksInv /\ [TasksNext]_tasksVars => [Survives]_tasksVars
  <2> SUFFICES ASSUME TasksInv, TasksNext, NEW k \in Forwards, stage[k] = "serve",
                      main_task' # "exited"
               PROVE  Listens(k)' /\ spec'[k] = spec[k]
    OBVIOUS
  <2>1. stage \in [Forwards -> Stages] /\ spec \in [Forwards -> Nat]
    BY TasksTypes DEF TasksInv
  <2>2. CASE SpawnProxies \/ RequestRemote \/ SpawnLocal \/ SessionEnds
    <3>1. ~Exit
      BY DEF Exit
    <3>2. UNCHANGED spec /\ (UNCHANGED stage \/ \E ks : Spawn(ks) /\ k \notin ks)
      <4>1. CASE SpawnProxies
        BY <4>1 DEF SpawnProxies, TasksInv, StagesInv
      <4>2. CASE RequestRemote
        BY <3>1, <4>2 DEF RequestRemote
      <4>3. CASE SpawnLocal
        <5>1. stage["L"] = "none"
          BY <4>3 DEF SpawnLocal, TasksInv, StagesInv
        <5>2. k \notin Kinds \cap {"L"}
          BY <5>1
        <5>3. QED
          BY <3>1, <4>3, <5>2 DEF SpawnLocal
      <4>4. QED
        BY <2>2, <3>1, <4>1, <4>2, <4>3 DEF SessionEnds
    <3>3. stage'[k] = stage[k]
      BY <3>2 DEF Spawn
    <3>4. QED
      BY <3>2, <3>3 DEF Listens
  <2>3. ASSUME NEW j \in Forwards, TaskStep(j) \/ AcceptFails(j)
        PROVE  Listens(k)' /\ spec'[k] = spec[k]
    <3>1. CASE j = k
      <4>1. ServeEnds(k)
        BY <2>3, <3>1 DEF TaskStep, ConnectSsh, BindListener, AcceptConn, AcceptFails
      <4>2. QED
        BY <2>1, <4>1 DEF ServeEnds, Listens
    <3>2. CASE j # k
      <4>1. stage'[k] = stage[k] /\ spec'[k] = spec[k]
        BY <2>1, <2>3, <3>2
           DEF TaskStep, ConnectSsh, BindListener, AcceptConn, ServeEnds, AcceptFails, NextSpec
      <4>2. QED
        BY <4>1 DEF Listens
    <3>3. QED
      BY <3>1, <3>2
  <2>4. ASSUME NEW c \in Conns, Leave(c) \/ \E p \in Ports : Connect(c, p)
        PROVE  Listens(k)' /\ spec'[k] = spec[k]
    BY <2>4 DEF Leave, Connect, Listens
  <2>5. QED
    BY <2>2, <2>3, <2>4 DEF TasksNext
<1>2. QED
  BY <1>1, TasksInvariant, PTL DEF TasksSpec, ListenerSurvives
==============================================================================
