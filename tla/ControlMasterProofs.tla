-------------------------- MODULE ControlMasterProofs --------------------------
(***************************************************************************)
(* For any number of masters and clients and whatever they come for: the   *)
(* types of the state, that a listening master can be reached when masters *)
(* are started one at a time, and that a file a master leaves behind has   *)
(* one of four causes, also when masters run at once.                      *)
(***************************************************************************)
EXTENDS ControlMaster, TLAPS

\* A task's connection is to a master, so set_should_exit has one to notify; the one
\* in whose queue it is while it waits to be accepted.
Connected ==
  /\ \A c \in Clients : task[c] # "none" => peer[c] \in Masters
  /\ \A m \in Masters : \A i \in 1 .. Len(backlog[m]) :
       task[backlog[m][i]] # "none" /\ peer[backlog[m][i]] = m

TypeInv == TypeOK /\ Connected

\* The path names a master only from its bind to the end of its guard, or for ever
\* once its guard did not run or its removal was refused: before, it had not bound
\* it, and after, it has removed whatever was there.
Owner == {"claimed", "guarded", "bound", "accepting", "closed", "killed", "interrupted",
          "setup failed", "not removed", "left behind"}
PathInv == path # None => master[path] \in Owner

\* Of masters started one at a time one is alive, and nobody but itself takes the
\* path from it.
AloneInv ==
  alone => /\ \A m, n \in Masters : Alive(m) /\ Alive(n) => m = n
           /\ \A m \in Masters : Listening(m) => path = m

-------------------------------------------------------------------------------
LEMMA TypeInvInit == Init => TypeInv
<1> SUFFICES ASSUME Init PROVE TypeInv
  OBVIOUS
<1> USE DEF Init
<1>1. backlog \in [Masters -> Seq(Clients)]
  OBVIOUS
<1>2. /\ master \in [Masters -> MasterStages]
      /\ peer \in [Clients -> Masters \cup {None}]
      /\ task \in [Clients -> TaskStages] /\ answer \in [Clients -> Answers]
  BY DEF MasterStages, TaskStages, Answers
<1>3. QED
  BY <1>1, <1>2 DEF TypeInv, TypeOK, Connected

\* Cutting connections keeps the types of what it changes.
LEMMA CutKeepsTypes ==
  ASSUME TypeInv, NEW cs \in SUBSET Clients, \A c \in cs : task[c] # "none", Cut(cs)
  PROVE  /\ task' \in [Clients -> TaskStages] /\ answer' \in [Clients -> Answers]
         /\ \A c \in Clients : task'[c] = "none" <=> task[c] = "none"
         /\ UNCHANGED <<alone, request, peer>>
<1>1. task' \in [Clients -> TaskStages]
  BY DEF TypeInv, TypeOK, Cut, TaskStages
<1>2. answer' \in [Clients -> Answers]
  BY DEF TypeInv, TypeOK, Cut, Answers
<1>3. \A c \in Clients : task'[c] = "none" <=> task[c] = "none"
  BY DEF TypeInv, Connected, Cut
<1>4. QED
  BY <1>1, <1>2, <1>3 DEF Cut

LEMMA MoveToKeepsType ==
  ASSUME TypeInv, NEW m \in Masters, NEW stage \in MasterStages, MoveTo(m, stage)
  PROVE  master' \in [Masters -> MasterStages]
BY DEF TypeInv, TypeOK, MoveTo

LEMMA ReplyKeepsTypes ==
  ASSUME TypeInv, NEW c \in Clients, NEW a \in Answers, NEW stage \in TaskStages,
         Reply(c, a, stage)
  PROVE  task' \in [Clients -> TaskStages] /\ answer' \in [Clients -> Answers]
BY DEF TypeInv, TypeOK, Reply

LEMMA TypeInvNext == TypeInv /\ [Next]_vars => TypeInv'
<1> SUFFICES ASSUME TypeInv, [Next]_vars PROVE TypeInv'
  OBVIOUS
<1> USE DEF masterVars, clientVars
<1>b. \A m \in Masters : \A i \in 1 .. Len(backlog[m]) : backlog[m][i] \in Clients
  BY DEF TypeInv, TypeOK
<1>1. ASSUME NEW m \in Masters,
             \/ UnlinkStale(m) \/ Bind(m) \/ SetPermissions(m) \/ RegisterSignals(m)
             \/ SpawnedTask(m) \/ DropGuard(m)
      PROVE  TypeInv'
  <2>1. master' \in [Masters -> MasterStages]
    <3> USE MoveToKeepsType DEF MasterStages
    <3>1. CASE UnlinkStale(m)
      BY <3>1 DEF UnlinkStale
    <3>2. CASE Bind(m)
      BY <3>2 DEF Bind
    <3>3. CASE SpawnedTask(m)
      BY <3>3 DEF SpawnedTask
    <3>4. CASE DropGuard(m)
      BY <3>4 DEF DropGuard
    <3>5. CASE SetPermissions(m)
      BY <3>5 DEF SetPermissions
    <3>6. CASE RegisterSignals(m)
      BY <3>6 DEF RegisterSignals
    <3>7. QED
      BY <1>1, <3>1, <3>2, <3>3, <3>4, <3>5, <3>6
  <2>2. path' \in Masters \cup {None} /\ UNCHANGED <<alone, notified, signalled, backlog, clientVars>>
    BY <1>1 DEF UnlinkStale, Bind, SetPermissions, RegisterSignals, SpawnedTask, DropGuard,
                TypeInv, TypeOK
  <2>3. QED
    BY <2>1, <2>2 DEF TypeInv, TypeOK, Connected
<1>2. ASSUME NEW m \in Masters, Accept(m)
      PROVE  TypeInv'
  <2> DEFINE h == Head(backlog[m])
  <2>1. master' \in [Masters -> MasterStages]
    BY <1>2, MoveToKeepsType DEF Accept, MasterStages
  <2>2. backlog[m] \in Seq(Clients) /\ backlog[m] # << >>
    BY <1>2 DEF Accept, TypeInv, TypeOK
  <2>3. /\ h \in Clients /\ peer[h] = m
        /\ Tail(backlog[m]) \in Seq(Clients)
        /\ Len(Tail(backlog[m])) = Len(backlog[m]) - 1
        /\ \A i \in 1 .. Len(Tail(backlog[m])) :
             Tail(backlog[m])[i] = backlog[m][i + 1] /\ i + 1 \in 1 .. Len(backlog[m])
    BY <2>2 DEF TypeInv, Connected
  <2>4. backlog' = [backlog EXCEPT ![m] = Tail(backlog[m])] /\ backlog' \in [Masters -> Seq(Clients)]
    BY <1>2, <2>3 DEF Accept, TypeInv, TypeOK
  <2>5. task' = [task EXCEPT ![h] = "accepted"] /\ task' \in [Clients -> TaskStages]
    BY <1>2 DEF Accept, TypeInv, TypeOK, TaskStages
  <2>6. UNCHANGED <<alone, path, notified, signalled, request, peer, answer>>
    BY <1>2 DEF Accept
  <2>7. \A n \in Masters : \A i \in 1 .. Len(backlog'[n]) :
          /\ backlog'[n][i] \in Clients
          /\ task[backlog'[n][i]] # "none" /\ peer[backlog'[n][i]] = n
    BY <1>b, <2>3, <2>4 DEF TypeInv, TypeOK, Connected
  <2>8. Connected'
    BY <2>3, <2>4, <2>5, <2>6, <2>7 DEF TypeInv, TypeOK, Connected
  <2>9. QED
    BY <2>1, <2>4, <2>5, <2>6, <2>8 DEF TypeInv, TypeOK
<1>3. ASSUME NEW m \in Masters, LeaveLoop(m) \/ Exit(m) \/ \E stage \in MasterStages : Die(m, stage)
      PROVE  TypeInv'
  <2>1. \A stages : "none" \notin stages =>
          /\ Unanswered(m, stages) \in SUBSET Clients
          /\ \A c \in Unanswered(m, stages) : task[c] # "none"
    BY DEF Unanswered
  <2>2. PICK cs \in SUBSET Clients : Cut(cs) /\ \A c \in cs : task[c] # "none"
    <3>1. CASE LeaveLoop(m)
      BY <2>1, <3>1 DEF LeaveLoop
    <3>2. CASE Exit(m)
      BY <2>1, <3>2 DEF Exit
    <3>3. CASE \E stage \in MasterStages : Die(m, stage)
      BY <2>1, <3>3 DEF Die
    <3>4. QED
      BY <1>3, <3>1, <3>2, <3>3
  <2>3. master' \in [Masters -> MasterStages]
    BY <1>3, MoveToKeepsType DEF LeaveLoop, Exit, Die, MasterStages
  <2>4. /\ backlog' \in {backlog, [backlog EXCEPT ![m] = << >>]}
        /\ UNCHANGED <<path, notified, signalled>>
    BY <1>3 DEF LeaveLoop, Exit, Die
  <2>5. backlog' \in [Masters -> Seq(Clients)]
    <3>1. << >> \in Seq(Clients)
      OBVIOUS
    <3>2. QED
      BY <2>4, <3>1 DEF TypeInv, TypeOK
  <2>6. /\ task' \in [Clients -> TaskStages] /\ answer' \in [Clients -> Answers]
        /\ \A c \in Clients : task'[c] = "none" <=> task[c] = "none"
        /\ UNCHANGED <<alone, request, peer>>
    BY <2>2, CutKeepsTypes
  <2>7. \A n \in Masters : \A i \in 1 .. Len(backlog'[n]) :
          i \in 1 .. Len(backlog[n]) /\ backlog'[n][i] = backlog[n][i]
    <3>1. CASE backlog' = backlog
      BY <3>1
    <3>2. CASE backlog' = [backlog EXCEPT ![m] = << >>]
      <4>1. backlog'[m] = << >> /\ \A n \in Masters \ {m} : backlog'[n] = backlog[n]
        BY <3>2 DEF TypeInv, TypeOK
      <4>2. Len(backlog'[m]) = 0
        BY <4>1
      <4>3. QED
        BY <4>1, <4>2
    <3>3. QED
      BY <2>4, <3>1, <3>2
  <2>8. Connected'
    BY <1>b, <2>6, <2>7, SMTT(30) DEF TypeInv, Connected
  <2>9. QED
    BY <2>3, <2>4, <2>5, <2>6, <2>8 DEF TypeInv, TypeOK
<1>4. ASSUME NEW m \in Masters, Signal(m)
      PROVE  TypeInv'
  BY <1>4 DEF Signal, TypeInv, TypeOK, Connected
<1>5. ASSUME NEW c \in Clients, Connect(c)
      PROVE  TypeInv'
  <2>1. CASE path # None /\ Listening(path)
    <3>1. path \in Masters /\ Append(backlog[path], c) \in Seq(Clients)
      BY <2>1 DEF TypeInv, TypeOK
    <3>2. backlog' \in [Masters -> Seq(Clients)]
      BY <1>5, <2>1, <3>1 DEF Connect, TypeInv, TypeOK
    <3>3. task' \in [Clients -> TaskStages]
      BY <1>5, <2>1 DEF Connect, TypeInv, TypeOK, TaskStages
    <3>4. Connected'
      <4>1. \A n \in Masters : \A i \in 1 .. Len(backlog[n]) : backlog[n][i] # c
        <5>1. task[c] = "none"
          BY <1>5 DEF Connect
        <5>2. QED
          BY <5>1 DEF TypeInv, Connected
      <4>2. /\ Len(Append(backlog[path], c)) = Len(backlog[path]) + 1
            /\ \A i \in 1 .. Len(backlog[path]) : Append(backlog[path], c)[i] = backlog[path][i]
            /\ Append(backlog[path], c)[Len(backlog[path]) + 1] = c
        BY <3>1 DEF TypeInv, TypeOK
      <4>3. /\ backlog' = [backlog EXCEPT ![path] = Append(backlog[path], c)]
            /\ task' = [task EXCEPT ![c] = "queued"] /\ peer' = [peer EXCEPT ![c] = path]
        BY <1>5, <2>1 DEF Connect
      <4>4. ASSUME NEW n \in Masters, NEW i \in 1 .. Len(backlog'[n])
            PROVE  task'[backlog'[n][i]] # "none" /\ peer'[backlog'[n][i]] = n
        <5>1. CASE n = path /\ i = Len(backlog[path]) + 1
          BY <3>1, <4>2, <4>3, <5>1 DEF TypeInv, TypeOK
        <5>2. CASE ~ (n = path /\ i = Len(backlog[path]) + 1)
          <6>1. i \in 1 .. Len(backlog[n]) /\ backlog'[n][i] = backlog[n][i]
            BY <3>1, <4>2, <4>3, <5>2 DEF TypeInv, TypeOK
          <6>2. QED
            BY <1>b, <4>1, <4>3, <6>1 DEF TypeInv, TypeOK, Connected
        <5>3. QED
          BY <5>1, <5>2
      <4>5. QED
        BY <3>1, <4>3, <4>4 DEF TypeInv, TypeOK, Connected
    <3>5. QED
      BY <1>5, <2>1, <3>1, <3>2, <3>3, <3>4 DEF Connect, TypeInv, TypeOK
  <2>2. CASE ~ (path # None /\ Listening(path))
    <3>1. answer' \in [Clients -> Answers]
      BY <1>5, <2>2 DEF Connect, TypeInv, TypeOK, Answers
    <3>2. UNCHANGED <<masterVars, backlog, request, peer, task>>
      BY <1>5, <2>2 DEF Connect
    <3>3. QED
      BY <3>1, <3>2 DEF TypeInv, TypeOK, Connected
  <2>3. QED
    BY <2>1, <2>2
<1>6. ASSUME NEW c \in Clients, Hangup(c)
      PROVE  TypeInv'
  <2>1. answer' \in [Clients -> Answers]
    BY <1>6 DEF Hangup, TypeInv, TypeOK, Answers
  <2>2. QED
    BY <1>6, <2>1 DEF Hangup, TypeInv, TypeOK, Connected
<1>7. ASSUME NEW c \in Clients, HandleCheck(c) \/ HandleExit(c) \/ OpenSession(c) \/ CommandEnds(c)
      PROVE  TypeInv'
  <2>1. task' \in [Clients -> TaskStages] /\ answer' \in [Clients -> Answers]
    <3> USE ReplyKeepsTypes DEF TaskStages, Answers
    <3>1. CASE HandleCheck(c)
      BY <3>1 DEF HandleCheck
    <3>2. CASE HandleExit(c)
      BY <3>2 DEF HandleExit
    <3>3. CASE OpenSession(c)
      BY <3>3 DEF OpenSession, TypeInv, TypeOK
    <3>4. CASE CommandEnds(c)
      BY <3>4 DEF CommandEnds
    <3>5. QED
      BY <1>7, <3>1, <3>2, <3>3, <3>4
  <2>2. UNCHANGED <<masterVars, backlog, request, peer>> /\ task[c] # "none"
    BY <1>7 DEF HandleCheck, HandleExit, OpenSession, CommandEnds
  <2>3. \A d \in Clients \ {c} : task'[d] = task[d]
    BY <1>7 DEF HandleCheck, HandleExit, OpenSession, CommandEnds, Reply, TypeInv, TypeOK
  <2>4. task'[c] # "none"
    BY <1>7 DEF HandleCheck, HandleExit, OpenSession, CommandEnds, Reply, TypeInv, TypeOK
  <2>5. QED
    BY <1>b, <2>1, <2>2, <2>3, <2>4 DEF TypeInv, TypeOK, Connected
<1>8. ASSUME NEW c \in Clients, SetShouldExit(c)
      PROVE  TypeInv'
  <2>1. peer[c] \in Masters
    BY <1>8 DEF SetShouldExit, TypeInv, Connected
  <2>2. task' \in [Clients -> TaskStages]
    BY <1>8 DEF SetShouldExit, TypeInv, TypeOK, TaskStages
  <2>3. UNCHANGED <<alone, path, master, signalled, backlog, request, peer, answer>>
    BY <1>8 DEF SetShouldExit
  <2>4. notified' \in SUBSET Masters
    BY <1>8, <2>1 DEF SetShouldExit, TypeInv, TypeOK
  <2>5. \A d \in Clients : task'[d] = "none" <=> task[d] = "none"
    BY <1>8 DEF SetShouldExit, TypeInv, TypeOK
  <2>6. Connected'
    BY <1>b, <2>3, <2>5 DEF TypeInv, Connected
  <2>7. QED
    BY <2>2, <2>3, <2>4, <2>6 DEF TypeInv, TypeOK
<1>9. CASE UNCHANGED vars
  BY <1>9 DEF vars, TypeInv, TypeOK, Connected
<1>10. ASSUME NEW m \in Masters, SetupFails(m) \/ Interrupt(m) \/ Kill9(m)
       PROVE  \E stage \in MasterStages : Die(m, stage)
  BY <1>10 DEF SetupFails, Interrupt, Kill9, MasterStages
<1>11. QED
  BY <1>1, <1>2, <1>3, <1>4, <1>5, <1>6, <1>7, <1>8, <1>9, <1>10
     DEF Next, Startup, AcceptLoop, Task

\* Every variable has its type: the queues hold clients, the notified are masters.
THEOREM TypeCorrect == Spec => []TypeOK
<1>1. TypeInv => TypeOK
  BY DEF TypeInv
<1>2. QED
  BY TypeInvInit, TypeInvNext, <1>1, PTL DEF Spec

LEMMA TypeInvariant == Spec => []TypeInv
BY TypeInvInit, TypeInvNext, PTL DEF Spec

-------------------------------------------------------------------------------
\* What the clients and their tasks do moves no master and leaves the path alone.
LEMMA ClientsMoveNothing ==
  ASSUME NEW c \in Clients, Connect(c) \/ Hangup(c) \/ Task(c) \/ CommandEnds(c)
  PROVE  UNCHANGED <<alone, path, master>>
BY DEF Connect, Hangup, Task, HandleCheck, HandleExit, SetShouldExit, OpenSession,
       CommandEnds, masterVars

LEMMA PathInvInit == Init => PathInv
BY DEF Init, PathInv

LEMMA PathInvNext == TypeInv /\ PathInv /\ [Next]_vars => PathInv'
<1> SUFFICES ASSUME TypeInv, PathInv, [Next]_vars PROVE PathInv'
  OBVIOUS
<1> USE ControlAssumption DEF TypeInv, TypeOK, PathInv, Owner, MoveTo
<1>1. ASSUME NEW m \in Masters, UnlinkStale(m) PROVE PathInv'
  BY <1>1 DEF UnlinkStale
<1>2. ASSUME NEW m \in Masters, Startup(m) PROVE PathInv'
  <2>1. CASE Bind(m)
    BY <2>1 DEF Bind
  <2>2. CASE SetPermissions(m) \/ RegisterSignals(m)
    BY <2>2 DEF SetPermissions, RegisterSignals
  <2>3. CASE SetupFails(m)
    <3>1. path' = path /\ master' = [master EXCEPT ![m] = "setup failed"]
      BY <2>3 DEF SetupFails, Die
    <3>2. QED
      BY <3>1
  <2>4. QED
    BY <1>2, <2>1, <2>2, <2>3 DEF Startup
<1>3. ASSUME NEW m \in Masters, AcceptLoop(m) PROVE PathInv'
  <2>1. CASE Accept(m) \/ SpawnedTask(m)
    <3>1. /\ path' = path
          /\ \/ master' = [master EXCEPT ![m] = "accepting"]
             \/ master' = [master EXCEPT ![m] = "bound"]
      BY <2>1 DEF Accept, SpawnedTask
    <3>2. QED
      BY <3>1
  <2>2. CASE LeaveLoop(m)
    BY <2>2 DEF LeaveLoop
  <2>3. CASE DropGuard(m)
    BY <2>3 DEF DropGuard
  <2>4. CASE Exit(m)
    BY <2>4 DEF Exit
  <2>5. QED
    BY <1>3, <2>1, <2>2, <2>3, <2>4 DEF AcceptLoop
<1>4. ASSUME NEW m \in Masters, Signal(m) PROVE PathInv'
  BY <1>4 DEF Signal
<1>5. ASSUME NEW m \in Masters, Interrupt(m) \/ Kill9(m) PROVE PathInv'
  <2>1. path' = path /\ master' \in {[master EXCEPT ![m] = s] : s \in {"interrupted", "killed"}}
    BY <1>5 DEF Interrupt, Kill9, Die
  <2>2. QED
    BY <2>1
<1>6. ASSUME NEW c \in Clients, Connect(c) \/ Hangup(c) \/ Task(c) \/ CommandEnds(c)
      PROVE  PathInv'
  BY <1>6, ClientsMoveNothing
<1>7. CASE UNCHANGED vars
  BY <1>7 DEF vars
<1>8. QED
  BY <1>1, <1>2, <1>3, <1>4, <1>5, <1>6, <1>7 DEF Next

\* The socket file of a master that is past its guard or gone was left by SIGKILL, by
\* a signal that came before the handlers, by an error after the bind, or by a removal
\* that was refused, however many masters fight for the path: every other exit goes
\* through the remove_file of the guard.
THEOREM LeftoversExplained == Spec => []LeftoverHasACause
<1>1. TypeInv /\ PathInv => LeftoverHasACause
  BY DEF PathInv, Owner, LeftoverHasACause, Listening
<1>2. QED
  BY <1>1, PathInvInit, PathInvNext, TypeInvariant, PTL DEF Spec

-------------------------------------------------------------------------------
LEMMA AloneInvInit == Init => AloneInv
BY DEF Init, AloneInv, Alive, Listening

\* A master that was alive may go on or die; only UnlinkStale starts one, and it
\* waits for all others to be dead.
LEMMA AloneInvNext == TypeInv /\ AloneInv /\ [Next]_vars => AloneInv'
<1> SUFFICES ASSUME TypeInv, AloneInv, [Next]_vars, alone' PROVE AloneInv'
  BY DEF AloneInv
<1> USE ControlAssumption DEF TypeInv, TypeOK, AloneInv, Alive, Dead, Listening, MoveTo
<1>a. ASSUME NEW m \in Masters, Alive(m), NEW stage, Die(m, stage),
             stage \in {"setup failed", "interrupted", "killed"}
      PROVE  AloneInv'
  <2>1. UNCHANGED <<alone, path>>
    BY <1>a DEF Die, Cut
  <2>2. master' = [master EXCEPT ![m] = stage]
    BY <1>a DEF Die
  <2>3. alone
    BY <2>1, Zenon
  <2>4. QED
    BY <1>a, <2>1, <2>2, <2>3
<1>1. ASSUME NEW m \in Masters, UnlinkStale(m) PROVE AloneInv'
  <2>1. /\ alone /\ \A n \in Masters : ~Alive(n)
        /\ master' \in {[master EXCEPT ![m] = s] : s \in {"unlinked", "bind failed"}}
    BY <1>1, Zenon DEF UnlinkStale
  <2>2. \A n \in Masters : Alive(n)' => n = m
    BY <2>1
  <2>3. \A n \in Masters : ~Listening(n)'
    BY <2>1
  <2>4. QED
    BY <2>2, <2>3
<1>2. ASSUME NEW m \in Masters, Startup(m) PROVE AloneInv'
  <2>1. CASE Bind(m)
    BY <2>1 DEF Bind
  <2>2. CASE SetPermissions(m) \/ RegisterSignals(m)
    BY <2>2 DEF SetPermissions, RegisterSignals
  <2>3. CASE SetupFails(m)
    BY <2>3, <1>a DEF SetupFails
  <2>4. QED
    BY <1>2, <2>1, <2>2, <2>3 DEF Startup
<1>3. ASSUME NEW m \in Masters, AcceptLoop(m) PROVE AloneInv'
  <2>1. CASE Accept(m) \/ SpawnedTask(m)
    BY <2>1, ZenonT(30) DEF Accept, SpawnedTask
  <2>2. CASE LeaveLoop(m)
    <3>1. UNCHANGED <<alone, path>>
      BY <2>2 DEF LeaveLoop, Cut
    <3>2. master' = [master EXCEPT ![m] = "closed"]
      BY <2>2 DEF LeaveLoop
    <3>3. alone
      BY <3>1, Zenon
    <3>4. QED
      BY <2>2, <3>1, <3>2, <3>3 DEF LeaveLoop
  <2>3. CASE DropGuard(m)
    BY <2>3 DEF DropGuard
  <2>4. CASE Exit(m)
    <3>1. UNCHANGED <<alone, path>>
      BY <2>4 DEF Exit, Cut
    <3>2. \/ master' = [master EXCEPT ![m] = "exited"]
          \/ master' = [master EXCEPT ![m] = "left behind"]
      BY <2>4 DEF Exit
    <3>3. alone
      BY <3>1, Zenon
    <3>4. QED
      BY <2>4, <3>1, <3>2, <3>3 DEF Exit
  <2>5. QED
    BY <1>3, <2>1, <2>2, <2>3, <2>4 DEF AcceptLoop
<1>4. ASSUME NEW m \in Masters, Signal(m) PROVE AloneInv'
  BY <1>4 DEF Signal
<1>5. ASSUME NEW m \in Masters, Interrupt(m) \/ Kill9(m) PROVE AloneInv'
  BY <1>5, <1>a DEF Interrupt, Kill9
<1>6. ASSUME NEW c \in Clients, Connect(c) \/ Hangup(c) \/ Task(c) \/ CommandEnds(c)
      PROVE  AloneInv'
  BY <1>6, ClientsMoveNothing
<1>7. CASE UNCHANGED vars
  BY <1>7 DEF vars
<1>8. QED
  BY <1>1, <1>2, <1>3, <1>4, <1>5, <1>6, <1>7 DEF Next

\* A listening master is the one the path leads to, when masters are started one at
\* a time: the remove_file of a later one's bind_listener finds nobody alive, and
\* the guard of an earlier one has run.
THEOREM ListenersReachable == Spec => []Reachable
<1>1. AloneInv => Reachable
  BY DEF AloneInv, Reachable
<1>2. QED
  BY <1>1, AloneInvInit, AloneInvNext, TypeInvariant, PTL DEF Spec
==============================================================================
