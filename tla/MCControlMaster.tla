--------------------------- MODULE MCControlMaster ---------------------------
(* Two masters, one after the other or at once, and two clients. *)
EXTENDS ControlMaster
CONSTANTS m1, m2, c1, c2
TwoMasters == {m1, m2}
TwoClients == {c1, c2}
\* One client ends the master, the other does so too, asks, or runs a command; or
\* both run commands, one of which is taken for a verb.  Clients are told apart
\* by nothing else, so c1 stands for either.
MCWishes ==
  {[c \in TwoClients |-> IF c = c1 THEN "exit" ELSE r] : r \in {"exit", "check", "command"}}
  \cup {[c \in TwoClients |-> IF c = c1 THEN "exit command" ELSE "command"]}
==============================================================================
