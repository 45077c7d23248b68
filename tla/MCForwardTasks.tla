--------------------------- MODULE MCForwardTasks ---------------------------
EXTENDS ForwardTasks

\* -L 1 -L 2 -D 2 -H 3: the second -L wants the port of the -D.
AllKinds == [L |-> <<1, 2>>, D |-> <<2>>, H |-> <<3>>]
\* -D 2 -D 1 -H 1: two proxies want one port.
TwoProxies == [D |-> <<2, 1>>, H |-> <<1>>]

\* Every combination of options with each set of forwards.
MCCommands ==
  {CommandLine(s, r, n, e) : s \in {AllKinds, TwoProxies}, r, n, e \in BOOLEAN}

\* -N -H 3
MCHttpOnly == {CommandLine([H |-> <<3>>], FALSE, TRUE, FALSE)}
=============================================================================
