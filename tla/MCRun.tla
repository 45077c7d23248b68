-------------------------------- MODULE MCRun --------------------------------
(* Five families of invocations: trees of configuration files, what is        *)
(* answered or forked at once, what is to be done, how the servers are        *)
(* reached, and how they are convinced.                                       *)
EXTENDS Run
CONSTANTS k1, k2

Host(names) == [kind |-> "host", hosts |-> names]
Set(keyword, to) == [kind |-> "set", key |-> keyword, value |-> to]
Include(how, files) == [kind |-> "include", literal |-> how, of |-> files]
One(file) == Include(TRUE, [h \in {"web", "", "other"} |-> {file}])
Glob(files) == Include(FALSE, [h \in {"web", "", "other"} |-> files])

\* Main includes files 1 and 2 by a glob or one of them by its name, perhaps
\* through %h; they include each other, set things and open blocks, three deep.
MainLines ==
  {Host({"web"}), Set("user", "amy"), One(1), Glob({1, 2}), [kind |-> "match"],
   Include(TRUE, [h \in {"web", "", "other"} |-> IF h = "web" THEN {2} ELSE {4}])}
FirstLines == {Host({"other"}), Host({"web"}), Set("user", "bob"), One(2)}
SecondLines ==
  {Host({"other"}), Set("user", "eve"), One(1), One(3), [kind |-> "bare include"]}
Third == <<Set("user", "pat")>>
IsTree(files) ==
  \E m \in SeqOf(MainLines, 3), a \in SeqOf(FirstLines, 2), b \in SeqOf(SecondLines, 1) :
    files = [f \in 0..3 |-> CASE f = 0 -> m [] f = 1 -> a [] f = 2 -> b [] f = 3 -> Third]

Plain ==
  [ask |-> None, fork |-> None, host |-> "web", user |-> None, login |-> None,
   command |-> <<"ls">>, identity |-> <<>>, password |-> TRUE, control |-> FALSE,
   jump |-> None, noCommand |-> FALSE, forwards |-> {}, transfers |-> <<>>,
   stdio |-> FALSE, named |-> FALSE, skip |-> FALSE, strict |-> None, known |-> None,
   acceptAll |-> FALSE, timeout |-> FALSE, exitOnForward |-> FALSE, bind |-> "none"]

Server == [key |-> "unknown", accepts |-> {Password}, hashes |-> {"sha512", "sha256", "sha1"},
           limit |-> 6]
Peaceful ==
  [servers |-> [h \in {"web", "real", "bastion"} |-> Server], master |-> "none",
   silent |-> {}, fails |-> {}, broken |-> {}, rsa |-> {k1}]

NoFiles == [f \in {} |-> <<>>]
Full == [f \in {0} |-> <<Host({"web", ""}), Set("hostname", "real"), Set("identity", k2),
                         Set("jump", [host |-> "bastion", user |-> "joe"]), Set("user", "amy")>>]
Strictly == [f \in {0} |-> <<Host({"web"}), Set("strict", "yes"), Set("known", "file")>>]

Resolving(line, near, files) ==
  /\ near = Peaceful
  /\ \/ line = [Plain EXCEPT !.ask = "-G"] /\ IsTree(files)
     \/ /\ line = [Plain EXCEPT !.ask = "-G", !.host = "other"]
        /\ \E l \in MainLines, others \in SUBSET {1, 2} :
             files = [f \in {0} \cup others |-> IF f = 0 THEN <<l>> ELSE None]

Starting(line, near, files) ==
  /\ \E a \in {None, "help", "-Q", "-O", "-G"}, f \in {None, "-f", "--fork", "-fN"},
        h \in {NoHost, "web"}, w \in {{}, {"local"}, {"http"}}, n \in BOOLEAN, s \in BOOLEAN :
       line = [Plain EXCEPT !.ask = a, !.fork = f, !.host = h, !.forwards = w,
                           !.named = n, !.skip = s, !.command = <<"rm", "-f">>]
  /\ near = Peaceful
  /\ files \in {NoFiles, Full}

Working(line, near, files) ==
  /\ \E t \in {<<>>, <<"push">>, <<"push", "rsync">>}, f \in SUBSET {"http", "local", "remote"},
        w \in BOOLEAN, n \in BOOLEAN, c \in {<<>>, <<"ls">>}, e \in BOOLEAN :
       line = [Plain EXCEPT !.transfers = t, !.forwards = f, !.stdio = w, !.noCommand = n,
                           !.command = c, !.exitOnForward = e]
  /\ \E x \in {{}, {"push"}, {"rsync"}, {"remote"}, {"session"}, {"task"}} :
       near = [Peaceful EXCEPT !.fails = x]
  /\ files = NoFiles

Reaching(line, near, files) ==
  /\ \E j \in {None, [host |-> "bastion", user |-> None]}, o \in BOOLEAN,
        s \in {None, "no", "accept-new"}, p \in {None, "file", "/dev/null"}, y \in BOOLEAN,
        b \in {"none", "interface"} :
       line = [Plain EXCEPT !.jump = j, !.timeout = o, !.strict = s, !.known = p,
                           !.acceptAll = y, !.bind = b, !.forwards = {"dynamic"}]
  /\ \E z \in {{}, {<<"jump", "ssh">>}, {<<"target", "tcp">>}, {<<"target", "ssh">>},
               {<<"target", "auth">>}},
        x \in {{}, {"tcp"}, {"spec"}},
        k \in {<<"known", "known">>, <<"known", "changed">>, <<"unknown", "known">>} :
       near = [Peaceful EXCEPT !.silent = z, !.fails = x,
                  !.servers = [@ EXCEPT !["web"].key = k[1], !["real"].key = k[1],
                                        !["bastion"].key = k[2]]]
  /\ files \in {NoFiles, Strictly}

Convincing(line, near, files) ==
  /\ \E i \in {<<>>, <<k1>>, <<k2, k1>>}, p \in BOOLEAN, c \in BOOLEAN, u \in {None, "ann"},
        l \in {None, "leo"} :
       line = [Plain EXCEPT !.identity = i, !.password = p, !.control = c, !.user = u,
                           !.login = l]
  /\ \E b \in {{}, {k1}}, m \in {"none", "live", "broken"},
        a \in {{}, {k1}, {k2}, {Password}, {"none"}}, s \in {{"sha1"}, {"sha512"}}, n \in {3, 6} :
       near = [Peaceful EXCEPT !.broken = b, !.master = m,
                  !.servers = [h \in DOMAIN @ |-> [Server EXCEPT !.accepts = a, !.hashes = s,
                                                                 !.limit = n]]]
  /\ files \in {NoFiles, Full}

AnyOfThese(line, near, files) ==
  \/ Resolving(line, near, files) \/ Starting(line, near, files)
  \/ Working(line, near, files) \/ Reaching(line, near, files)
  \/ Convincing(line, near, files)
==============================================================================
