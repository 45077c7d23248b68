# passhrs in TLA+

A model of [passhrs](../src/README.md), a non-interactive SSH client in Rust
(russh + tokio): command execution with a faithful exit status, `--push` /
`--pull` file transfer with atomic replacement, `-S` control sockets, port
forwards and proxies. This directory holds TLA+ modules translated from the
source, TLC configurations that check them on small instances, and theorems
that TLAPS proves for every value of the constants.

Source references are to the repository, `file.rs:line` being `src/file.rs`.
The exact lines each definition translates are in `PROJECT.json` under `map`.

## 1. The system

One process per invocation. It parses its command line, may resume through a
master's control socket, connects (through a jump host or not), authenticates,
and then does one or several of: become a master, transfer files, start
forwards, run a command or shell. Everything concurrent runs as tokio tasks; the
russh connection task is the only one that reads the SSH transport, and it runs
`SshHandler`'s callbacks itself.

| Part | State it keeps | Operations | Talks to | What is hard | What makes it correct |
|---|---|---|---|---|---|
| Atomic local write, `sftp.rs:142-194, 239-252, 309-371` | destination, temp file, pc of each invocation | open `O_EXCL`, write, flush, fsync, rename, chmod, unlink on error | kernel; other invocations by the directory only | kill and power loss between calls, errors reported late, shared temp names | destination whole, replaced in one step; temp files do not pile up without cause |
| Atomic remote write, `sftp.rs:50-139, 212-307` | the same, behind an SFTP session | the same by requests, plus remove before rename | sftp-server | request done but reply lost, session lost, no fsync extension | the same, minus the window the remove opens |
| Session, `ssh.rs:901-1155`, `411-437` | channel queue, reader's code, map of exit statuses | read data / EOF / status / close, drain with 5 s timeout, select, look-up | russh task and its callback | order of EOF, status, close; unbiased `select!`; callback on another task | exit code is the remote's; no output lost; it returns |
| Resume pump, `control.rs:349-403, 440-463, 540-576` | pump's code, frames on the socket | pump frames, write done; client reads | russh channel, Unix socket | the same orders, plus either end dying | the same three for the client |
| Control master, `control.rs:101-345, 405-663`, `main.rs:241-272, 531-561, 906-917` | file at the path, accept loop, notify permit, task per connection | bind after unlink, accept, dispatch, check, exit, signals, guard's unlink | clients over the socket | lost wake-ups, stale files, two masters, queue of an ending listener | path leads to the live master; bye ends it; nobody waits for ever |
| Forwards, `forward.rs`, `proxy.rs`, `main.rs:957-1032, 1271-1282` | task per kind, current spec, listener, accepted client | connect, bind, accept, serve, next spec | sshd over a connection of their own, local clients | one step of several failing, one task serving specs in turn | a failing spec or client does not take others with it |
| SOCKS5 and HTTP CONNECT, `proxy.rs:13-103, 134-149, 222-246, 287-323` | bytes read so far | greeting, request, open, answer | local client, sshd | a request in pieces, or with data behind it | the request is taken whole and nothing else with it |
| Byte pumps, six places (`forward.rs:45-78`, `proxy.rs:149-181, 249-285`, `ssh.rs:284-339, 704-784`, `main.rs:1072-1114`) | two half pumps sharing a split stream | copy, pass on EOF, end | SSH channel, TCP/Unix stream or stdio | half-close, loss of one side | all data and ends passed on; both halves end |
| `-R` listener, `main.rs:479-487, 991-1009`, `ssh.rs:219-352` | map port -> target | request, dial in the callback, spawn accept and pumps | russh task, sshd | awaiting inside the event loop; map keyed by port alone | each connection reaches its own target; the loop goes on |
| Agent `-A`, `ssh.rs:367-406, 664-784` | none | accept, connect, pump | agent socket | nobody joins the pumps | every open is answered; pumps end |
| stdin and escape pump, `ssh.rs:998-1123`, `cli.rs:378-432` | line position, carry | scan, disconnect on `~.` | stdin, channel | escape across two reads | bytes pass unchanged, escapes act at line starts only |
| rsync-style upload, `sftp.rs:373-578` | two listings | skip, delta, delete, dry-run | sftp-server | half-done transfer, stale listing, dry-run that writes | the remote has what the local side has; nothing else is lost |
| ssh_config and Include, `config.rs` | expanded text, files opened | expand, include, merge | files | cycles, diamonds, depth, blocks left open | the text is the tree in place; each setting belongs to its Host |
| Authentication, `ssh.rs:790-880` | none | chain of keys, none, password | sshd | a failed step must fall through; the server's limit | fails only when nothing it was given would do |
| Host keys, `ssh.rs:162-217` | none (known_hosts is only read) | decide | the file | which option decides, on which connection | no credential reaches an unknown host when checking is on |
| Run, `main.rs:225-1286`; fork `-f`, `332-353`; `-b`/`-B`, `ssh.rs:508-662` | the phase | phases in order, exits | all of the above | a phase that returns early, a peer that falls silent | nothing asked for is skipped; the run settles |
| CLI parsing, exec-env, error texts, `-Q`, X11 flags | - | pure | - | - | - |

## 2. Modules

| Module | Models | Uses |
|---|---|---|
| `FileStore` | the directory and its disk: names, inodes, what is synced, what the journal holds (environment) | - |
| `AtomicFile` | abstract specification of a transfer: the destination is replaced in one step by a writer that has not given up | - |
| `AtomicWriteLocal` | `--pull`, one action per system call | `FileStore`, refines `AtomicFile` |
| `AtomicWriteLocalProofs` | its theorems | `AtomicWriteLocal`, `TLAPS` |
| `AtomicWriteRemote` | `--push`, one action per SFTP request | `FileStore`, refines `AtomicFile` with `UnlinkFirst` |
| `AtomicWriteRemoteProofs` | its theorems | `AtomicWriteRemote`, `TLAPS` |
| `RusshChannel` | the russh side of one session channel: frames, queue, callback (environment) | - |
| `SessionExit` | `run_session` | `RusshChannel` |
| `SessionProofs` | the theorems of `SessionExit` and of `EscapePump` | both, `TLAPS` |
| `MasterPump` | one resume request: the master's pump and the client | `RusshChannel` |
| `MasterPumpProofs` | its theorems | `MasterPump`, `TLAPS` |
| `SessionScripts` | the frame orders the two are run with | - |
| `ControlMaster` | the control socket, its masters and clients | - |
| `ControlMasterProofs` | its theorems | `ControlMaster`, `TLAPS` |
| `ForwardPump` | the two half pumps of one relayed connection | - |
| `Relay` | one connection of `-L`, `-D` or `-H` from its handshake to the end of its pumps | `ForwardPump` |
| `ForwardTasks` | the tasks, listeners and clients of `-L`, `-D`, `-H`, and the main task around them | - |
| `RemoteForward` | `-R` and `-A` behind russh's event loop | - |
| `ForwardProofs` | the theorems of `RemoteForward`, `Relay` and `ForwardTasks` | all three, `TLAPS` |
| `EscapePump` | stdin, its reads, and its scan one turn at a time | - |
| `RsyncUpload` | `--rsync` beside a user who saves and another push | - |
| `RsyncUploadProofs` | its theorems | `RsyncUpload`, `TLAPS` |
| `ConfigInclude` | the Include pre-processor and what the parser makes of its text | - |
| `Run` | one invocation from `main` to its exit | `ConfigInclude` |
| `RunProofs` | its theorems, and those about the merged configuration | `Run`, `TLAPS` |
| `MC*` | the instances for TLC | the module of their name |

`SessionExit` and `MasterPump` compose with `RusshChannel` by sharing its
variables: `Receive`, `RunCallback` and `Disconnect` interleave with the reading
task. `ControlMaster` and `MasterPump` cut the resume path at the exec: the
first has the sockets, masters and all clients and takes the command as one
step, the second has the inside of that step. `ForwardTasks` and `ForwardPump`
cut at the accepted connection in the same way: the fairness of `ServeEnds` in the
first rests on `PumpsEnd` in the second. `Relay` extends `ForwardPump` with what
comes before the pumps. `Run` extends `ConfigInclude`, whose steps are one phase of
it, and takes each of the other components as one step that succeeds, fails or
never comes; `RsyncUpload` takes the inside of `atomic_write_remote` from
`AtomicWriteRemote` in the same way, keeping the removal, the rename and the setstat.

`Relay`, `ForwardTasks` and `EscapePump` name their specifications after themselves
(`RelaySpec`, `TasksSpec`, `StdinSpec`), because `ForwardProofs` and `SessionProofs` each
extend several modules.

### How state and actions correspond to the code

**FileStore.** `dir` is what every process sees, `stable` what the journal has;
`FlushDirectory` copies one to the other at any time, `LosePower` copies back
and leaves of every file that no fsync covered any part. An invocation creates
at most one inode, so inodes are named by their writer, and the content of a
file is the number of its blocks. `SetMode` reaches whatever inode the name has
then, as `chmod` and `SETSTAT` do.

**AtomicWriteLocal.** `pc` walks through `atomic_write_local` and the chmod
after it; every action may instead fail, which leads to `Cleanup` (the
`write_res.is_err()` branch), except the chmod, whose failure the code only
logs. `Kill` stops a writer between any two calls. `LoseLastBlock` is tokio's
`File`: `write_all` returns when the last block has been handed to a worker
thread, the failure is reported by the next `flush`, and the code drops that
with `.ok()`. `Candidates` is `random_tmp_suffix`: with `FreshSuffix` it gives a
name nobody has taken, without it any name. An open that fails goes to `Cleanup` as
any other step does, whoever made the file that is there.

**AtomicWriteRemote.** The same with requests. `Served`: done, reply Ok;
`Unheard`: done, session lost before the reply; `Refused` and `Unserved`: not
done. `SyncAndClose` never fails, since the code ignores every error there, and
asks for nothing when the server has no fsync (`fsync = FALSE`). `RemoveDst` is
`let _ = remove_file(path)`, followed by `Publish` whatever happened.
`unlinked`, `renamed` and `outage` are history variables: what reached the
server, and whether it lost power.

**RusshChannel.** sshd's frames for one channel are a sequence from `Scripts`,
fixed at the start. `Receive` queues a frame and, for a status, leaves
`callback` set until `RunCallback`: that is `Handler::exit_status` filling the
map, run by the same task after the frame was queued. Close drops the sender,
so a status that follows it reaches only the callback. `ChannelAssumption` asks of the
scripts that no data follows EOF or close (`OutputFirst`, RFC 4254, 5.3), the fact
both readers rely on when they take either for the end of the output.

**SessionExit.** `reader` is the spawned reader (`loop`, `drain`, `send`,
`exit`, `joined`), `main` the `select!` and the look-up. `code` and `result` say
whether the number is the remote's and not 0. `env` holds the circumstances:
`jump` (main.rs clones the map of the handler that `-J` does not use), `lag` (the
callback may still be running at the look-up) and `silence` (5 s may pass).

**MasterPump.** `pump` is `pump_session_to_uds` and `write_done`, `client`
`try_resume`'s loop, `socket` the bytes in flight as frames. A connection that
drops looks like the end of the channel to the pump, which then sends done with
code 0 (`control.rs:395`); the model has this.

**ControlMaster.** `master` is a master's stage from `bind_listener` to the end
of `main`; `"bound"` is the loop parked in its biased `select!`, `"accepting"`
the body of the accept branch. `notified` is the permit of
`SHOULD_EXIT.notify_one`, `path` names the master whose socket is at the path,
alive or dead. Starting goes by the calls: unlink, bind (`"claimed"`), chmod and
`from_std` (`"guarded"`, the guard exists), signal handlers (`"bound"`). An error
after the bind (`SetupFails`) and a signal before the handlers (`Interrupt`) end the process
without the guard, as `Kill9` does at any stage; a removal that the guard is refused
leads to `"not removed"`. Of the handlers' registration only success is modelled (the code
warns and goes on when `signal()` fails). `bye` and the notify that follows it are two
steps. A request is one of four kinds;
`"exit command"` is a resumed command that starts with the word `exit`.

**ForwardPump.** A task is named by the side it copies from. The halves of a
split stream share the socket, so `StreamClosed` needs both tasks over. `waits`
says which peers end only after they have read EOF; `start` is where the pumps
begin in the stream, which is what the handshake has consumed.

**Relay.** The SOCKS5 greeting and request are one block each, an HTTP CONNECT
header is three (no colon yet, a port cut short, whole): the cuts that change
what the code does. Blocks of `sent` beyond them are data. SOCKS5 reads with
`read_exact`, so `Take(1)` whatever has arrived; HTTP reads once and takes any
non-empty prefix of it. A `patient` client sends the header in one piece and waits
for each answer.

**ForwardTasks.** `stage` and `spec` are the loop of `spawn_forward_tasks`, one
spec at a time; the result of `authenticate_fwd` and of `forward_fn` is dropped,
as in the code. `cmd` is the command line, chosen at the start; `main_task` is where
`run` is, which starts the tasks of `-D` and `-H` before the `-R` request and those of `-L`
after it. `Exit` ends the process and with it every task.

**RemoteForward.** `loop` is russh's event loop: `None` between two packets, else
the open whose handler it awaits. `inbox` is what sshd has sent, `replies` the
bounded queue through which tasks reach the loop; it is emptied only when the
loop is between packets, which is why `reply.accept()` may not be awaited in the
handler (`ssh.rs:250-263`). `bound` is the port of each spec's listener, one of
`Ephemeral` for port 0, and sshd grants an address and port once. `chan` follows an open from `sent` to `confirmed` or
`rejected`; `RemoteForwards` is the look-up in the map that `run` fills with
`insert`.

**EscapePump.** `typed` is all that stdin will deliver, `reads` where the kernel
divided it. `stream` is the buffer being scanned, the carry with one read behind it, and
`pos` the byte the scan is at; one turn of the loop is an action (`LineFeed`, `Help`,
`Terminate`, `Data`), and `Forward` sends what the scan has passed. `carry` is the rest
kept for the next read; in this code the scan always reaches the end of the buffer, so
the carry stays empty, which is why split sequences are missed. `LineStart` is what the
properties compare with: where a line starts for a reader of the whole input. `pty` says
whether the session has a PTY; the pump does not know, and only the properties ask.

**RsyncUpload.** A file is two blocks, a size, an mtime and a mode: enough to tell
apart the quick check, the comparison and a delta that saves from one that does
not. `seen` are the two listings, used to the end; `saved`, `existed` and `wrote` are
history. `Save` is the user, `PushOpens`, `PushRemoves`, `PushRenames` another
`passhrs --push`, whose temp file the listing may contain.

**ConfigInclude.** A file is a number, a line a record of its kind. `stack` holds
the recursive calls of `preprocess_includes`, each with its position, the matches
still to splice and its own `seen_block_keyword`; `merged` is the output, as the
places its lines came from. The parser `russh_config` is external: it files each
setting under the last Host line above it and refuses one that has none.
`FilesWellFormed` says what files there are to begin with: finitely many, and finitely many
matches of an Include. `Splice` is the tree in place, the reference that `ExpandsInPlace`
compares the text with.

**Run.** `asked` is the command line, `cli` what `-f` and `apply_resolved` make of
it, `phase` the place in `main` and `run`, `hop` the connection it is about.
`world` fixes at the start what the servers accept, which steps will fail and at
which a peer falls silent. `left` and `attempts` are `authenticate`'s loop: the keys
and the password still to come, and what is left to try of the one in hand.
`Command` is what there is to run once the filter of `-f`, which goes over every
word, has taken its own out. `offered` is the history of every credential sent, with
host and login; `done` of the work completed; `why` names the return that led to
the exit. After `-f` the model follows the child. Forwards connect on their own
(`ForwardConnects`), at any moment after their task was spawned.

## 3. Runs

| Run | Properties | Instance | What it shows |
|---|---|---|---|
| `local_pull` | `TypeOK`, `NoTornDst`, `LitterHasACause`, `ReplacesAtomically` | 2 invocations, 2 temp names, drawn freely, 2 blocks | `--pull` implements `AtomicFile` also when both draw one name; the destination lacks the last block at most, and only on a disk that reports late |
| `remote_push` | `NoTornDst`, `LitterHasACause`, `AbsenceHasACause`, `WithdrawsOrReplaces` | same | what `--push` keeps, and the only causes of a torn or missing destination and of litter |
| `session` | `StatusReported`, `NoOutputLost`, `SessionEnds` | every order in `SessionScripts`, 8 circumstances | exit status, output and termination of `run_session` |
| `resume` | `EarlyStatusReported`, `ResumeKeepsOutput`, `ResumeEnds` | every order | the same for a resumed command |
| `control_master` | `Reachable`, `LeftoverHasACause`, `ByeEndsMaster`, `EveryClientEnds` | 2 masters, 2 clients, 4 pairs of requests | life of the socket file, and that neither a wake-up nor a client is lost |
| `relay` | `RequestKeptApart`, `AnswerDelivered`, `EndPassedOn`, `PumpsEnd` | 2 blocks from the channel, a request and data from the client | handshakes in any pieces; half-close works, both tasks end once both sides are over |
| `forward_tasks` | `FailuresPassOn`, `NoClientForgotten`, `ListenerSurvives` | 2 sets of forwards, all option combinations, 2 clients | without `ExitOnForwardFailure` a failed spec passes the turn on; a listener outlives its clients and forgets none |
| `forward_http_only` | violates `ForwardsStay` | `-N -H 3` | the process returns at once |
| `remote_forward` | `ReachesItsTarget`, `EveryOpenAnswered`, `OutputKeepsFlowing` | lists of -R specs with equal ports, equal addresses and port 0, 2 opens, 1 reply slot | the event loop never waits for itself; an accepted open has reached the target of its own `-R` or of another one of that port |
| `rsync` | `MirrorsWhenDone`, `LossHasACause`, `LeavesTheRestAlone` | 3 paths, one in a subdirectory, every option | what a finished upload has mirrored, how a remote file can go missing, and that what was not to be sent stays as it was |
| `escape` | `ForwardsAll`, `DisconnectsAtLineStart` | every input of 5 bytes out of 5 kinds, reads of up to 3, with and without a PTY | input that asks for no escape arrives whole; with a PTY `~.` acts exactly at line starts unless cut in two |
| `run` | `ExpandsInPlace`, `BlockOwnsItsLines`, `OffersOnlyToKnown`, `AuthUsesWhatItHas`, `NothingSkipped`, `Settles` | five families of invocations | configuration, host keys, authentication, order of the work, and that a run settles |

Every property of a passing run has a mutant in `PROJECT.json`: a definition
changed as a plausible bug would, under which TLC finds the property violated.
The mutated forms sit in the modules, each before the definition it stands for.

### Bounds, and why they are enough

- **Two writers.** Every property relates one writer to one other (who took my
  name, whose file is at the destination). They draw their temp names freely from two
  (`FreshSuffix = FALSE`), so that both the same name and different ones occur. What a third
  writer adds is the tear that `NoTornDst` names, which the theorem is about; the theorems cover
  any number for either transfer.
- **Two blocks.** A file can be empty, partial or whole, and the last block can
  be the first or not.
- **Scripts.** At most two data frames, and every order of EOF, status and close
  that sshd sends or that the code's comments name, data after the status, and
  scripts that stop short. `ConnMayDrop` cuts any of them anywhere.
- **Two masters and two clients**, each connecting once. A third master repeats
  the pair (previous, next). The requests are one client that ends the master
  while the other ends it too, asks, or runs a command, or a command beside one
  that is taken for `exit`;
  pairs in which nobody can end a master are contained in these, as a client need
  not connect. Masters may be started one at a time or at once (`alone`).
- **Blocks in `Relay`**: two from the channel, one passed and one pending; from
  the client the request and what follows it.
- **Two specs of a kind, three ports**: a spec that is passed over and one
  after it, a port that is busy and one that two kinds want.
- **Two opens, one reply slot** in `RemoteForward`: one open that is dialled while
  the other waits, and a queue that is full with one reply, the smallest in which
  a sender has to wait.
- **Three paths** in `RsyncUpload`: one both sides may have, one whose directory may
  be missing, one that is extra on either side; one other push.
- **Five bytes, reads of three** in `EscapePump`: long enough for `~?`, a line feed and
  `~.` after it, and for a sequence to be whole in a read or cut.
- **Four files, `MaxDepth` 2** in `ConfigInclude`: a tree deeper than the limit, a
  diamond, a cycle and a missing file all fit; 2 stands for 16, and nothing else
  in the code depends on the number.
- **Families in `MCRun`.** The product of all options is out of reach, so each
  family varies the options that meet in one part of `run` and fixes the others:
  `Resolving` (file trees), `Starting` (answers, `-f`, `-F`), `Working` (transfers,
  forwards, `-W`, `-N`, command and which of them fails), `Reaching` (jump, host keys,
  timeout, `-B`, silent peers), `Convincing` (keys, password, master, limits).

Deadlock is not checked in any run: each of these systems legitimately stops
(the process exits, all writers end).

### Fairness

Safety runs assume none. `WF` on a task's steps is tokio's promise to poll a
woken task; `WF` on `DrainTimeout` is its timer. Beyond the runtime, these are
assumed: in `SessionExit`, a server that never falls silent sends what is left;
in `ControlMaster`, a remote command ends in the end; in `Relay`, a peer
that waits for nothing ends its direction, and an open is answered; in
`RemoteForward`, sshd answers a request and a dial succeeds or fails; in `Run`, a
peer that is not `silent` answers and the timer of `--connect-timeout` fires; in
`ForwardTasks`, connecting
succeeds or fails, and the connection a listener is busy with ends in the end.
The last is a real assumption: the accept loops join the pumps of one
connection before they accept the next (`forward.rs:78`, `proxy.rs:127, 218`),
so one long connection, or a SOCKS client that never speaks, holds up every later
client of the port. Nothing is assumed of signals, kills, drops or
connecting clients, and no strong fairness is used.

## 4. Proofs

Every theorem is about the specification for all values of its constants that
meet the assumptions named. The types are `TypeCorrect` of each proof module, `RelayTypes`
and the invariants `TasksInv` and `StdinInv`; `Run` states no type
invariant of its own. The argument is each time an inductive invariant, or a tower of them, each inductive
relative to those below it. Each was checked by TLC on the instance of its run
before it was proved.

| Module | Theorem | States | Assumes, beside the constants' own |
|---|---|---|---|
| `AtomicWriteLocalProofs` | `LitterExplained` | `LitterHasACause` | - |
| | `NeverTorn` | `NoTornDst` | - |
| | `AlwaysWhole` | `DstFilled` | `FreshSuffix` |
| | `Implements` | `ReplacesAtomically` | `FreshSuffix` |
| `AtomicWriteRemoteProofs` | `LitterExplained` | `LitterHasACause` | - |
| | `AbsenceExplained` | `AbsenceHasACause` | - |
| | `NeverTorn` | `NoTornDst` | `FreshSuffix` |
| | `Implements` | `WithdrawsOrReplaces` | `FreshSuffix` |
| `SessionProofs` | `OutputWritten` | `NoOutputLost` | - |
| | `StatusDelivered` | `StatusReported` | - |
| | `AllForwarded` | `ForwardsAll` | - |
| | `DisconnectsWhereMeant` | `DisconnectsAtLineStart` | - |
| `MasterPumpProofs` | `OutputKept` | `ResumeKeepsOutput` | - |
| | `StatusKept` | `EarlyStatusReported` | - |
| `ControlMasterProofs` | `ListenersReachable` | `Reachable` | - |
| | `LeftoversExplained` | `LeftoverHasACause` | - |
| `ForwardProofs` | `ReachesTargets` | `ReachesItsTarget` | - |
| | `RequestsKeptApart` | `RequestKeptApart` | - |
| | `ListenersSurvive` | `ListenerSurvives` | - |
| | `ClientsAttended` | `ClientsHeld`, the safety half of `NoClientForgotten` | - |
| `RsyncUploadProofs` | `RestLeftAlone` | `LeavesTheRestAlone` | - |
| | `LossExplained` | `LossHasACause` | - |
| | `Mirrors` | `MirrorsWhenDone` | - |
| `RunProofs` | `KnownHostsOnly` | `OffersOnlyToKnown` | - |
| | `EverythingTried` | `AuthUsesWhatItHas` | - |
| | `NothingIsSkipped` | `NothingSkipped` | - |
| | `BlocksOwnTheirLines` | `BlockOwnsItsLines` | - |
| | `IncludesExpandInPlace` | `ExpandsInPlace` | - |

The constants' assumptions, each named in the module that declares them:
`StoreAssumption`, `LocalAssumption`, `RemoteAssumption`, `RemoteForwardAssumption` (ports
are numbers, and sshd picks none that is 0), `ChannelAssumption` (any
scripts of frames in which no data follows EOF or close), `ControlAssumption`,
`RsyncAssumption` (any trees, saves and options over the names; the files of the other
push and of the saves are files), `SessionAssumption`, `PumpAssumption` (of `MasterPump` and
of `ForwardPump`), `ForwardAssumption` (a kind of forward has a spec if it is on the command line),
`EscapeAssumption`, `MaxDepthAssumption` and `NoneAssumption` (the value for "none" is not
one of the option words). `FreshSuffix` is the code's own reliance on
36^6 and more random suffixes; the runs do without it, for two writers. Where two draw the
same suffix, an invocation whose `O_EXCL` open fails removes the name all the same
(`sftp.rs:177`), which takes a sibling's temp file away; `NeverTorn` says, without
the assumption, what is left of the guarantee.

**`AtomicWriteLocalProofs`**, for any number of invocations, temp names and blocks and
any initial destination:

1. `NameInv`: types, and that only a writer's own temp name leads to its inode,
   in `dir` and in `stable`. Neither is inductive alone: without the second part
   the rename could move anything, without the types nothing is known of `tmp`.
   `LitterHasACause` is inductive relative to it.
2. `ThreeInv`, whatever the suffixes, from which `NeverTorn` follows: a writer whose name no longer leads to its inode has
   lost it to a second writer of that name, who is not the one the name leads to now
   (`LossInv`); so a destination that is not finished yet came from one of three
   (`DstKnown`, of the directory and of the journal).
3. `FreshInv`, with fresh suffixes: two writers never share a temp name, and `NoClobber`,
   which needs it because `Cleanup` removes a name and not an inode.
4. `ContentInv`: a writer past the fsync has filled and synced its inode, and
   the destination, on disk and in the journal, is the initial file or a finished
   writer's. The journal's half is what survives `PowerLoss`.
5. The refinement: given these, `Publish` is the abstract `Replace`, the
   first failure or the kill of a pending writer is `Abandon`, power loss is
   `LosePower`, every other step stutters (`RefinesInit`, `RefinesNext`).

**`AtomicWriteRemoteProofs`** is the same tower with requests in place of calls, and
two more layers. `NameInv` carries `LitterHasACause`. `OrderInv` ties the history to the
step: nobody whose rename was done has it still to do, and a power loss has ended
every session. `AbsenceInv` then says of the journal what `AbsenceHasACause` says of
the directory, or `PowerLoss` could bring an absence back. `FreshInv` speaks only of
writers that are still connected: a reply that is lost after the open leaves a file
its writer does not know of. In `ContentInv` the whole content is conditional on
`fsync`, and the destination is absent, initial or the file of somebody whose rename
was done. In the refinement `RemoveDst` is the abstract `Withdraw` and a served or
unheard `Publish` is `Replace`.

**`SessionProofs` and `MasterPumpProofs`** count frames. `ReadUpTo(r)` says that
`rx.wait()` has returned the first `r` frames of the script and that the queue holds the
next ones, up to the latest received or to the close that dropped the sender. A step of
the connection task keeps it for every `r` (`ChannelStep`, which covers a script
cut short by a lost connection), a read takes it to `r + 1` (`WaitStep`), and `None` means that
there is nothing after `r`, or a close (`NoneStep`); with `OutputFirst` that is the
end of the data. `DataInStep` is the arithmetic of the count. These lemmas stand in
both modules, so that either can be read alone. For `run_session`, `OutputInv` says that
what is shown is the data among the frames read while the loop runs, and that afterwards all data
not shown follows a status; `StatusInv` says that a status that has arrived is in the
map or in its callback (`Heard`), and that the reader of an undisturbed session does not
leave the drain before one has (`Patient`). For a resume the count goes on over the socket:
`Given` is what the client has written plus what it has not read yet, equal to the data the pump has
read (`LoopInv`), complete once the done frame is under way (`WireInv`) and so when the client
exits with a code (`ExitInv`). The half about the code is `LateStatus`: a done frame with
0 is sent without a status only if every status of the script comes after the end of the output.

For stdin, `StdinInv` has the types and three parts. `ReadsInv`: the reads end where they
ended, in ascending order. `SentInv`: the buffer is the piece of the input between the last
two ends, and the channel has the first bytes of the input up to the first of these, or to
the second once the buffer is sent. `LineInv` speaks of `Looked`, how far the scan has come
in the whole input: `at_line_start` implies `LineStart(Looked + 1)`, and unless a read has cut
a sequence also the converse, and no disconnect was passed over (`Unmet`). The two directions
are not equal because after a cut the scan believes itself in the middle of a line where the
reader of the whole input sees a start. `AfterLineFeed`, `AfterHelp` and `BeforeLine` are
what `LineStart` says of the byte after each turn, and `InBuffer` moves from a place in the
buffer to its place in the input.

**`ControlMasterProofs`.** `TypeInv` adds to the types that a task's connection is to
a master, the one in whose queue it waits. `LeftoverHasACause` follows from `PathInv`:
the path names a master only from its bind to the end of its guard, or for ever once the
guard did not run or was refused the removal; the converse, that a master in that span has the path, is false when
two run at once. `Reachable` needs `AloneInv`: at most one master is alive, so the unlink
before the bind never finds a living one's file.

**`ForwardProofs`**, of `-R`, for any lists of specs, any number of channels, blocks of
output and reply slots. `ReachesItsTarget` is not inductive: it says nothing of the open that is being
dialled. `LoopInv` does: the open the event loop waits for is still `dialing`,
and the map has an entry for its port. Only the end of the dial accepts an open
of a listener (`NothingAccepted` disposes of every other step), so what was dialled
is what the map returns, which is a spec that names the port (`LookupIsLast`; that a
largest position exists is `LargestPosition`, from the library's well-foundedness
of `<`): the listener's own, or, of equal ports or for a port sshd picked, another one.
`TypeInv` adds to the types that a request that is out is for the spec
`run` is at, without which a listener could be one of no spec.

Of one connection of `-L`, `-D` or `-H`, for any amount of data on either side: `RequestInv`
ties the stage of the handshake to what has been taken from the stream. Until the pumps
begin, `read` is `start`; SOCKS5 has taken nothing before its greeting and one piece before
its request; and a client of `-H` that waits has sent nothing or all three pieces of its
header, so that the one read that takes any of it takes all. Of the tasks, for any command
lines, busy ports and clients: `StagesInv` says that a task runs only for a kind that has
specs and only after the main task has started it, without which a task could be started a
second time under a listener that has clients. With it `ClientsHeld` is inductive, and
`ListenerSurvives` follows step by step.

**`RsyncUploadProofs`.** `HandInv` ties each place of the run to what it has in
hand: only listed files are taken up, only files that differ are sent, what is sent
is something the local file has been. `LeavesTheRestAlone` is inductive relative to it:
what is written or removed is wanted, an extra, or the other push's (`RestKept`).
`LossHasACause` also needs `TmpInv`: the other push misses its temp file only if
`delete` took it for an extra. `MirrorInv` is the loop's: each wanted file is still to be
taken up, being sent, or mirrored, where mirrored means equal to something the local
file was since the listing, as the user may save at any time.

**`RunProofs`.** `CliInv` says what the command line has become at each phase: as it was
typed, or without the words of `-f` (`WithoutFork`), then with the configuration under it
(`Resolved`); and that nothing is offered, spawned or done before. `EarlyActions` and
`LaterActions` split the next-state relation at the configuration: after it neither the
command line nor the text changes. `OfferInv` is `OffersOnlyToKnown` with the peer of the
authentication under way. `WorkInv` orders the work: past `"transfer"` every transfer is
done, past `"forward"` the `-R` is granted if it has to be. `AuthInv` is the
loop invariant of `authenticate`: each key is still to load, or each of its trials was
turned down or is about to be made (`Covered`), and so the password. `TextInv` is what
keeps blocks together: in a call of `preprocess_includes` whose `seen_block_keyword` is set the
last line written is the one before the call's, and no call below the top of the stack has
it set; so the lines of a file from its first Host on stand in the text one behind the
other (`Follows`), and the last Host above a setting in its file is the last above it
in the text (`OwnHost`). That an Include is refused after a Host is the whole reason: the mutant
`ReadIncludeAnywhere` breaks it.

`ExpandInv` is what the calls of `preprocess_includes` have written when some are under way.
The reference `Splice` is a function defined by recursion, and the text of a file depends
on how deep Includes are followed: `Texts[d]` are the texts to depth `d` (they exist
because a function given by a first value and a step does, `Iterated`). `Chain` gives for each
call of the stack the text there was when it began; what it has added since is made of the
lines above the one it is at and of the first files of an Include under way (`Written`,
`Inside`), with the included texts taken from the level of its depth. `seen` keeps the
stack no deeper than there are files, so the levels suffice. When the last call
returns, what it has added is `Texts[Depth][Main]`, which is `Splice(Main)`.
`FlattenSeq`, in which the reference is written, is taken part by part through
`PrefixesOf`.

**Only model-checked.** Every invariant and every action property of a passing run is
proved. With TLC stay:

- the violation of `ForwardsStay` and those of the promises in section 5, which traces show;
- the liveness properties (`SessionEnds`, `ResumeEnds`, `ByeEndsMaster`, `EveryClientEnds`,
  `AnswerDelivered`, `EndPassedOn`, `PumpsEnd`, `FailuresPassOn`, `NoClientForgotten`,
  `EveryOpenAnswered`, `OutputKeepsFlowing`, `Settles`): fairness and `ENABLED` are
  outside the prover's reach;
- that the mutants break what they should.

## 5. Where the code and its documents differ

Some of the repository's promises are stated as definitions beside the properties. TLC
refutes each on the instance of the run named, and the trace follows the code.
`ForwardsStay` has a run of its own and is a finding in `PROJECT.json`; no run asks for
the others, and adding the definition's name to the run's cfg (as an `INVARIANT`;
`ExitsOnFailure` as a `PROPERTY`) reproduces them.

| Promise | Run | The code | The document |
|---|---|---|---|
| `ForwardsStay` | `forward_http_only` | `-N` with only `-H` or `-D` returns at once (`main.rs:1276`) | README.md:196-198 uses it |
| `NoClobber` | `local_pull` | the cleanup after an `O_EXCL` open that found the name taken removes the sibling's temp file (`sftp.rs:177`) | README.md:113-116, `sftp.rs:24-27`, `52-55`: invocations do not clobber each other's temp file |
| `DryRunWritesNothing` | `rsync` | the delta branch writes before `dry_run` is looked at (`sftp.rs:510`) | README.md:52, `sftp.rs:538`: "would upload" |
| `JumpStatusReported` | `session` | with `-J` the status is looked up in the map of the jump connection's handler (`main.rs:716`, `785`) | `ssh.rs:1133-1137`: the map is authoritative unless the callback never ran |
| `ClosedStatusReported` | `session` | a status after close is looked up before it can have arrived (`ssh.rs:1137`) | `ssh.rs:44-47`: the map is there for that very order |
| `LateStatusReported` | `resume` | the resume pump stops at the first EOF and reports 0 (`control.rs:387`) | `control.rs:359`: returns the exit status; `ssh.rs:955-957`: without a PTY EOF comes first |
| `OnlySigkillLeavesFile` | `control_master` | an error after the bind (`control.rs:133-136`) or a signal before its handler (`control.rs:203-219`) leaves the socket file | `control.rs:227-228`: only SIGKILL does; README.md:311: removed on exit |
| `ExitsOnFailure` | `forward_tasks` | the error of a failed bind of `-L`, `-D`, `-H` is dropped (`forward.rs:169`) | README.md:64, 72: `ExitOnForwardFailure` |
| `OwnTargetOnly` | `remote_forward` | the map of `-R` is keyed by port alone (`main.rs:486`, `ssh.rs:234`), so the last of several specs of a port serves all | README.md:69: `[bind:]port:host:port` |
| `HelpStaysLocal` | `escape` | `~?` is sent with the rest of its buffer (`ssh.rs:1106`) | `ssh.rs:1063-1071`: consumed, the remote does not see it |
| `DisconnectsAcrossReads` | `escape` | an escape at the end of a buffer is data (`ssh.rs:1046`), the carry stays empty | `ssh.rs:1015-1016`: no sequence is missed at a read boundary |
| `IgnoredWithoutPty` | `escape` | the escape character is in force without a PTY (`main.rs:1256`) | `cli.rs:260-262`, README.md:270: ignored without one |
| `RefusesOnlyCycles` | `run` | a file reached by two Includes is refused as a cycle (`config.rs:279`) | `config.rs:173`, README.md:304: cycles are detected |

The passing runs state what the code keeps, and the condition in a property
names another place where a document promises more, or where a user would expect
it. Each is reproduced by taking the condition away.

Transfers:

- `NoTornDst` (local) excepts a disk that reports a failed write late:
  `f.flush().await.ok()` (`sftp.rs:167`) drops the error of the last block, and a
  short file is renamed over the destination, against README.md:98-99 ("never a
  half-written file").
- `NoTornDst` (remote) excepts a power loss without a working fsync:
  `let _ = file.sync_all().await` (`sftp.rs:85`) goes on to the rename, while
  README.md:96-97 and 110-111 speak of an fsync before every rename.
- `AbsenceHasACause` allows a writer between `remove_file` (`sftp.rs:123`) and its
  rename, or failed there: then neither the old nor the new file is left, against
  README.md:110-112 ("new bytes ... or ... old bytes still there").
- One push's mode can land on another's file: the setstat addresses the path after
  the rename (`sftp.rs:202-205` says the destination never has right content with
  the wrong mode).
- `MirrorsWhenDone` leaves out what the quick check passes over by size and mtime;
  an uploaded file gets the server's current time, so the check seldom applies
  the second time. A missing remote subdirectory is never created, which ends the run.
  `delete` does not ask `exclude` (`LeavesTheRestAlone` allows it a file the local tree
  lacks), and removes the temp file of another push if the listing has it
  (`LossHasACause`).

Sessions and masters:

- `StatusReported` needs `~jump`, `~lag`, `~silence` and a status before close. Of these
  the promises above are refuted for `jump` and the close. `select!` may also take the
  reader's 0 while the callback is still to run (`ssh.rs:1124`), and the drain gives
  up after 5 s and reports 0 for a command still running (`ssh.rs:969`).
- `NoOutputLost` excepts output after the status (`ssh.rs:991`;
  `control.rs:383-385` drains it).
- `Reachable` needs `alone`: a second master unlinks the live socket of the
  first, whose guard later unlinks the second's (`control.rs:111-112, 144-148`).
- A resumed command whose first word is `check`, `exit` or `stop` is taken for an
  `-O` verb (`control.rs:321`), against `control.rs:28-33`.
- A lost SSH connection during a resumed command is reported to the client as
  exit code 0 (`control.rs:395`); no document says what it should be.
- `-S` without a master and without credentials falls back to a direct connection
  (`control.rs:516-520`), which then becomes a master itself (`main.rs:907`): command,
  transfers and forwards are dropped. An `IdentityFile` in the configuration counts as
  a credential (`main.rs:429`, `547`), so with one every `-S` becomes a master. A resume
  drops transfers and forwards.

Forwards:

- `PumpsEnd` needs both sides over: `ssh.rs:401-403` and `main.rs:1075-1077` say
  either side ends the pumps, but a half dropped without `shutdown()` tells a
  stream peer that waits for EOF nothing, so an agent connection can stay.
- `FailuresPassOn` leaves out `ExitOnForwardFailure`, for which see above. The specs of one
  kind are served one after the other, so the second of several `-L` is bound only
  when the first has failed.
- `ForwardConnects`: the tasks of `-L`, `-D`, `-H` open connections of their own to
  the target (`forward.rs:153`), without jump host, source address or timeout, although
  the comment at `forward.rs:137-139` has them "ride on a pre-established SSH session".
- `RequestKeptApart` asks for a patient HTTP client: one read is taken for the whole
  header (`proxy.rs:293`), a port cut short is a port, and data behind the header is
  dropped.
- `ReachesItsTarget` allows the target of another `-R` of the port, as `OwnTargetOnly`
  shows. An open for a port sshd picked (`-R 0:...`) finds no entry and is refused,
  unless another `-R` names that port.
- A slow dial of a `-R` target holds up the whole connection (`ssh.rs:244`);
  `OutputKeepsFlowing` says for no longer than the dial.
- Nobody notices a connection lost under `-N` (`main.rs:1273`, `1278`).

Input, configuration and the run:

- `ForwardsAll` speaks of input without escape sequences, or with a disconnect that is
  obeyed. `~.` only ends the input (`ssh.rs:1059`), dropping what its read had before it.
- `BlockOwnsItsLines` speaks of settings below a Host line of their own file; one
  below an Include and above any Host of its own falls to the Host the included file
  left open.
- The comment at `cli.rs:42-45` says that `Include` is dropped; README.md:304, the tests and the
  code expand it.
- The configuration's `User` comes before that of `user@host` (`config.rs:442`, then
  `main.rs:430`); its `Port` before an explicit `:22` (`main.rs:448`).
- `OffersOnlyToKnown`: `accept-new` means `yes` (`main.rs:513`), and no key is ever
  written to known_hosts.
- `AuthUsesWhatItHas` speaks of runs that end with "Authentication failed": an RSA
  key costs three attempts, so a server's limit may come first.
- `NothingSkipped` excepts `-W` beside transfers or a command: beside transfers without
  `-N` it is silently dropped when they are done (`main.rs:952`), though the comment
  at `main.rs:1035-1038` wants it to fail loudly; beside a command, the command is.
- `Settles` leaves out a cluster such as `-fN`, whose child forks again, for ever
  (`main.rs:334`; the same filter takes a word `-f` or `--fork` out of the remote command,
  which is why `NothingSkipped` speaks of `Command`), and a
  jump host or an authentication that falls silent, which no timeout covers. `-B` without
  `-b` panics (`ssh.rs:526`).

## 6. Not modelled, and the plan

Left out on purpose: SSH and its cryptography, SFTP's encoding, wording of
messages, the lists of `-Q`, X11 flags (parsed, no channel), Windows' named pipes,
`rsync_download` (unused), directory recursion of push and pull (the same file
branch on other destinations); clap's parsing of the command line and the splitters
of `types.rs` and `cli.rs`, which are pure and covered by the repository's unit tests;
the exec-env prefix, whose correctness is the quoting of another shell.

Worth adding next:

1. The safety halves of more liveness properties, as `ClientsHeld` is of
   `NoClientForgotten`: of `PumpsEnd`, that a half pump whose two ends are over has a step
   to take; of `EveryOpenAnswered`, that an open nobody answered is in the inbox, in the
   loop or in the hands of a task.
2. The hazards without a property, each with its reason in `PROJECT.json`: where the code
   does not do what a document says (section 5), the property is there and waits for the
   code; the mode that lands on another push's file (`sftp.rs:297`), the direct
   connection that becomes a master (`main.rs:907`), the lost connection under `-N`
   (`main.rs:1273`), the stream peer that is not told (`forward.rs:56`), the long connection that
   holds up a port (`forward.rs:78`) and the later spec that waits (`forward.rs:169`)
   are what the code does, and no document speaks of them.
