# A formal model of slush

slush wraps `ssh` and `mosh`. It starts a clipboard server on the local
machine, holds an ssh ControlMaster with a reverse forward to that server,
installs shims (`pbcopy`, `xclip`, `open`, ...) on the remote host and then
runs the terminal client. Copying, pasting and opening URLs on the remote host
act on the local desktop.

This directory holds TLA+ modules translated from that code, TLC
configurations that check them on small instances, and theorems that TLAPS
proves for every value of the constants. `PROJECT.json` lists every run, the
source lines behind every definition, the hazards and the findings.

## The system

| Component | Code | State | Operations | Hard behaviour |
|---|---|---|---|---|
| clipboard server | `internal/protocol/server.go` | listener, advertised port, one goroutine per connection | accept, read header and payload, run an operation, answer, `Relisten`, `Stop` | one absolute deadline over reads and writes; concurrent connections; the port changes while the accept loop runs |
| desktop operations | `internal/desktop/clipboard.go` | the desktop's clipboard (external) | `Copy`, `Paste`, `OpenURL` | external tools that fail half-way or never return |
| clipboard clients | `internal/remote/shim.py`, `internal/protocol/client.go` | one exchange | connect, send, read the answer, time out, fall back to a native tool | cuts in the middle, late effects, stale credentials |
| session | `internal/session/session.go`, `tunnel.go`, `agent.go` | control directory, ssh master, waiter goroutine, remote forward | `Run`, `Open`, `establishSession`, `bindClipboardForward`, `Stop` | any step may fail after others succeeded; the master dies at any time; signals |
| foreground client | `internal/process` | client process, signal handler, terminal foreground group | `Run`, `forwardSignals` | signals before, during and after the client |
| validate | `internal/validate` | counts of checks | `Run` and its checks | each check is a connection of its own; the account changes between two of them |
| remote provisioning | `internal/remote/provision.go`, `install.go` | shim directory and `slush-env` on the remote host | `Provision`, `Install` | retry over a second connection, two sessions in one directory |
| environment and startup files | `internal/remote/environment.go`, `bashrc`, `zsh-startup` | none | `EnvPrefix`, `SSHCommand`, `MoshCommand` | quoting through several shells |
| argument rewriting | `internal/session/args.go`, `session_options.go` | none | pure functions | the option parsers of ssh and mosh; connections without the master |
| command line | `internal/command` | flag values; what a completion has read | `tcpPort.Set`, `parsePortForward`, `options`, `install`, `completeHost` | boundaries of ports, bracketed addresses; cyclic `Include`s |

How they interact: `session.Run` and `validate.Run` own the server and pass it
to `Open`, whose busy-port loop calls `Server.Relisten`; the port that was bound
and the token go to `remote.Provision` and into the client's environment; the
shims connect to the remote end of the forward; sshd and the master carry the
connection to the server, which runs a desktop tool. All of it hangs on the
master: it is a child process with a goroutine of its own waiting for it.

What makes each part correct:

* server: nothing runs for a request that is not authorized and complete; what
  a peer is told is true; every accepted connection is answered in time and
  closed; connections do not block each other; the advertised port is served;
* clients: a request is performed at most once, a success means it was, a
  native fallback means it was not and will not be; every run ends;
* provisioning: what the remote directory says of itself is true, whichever
  sessions wrote it; a success means the session's own version is there;
* foreground client: signals reach the client; the terminal goes back to whoever
  had it and nothing is left running;
* argument vectors: ssh, mosh and the remote shell read what slush meant,
  whatever the user's words look like, and every connection is made with the
  port, identity and configuration that were asked for;
* command line: a forward means what the README says it means; completion
  suggests what the files say, and ends;
* account: a program reaches the desktop of its own session and no other, also
  when sessions share a file and reuse ports; wrappers do not hand a request to
  each other for ever;
* validate: success means that both directions were carried, and what others do
  beside it does not make it fail;
* session: the forwarded, advertised and listening ports are one; whatever
  fails, an exit leaves nothing behind; teardown goes in an order that leaves
  nothing without what it needs, and it ends.

## Modules

| Module | Models | Runs |
|---|---|---|
| `ClipboardServer` | server and desktop operations | `server_one`, `server_pair` |
| `MCClipboardServer` | header lines and numerals for TLC | |
| `ClipboardServerProofs` | what the server does for any number of connections | |
| `ClipboardService` | abstract: what a remote program is promised | |
| `ClipboardExchange` | clients and transport composed with `ClipboardServer` | `exchange_one`, `exchange_truncated` |
| `MCClipboardExchange` | requests for TLC | |
| `ClipboardExchangeProofs` | the exchange implements `ClipboardService`, for any clients and requests | |
| `ResourceScope` | abstract: acquiring and releasing what a process holds | |
| `SessionLifecycle` | `session.Run`, `validate.Run`, `Open`, the tunnel, `process.Run` | `session`, `session_orphan` |
| `SessionLifecycleProofs` | inductive invariant, theorems, refinement | |
| `Provision` | `remote.Provision`, its two remote scripts and the directory all sessions of an account share | `provision`, `provision_retry` |
| `MCProvision` | the sessions' versions and their symmetry for TLC | |
| `ProvisionProofs` | the remote directory is true of itself, for any number of sessions | |
| `ProcessRun` | `process.Run` and `forwardSignals` on Unix | `process_run` |
| `ProcessRunProofs` | `Run` leaves nothing, for any signals and any capacity of the channel | |
| `PortForward` | values of `-p`, `-L`, `-R` (`cli_values.go`) and `Forward.String` | |
| `HostCompletion` | `hosts.go` | |
| `CommandLine` | every command line for ssh and mosh, composed with the two above | `command_line`, `command_line_port` |
| `MCCommandLine` | invocations, files and texts for TLC | |
| `CommandLineProofs` | how ssh, mosh and the remote shell read every line, and what completion finds, for any of them | |
| `ForwardProofs` | what a forward means to slush, to ssh and in the README, for any text | |
| `RemoteAccount` | sessions that share an account, and the wrappers' programs | |
| `Validate` | `validate.Run` and its checks, composed with `RemoteAccount` | `validate` |
| `MCValidate` | values of `PATH` for TLC | |
| `ValidateProofs` | which desktop a program reaches and what a validation's verdict means, for any account | |

### ClipboardServer

`pc[c]` is where the goroutine that runs `handle` for connection `c` is:
`backlog` (in the kernel, not accepted), `header` (in `ReadString`), `payload`
(in `readPayload`), `operation` (in a desktop tool), `reply` and `body` (before
the writes of the status line and of a paste's body), `closed`; `reset` is a
connection that was still in the backlog when its listener closed. A header
line is abstracted to its whitespace-separated fields and whether it exceeds
`maxHeaderLine`; `HeaderParses`, `LengthAccepted` and `Admitted` are the checks
of `parseClipboardHeader`, `clipboardHeaderPayloadLength` and `handle`. The
bytes of payloads and of the clipboard are kept, since the properties tell them
apart. `late[c]` is the passing of the one deadline `handle` sets: bytes that
arrive after it are never read and writes after it fail (their errors are
ignored by the code, so the handler goes on). A write of a long paste may be cut
by the deadline in the middle. `ran[c]` is a history variable: the desktop tool
run for `c`, with its data and whether it succeeded.

`Relisten` and `Stop` are one step each: nothing observes the server between the
assignments to `listener` and `port` and the close of the old listener except
the kernel, which may complete handshakes on either listener; both are accepted
by some accept loop until the old one is closed, and the model resets those that
were left in the backlog. When `net.Listen` fails, `Relisten` changes nothing.

Not modelled: the reset a peer may see instead of the answer when the server
closes with unread data in its socket; the content of `ERR` messages; the growth
of the line buffer before `maxHeaderLine` is checked; which clipboard tool is
chosen.

### ClipboardExchange and ClipboardService

`ClipboardExchange` EXTENDS the server and adds the other end of each
connection: a shim run (`exchange`, `do_*`, `main` in `shim.py`) or a Go client
call (`clipboardCall`). What a client has sent arrives piece by piece, also
after it gave up; the transport may cut a connection, and the tunnel with every
shim's connection, at any moment. A shim falls back to the native tool only
without credentials or before its connection was made (`SlushUnavailable`); a
timeout after that is an error. `creds` is what `load_token_port` found:
nothing, the session's token or an earlier session's; a Go client is given the
session's own, and `creds` tells the two kinds of clients apart.

`ClipboardService` is the promise: each request performed at most once with its
own data, a success only after a successful performance, a request handed to a
native tool never performed on the desktop. `KeepsServicePromise` is the
refinement, checked by TLC with the mapping at the end of `ClipboardExchange`.
The service lets the shim report a truncated paste as a success, because the
code does; the run `exchange_truncated` states the stronger claim of the
end-to-end tests' README and TLC refutes it.

### SessionLifecycle and ResourceScope

`pc` walks through `Run`, `Open`, `establishSession`, `runClient` and the way
out. The deferred calls and the explicit error paths of `establishSession` end
in the same steps in the same order (stop the tunnel, remove the directory, stop
the server), so the model shares them; a failure enters the sequence at the
point the code does. `waiter` is the goroutine of `startSSHTunnel`, `waitCh` the
exit status in its channel, `waited` the `sync.Once` that `noteWait` and `wait`
share. `master`, `client` and `forward` are states of other processes and change
by themselves; external commands have every outcome their state allows (`-O
check`, `-O forward` and the mosh probe, which forbids a connection of its own,
succeed only with a ready master). `Killed` is a fatal signal. It is left
possible at every step: SIGHUP is fatal even while `forwardSignals` is installed.

`ResourceScope` is the abstract scope: a resource is acquired when what it needs
is held and released when nothing held needs it, and a process ends by itself
holding nothing. The remote forward needs the master and the listener, the
master needs the directory of its socket, the client needs the directory and the
listener.

### Provision

A session (`stage`, `attempt`) runs the script of `writeSessionEnv` and, unless
that reports its own version, the script of `installShims`; each over the master
and, when that fails, over a connection of its own (`runProvisionExec`). A remote
script is a process of its own: `script[r]` is the command it is at, `r` names
the session, the script and the attempt. It outlives its ssh: when the session
has given up on the attempt (`~Connected(r)`), the script goes on, what it prints
is lost and its stdin ends early. `unread` is the one `strings.Reader` that both
attempts of an install are given. `slushEnv`, `shim` and `version` are the files;
`shim` is the version of a whole file, `Partial` or `Missing` (empty or absent).
`disturbed` is a history variable: an install attempt failed or was abandoned.

Each command of a script may fail, and then the script exits. Commands that
only make directories, links and the startup files are merged with the one that
follows (`WriteVersion`), and so is the truncation of the small files with their
writing. The truncation of the shim is a step of its own (`OpenShim`), since its
copy waits for the network. The remote host has python3 or not for good.

### ProcessRun

`pc` is where the main goroutine is in `Run`, `forwarder` where the goroutine of
`forwardSignals` is, `ch` the channel between `os/signal` and it. `client` is the
child with its exit status (`zombie`) until `Wait` takes it. `outer` is the
foreground group that `Run` found, which need not be slush's own. `shared` is
`sharedTerminalGroup`: for ssh the client stays in slush's group, together with
the master; for mosh it gets a group of its own. What is typed reaches the
foreground group; what another process sends reaches slush alone. `sent` and
`given` are history variables. Signals that come when no handler is in force are
left to `SessionLifecycle`, and so is what `signal.Ignore` does to job control.

### PortForward, HostCompletion and CommandLine

A text is a sequence of atoms: what the code asks of its characters are
constants (`Number`, `Blemish`, `V6`, `DashedAtoms`), and the marks, blanks and
quotes it looks for are atoms of their own. A value that may be refused is a set
of at most one result.

`CommandLine` runs an invocation step by step; `run` is the argument vector of
the command that is run and whether the master was up then. The functions that
build the vectors keep their names (`NativeArgs`, `MoshWrapped`,
`WithMoshControlPath`, ...). The properties read a vector the way the programs
that get it do: `SSHReads`, `MoshOperands`, `Bootstrap` and `ShellWords` are
external definitions (`ShellWords` reads a text atom by atom, `ReadAtom` being
one step, with the quotes a shell and mosh's `--ssh` know), and `RealSSHTakesArg` is ssh's own table, not the one of
`args.go`. `Scanned` is the positions the loop of `sshHostIndex` comes to, as a
recursive function over them; ssh's own reading of its options is the same scan
with its own table, and `GivenTo` is what a flag is given in it.
`SessionConnectsWhereAsked` is about the lines slush gives to ssh itself and
`MoshConnectsAlike` about the one that mosh makes of `--ssh`: `Bootstrap` appends
`MoshDiscovery`, the options of mosh's default IP discovery, whose `-S none`
overrides the control path that `withMoshSSHControlPath` put there
(`session.go:156`, `args.go:210`, README.md "separate bootstrap connection"). So the
bootstrap is a connection of its own, and the property asks of it what a connection
of its own must have: port, identity, configuration, and no agent.
`FindsControlPath` reads `-S` as ssh does, over any `-o ControlPath`. `SessionHost`
is the host `sessionHost` finds in the native arguments at `Open`, and a flag of an
invocation tells "not given" (`""`) from a given default, which `install` refuses
too (`--transport auto`). Words may be
empty. Words that cannot occur in what slush itself builds (`--ssh` with a
separate value, bundles of short flags) are left out. `ForwardsAsDocumented`
compares `parsePortForward` and what ssh hears with `DocumentedForwards`, a
definition of its own that generates the forms the README lists. `ReadMark` is what
the loop of `forwardFields` does at one rune; the code returns at the first wrong
bracket, the model reads on and remembers it.

`HostCompletion` is `completeHost`: a frame of `stack` is one call of the
recursive `readSSHConfig`, `visited` its map; `reads` is a history variable. A
line is the sequence of its fields. `Documented` is defined from `ssh_config`'s
grammar and the closure of `Include` and not from the traversal: `Arguments` are
the words of a line but for the `=` the grammar allows, `Reachable` is the
smallest set of files that has the main one and what its files include. A
configuration is `WellWritten`: at most one `=` stands alone in a line, at the end
of the keyword or before the value (`WellCut`), and a pattern is one `Glob` knows;
`ContentAssumption` says so of every configuration and TLC evaluates it.

### RemoteAccount and Validate

`RemoteAccount` has several sessions with a desktop and a token each, ports of
one remote host, the one file `slush-env` and programs: runs of a wrapper that
inherit the environment of a session, of one that is over by now, or of none,
read the file (`load_token_port`), connect and are performed, end with an error,
are refused or handed over (`find_fallback`). A program is at most as old as its
session's ports: it may wait while the session ends and another gets the port. An
exchange is one step here, with its three outcomes: a server that has the token
performs it, or accepts it and its tool fails or is too slow, with the desktop
changed or not; another refuses it. `ClipboardExchange` has its parts. A set-up may
fail after its forward was bound (`Abort`: the agent check).

`ShimDirs` are the directories that hold a `slush-shim`, `WrapperDirs` those where
the wrapper's name leads to one, `ShimOf` which one that is: a directory may link to
a shim without holding one, and hold one without the name. `Tool` is the search of
`find_fallback` with its three tests: not the wrapper's own directory, no
`slush-shim` in it, and a name that does not lead to the wrapper's own shim. What
passes them may still be a wrapper, of another shim; that one begins again
(`HandedOver`), with the credentials its environment gave it. `NoWrapperLoop` says
that it does not hand over in its turn. It is no consequence of one call of
`find_fallback`: it compares the shims of two wrappers, and rests on
`OneLinkedShim`, that directories which only link to a shim link to the same one.

`Validate` makes one of the sessions a validation. `check` is the check that is
next; a probe is a program of the account that inherits the exports of `Probe`.
A probe that finds no master connects itself, which works or not (`direct`).
`passed` and `failed` are the validator's counters. `quiet` and `carried` are
history variables: nobody and nothing has interfered, and what the forward has
carried. `Verdict` is the verdict of a check that may also end with an error of its
own: of the probe's ssh, of `protocol.Paste`, of a deadline. `CopyLocally` may fail
too, with the desktop changed or not, and then `pbpaste` is not run
(`validate.go:162`). Such an error fails the check and clears `quiet`, and so does a
request of a probe that its server answers with an error. `QuietRunPasses` then
says what is left to go wrong: nothing that other sessions and programs of the
account do makes a validation fail. The set-up may fail before, between and after
the steps of the account's session (`SetupFails`).
Without python3 the transport check fails: the script ends with an error before
`validate.go:139` looks for a reason to skip it.

## Runs

| Run | Bounds | Shows |
|---|---|---|
| `server_one` | 1 connection, 19 header lines, 2 ports, 2 byte values, payloads up to 3 with a limit of 2 | every path through `handle` keeps the safety properties |
| `server_pair` | 2 connections, 3 lines, 1 port, 1 byte value, limit 1, one tool that hangs | connections are accepted and closed independently of each other, also when a desktop tool of one never returns |
| `exchange_one` | 1 client, shim or Go, 5 requests (one over the limit), 3 kinds of a shim's credentials | the service promise under cuts, timeouts, a hanging tool and a stopped server; every client ends |
| `exchange_truncated` | 1 client | violation: a truncated paste that succeeds |
| `session` | 3 ports, 3 attempts | ports agree, exits are clean, order of teardown; set-up and teardown end |
| `session_orphan` | 2 ports, 2 attempts | violation: the master outlives slush |
| `provision` | 2 sessions of one version | as long as no install fails, a current `VERSION` and a success are true of the shim |
| `provision_retry` | 1 session | violation: a current `VERSION` over an empty shim |
| `process_run` | 3 signals | nothing is left on any path that returns; accepted signals arrive, the goroutine ends |
| `command_line` | 3 verbs, 3 transports, every option with a few values, 5 commands; over 5,000 texts of forwards of up to 5 fields; 4 files, 12 kinds of configuration lines, `MaxDepth` 3 | argument vectors, forwards and completion as documented |
| `command_line_port` | 1 session with `-p` | violation: a provisioning connection to the default port |
| `validate` | a validation, 1 other session, 2 ports (alike, by symmetry), 1 program besides the probes, 1 `PATH` of 4 wrapper directories; 1.4 million states | who reaches which desktop; what a validation's success and failure mean |

Why the bounds are enough: `server_one` has a line for each branch of the
header checks, a length below, at and above the limit and one that is not a
number, and lets one byte more than the limit arrive; the desktop's user changes
the clipboard and `Relisten` moves the port under its connection. Safety for any
number of connections is a theorem, so `server_pair` asks only what two of them
owe each other: neither waits for the other. Three attempts and three ports make the busy-port loop succeed first,
later, and not at all, with a fresh port each time. One session has one master
and one client by construction. `Provision` has no counters, so its runs are
complete for their sessions; two of them let every step of an install fall
between any two of another. In `ProcessRun` the channel has the one place it has
in the code, so two signals fill it and overflow it, and the third leaves
one in the goroutine's hand, one in the channel and one lost.

`command_line` takes the options of an invocation in every combination that
reaches another branch of `nativeOptions`, `moshClientArgs` or `WrappedCommand`;
its words are those the parsers could take for their own: `--`, `-`, `-o`,
`--ssh=x`, quotes and blanks. Its forwards put every kind of field in every
place, ports 0, 65535 and 65536 included. The code's depth bound is 16; with four
files `MaxDepth` is 3, so that it is both met and not met. In `validate` two
ports suffice for a port that is used again and one that is not, and one other
session for a file that is overwritten at every moment of the validation; with
`-A` and ssh no check is skipped. The ports are symmetric, since nothing but
equality is asked of them and the run checks only safety. The program's `PATH` has
the session's shim, the installed one and two directories that link to the latter,
so that a wrapper finds a wrapper; the probes' has a native tool. The run's `VIEW`
takes states for one that differ only in how the lines told are divided between
`passed` and `failed`, as long as both have a `FAIL` or none has: no guard and no
property asks for more. The theorems need neither of the two reductions.

Deadlock checking is off in every run: a session that has ended, a server all
of whose connections were used and stopped clients are ends the system has.

### Fairness

* server: weak fairness of every goroutine's steps, of `accept` and of the
  deadline (the Go scheduler and the runtime's timers), and of desktop tools
  except those in `HungTools`. Peers, the desktop's user, `Relisten` and `Stop`
  get none.
* exchange: weak fairness of the clients alone, whose sockets have timeouts. The
  server gets none, so `ClientEnds` holds although it may never answer.
* session: weak fairness of the main goroutine and of the waiter. External
  commands return: those run through `SSHExec` have timeouts in the code, while
  `ssh -O ...` is assumed not to hang. The client's end is not assumed, so
  nothing is claimed about a session in progress. The master owes nothing.
* provisioning: none, and nothing is claimed about its end but what `SetupEnds`
  assumes: there is no loop, and every ssh is given `provisionTimeout`.
* command lines, accounts and validations: none; only safety is claimed.
* foreground client: weak fairness of both goroutines, and strong fairness of
  taking `done`: a Go `select` chooses among its ready channels at random, so it
  does not pass one over forever. The client owes nothing, not even its end.

## Proofs

`ClipboardServerProofs`: `IInv` says, next to `TypeOK` and the agreement of
`port` with the listener, what each handler has established where it is: before
an operation nothing ran and nothing was told; from `reply` on, the answer it is
about to write is true of what ran (`ReplyInv`); in `body` and `closed`, what was
told is a prefix of that answer, and silence means the deadline has passed. It is
needed because the properties speak of what was *told*, whose truth is decided
steps earlier, when the operation ended and the answer was only decided. The
step lemma is split by who moves: the peer or the kernel (`PeerStep`), the
handler (`HandleStep`), the desktop tool (`DesktopStep`), and another connection
(`OtherStep`, through `Frame`). Assumptions: those named in `ClipboardServer`
(the initial port is a port, lines are records of fields, numerals denote
integers, and the markers `NoLine` and `NotRun` are none of the values they
mark the absence of). Proved: `TypeCorrect`, `OnlyEntitledRequestsRun`,
`AnswersAreTrue`, `NeverSilentInTime`, `PortIsServed`.

`SessionLifecycleProofs`: the inductive invariant ties `pc` to what is held:
which locations have a listener, a directory, a master; that an exit status is
either still to be sent, in the channel, or taken and noted; that a forward
exists only over a ready master and agrees with the listener. Proved:
`TypeCorrect`, `PortsAgree`, `ExitIsClean`, `ClientHasSession` (of a client and of
the checks of `validate`) and `ScopeIsRefined`, the implementation of `ResourceScope`: initial states map to
initial states and every step to a step of the scope or a stutter.

`ClipboardExchangeProofs` EXTENDS both the exchange and the server's proofs.
`ExchangeRunsServer`: every step of an exchange is a step of `ClipboardServer`
or leaves its state alone, so `IInv` and all five theorems hold in the
composition. The inductive invariant `XInv` adds to `IInv` the clients' types,
that what the server has received of a client is a beginning of what that client
sends (`ReceivedInv`), and that a client without a connection has none at the
server either (`ClientInv`). `ServiceIsKept` is the refinement of
`ClipboardService`, proved as its initial states and one lemma per kind of step:
the end of a desktop tool is `Perform`, a client's last step is the verdict,
everything else stutters. A success needs `AnswerTellsOutcome` of `IInv`: the OK
a client reads is true. Assumptions: requests are those the model names
(`RequestAssumption`: a verb, bytes and a numeral that denotes their length, in a
line the server may be sent) and `NotRun` is no record of a performance (`NotPerformedAssumption`).

`ProvisionProofs`: `IInv` is `TypeOK` and five parts. `TaskPlaces` and `Begun`
say which scripts exist. `InstallsConnected`: without a disturbance only first
attempts install, and their sessions wait for them. `VersionMarked`: of sessions
of one version, each that was told so finds the version marked. `ShimWhole`:
whenever the version is marked or about to be, and no copy is in progress, the
shim is whole; this is what `UndisturbedVersionIsTrue` lacks, since a script
that is about to mark the version makes it true later. Proved for any number of
sessions: `TypeCorrect`, `VersionIsTrue` and `SuccessInstalls`. Assumptions: the
versions of sessions and the markers for an older, a partial and a missing file
all differ (`VersionAssumption`, `MarkerAssumption`).

`ProcessRunProofs`: `HeldByRun` says what `Run` holds where it is: the
foreground group only with a terminal, the handler and its goroutine only
between `forwardSignals` and its stop, the child until `Wait`. Proved for any
signals and any capacity of the channel: `TypeCorrect`, which includes that the
channel is never over its capacity, and `LeavesNothing`.

`ValidateProofs`, on the account: two inductive invariants. `Knows`: `slush-env` never
holds another token than that of the session that wrote it last, and a program
about to connect holds the token of the session it inherited from or, if it
inherited none, of the session that had written the file when it was read.
`Serves`, inductive relative to `Knows`: a session that is up listens on the
port it was given; token and port of the file belong to one session; a program
with both variables of a session, or with both values of the file, has that
session's port until it gives up, which it does only when that session is gone;
and a probe of the validation is started only when none is under way. Proved
from them: `OwnDesktopHolds` (`OwnDesktopOnly`), `OpenSessionServesHolds`
(`OpenSessionServes`) and `NewestSessionServesHolds` (`NewestSessionServes`), for
any sessions, ports, programs and values of `PATH`. The lemma `EndsItself` says
that only a program's own step ends it, so that each of the three looks at
`Exchange` and `Fallback` alone. They speak of requests that are accepted: performed,
or ended by an error of the server that had the token. `Knows` and `Serves` were found with TLC first,
as invariants on the instance of the run `validate`.

On the validation: `VInv` is inductive relative to these two, and
was checked by TLC on the same instance first. Its parts: `AccountTyped`;
`Counted`, a lower bound on the lines told before each check, by which a check
that returned early without a line would show; `Asking`, whose values the
programs under way carry; `Carrying`, which of the two values the forward has
carried at each check that has not failed; `Calm` and `Undefeated`, what
a quiet run has at each check, `quiet` being cleared by the errors of the checks'
own steps as well. `PassedMeansCarried` needs `Carrying` because the
verdict comes four checks after the copy it speaks of, and `QuietRunPasses`
needs `Serves` because only a session that is served can pass. Proved:
`TypeCorrect`, `PassedHasCarried`, `QuietPasses`, `StatusIsTrue`, and
`NoWrapperLoops`, which has `OneLinkedShim` as its assumption: a wrapper that was
handed its request stands in a directory that only links to a shim (part of
`AccountTyped`), so what it would hand over to is another such directory (`ToolFound`,
from the lemma that the first element a `SelectSeq` leaves is one its test accepts),
which leads to the same shim and is passed over. Assumptions of all of them:
`PortAssumption`, `EnvAssumption`, `DirAssumption` (a directory with a wrapper's name
is none with the native tool's; each such name leads to one shim) and
`ValidatorAssumption`.

`CommandLineProofs`: `ReadInv` (the open calls are at most `MaxDepth`, `visited`
is what was read, each file once) gives `ReadsOnce`, for any files, however they
include each other; `CommandTypeCorrect` is the type invariant.

`FindsTheHosts` is about a traversal that may be cut short by the bound on its
depth, so `FoundInv` accounts for every line: what has been found comes from lines
of reachable files; a line of a visited file has given its hosts and its files,
or is still to be read in an open call; and the stack is no deeper than the number
of files visited, so that with at most `MaxDepth` reachable files no call is
dropped. At the end no call is open, so `visited` is closed under `Include`, and
as the smallest such set `Reachable` lies within it. `Arguments` of the grammar and
`Directive` of the code are shown equal on every `WellCut` line.

`ReadsTheHost`, `AgentIffAsked` and `ConnectsWhereAsked` are about what ssh reads.
`LineInv` says of the line that was run that it satisfies `ReadsFor`: its host,
command, control path, port, identity, configuration and agent. A property of a
vector of any length that a recursive scan has read needs an argument about that
scan. `Iterates` and `ScanSteps` show that the recursive function of `Scanned`
exists and what it is at each position (by the least position where it would not
be, since the induction theorems cannot be used). A `Chain` is a set of positions
of options that each lead to the next, by one word or two; `ScanOfChain`: the scan
of a line that begins with a chain finds it, and then the word behind it;
`ChainsJoin` and `GivenJoin`: lists of options that are chains join to one, and
what a flag is given in them is given in the whole. So each list slush writes is a
chain that gives known values (`GivesConnOpts`, `GivesForwardOpts`, ...), the
user's words come only as values or behind the host, and there is one lemma per
line (`MasterLine`, `ClientLine`, `ProbeLine`, ...). `AgentFirst` is the same for
the first word about the agent.

`ReachesShell` and `MoshConnects` follow the words of the user through `ShellQuote`
and back through `ShellWords`. A text `Leads` from one state of `ReadAtom` to
another, and texts join (`LeadsJoin`); from there a quoted word `Adds` exactly
itself to the words read, whatever atoms it contains (`AddsQuoted`), and a list of
quoted words adds that list. So the word of `--ssh` comes back as the options of the
connection and the control path that `withMoshSSHControlPath` adds (`SSHFlagRead`),
the options of mosh's discovery follow, and the chains above apply to them all; the operands of mosh are those after its `--`, wherever
an option of it ends (`MoshLineCut`). `ReachInv`, inductive relative to `LineInv`,
says of the client's line that the shell behind it runs the typed command and of
a check that it runs `CheckScript`. A text is rid of the exports of its session once
and only at its beginning, so a command may itself look like them; and a text that
begins with them is not taken for a call of `sh -c` (`OtherStart`).

`ForwardProofs`: `ForwardsHeard` is about any texts of whole words and any lists of them. Whatever
the text, it is its only field, or the fields of the text before its last colon
outside brackets with what follows it (`FieldsParted`); and a field is `Plain` if it
adds just itself wherever a field may begin, as words and addresses in brackets do,
so that the fields of fields glued by colons are those fields (`FieldsMore`). With
the first, what `parsePortForward` accepts is one of the README's forms
(`ParsedIsDocumented`), with the second each form is accepted and taken for what it
says (`DocumentedIsParsed`): the two are equal as sets. `Forward.String` writes four
plain fields, so ssh finds the forward that was parsed (`RenderedHeard`). Then the
list: the values of a flag in options joined are those of both in order
(`ValuesJoin`), the other options of the master name no forward (`HearsOther`), and
`HeardInv`, inductive relative to `LineInv`, says of the master's line that ssh
reads from it the rendered forwards of the request.

All of these hold for any requests, configurations, known hosts and texts.
Assumptions: the commands and transports are slush's own, operands and forwards
are lists of words (`RequestAssumption`); slush's options begin with a dash, and its
scripts and exports do not (`DashAssumption`); a number is a word that may stand for a
host, no such word contains a mark or is blemished, and two words do not stand side
by side in the text of a forward (`NameAssumption`); numbers are natural
(`NumberAssumption`) and an IPv6 address has a colon and no bracket
(`V6Assumption`); there are finitely many files and
`Glob` yields some of them (`FileAssumption`), `ContentAssumption` as above, and
`MaxDepth` is positive (`DepthAssumption`).

Only model-checked: all liveness (`AcceptedIsClosed`, `BacklogIsDrained`,
`ClientEnds`, `TeardownEnds`, `SetupEnds`, `ForwarderEnds`) and
`AcceptedSignalArrives`, which is a leads-to, too. These are out of the prover's
reach; every other property of a passing run is a theorem.

## Disagreements with the documentation

1. `e2e/README.md:23` promises exact bytes for every paste. The shim does not
   check that it got the announced number (`shim.py:95`), so a cut in the body
   is a success with a truncated value (`exchange_truncated`).
2. `tunnel.go:23-24` says the master cannot outlive slush. A signal that kills
   slush where no handler is installed leaves it running (`session_orphan`);
   `e2e/README.md:31` says that a signal releases the listener and the forward.
3. `provision.go:30` says that `Version` identifies the installed shim and
   `validate.go:119` takes it as proof of that. The retry over a direct
   connection is given the reader the first attempt has consumed
   (`provision.go:136`), so it installs an empty shim and marks it current; a
   connection cut in the upload does the same (`provision_retry`).
4. `README.md:33-34` say that `-p`, `-i` and `-F` select the connection's port,
   identity and configuration. The provisioning scripts are given none of them
   (`provision.go:132` and `136`): over a lost master, or in the direct attempt,
   they connect to the default port (`command_line_port`). The check of the agent
   (`agent.go:46`) leaves them out, too.

Four more, each too small for a run of its own: `shim.py:139-140` says that skipping
the directories with a `slush-shim` keeps one wrapper from executing another, but
two directories that only link to two different shims are not skipped and their
wrappers execute each other for ever (`NoWrapperLoop` is claimed under
`OneLinkedShim`; nothing slush installs looks like that); a peer that never completes its
header line is closed without the `ERR` that `server.go:11-13` promises, since
the deadline of `handle` covers writes; a signal that arrives while the channel
of `forwardSignals` is full is dropped (`run_unix.go:79`); the branch of
`checkTransport` that skips the check without python3 is not reached
(`validate.go:138`).

## Plan

1. Done: `ClipboardServer`, `ClipboardExchange` with `ClipboardService`,
   `SessionLifecycle` with `ResourceScope`, `Provision`, `ProcessRun`,
   `CommandLine` with `PortForward` and `HostCompletion`, `RemoteAccount` with
   `Validate`; a proof module for each of them.
2. Done: a theorem for every property of a passing run but liveness.

### Not modelled

The startup files (`bashrc`, `zsh-startup`), which are shell programs; cobra's
parsing and dispatch of flags; the operands of `xclip`, `xsel` and `open`; the
wording of messages; `run_windows.go`, which starts and waits only. They keep no
state and are exercised by the tests. The end-to-end suite is a driver and
not part of the program.
