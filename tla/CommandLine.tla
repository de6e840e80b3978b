------------------------------ MODULE CommandLine ------------------------------
(***************************************************************************)
(* The command lines slush makes of its own: for ssh and mosh in a         *)
(* session, in a validation and in an installation (internal/command/      *)
(* cli.go and install.go, internal/session/session_options.go, args.go,    *)
(* session.go and tunnel.go, internal/remote/environment.go and            *)
(* provision.go).  What the remote scripts do is in Provision, in which    *)
(* order things are set up and torn down in SessionLifecycle; here each    *)
(* step leaves the argument vector it runs, and the properties read it as  *)
(* ssh, mosh and the remote shell do.                                      *)
(*                                                                         *)
(* A word is a sequence of atoms, or empty; " ", "'" and "\\'" are atoms   *)
(* of their own, a dash at the beginning belongs to the first atom.        *)
(***************************************************************************)
EXTENDS PortForward, HostCompletion

CONSTANTS
  Requests,     \* invocations other than completions
  DashedAtoms,  \* the atoms that begin with a dash
  Names,        \* words that may name a host
  Configured    \* whether the user's ssh configuration says ForwardAgent yes

\* The commands of slush, the transports --transport takes, "" where it is not
\* given, and lists of words.
ASSUME RequestAssumption ==
  /\ Requests # {}
  /\ \A r \in Requests :
       /\ r.verb \in {"session", "validate", "install"}
       /\ r.transport \in {"", "auto", "ssh", "mosh"}
       /\ r.agent \in BOOLEAN
       /\ {r.operands, r.local, r.remote} \subseteq Seq(Seq(STRING))
       /\ {r.port, r.identity, r.config} \subseteq Seq(STRING)

\* The options slush and mosh give to ssh begin with a dash, slush's remote scripts
\* do not.
ASSUME DashAssumption ==
  /\ {"-A", "-F", "-L", "-N", "-O", "-R", "-S", "-i", "-n", "-o", "-p", "-t", "--",
       "--no-ssh-pty", "--ssh=", "-oForwardAgent=no"} \subseteq DashedAtoms
  /\ {"install", "agent", "env", "shim", "env direct", "shim direct", "detect",
       "export SLUSH SLUSH_TOKEN SLUSH_PORT BROWSER PATH;"} \intersect DashedAtoms = {}

\* Names are words without marks and blemishes, numbers among them.
ASSUME NameAssumption ==
  /\ DOMAIN Number \subseteq Names /\ Names \intersect (Marks \union Blemish) = {}
  /\ \A r \in Requests : \A text \in ToSet(r.local) \union ToSet(r.remote) : Worded(text, Names)

VARIABLES
  request,  \* the invocation, with the flags as texts
  step,     \* what slush does next
  mode,     \* the transport: "auto" until it is detected
  master,   \* the ControlMaster: "none", "up" or "gone"
  run       \* the command that is run: its step, program and arguments, and
            \* whether the master is up

commandVars == <<request, step, mode, master, run>>

NoRun == [by |-> "none", program |-> "", args |-> <<>>, held |-> FALSE]

AskedTransport == IF request.transport = "" THEN "auto" ELSE request.transport

\* A completion is another run of the same program.
Init ==
  /\ \/ /\ request \in Requests
        /\ step = "options"
        /\ CompletionInit({[f \in File |-> Unreadable]}, {Unreadable}, {CHOOSE t \in Typed : TRUE})
     \/ /\ request = CHOOSE r \in Requests : TRUE
        /\ step = "complete"
        /\ CompletionInit(Contents, KnownHosts, Typed)
  /\ mode = AskedTransport
  /\ master = "none"
  /\ run = NoRun

-----------------------------------------------------------------------------
(* Words, and the quoting of remote.ShellQuote.                            *)

W(atom) == <<atom>>
Opt(flag, value) == <<W(flag), value>>

Dashed(word)       == word # <<>> /\ word[1] \in DashedAtoms
IsOption(word)     == Dashed(word) /\ word # W("--")
Takes(word, flags) == Len(word) = 1 /\ word[1] \in flags

Join(words) ==
  FlattenSeq([i \in 1..Len(words) |-> IF i = 1 THEN words[i] ELSE <<" ">> \o words[i]])

ShellQuote(word) ==
  <<"'">> \o FlattenSeq([i \in 1..Len(word) |->
               IF word[i] = "'" THEN <<"'", "\\'", "'">> ELSE <<word[i]>>]) \o <<"'">>

-----------------------------------------------------------------------------
(* Options: the closure options of newCommand, and nativeOptions.          *)

Host    == request.operands[1]
Command == Tail(request.operands)
ControlPath == <<"ControlPath=", "ctl">>

Forwards(texts) == [i \in 1..Len(texts) |-> ParsePortForward(texts[i])]

\* tcpPort.Set and forwardValues.Set
ValueRefused ==
  \/ \E field \in ToSet(Forwards(request.local) \o Forwards(request.remote)) : field = {}
  \/ request.port # <<>> /\ TCPPort(request.port) = {}

\* requireHost, requireValidationHost, and ExactArgs of install.
OperandsRefused ==
  \/ request.operands = <<>>
  \/ request.verb # "session" /\ Command # <<>>

HostRefused == Dashed(Host) \/ Contains(Host, " ")

\* Flags that were given, whatever they say.
InstallRefused ==
  \/ request.transport # "" \/ request.agent
  \/ request.local \o request.remote # <<>>

Refused ==
  \/ ValueRefused \/ OperandsRefused
  \/ request.verb = "install" /\ InstallRefused
  \/ HostRefused

IfGiven(flag, value) == IF value = <<>> THEN <<>> ELSE Opt(flag, value)

ConnectionFlagsButConfig ==
  IfGiven("-p", IF request.port = <<>> THEN <<>>
                  ELSE W(Itoa(CHOOSE n \in TCPPort(request.port) : TRUE)))
    \o IfGiven("-i", request.identity)
ConnectionFlags ==
  IfGiven("-p", IF request.port = <<>> THEN <<>>
                  ELSE W(Itoa(CHOOSE n \in TCPPort(request.port) : TRUE)))
    \o IfGiven("-i", request.identity)
    \o IfGiven("-F", request.config)

ConnOptsIfForwarding ==
  (IF request.agent THEN Opt("-o", W("ForwardAgent=yes")) ELSE <<>>) \o ConnectionFlags
ConnOpts ==
  Opt("-o", W(IF request.agent THEN "ForwardAgent=yes" ELSE "ForwardAgent=no"))
    \o ConnectionFlags

ForwardOpts(flag, texts) ==
  FlattenSeq([i \in 1..Len(texts) |->
    Opt(flag, Rendered(CHOOSE f \in Forwards(texts)[i] : TRUE))])

NativeArgsFor(transport) ==
  IF transport # "mosh" THEN ConnOpts \o <<Host>> \o Command
  ELSE <<Host>> \o (IF Command = <<>> THEN <<>> ELSE <<W("sh"), W("-c"), Join(Command)>>)
NativeArgs == NativeArgsFor(mode)

-----------------------------------------------------------------------------
(* Finding the host in arguments: sshHostIndex and destinationHostAt.      *)

SSHTakesArgButFiles == {"-b", "-c", "-D", "-J", "-L", "-R", "-l", "-m", "-o", "-p"}
SSHTakesArg == {"-b", "-c", "-D", "-E", "-F", "-I", "-J", "-L", "-R", "-S", "-W", "-Q",
                 "-l", "-i", "-m", "-o", "-p", "-G", "-w"}
MoshTakesArg == {"--client", "--server", "--predict", "--family", "--port", "-p", "--ssh",
                 "--bind-server", "--experimental-remote-ip"}

\* The positions the loop over the arguments comes to: the one after an option, or
\* after its value, until the first word that is none.
Scanned(args, takesArg) ==
  LET upTo[i \in 0..Len(args)] ==
        IF i = 0 THEN {}
        ELSE LET before == upTo[i - 1]
             IN IF i = 1 \/ \E j \in before :
                              /\ IsOption(args[j])
                              /\ i = j + (IF Takes(args[j], takesArg) THEN 2 ELSE 1)
                  THEN before \union {i} ELSE before
  IN upTo[Len(args)]

\* 0 where the code reports that the destination is missing.
HostIndex(args, takesArg) ==
  LET stops == {i \in Scanned(args, takesArg) : ~IsOption(args[i])}
      stop  == CHOOSE i \in stops : TRUE
  IN IF stops = {} \/ (args[stop] = W("--") /\ stop = Len(args)) THEN 0
     ELSE IF args[stop] = W("--") THEN stop + 1 ELSE stop

SSHHostIndex == HostIndex(NativeArgs, SSHTakesArg)

\* sessionHost, when the session is opened; an installation takes the operand.
SessionHost ==
  LET args == NativeArgsFor(AskedTransport)
      at   == HostIndex(args, IF AskedTransport = "mosh" THEN MoshTakesArg ELSE SSHTakesArg)
  IN IF request.verb = "install" THEN Host ELSE args[at]

HeadOf(args, at) == SubSeq(args, 1, at)
TailOf(args, at) == SubSeq(args, at + 1, Len(args))

-----------------------------------------------------------------------------
(* The remote environment (environment.go).                                *)

Exports == <<"export SLUSH SLUSH_TOKEN SLUSH_PORT BROWSER PATH;", " ">>
ExportSocket == <<"export SSH_AUTH_SOCK=">> \o ShellQuote(<<"held-socket">>) \o <<";", " ">>
InteractiveShell == <<"interactive-shell">>
ExecParameters   == <<"exec \"$@\"">>

SSHCommand(command) ==
  Exports \o IF command = <<>> THEN InteractiveShell ELSE Join(command)

MoshCommand(command, socket) ==
  LET script == Exports \o (IF socket THEN ExportSocket ELSE <<>>)
  IN IF command = <<>> THEN <<W("sh"), W("-c"), script \o InteractiveShell>>
     ELSE <<W("sh"), W("-c"), script \o ExecParameters, W("sh")>> \o command

\* withRemoteEnvSSH, sshClientArgs
SSHClientArgs(terminal) ==
  LET at == SSHHostIndex
  IN Opt("-o", ControlPath) \o (IF Command = <<>> /\ terminal THEN <<W("-t")>> ELSE <<>>)
       \o HeadOf(NativeArgs, at) \o <<SSHCommand(TailOf(NativeArgs, at))>>

\* withRemoteEnvMosh, splitMoshCommand
MoshUnseparated ==
  LET at == HostIndex(NativeArgs, MoshTakesArg)
  IN HeadOf(NativeArgs, at) \o MoshCommand(TailOf(NativeArgs, at), request.agent)
MoshWrapped ==
  LET at   == HostIndex(NativeArgs, MoshTakesArg)
      head == HeadOf(NativeArgs, at - 1)
      pre  == IF head # <<>> /\ Last(head) = W("--") THEN Front(head) ELSE head
  IN pre \o <<W("--"), NativeArgs[at]>> \o MoshCommand(TailOf(NativeArgs, at), request.agent)

\* withMoshSSHControlPath changes the first --ssh= it finds.
WithMoshControlPath(args) ==
  LET first == SelectInSeq(args, LAMBDA word : word[1] = "--ssh=")
      added == <<" ", "-o", " ">> \o ControlPath
  IN IF first = 0 THEN <<<<"--ssh=", "ssh">> \o added>> \o args
                  ELSE [args EXCEPT ![first] = @ \o added]

\* moshClientArgs
MoshBootstrapDefaults ==
  WithMoshControlPath(<<W("--no-ssh-pty"), <<"--ssh=", "ssh", " ", "-oForwardAgent=no">>>> \o MoshWrapped)
MoshClientArgs ==
  LET quoted == [i \in 1..Len(ConnOpts) |-> ShellQuote(ConnOpts[i])]
  IN WithMoshControlPath(
       <<W("--no-ssh-pty"),
         <<"--ssh=", "ssh", " ", "-oForwardAgent=no", " ">> \o Join(quoted)>> \o MoshWrapped)

-----------------------------------------------------------------------------
(* The steps.                                                              *)

MasterArgs ==
  <<W("-N")>>
    \o Opt("-o", W("ExitOnForwardFailure=yes")) \o Opt("-o", W("ControlMaster=yes"))
    \o Opt("-o", ControlPath) \o Opt("-o", W("ControlPersist=no"))
    \o ConnOpts
    \o ForwardOpts("-L", request.local) \o ForwardOpts("-R", request.remote)
    \o <<SessionHost>>

SSHExecArgs(extra, script) ==
  extra \o Opt("-o", W("BatchMode=yes")) \o Opt("-o", W("ConnectTimeout=10")) \o <<SessionHost, script>>

NoMaster == Opt("-o", W("ControlMaster=no"))
Held     == Opt("-S", <<"ctl">>)

Execute(program, args, next) ==
  /\ run' = [by |-> step, program |-> program, args |-> args, held |-> master = "up"]
  /\ step' = next
  /\ UNCHANGED <<request, completionVars>>

ReadOptions ==
  /\ step = "options"
  /\ step' = IF Refused THEN "refused"
             ELSE IF request.verb = "install" THEN "install" ELSE "master"
  /\ UNCHANGED <<request, mode, master, run, completionVars>>

\* The agent, or a file that -i or -F names, is not there; or ssh is not.
OptionsFail ==
  /\ step = "options"
  /\ step' = "refused"
  /\ UNCHANGED <<request, mode, master, run, completionVars>>

Install ==
  /\ step = "install"
  /\ Execute("ssh", SSHExecArgs(ConnectionFlags, <<"install">>), "over")
  /\ UNCHANGED <<mode, master>>

StartMaster ==
  /\ step = "master"
  /\ master' \in {"up", "gone"}
  /\ Execute("ssh", MasterArgs, "check")
  /\ UNCHANGED mode

\* A master that has ended or does not answer in time ends the set-up.
CheckMaster ==
  /\ step = "check"
  /\ Execute("ssh", Opt("-o", ControlPath) \o Opt("-O", W("check")) \o <<SessionHost>>,
             IF master = "up" THEN "forward" ELSE "exit")
  /\ UNCHANGED <<mode, master>>

\* Again with another port while the remote one is busy, or not.
ForwardClipboard ==
  /\ step = "forward"
  /\ \E next \in {"forward", IF request.agent THEN "agent" ELSE "env", "exit"} :
       Execute("ssh", Opt("-o", ControlPath) \o NoMaster \o Opt("-O", W("forward"))
                        \o Opt("-R", <<"clipboard">>) \o <<SessionHost>>, next)
  /\ UNCHANGED <<mode, master>>

CheckRemoteAgent ==
  /\ step = "agent"
  /\ \E next \in {"env", "exit"} :
       Execute("ssh", SSHExecArgs(<<W("-A")>> \o NoMaster \o Held, <<"agent">>), next)
  /\ UNCHANGED <<mode, master>>

AfterProvision == IF mode = "auto" THEN "detect" ELSE "client"

Directly == [env |-> "env direct", shim |-> "shim direct"]

\* runProvisionExec, for the credentials and then for the shim, if that must be
\* installed: over the master, and when that fails directly.
ProvisionOverMaster ==
  /\ step \in {"env", "shim"}
  /\ \E next \in {Directly[step], AfterProvision} \union (IF step = "env" THEN {"shim"} ELSE {}) :
       Execute("ssh", SSHExecArgs(NoMaster \o Held, <<step>>), next)
  /\ UNCHANGED <<mode, master>>

ProvisionDirectly ==
  /\ step \in {"env direct", "shim direct"}
  /\ \E next \in {AfterProvision} \union (IF step = "env direct" THEN {"shim"} ELSE {}) :
       Execute("ssh", SSHExecArgs(<<>>, <<step>>), next)
  /\ UNCHANGED <<mode, master>>

\* autoTransport: no mosh here, or what the remote host says.
NoLocalMosh ==
  /\ step = "detect"
  /\ mode' = "ssh" /\ step' = "client"
  /\ UNCHANGED <<request, master, run, completionVars>>

DetectTransport ==
  /\ step = "detect"
  /\ \E answer \in {"mosh", "ssh", "error"} :
       /\ mode' = IF answer = "error" THEN mode ELSE answer
       /\ Execute("ssh", SSHExecArgs(NoMaster \o Opt("-o", W("ProxyCommand=false")) \o Held
                                       \o ConnOpts, <<"detect">>),
                  IF answer = "error" THEN "exit" ELSE "client")
  /\ UNCHANGED master

RunClient ==
  /\ step = "client" /\ request.verb = "session"
  /\ IF mode = "mosh" THEN Execute("mosh", MoshClientArgs, "exit")
     ELSE \E terminal \in BOOLEAN : Execute("ssh", SSHClientArgs(terminal), "exit")
  /\ UNCHANGED <<mode, master>>

\* The checks of validate: one that inspects the session's wrapper, the others
\* plain scripts, any number of them.
CheckScript == <<"'", "check", "'", " ", "\"$SLUSH\"">>

WrappedCommand(command) ==
  IF mode = "mosh"
    THEN LET wrapped == MoshCommand(<<W("sh"), W("-c"), command>>, FALSE)
         IN <<"sh", " ", "-c", " ">> \o ShellQuote(wrapped[3]) \o <<" ">>
              \o Join([i \in 1..Len(wrapped) - 3 |-> ShellQuote(wrapped[i + 3])])
    ELSE SSHCommand(<<command>>)

Probe ==
  /\ step = "client" /\ request.verb = "validate"
  /\ \E script \in {CheckScript, WrappedCommand(CheckScript)}, next \in {"client", "exit"} :
       Execute("ssh", SSHExecArgs(NoMaster \o Held \o ConnOpts, Exports \o script), next)
  /\ UNCHANGED <<mode, master>>

StopTunnel ==
  /\ step = "exit"
  /\ master' = "gone"
  /\ Execute("ssh", Opt("-o", ControlPath) \o Opt("-O", W("exit")) \o <<SessionHost>>, "over")
  /\ UNCHANGED mode

MasterDies ==
  /\ master = "up" /\ step # "over"
  /\ master' = "gone"
  /\ UNCHANGED <<request, step, mode, run, completionVars>>

Complete ==
  /\ step = "complete"
  /\ CompletionNext
  /\ UNCHANGED commandVars

Next ==
  \/ ReadOptions \/ OptionsFail \/ Install
  \/ StartMaster \/ CheckMaster \/ ForwardClipboard \/ CheckRemoteAgent
  \/ ProvisionOverMaster \/ ProvisionDirectly
  \/ NoLocalMosh \/ DetectTransport \/ RunClient \/ Probe
  \/ StopTunnel \/ MasterDies \/ Complete

Spec == Init /\ [][Next]_<<commandVars, completionVars>>

-----------------------------------------------------------------------------
(* How ssh, mosh and the shells read a command line.                       *)

RealSSHTakesArg ==
  {"-B", "-b", "-c", "-D", "-E", "-e", "-F", "-I", "-i", "-J", "-L", "-l", "-m", "-O", "-o",
   "-P", "-p", "-Q", "-R", "-S", "-W", "-w"}

\* Options may stand before and after the destination; the command begins with
\* the first word after it that is none.
SSHReads(args) ==
  LET h    == HostIndex(args, RealSSHTakesArg)
      rest == TailOf(args, h)
      c    == HostIndex(rest, RealSSHTakesArg)
  IN IF h = 0 THEN [host |-> <<>>, options |-> args, command |-> <<>>]
     ELSE [host    |-> args[h],
           options |-> HeadOf(args, h - 1) \o (IF c = 0 THEN rest ELSE HeadOf(rest, c - 1)),
           command |-> IF c = 0 THEN <<>> ELSE Join(TailOf(rest, c - 1))]

\* Where a flag stands among options, and what it is given.
FlagAt(options, flag) ==
  {i \in Scanned(options, RealSSHTakesArg) : options[i] = W(flag) /\ i < Len(options)}
GivenTo(options, flag) == {options[i + 1] : i \in FlagAt(options, flag)}
ValuesOfFlag(options, flag) ==
  LET found[i \in 0..Len(options)] ==
        IF i = 0 THEN <<>>
        ELSE IF i \in FlagAt(options, flag) THEN Append(found[i - 1], options[i + 1])
        ELSE found[i - 1]
  IN found[Len(options)]

\* The first of them counts.
AgentIn(options) ==
  LET at == SelectInSeq(options, LAMBDA word : word[1] \in
              {"-A", "ForwardAgent=yes", "ForwardAgent=no", "-oForwardAgent=no"})
  IN IF at = 0 THEN Configured ELSE options[at][1] \in {"-A", "ForwardAgent=yes"}

\* What a shell, and mosh for its --ssh, makes of one atom: inside quotes everything
\* but a quote stands for itself, outside a blank ends a word that has begun.
ReadAtom(s, atom) ==
  CASE s.open /\ atom = "'"        -> [s EXCEPT !.open = FALSE]
    [] s.open /\ atom # "'"        -> [s EXCEPT !.word = Append(@, atom)]
    [] ~s.open /\ atom = "'"       -> [s EXCEPT !.open = TRUE, !.begun = TRUE]
    [] ~s.open /\ atom = "\\'"     -> [s EXCEPT !.word = Append(@, "'"), !.begun = TRUE]
    [] ~s.open /\ atom = " "       ->
         [open |-> FALSE, begun |-> FALSE, word |-> <<>>,
          words |-> IF s.begun THEN Append(s.words, s.word) ELSE s.words]
    [] OTHER                       -> [s EXCEPT !.word = Append(@, atom), !.begun = TRUE]

\* The words of a text, which ends like a blank.
ShellWords(text) ==
  LET atoms == Append(text, " ")
      read[i \in 0..Len(atoms)] ==
        IF i = 0 THEN [open |-> FALSE, begun |-> FALSE, word |-> <<>>, words |-> <<>>]
                 ELSE ReadAtom(read[i - 1], atoms[i])
  IN read[Len(atoms)].words

\* mosh takes options anywhere before "--" and abbreviates --client to -c.
MoshOperands(args) ==
  LET from[i \in 1..Len(args) + 2] ==
        IF i > Len(args) THEN <<>>
        ELSE IF args[i] = W("--") THEN TailOf(args, i)
        ELSE IF ~Dashed(args[i]) THEN <<args[i]>> \o from[i + 1]
        ELSE from[i + (IF Takes(args[i], MoshTakesArg \union {"-c"}) THEN 2 ELSE 1)]
  IN from[1]

\* mosh's default IP discovery: a proxy, and no multiplexing.
MoshDiscovery == <<W("-n")>> \o Opt("-S", W("none")) \o Opt("-o", W("ProxyCommand=mosh"))

\* The ssh mosh bootstraps with: the words of --ssh, the host and mosh-server.
Bootstrap(args) ==
  LET at == SelectInSeq(args, LAMBDA word : word[1] = "--ssh=")
  IN Tail(ShellWords(Tail(args[at]))) \o MoshDiscovery
       \o <<MoshOperands(args)[1], W("--"), W("mosh-server")>>

\* What is left for a shell to run after the exports of the session, with the held
\* socket among them or not.
AfterExports(text, socket) ==
  LET exports == Exports \o (IF socket THEN ExportSocket ELSE <<>>)
  IN IF IsPrefix(exports, text) THEN TailOf(text, Len(exports)) ELSE text

\* mosh-server executes words; theirs is sh -c, and with parameters sh -c again.
WordsRun(words, socket) ==
  CASE Len(words) = 3 -> AfterExports(words[3], socket)
    [] Len(words) = 7 /\ AfterExports(words[3], socket) = ExecParameters -> words[7]
    [] OTHER -> <<"something else">>
TextRuns(text) ==
  IF IsPrefix(<<"sh", " ", "-c", " ">>, text) THEN WordsRun(ShellWords(text), FALSE)
  ELSE AfterExports(text, FALSE)

-----------------------------------------------------------------------------
Ran(program, step_) == run.by = step_ /\ run.program = program

SSHArgs == IF run.program = "mosh" THEN Bootstrap(run.args) ELSE run.args
Read    == SSHReads(SSHArgs)

\* Type invariant of an invocation and of a completion.
TypeOK ==
  /\ request.verb \in {"session", "validate", "install"}
  /\ step \in {"complete", "options", "refused", "install", "master", "check", "forward",
               "agent", "env", "env direct", "shim", "shim direct", "detect", "client",
               "exit", "over"}
  /\ mode \in {"auto", "ssh", "mosh"}
  /\ step = "client" => mode # "auto"
  /\ master \in {"none", "up", "gone"}
  /\ run.program \in {"", "ssh", "mosh"}
  /\ completing \in {"config", "known", "matching", "done"}
  /\ hosts \intersect Unlisted = {}

\* -S overrides a ControlPath of -o wherever it stands, and "none" is no path.
FindsControlPath(options) ==
  IF GivenTo(options, "-S") = {} THEN ControlPath \in GivenTo(options, "-o")
  ELSE GivenTo(options, "-S") = {W("ctl")}

\* However the user's command, key or forwards look, every ssh that slush starts
\* takes the user's host for its destination and slush's script, whole, for its
\* command, and finds the session's control path.
SSHReadsTheHost ==
  run.program = "ssh" =>
    /\ Read.host = Host
    /\ Read.command = IF run.by \in {"master", "check", "forward", "exit"} THEN <<>>
                      ELSE Last(run.args)
    /\ run.by \notin {"install", "env direct", "shim direct"} => FindsControlPath(Read.options)

\* The user's command reaches the remote shell as typed in either transport,
\* past every layer of quoting; and a check of validate that asks for the
\* session's wrapper runs its own script within it.
CommandReachesShell ==
  /\ run.by = "client" /\ request.verb = "session" =>
       (IF run.program = "ssh" THEN TextRuns(Read.command)
          ELSE WordsRun(Tail(MoshOperands(run.args)), request.agent))
         = IF Command = <<>> THEN InteractiveShell ELSE Join(Command)
  /\ run.by = "client" /\ request.verb = "validate" =>
       /\ IsPrefix(Exports, Read.command)
       /\ TextRuns(TailOf(Read.command, Len(Exports))) = CheckScript

\* The held connection forwards the agent if and only if -A was given, whatever
\* the ssh configuration says, and so does an ssh client.
HeldAgentIffAsked ==
  (run.by = "master" \/ Ran("ssh", "client")) => AgentIn(Read.options) = request.agent

\* A command that cannot ride the master opens a connection of its own.
ConnectsItself ==
  /\ run.by \notin {"none", "check", "forward", "exit", "detect"}
  /\ run.by \in {"install", "master", "env direct", "shim direct"} \/ run.program = "mosh" \/ ~run.held

GoesWhereAsked ==
  /\ {TCPPort(port) : port \in GivenTo(Read.options, "-p")}
       = IF request.port = <<>> THEN {} ELSE {TCPPort(request.port)}
  /\ GivenTo(Read.options, "-i") = IF request.identity = <<>> THEN {} ELSE {request.identity}
  /\ GivenTo(Read.options, "-F") = IF request.config = <<>> THEN {} ELSE {request.config}

\* The master, an installation, and the ssh client and checks of a session whose
\* master is gone connect with the port, the identity and the configuration the
\* user named.
SessionConnectsWhereAsked ==
  run.program = "ssh" /\ ConnectsItself /\ run.by \in {"master", "client", "install"} =>
    GoesWhereAsked

\* The ssh that mosh bootstraps with takes the user's host, port, identity and
\* configuration out of the one word of --ssh, quotes included. It is given the
\* session's control path there, but mosh's -S none overrides it, so that it opens a
\* connection of its own: that one never forwards the agent, and with -A the mosh
\* session gets the held socket instead.
MoshConnectsAlike ==
  run.program = "mosh" =>
    /\ Read.host = Host /\ Read.command = <<"mosh-server">>
    /\ ControlPath \in GivenTo(Read.options, "-o") /\ ~FindsControlPath(Read.options)
    /\ GoesWhereAsked
    /\ ~AgentIn(Read.options)
    /\ IsPrefix(Exports \o ExportSocket, MoshOperands(run.args)[4]) <=> request.agent

\* The README's claim of -p, -i and -F, for every connection slush opens.
EveryConnectionWhereAsked == ConnectsItself => GoesWhereAsked

\* What -L and -R accept and what ssh then hears is what the README documents.
ForwardsAsDocumented ==
  /\ step = "options" =>
       \A text \in ToSet(request.local \o request.remote) :
         (ParsePortForward(text) = {}) <=> (DocumentedForwards(text, Names) = {})
  /\ run.by = "master" =>
       \A pair \in {<<"-L", request.local>>, <<"-R", request.remote>>} :
         LET heard == ValuesOfFlag(Read.options, pair[1])
         IN /\ Len(heard) = Len(pair[2])
            /\ \A i \in 1..Len(heard) :
                 SSHForward(heard[i]) = DocumentedForwards(pair[2][i], Names)
=============================================================================
