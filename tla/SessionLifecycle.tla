---------------------------- MODULE SessionLifecycle ----------------------------
(***************************************************************************)
(* The life of one slush process: session.Run and validate.Run, which      *)
(* share session.Open (internal/session/session.go), the ssh master it     *)
(* holds as a child (internal/session/tunnel.go) and the client process it *)
(* runs (internal/process).                                                *)
(*                                                                         *)
(* Two threads run: the main goroutine (pc) and the goroutine that waits   *)
(* for the master (waiter), which hands the exit status over in waitCh.    *)
(* The master and the client are processes of their own, which may end at  *)
(* any moment; a signal may kill slush at any moment when no handler is    *)
(* installed.  The outcome of every external command (ssh -O ..., the      *)
(* probe, provisioning) is a choice.                                       *)
(***************************************************************************)
EXTENDS Integers

CONSTANTS
  Ports,        \* ephemeral ports; 1..65535 in the code
  NoPort,       \* not a port
  MaxAttempts   \* clipboardForwardAttempts

ASSUME PortsAssumption == NoPort \notin Ports
ASSUME AttemptsAssumption == MaxAttempts \in Nat \ {0}

VARIABLES
  job,        \* "session" (session.Run) or "validate" (validate.Run)
  transport,  \* "ssh", "mosh", or "auto" until autoTransport has chosen
  agent,      \* Options.ForwardAgent
  localMosh,  \* mosh is on the local PATH
  pc,         \* where the main goroutine is
  listener,   \* the port of the open local listener, or NoPort
  port,       \* Server.port
  dir,        \* the temporary directory of the control socket exists
  master,     \* the ssh master process
  waiter,     \* the goroutine of startSSHTunnel that calls cmd.Wait
  waitCh,     \* its result is in the channel
  waited,     \* waitOnce has been used
  forward,    \* the remote loopback port the master forwards here, or NoPort
  attempt,    \* rounds of bindClipboardForward done
  advertised, \* sessionParams.remotePort, or NoPort
  client,     \* the ssh or mosh client process
  notify      \* forwardSignals has installed its handler

optionVars == <<job, transport, agent, localMosh>>
serverVars == <<listener, port>>
tunnelVars == <<dir, master, waiter, waitCh, waited, forward, attempt>>
clientVars == <<advertised, client, notify>>
vars == <<optionVars, pc, serverVars, tunnelVars, clientVars>>

\* establishSession and its callers leave by the same steps, in this order:
\* Stop of the tunnel, RemoveAll, Stop of the server, exit.
Cleanup == {"exitMaster", "kill", "reap", "rmdir", "stopServer", "return"}
Setup   == {"start", "lookup", "mkdir", "startMaster", "waitReady", "forward",
            "relisten", "agent", "provision", "probe", "lookupClient"}
Working == {"runClient", "started", "client", "checks"}
Ended   == {"exited", "killed"}

MasterAlive == master \in {"connecting", "ready"}

Init ==
  /\ job \in {"session", "validate"}
  /\ transport \in {"ssh", "mosh", "auto"}
  /\ agent \in BOOLEAN /\ localMosh \in BOOLEAN
  /\ pc = "start"
  /\ listener = NoPort /\ port = NoPort
  /\ dir = FALSE
  /\ master = "none" /\ waiter = "none"
  /\ waitCh = FALSE /\ waited = FALSE
  /\ forward = NoPort /\ attempt = 0
  /\ advertised = NoPort
  /\ client = "none" /\ notify = FALSE

Goto(from, to) == pc = from /\ pc' = to

-----------------------------------------------------------------------------
(* session.Run and validate.Run up to Open.                                *)

\* protocol.StartServer
StartServer ==
  /\ \/ /\ Goto("start", "lookup")
        /\ port' \in Ports /\ listener' = port'
     \/ Goto("start", "exited") /\ UNCHANGED serverVars
  /\ UNCHANGED <<optionVars, tunnelVars, clientVars>>

\* clientPath, LookPath("ssh") and sessionHost succeed, or one of them fails.
Lookup ==
  /\ Goto("lookup", "mkdir") \/ Goto("lookup", "stopServer")
  /\ UNCHANGED <<optionVars, serverVars, tunnelVars, clientVars>>

-----------------------------------------------------------------------------
(* establishSession.                                                       *)

MkdirTemp ==
  /\ \/ Goto("mkdir", "startMaster") /\ dir' = TRUE
     \/ Goto("mkdir", "stopServer") /\ UNCHANGED dir
  /\ UNCHANGED <<master, waiter, waitCh, waited, forward, attempt>>
  /\ UNCHANGED <<optionVars, serverVars, clientVars>>

\* startSSHTunnel: the child, and the goroutine that waits for it.
StartMaster ==
  /\ \/ /\ Goto("startMaster", "waitReady")
        /\ master' = "connecting"
        /\ waiter' = "waiting"
     \/ Goto("startMaster", "rmdir") /\ UNCHANGED <<master, waiter>>
  /\ UNCHANGED <<dir, waitCh, waited, forward, attempt>>
  /\ UNCHANGED <<optionVars, serverVars, clientVars>>

\* waitUntilReady receives from waitCh; noteWait records that it has, so that
\* wait does not receive again.
MasterExitUnnoted ==
  /\ Goto("waitReady", "exitMaster")
  /\ waitCh
  /\ waitCh' = FALSE
  /\ UNCHANGED <<dir, master, waiter, waited, forward, attempt>>
  /\ UNCHANGED <<optionVars, serverVars, clientVars>>
MasterExitNoted ==
  /\ Goto("waitReady", "exitMaster")
  /\ waitCh
  /\ waitCh' = FALSE
  /\ waited' = TRUE
  /\ UNCHANGED <<dir, master, waiter, forward, attempt>>
  /\ UNCHANGED <<optionVars, serverVars, clientVars>>

\* checkMaster succeeds at a tick.
MasterIsReady ==
  /\ Goto("waitReady", "forward")
  /\ master = "ready"
  /\ UNCHANGED <<optionVars, serverVars, tunnelVars, clientVars>>

\* sshTunnelReadyWait passes.
WaitsForever ==
  /\ pc = "waitReady" /\ master = "none"
  /\ UNCHANGED vars
ReadyTimeout ==
  /\ Goto("waitReady", "exitMaster")
  /\ UNCHANGED <<optionVars, serverVars, tunnelVars, clientVars>>

\* bindClipboardForward: forwardClipboard(server.Port()) and its outcomes.
ForwardOk ==
  /\ Goto("forward", "agent")
  /\ master = "ready"
  /\ forward' = port
  /\ advertised' = port
  /\ UNCHANGED <<dir, master, waiter, waitCh, waited, attempt, client, notify>>
  /\ UNCHANGED <<optionVars, serverVars>>

ForwardBusy ==
  /\ Goto("forward", "relisten")
  /\ master = "ready"
  /\ UNCHANGED <<optionVars, serverVars, tunnelVars, clientVars>>

ForwardErrorIgnored ==
  /\ Goto("forward", "exitMaster") \/ Goto("forward", "agent")
  /\ UNCHANGED <<optionVars, serverVars, tunnelVars, clientVars>>
ForwardFails ==
  /\ Goto("forward", "exitMaster")
  /\ UNCHANGED <<optionVars, serverVars, tunnelVars, clientVars>>

\* Server.Relisten after a busy port, also after the last attempt.
RelistenLeavesPort ==
  /\ pc = "relisten"
  /\ attempt' = attempt + 1
  /\ listener' \in Ports \ {listener}
  /\ pc' = IF attempt' < MaxAttempts THEN "forward" ELSE "exitMaster"
  /\ UNCHANGED <<port, dir, master, waiter, waitCh, waited, forward>>
  /\ UNCHANGED <<optionVars, clientVars>>
RelistenWithoutEnd ==
  /\ pc = "relisten"
  /\ attempt' = attempt + 1
  /\ port' \in Ports \ {listener} /\ listener' = port'
  /\ pc' = "forward"
  /\ UNCHANGED <<dir, master, waiter, waitCh, waited, forward>>
  /\ UNCHANGED <<optionVars, clientVars>>
Relisten ==
  /\ pc = "relisten"
  /\ attempt' = attempt + 1
  /\ port' \in Ports \ {listener} /\ listener' = port'
  /\ pc' = IF attempt' < MaxAttempts THEN "forward" ELSE "exitMaster"
  /\ UNCHANGED <<dir, master, waiter, waitCh, waited, forward>>
  /\ UNCHANGED <<optionVars, clientVars>>

RelistenFails ==
  /\ Goto("relisten", "exitMaster")
  /\ UNCHANGED <<optionVars, serverVars, tunnelVars, clientVars>>

\* checkRemoteAgent, when the agent is to be forwarded.
CheckAgent ==
  /\ Goto("agent", "provision") \/ (agent /\ Goto("agent", "exitMaster"))
  /\ UNCHANGED <<optionVars, serverVars, tunnelVars, clientVars>>

AfterOpen == IF job = "session" THEN "runClient" ELSE "checks"

\* remote.Provision: an error is reported and the session goes on.
Provision ==
  /\ pc = "provision"
  /\ pc' = IF transport = "auto" THEN "probe" ELSE AfterOpen
  /\ UNCHANGED <<optionVars, serverVars, tunnelVars, clientVars>>

\* autoTransport: without a local mosh no probe is made; the probe needs the
\* held master, and its failure or a strange answer ends the session.
ProbeTransport ==
  /\ pc = "probe"
  /\ \/ /\ transport' \in IF localMosh THEN {"ssh", "mosh"} ELSE {"ssh"}
        /\ localMosh => master = "ready"
        /\ pc' = IF job = "session" THEN "lookupClient" ELSE "checks"
     \/ localMosh /\ pc' = "exitMaster" /\ UNCHANGED transport
  /\ UNCHANGED <<job, agent, localMosh>>
  /\ UNCHANGED <<serverVars, tunnelVars, clientVars>>

\* Run looks the chosen client up again.
LookupClient ==
  /\ Goto("lookupClient", "runClient") \/ Goto("lookupClient", "exitMaster")
  /\ UNCHANGED <<optionVars, serverVars, tunnelVars, clientVars>>

-----------------------------------------------------------------------------
(* runClient and process.Run; the checks of validate.                      *)

StartClient ==
  /\ \/ Goto("runClient", "started") /\ client' = "running"
     \/ Goto("runClient", "exitMaster") /\ UNCHANGED client
  /\ UNCHANGED <<advertised, notify>>
  /\ UNCHANGED <<optionVars, serverVars, tunnelVars>>

\* The terminal's foreground group cannot be set: the client is killed and
\* reaped before Run returns.
ForegroundFails ==
  /\ Goto("started", "client")
  /\ client' = "done"
  /\ UNCHANGED <<advertised, notify>>
  /\ UNCHANGED <<optionVars, serverVars, tunnelVars>>

ForwardSignals ==
  /\ Goto("started", "client")
  /\ notify' = TRUE
  /\ UNCHANGED <<advertised, client>>
  /\ UNCHANGED <<optionVars, serverVars, tunnelVars>>

\* cmd.Wait returns and the deferred stop function runs.
ClientReturns ==
  /\ Goto("client", "exitMaster")
  /\ client = "done"
  /\ notify' = FALSE
  /\ UNCHANGED <<advertised, client>>
  /\ UNCHANGED <<optionVars, serverVars, tunnelVars>>

\* The probes of validate.Run after Open; connection.Close is deferred.
ChecksEnd ==
  /\ Goto("checks", "exitMaster")
  /\ UNCHANGED <<optionVars, serverVars, tunnelVars, clientVars>>

-----------------------------------------------------------------------------
(* The way out: sshTunnel.Stop, RemoveAll, Server.Stop, in this order.     *)

\* A master that is up drops its remote forwards when it goes.
MasterGone == master' = "dead" /\ forward' = NoPort

\* ssh -O exit reaches a master only over its control socket.
ExitMaster ==
  /\ Goto("exitMaster", "kill")
  /\ \/ master = "ready" /\ MasterGone
     \/ UNCHANGED <<master, forward>>
  /\ UNCHANGED <<dir, waiter, waitCh, waited, attempt>>
  /\ UNCHANGED <<optionVars, serverVars, clientVars>>

StopOnlyAsks ==
  /\ Goto("kill", "rmdir")
  /\ UNCHANGED <<optionVars, serverVars, tunnelVars, clientVars>>
Kill ==
  /\ Goto("kill", "reap")
  /\ MasterGone
  /\ UNCHANGED <<dir, waiter, waitCh, waited, attempt>>
  /\ UNCHANGED <<optionVars, serverVars, clientVars>>

\* wait: receive from waitCh unless waitUntilReady already has.
NoReap ==
  /\ Goto("reap", "rmdir")
  /\ UNCHANGED <<optionVars, serverVars, tunnelVars, clientVars>>
Reap ==
  /\ Goto("reap", "rmdir")
  /\ waited \/ waitCh
  /\ waited' = TRUE
  /\ waitCh' = IF waited THEN waitCh ELSE FALSE
  /\ UNCHANGED <<dir, master, waiter, forward, attempt>>
  /\ UNCHANGED <<optionVars, serverVars, clientVars>>

RemoveAll ==
  /\ Goto("rmdir", "stopServer")
  /\ dir' = FALSE
  /\ UNCHANGED <<master, waiter, waitCh, waited, forward, attempt>>
  /\ UNCHANGED <<optionVars, serverVars, clientVars>>

StopServer ==
  /\ Goto("stopServer", "return")
  /\ listener' = NoPort
  /\ UNCHANGED <<port, optionVars, tunnelVars, clientVars>>

Exit ==
  /\ Goto("return", "exited")
  /\ UNCHANGED <<optionVars, serverVars, tunnelVars, clientVars>>

-----------------------------------------------------------------------------
(* The goroutine that waits for the master.                                *)

WaiterSends ==
  /\ waiter = "waiting" /\ master = "dead" /\ pc \notin Ended
  /\ waiter' = "done"
  /\ waitCh' = TRUE
  /\ UNCHANGED <<dir, master, waited, forward, attempt>>
  /\ UNCHANGED <<optionVars, pc, serverVars, clientVars>>

-----------------------------------------------------------------------------
(* The processes and signals around slush.                                 *)

MasterConnects ==
  /\ master = "connecting"
  /\ master' = "ready"
  /\ UNCHANGED <<dir, waiter, waitCh, waited, forward, attempt>>
  /\ UNCHANGED <<optionVars, pc, serverVars, clientVars>>

\* Authentication fails, a forward cannot be set up, the connection is lost.
MasterDies ==
  /\ MasterAlive /\ MasterGone
  /\ UNCHANGED <<dir, waiter, waitCh, waited, attempt>>
  /\ UNCHANGED <<optionVars, pc, serverVars, clientVars>>

\* The client ends by itself or because of a signal forwarded to it.
ClientEnds ==
  /\ client = "running"
  /\ client' = "done"
  /\ UNCHANGED <<advertised, notify>>
  /\ UNCHANGED <<optionVars, pc, serverVars, tunnelVars>>

\* SIGINT, SIGTERM or SIGQUIT while no handler is installed, or SIGHUP, kills
\* slush.  The kernel closes its listener; its children live on.
Killed ==
  /\ pc \notin Ended
  /\ pc' = "killed"
  /\ listener' = NoPort
  /\ notify' = FALSE
  /\ UNCHANGED <<port, advertised, client>>
  /\ UNCHANGED <<optionVars, tunnelVars>>

-----------------------------------------------------------------------------
Main ==
  \/ StartServer \/ Lookup \/ MkdirTemp \/ StartMaster
  \/ MasterExitNoted \/ MasterIsReady \/ ReadyTimeout
  \/ ForwardOk \/ ForwardBusy \/ ForwardFails \/ Relisten \/ RelistenFails
  \/ CheckAgent \/ Provision \/ ProbeTransport \/ LookupClient
  \/ StartClient \/ ForegroundFails \/ ForwardSignals \/ ClientReturns
  \/ ChecksEnd
  \/ ExitMaster \/ Kill \/ Reap \/ RemoveAll \/ StopServer
  \/ Exit

Environment == MasterConnects \/ MasterDies \/ ClientEnds \/ Killed

Next == Main \/ WaiterSends \/ Environment

Spec == Init /\ [][Next]_vars

\* The Go scheduler runs both goroutines, and every external command the main
\* goroutine runs returns.  Nothing is assumed of the master, of the client or
\* of the user.
FairSpec == Spec /\ WF_vars(Main) /\ WF_vars(WaiterSends)

-----------------------------------------------------------------------------
(* The resources of the abstract specification.                            *)

Resources == {"server", "dir", "master", "forward", "client"}

ResourceNeeds ==
  [r \in Resources |->
     CASE r = "master"  -> {"dir"}
       [] r = "forward" -> {"master", "server"}
       [] r = "client"  -> {"dir", "server"}
       [] OTHER         -> {}]

Held == {r \in Resources :
           \/ r = "server"  /\ listener # NoPort
           \/ r = "dir"     /\ dir
           \/ r = "master"  /\ MasterAlive
           \/ r = "forward" /\ forward # NoPort
           \/ r = "client"  /\ client = "running"}

Phase == CASE pc = "exited"    -> "over"
           [] pc = "killed"    -> "crashed"
           [] pc \in Cleanup  -> "releasing"
           [] OTHER            -> "acquiring"

Scope == INSTANCE ResourceScope
           WITH Resource <- Resources, Needs <- ResourceNeeds,
                Own <- {"server"}, phase <- Phase, held <- Held

\* slush sets its resources up and tears them down in an order that leaves
\* none of them without what it needs: no remote forward without a local
\* listener, no master without its control directory (establishSession, Close,
\* the deferred calls of Run).
OrderedScope == Scope!ScopeSpec

-----------------------------------------------------------------------------
(* Properties.                                                             *)

\* Type invariant of the process and of what it holds.
TypeOK ==
  /\ job \in {"session", "validate"}
  /\ transport \in {"ssh", "mosh", "auto"}
  /\ agent \in BOOLEAN /\ localMosh \in BOOLEAN
  /\ pc \in Setup \union Working \union Cleanup \union Ended
  /\ listener \in Ports \union {NoPort} /\ port \in Ports \union {NoPort}
  /\ dir \in BOOLEAN
  /\ master \in {"none", "connecting", "ready", "dead"}
  /\ waiter \in {"none", "waiting", "done"}
  /\ waitCh \in BOOLEAN /\ waited \in BOOLEAN
  /\ forward \in Ports \union {NoPort}
  /\ attempt \in 0..MaxAttempts
  /\ advertised \in Ports \union {NoPort}
  /\ client \in {"none", "running", "done"}
  /\ notify \in BOOLEAN

\* "The same number is used at both ends": as long as slush runs, a forwarded
\* remote port leads to the listener of the same number and is the port the
\* session advertises, also after busy ports were given up, and from the bind
\* on the advertised port is the one that is served (bindClipboardForward).
PortAgreement ==
  /\ forward # NoPort /\ pc \notin Ended =>
       /\ listener = forward /\ advertised = forward
       /\ master = "ready"
  /\ pc \in Working \union {"agent", "provision", "probe", "lookupClient"} =>
       /\ advertised # NoPort /\ advertised = listener /\ advertised = port
       /\ master = "ready" => forward = advertised

\* A slush that ends by itself, after whatever failed, leaves nothing behind:
\* no listener, no directory, no master (and its exit status was received),
\* no remote forward, no client (establishSession's error paths, Close).
CleanExit ==
  pc = "exited" =>
    /\ listener = NoPort /\ ~dir
    /\ ~MasterAlive /\ forward = NoPort
    /\ waiter # "waiting" /\ ~waitCh
    /\ client # "running" /\ ~notify

\* A terminal client and the checks of validate only ever run on a session whose
\* forward was bound by a master that had come up, over a directory and with a
\* listener that are still there, and the transport is settled by then (Open and
\* Run return errors instead).
ClientNeedsSession ==
  /\ client = "running" /\ pc # "killed" => pc \in {"started", "client"}
  /\ pc \in {"started", "client", "checks"} =>
       /\ job = IF pc = "checks" THEN "validate" ELSE "session"
       /\ transport # "auto"
       /\ master \in {"ready", "dead"} /\ dir
       /\ advertised # NoPort /\ listener = advertised

\* The teardown never blocks for good: the exit status of the master is
\* received exactly once, by waitUntilReady or by wait (noteWait, waitOnce).
TeardownEnds == pc \in Cleanup ~> pc \in Ended

\* Setting up comes to an end although the master may ask for a password
\* forever and every port may be taken (sshTunnelReadyWait, attempts).
SetupEnds == pc \in Setup ~> pc \notin Setup

\* The claim that the master, held as a child, cannot outlive slush.
MasterCannotOutlive == pc \in Ended ~> ~MasterAlive
=============================================================================
