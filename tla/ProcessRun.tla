------------------------------- MODULE ProcessRun -------------------------------
(***************************************************************************)
(* process.Run on Unix (internal/process/run_unix.go): one ssh or mosh     *)
(* client in the foreground of a terminal, with slush as its parent.       *)
(*                                                                         *)
(* Beside the main goroutine (pc) a goroutine forwards signals (forwarder);*)
(* os/signal hands it each signal through a channel of one place, without  *)
(* waiting.  The terminal sends what is typed to the processes of its      *)
(* foreground group; other processes signal slush alone.                   *)
(***************************************************************************)
EXTENDS Sequences, Naturals

CONSTANTS
  Forwarded,  \* SIGINT, SIGTERM, SIGQUIT, SIGWINCH
  NoSignal,   \* the forwarder holds none
  ChanSize    \* the capacity of the channel

ASSUME SignalAssumption == NoSignal \notin Forwarded
ASSUME ChanAssumption == ChanSize \in Nat \ {0}

VARIABLES
  tty,        \* stdin is a terminal
  shared,     \* sharedTerminalGroup: the client stays in slush's group
  outer,      \* the foreground group Run found: slush's own or another
  pc,         \* where the main goroutine is
  client,     \* "none", "running", "zombie" or "reaped"
  foreground, \* the terminal's foreground group
  notify,     \* signal.Notify is in force
  ch,         \* the signals in the channel
  forwarder,  \* "none", "select", "signal" or "gone"
  held,       \* the signal the forwarder took
  closed,     \* done is closed
  sent,       \* history: the signals slush was sent while the client ran
  given       \* history: the signals the client was given

terminalVars == <<tty, shared, outer, foreground>>
signalVars   == <<notify, ch, forwarder, held, closed>>
vars == <<terminalVars, signalVars, pc, client, sent, given>>

ClientGroup == IF shared THEN "slush" ELSE "client"

Init ==
  /\ tty \in BOOLEAN /\ shared \in BOOLEAN
  /\ outer \in {"slush", "other"}
  /\ foreground = outer
  /\ pc = "start"
  /\ client = "none"
  /\ notify = FALSE /\ ch = <<>>
  /\ forwarder = "none" /\ held = NoSignal /\ closed = FALSE
  /\ sent = {} /\ given = {}

-----------------------------------------------------------------------------
(* The main goroutine.                                                     *)

\* The foreground group cannot be read, or the client cannot be started.
StartFails ==
  /\ pc = "start"
  /\ pc' = "failed"
  /\ UNCHANGED <<terminalVars, signalVars, client, given, sent>>

Start ==
  /\ pc = "start"
  /\ client' = "running"
  /\ pc' = IF tty THEN "foreground" ELSE "forward"
  /\ UNCHANGED <<terminalVars, signalVars, given, sent>>

SetForeground ==
  /\ pc = "foreground"
  /\ foreground' = ClientGroup
  /\ pc' = "forward"
  /\ UNCHANGED <<tty, shared, outer, client, signalVars, given, sent>>

\* Kill and Wait before the error is returned.
ForegroundFails ==
  /\ pc = "foreground"
  /\ client' = "reaped"
  /\ pc' = "failed"
  /\ UNCHANGED <<terminalVars, signalVars, given, sent>>

ForwardSignals ==
  /\ pc = "forward"
  /\ notify' = TRUE
  /\ forwarder' = "select"
  /\ pc' = "wait"
  /\ UNCHANGED <<terminalVars, client, ch, held, closed, given, sent>>

Wait ==
  /\ pc = "wait" /\ client = "zombie"
  /\ client' = "reaped"
  /\ pc' = "stop"
  /\ UNCHANGED <<terminalVars, signalVars, given, sent>>

\* The deferred calls, last first: stopForwarding, then the foreground group
\* (a terminal that has hung up, where this fails, has none).
StopLeavesDone ==
  /\ pc = "stop"
  /\ notify' = FALSE
  /\ pc' = IF tty THEN "restore" ELSE "returned"
  /\ UNCHANGED <<terminalVars, client, ch, forwarder, held, closed, given, sent>>
StopForwarding ==
  /\ pc = "stop"
  /\ notify' = FALSE
  /\ closed' = TRUE
  /\ pc' = IF tty THEN "restore" ELSE "returned"
  /\ UNCHANGED <<terminalVars, client, ch, forwarder, held, given, sent>>

RestoreOwnGroup ==
  /\ pc = "restore"
  /\ foreground' = "slush"
  /\ pc' = "returned"
  /\ UNCHANGED <<tty, shared, outer, client, signalVars, given, sent>>
Restore ==
  /\ pc = "restore"
  /\ foreground' = outer
  /\ pc' = "returned"
  /\ UNCHANGED <<tty, shared, outer, client, signalVars, given, sent>>

-----------------------------------------------------------------------------
(* The goroutine of forwardSignals.                                        *)

ReceiveFromClosed ==
  /\ forwarder = "select" /\ (ch # <<>> \/ closed)
  /\ held' = IF ch = <<>> THEN NoSignal ELSE Head(ch)
  /\ ch' = IF ch = <<>> THEN ch ELSE Tail(ch)
  /\ forwarder' = "signal"
  /\ UNCHANGED <<terminalVars, pc, client, notify, closed, given, sent>>
Receive ==
  /\ forwarder = "select" /\ ch # <<>>
  /\ held' = Head(ch)
  /\ ch' = Tail(ch)
  /\ forwarder' = "signal"
  /\ UNCHANGED <<terminalVars, pc, client, notify, closed, given, sent>>

Give(sig) == given' = IF client = "running" THEN given \union {sig} ELSE given

\* proc.Signal does nothing to a client that has been waited for.
ForwardsOnce ==
  /\ forwarder = "signal"
  /\ Give(held)
  /\ held' = NoSignal
  /\ forwarder' = "gone"
  /\ UNCHANGED <<terminalVars, pc, client, notify, ch, closed, sent>>
Forward ==
  /\ forwarder = "signal"
  /\ Give(held)
  /\ held' = NoSignal
  /\ forwarder' = "select"
  /\ UNCHANGED <<terminalVars, pc, client, notify, ch, closed, sent>>

\* The select may take done although a signal waits.
Leave ==
  /\ forwarder = "select" /\ closed
  /\ forwarder' = "gone"
  /\ UNCHANGED <<terminalVars, pc, client, notify, ch, held, closed, given, sent>>

Forwarder == Receive \/ Forward \/ Leave

-----------------------------------------------------------------------------
(* Signals.  Where no handler is in force they end slush, see              *)
(* SessionLifecycle; here only what Run does with them is of interest.     *)

\* os/signal drops what the channel has no place for.
Notified(sig) ==
  ch' = IF Len(ch) < ChanSize THEN Append(ch, sig) ELSE ch

SignalSent(sig) ==
  /\ notify
  /\ Notified(sig)
  /\ sent' = IF client = "running" THEN sent \union {sig} ELSE sent
  /\ UNCHANGED <<terminalVars, pc, client, notify, forwarder, held, closed, given>>

\* A key or a resize: to the client, and to slush when both are in front.
SignalTyped(sig) ==
  /\ tty /\ client = "running" /\ pc = "wait"
  /\ IF foreground = ClientGroup THEN Give(sig) ELSE UNCHANGED given
  /\ IF foreground = "slush" THEN Notified(sig) ELSE UNCHANGED ch
  /\ UNCHANGED <<terminalVars, pc, client, notify, forwarder, held, closed, sent>>

ClientExits ==
  /\ client = "running"
  /\ client' = "zombie"
  /\ UNCHANGED <<terminalVars, signalVars, pc, given, sent>>

-----------------------------------------------------------------------------
Main ==
  \/ StartFails \/ Start \/ SetForeground \/ ForegroundFails \/ ForwardSignals
  \/ Wait \/ StopForwarding \/ Restore

Next ==
  \/ Main \/ Forwarder \/ ClientExits
  \/ \E sig \in Forwarded : SignalSent(sig) \/ SignalTyped(sig)

Spec == Init /\ [][Next]_vars

\* The Go scheduler runs both goroutines, and a select that finds both of its
\* channels ready is fair; the client owes nothing.
FairSpec == Spec /\ WF_vars(Main) /\ WF_vars(Receive \/ Forward) /\ SF_vars(Leave)

-----------------------------------------------------------------------------
\* Type invariant of Run and of what it shares with the terminal.
TypeOK ==
  /\ tty \in BOOLEAN /\ shared \in BOOLEAN
  /\ outer \in {"slush", "other"}
  /\ foreground \in {"slush", "client", "other"}
  /\ pc \in {"start", "foreground", "forward", "wait", "stop", "restore",
             "returned", "failed"}
  /\ client \in {"none", "running", "zombie", "reaped"}
  /\ notify \in BOOLEAN /\ closed \in BOOLEAN
  /\ ch \in Seq(Forwarded) /\ Len(ch) <= ChanSize
  /\ forwarder \in {"none", "select", "signal", "gone"}
  /\ held \in Forwarded \union {NoSignal}
  /\ held # NoSignal <=> forwarder = "signal"
  /\ sent \subseteq Forwarded /\ given \subseteq Forwarded

\* Run leaves no child behind and gives the terminal back to whoever had it, on
\* every path that returns.
RunLeavesNothing ==
  pc \in {"returned", "failed"} =>
    /\ client \in {"none", "reaped"}
    /\ foreground = outer
    /\ ~notify

\* What the handler accepted is given to the client, unless the client is gone
\* first: the goroutine goes on forwarding until Run returns.
AcceptedSignalArrives ==
  \A sig \in Forwarded :
    (\E i \in 1..Len(ch) : ch[i] = sig) ~> (sig \in given \/ client # "running")

\* The forwarding goroutine ends when Run does.
ForwarderEnds == pc = "returned" ~> forwarder = "gone"
=============================================================================
