--------------------------- MODULE ClipboardExchange ---------------------------
(***************************************************************************)
(* Whole requests: the clients of the clipboard protocol, the transport    *)
(* between them and the server, and the server (ClipboardServer).          *)
(*                                                                         *)
(* A client is one run of the shim (internal/remote/shim.py), which        *)
(* connects through the ssh tunnel and may hand its request over to a      *)
(* native tool, or one call of the Go client (internal/protocol/client.go),*)
(* which connects directly.  Each client uses the connection of its name.  *)
(* What a client has sent goes on arriving after it has given up, until    *)
(* the connection ends; the transport may cut a connection at any moment.  *)
(***************************************************************************)
EXTENDS ClipboardServer

CONSTANTS
  Requests,  \* what a client may ask for: a verb and its data
  OldToken   \* the token of an earlier session

ASSUME TokenAssumption == OldToken # Token

Numeral(n) == CHOOSE numeral \in DOMAIN Atoi : Atoi[numeral] = n

\* "SLUSH1 <token> <VERB> [<nbytes>]", the length with a payload only.
LineFor(request, token) ==
  LET head == <<"SLUSH1", token, request.verb>>
  IN  [fields |-> IF request.verb = "PASTE" THEN head
                  ELSE Append(head, Numeral(Len(request.data))),
       long |-> FALSE]

\* What clients send is among what the server may be sent, and the length of
\* every payload can be written down.
ASSUME RequestAssumption ==
  /\ Requests \subseteq [verb : {"COPY", "PASTE", "OPEN"}, data : Seq(Byte)]
  /\ \A r \in Requests : \E numeral \in DOMAIN Atoi : Atoi[numeral] = Len(r.data)
  /\ \A r \in Requests, token \in {Token, OldToken} : LineFor(r, token) \in Lines
ASSUME NotPerformedAssumption == NotRun \notin [data : Seq(Byte), ok : BOOLEAN]

VARIABLES
  want,    \* the request of each client
  creds,   \* what load_token_port found: "current", "stale" or "none"; or "own",
           \* the token a Go client was given
  tunnel,  \* the reverse forward listens on the remote host
  cut,     \* the transport has ended the connection
  cpc,     \* where the client is
  outcome, \* "pending", "ok", "error", or "native" for the native tool
  output   \* what a paste printed or returned

clientVars == <<want, creds, tunnel, cut, cpc, outcome, output>>
exchangeVars == <<vars, clientVars>>

ExchangeInit ==
  /\ Init
  /\ want \in [Conn -> Requests]
  /\ creds \in [Conn -> {"current", "stale", "none", "own"}]
  /\ tunnel = TRUE
  /\ cut = [c \in Conn |-> FALSE]
  /\ cpc = [c \in Conn |-> "start"]
  /\ outcome = [c \in Conn |-> "pending"]
  /\ output = [c \in Conn |-> <<>>]

Shims == {c \in Conn : creds[c] # "own"}

RequestLine(c) ==
  LineFor(want[c], IF creds[c] = "stale" THEN OldToken ELSE Token)

End(c, how) ==
  /\ cpc' = [cpc EXCEPT ![c] = "done"]
  /\ outcome' = [outcome EXCEPT ![c] = how]

-----------------------------------------------------------------------------
(* The clients.                                                            *)

\* Without credentials, or when nobody listens on the port, SlushUnavailable
\* is raised: the shim runs the native tool, or fails when there is none (as
\* always for slush-open).  The Go client fails.
Unavailable(c) ==
  /\ cpc[c] = "start"
  /\ IF c \in Shims THEN creds[c] # "current" \/ ~tunnel ELSE bound = {}
  /\ \E how \in IF c \in Shims THEN {"native", "error"} ELSE {"error"} : End(c, how)
  /\ UNCHANGED <<want, creds, tunnel, cut, output>>
  /\ UNCHANGED vars

\* The connection reaches the server: a shim's through the tunnel.
Connect(c) ==
  /\ cpc[c] = "start" /\ creds[c] # "none"
  /\ c \in Shims => tunnel
  /\ Dial(c, port)
  /\ cpc' = [cpc EXCEPT ![c] = "line"]
  /\ UNCHANGED <<want, creds, tunnel, cut, outcome, output>>

\* sshd accepts, but nobody listens behind the tunnel any more.
ConnectNowhere(c) ==
  /\ cpc[c] = "start" /\ creds[c] # "none"
  /\ c \in Shims /\ tunnel /\ bound = {}
  /\ cpc' = [cpc EXCEPT ![c] = "line"]
  /\ cut' = [cut EXCEPT ![c] = TRUE]
  /\ UNCHANGED <<want, creds, tunnel, outcome, output>>
  /\ UNCHANGED vars

\* The response line: for a PASTE that succeeds the body follows; any other
\* line ends the exchange.
ReadLine(c) ==
  /\ cpc[c] = "line"
  /\ told[c].status # "none"
  /\ IF want[c].verb = "PASTE" /\ told[c].status = "OK"
     THEN cpc' = [cpc EXCEPT ![c] = "body"] /\ UNCHANGED outcome
     ELSE End(c, IF told[c].status = "OK" THEN "ok" ELSE "error")
  /\ UNCHANGED <<want, creds, tunnel, cut, output>>
  /\ UNCHANGED vars

\* Nothing more arrives on the connection.
AtEof(c) == cut[c] \/ pc[c] \in {"closed", "reset"}

\* No response line: an error in both clients.  What the server told may be
\* lost with the connection.
ReadNothing(c) ==
  /\ cpc[c] = "line"
  /\ AtEof(c) /\ (told[c].status = "none" \/ cut[c])
  /\ End(c, "error")
  /\ UNCHANGED <<want, creds, tunnel, cut, output>>
  /\ UNCHANGED vars

\* The announced number of bytes is read, or fewer when the connection ends
\* first.  io.ReadFull makes that an error; stream.read of the shim returns
\* what there is, and do_paste writes it.
AcceptsAnyBody(c) ==
  /\ cpc[c] = "body"
  /\ \E n \in 0..Len(told[c].body) :
       /\ n = told[c].length \/ AtEof(c)
       /\ ~cut[c] => n = Len(told[c].body)
       /\ End(c, "ok")
       /\ output' = [output EXCEPT ![c] = SubSeq(told[c].body, 1, n)]
  /\ UNCHANGED <<want, creds, tunnel, cut>>
  /\ UNCHANGED vars
ReadBody(c) ==
  /\ cpc[c] = "body"
  /\ \E n \in 0..Len(told[c].body) :
       /\ n = told[c].length \/ AtEof(c)
       /\ ~cut[c] => n = Len(told[c].body)
       /\ IF c \in Shims \/ n = told[c].length
          THEN /\ End(c, "ok")
               /\ output' = [output EXCEPT ![c] = SubSeq(told[c].body, 1, n)]
          ELSE End(c, "error") /\ UNCHANGED output
  /\ UNCHANGED <<want, creds, tunnel, cut>>
  /\ UNCHANGED vars

\* Ten seconds in one socket operation of the shim, thirty for a call of the
\* Go client.  Past create_connection the shim does not catch it: it fails
\* and does not fall back.
WaitForAnswer(c) == cpc[c] = "start" /\ creds[c] = "none" /\ tunnel /\ UNCHANGED exchangeVars
TimeoutFallsBack(c) ==
  /\ cpc[c] \in {"line", "body"}
  /\ End(c, IF c \in Shims THEN "native" ELSE "error")
  /\ UNCHANGED <<want, creds, tunnel, cut, output>>
  /\ UNCHANGED vars
Timeout(c) ==
  /\ cpc[c] \in {"line", "body"}
  /\ End(c, "error")
  /\ UNCHANGED <<want, creds, tunnel, cut, output>>
  /\ UNCHANGED vars

-----------------------------------------------------------------------------
(* The transport.                                                          *)

\* What the client has sent arrives, the line first, then the payload.
DeliverLine(c) ==
  /\ ~cut[c]
  /\ LineArrives(c, RequestLine(c))
  /\ UNCHANGED clientVars

DeliverByte(c) ==
  /\ ~cut[c]
  /\ Len(got[c]) < Len(want[c].data)
  /\ ByteArrives(c, want[c].data[Len(got[c]) + 1])
  /\ UNCHANGED clientVars

\* The server sees the end of a connection that was cut or whose client has
\* closed it; a client that fails may leave part of its request unsent.
DeliverEnd(c) ==
  /\ cut[c] \/ cpc[c] = "done"
  /\ PeerEnds(c)
  /\ UNCHANGED clientVars

Cut(c) ==
  /\ ~cut[c] /\ cpc[c] \in {"line", "body"}
  /\ cut' = [cut EXCEPT ![c] = TRUE]
  /\ UNCHANGED <<want, creds, tunnel, cpc, outcome, output>>
  /\ UNCHANGED vars

\* The ssh connection is lost, and with it every connection of a shim.
TunnelDrops ==
  /\ tunnel
  /\ tunnel' = FALSE
  /\ cut' = [c \in Conn |-> cut[c] \/ (c \in Shims /\ cpc[c] # "start")]
  /\ UNCHANGED <<want, creds, cpc, outcome, output>>
  /\ UNCHANGED vars

-----------------------------------------------------------------------------
Client(c) ==
  \/ Unavailable(c) \/ Connect(c) \/ ConnectNowhere(c)
  \/ ReadLine(c) \/ ReadNothing(c) \/ ReadBody(c) \/ Timeout(c)

Transport ==
  \/ \E c \in Conn : DeliverLine(c) \/ DeliverByte(c) \/ DeliverEnd(c) \/ Cut(c)
  \/ TunnelDrops

ServerSide ==
  /\ \/ \E c \in Conn : Accept(c) \/ Handle(c) \/ Desktop(c) \/ DeadlineExpires(c)
     \/ Stop
     \/ \E b \in Byte : LocalCopy(<<b>>)
  /\ UNCHANGED clientVars

ExchangeNext == (\E c \in Conn : Client(c)) \/ Transport \/ ServerSide

ExchangeSpec == ExchangeInit /\ [][ExchangeNext]_exchangeVars

\* Clients run, and the timers of their sockets fire.
FairExchange == ExchangeSpec /\ \A c \in Conn : WF_exchangeVars(Client(c))

-----------------------------------------------------------------------------
Service == INSTANCE ClipboardService
  WITH Request <- Conn, NotYet <- NotRun, exact <- Conn \ Shims,
       Value <- {<<b>> : b \in Byte},
       verb <- [c \in Conn |-> want[c].verb],
       content <- [c \in Conn |-> want[c].data],
       desktop <- clipboard,
       performed <- [c \in Conn |-> IF ran[c] = NotRun THEN NotRun
                                    ELSE [data |-> ran[c].data, ok |-> ran[c].ok]]

\* Every exchange keeps the promise of the clipboard service: performed at most
\* once and with exactly the data of the request, reported as done only when it
\* was, and never both handed to a native tool and performed, whatever is cut,
\* late or slow (exchange, main of the shim, handle, clipboardCall).
KeepsServicePromise == Service!ServiceSpec

\* Every run of a client ends, although the server, the desktop tool or the
\* tunnel may leave it waiting (the socket timeouts of both clients).
ClientEnds == \A c \in Conn : <>(cpc[c] = "done")

\* The claim that every paste transfers exact bytes: what a client printed with
\* success is one value the clipboard had, whole.
PasteIsExact ==
  \A c \in Conn : outcome[c] = "ok" /\ want[c].verb = "PASTE" =>
    output[c] = ran[c].data
=============================================================================
