--------------------------- MODULE ClipboardServer ---------------------------
(***************************************************************************)
(* The local clipboard server (internal/protocol/server.go) and the        *)
(* desktop operations it runs (internal/desktop/clipboard.go).             *)
(*                                                                         *)
(* Remote programs reach the server through one TCP connection per         *)
(* operation.  Each accepted connection is served by a goroutine of its    *)
(* own: it reads one header line, perhaps a payload, runs one desktop      *)
(* tool, writes one answer and closes.  One absolute deadline covers every *)
(* read and every write of the connection.                                 *)
(*                                                                         *)
(* A header line is abstracted to its whitespace-separated fields and      *)
(* whether it is longer than maxHeaderLine.  Bytes that arrive after the   *)
(* deadline are never read, so got[c] is what arrived before it.           *)
(***************************************************************************)
EXTENDS Integers, Sequences

CONSTANTS
  Conn,        \* the connections peers make, each used once
  Ports,       \* loopback ports the kernel may hand out
  InitialPort, \* the port StartServer got
  Token,       \* the session token
  Lines,       \* the header lines peers may send
  NoLine,      \* no complete header line has arrived
  Atoi,        \* the numerals strconv.Atoi accepts, with their values
  Byte,        \* the bytes of payloads and of the clipboard
  MaxPayload,  \* maxClipboardPayload
  Targets,     \* payloads OpenURL accepts: after TrimSpace, scheme://rest
  NotRun,      \* no desktop tool has been run for a connection
  HungTools    \* connections whose desktop tool never returns

ASSUME PortAssumption == InitialPort \in Ports
ASSUME LineAssumption ==
  /\ Lines \subseteq [fields : Seq(STRING), long : BOOLEAN]
  /\ NoLine \notin Lines
  /\ Token \in STRING
ASSUME PayloadAssumption ==
  /\ MaxPayload \in Nat
  /\ \A numeral \in DOMAIN Atoi : Atoi[numeral] \in Int
  /\ Targets \subseteq Seq(Byte)
ASSUME ConnAssumption == HungTools \subseteq Conn

VARIABLES
  port,      \* Server.port
  bound,     \* ports that have an open listener
  at,        \* the port each connection dialed
  pc,        \* where the goroutine of each connection is
  line,      \* the header line that has arrived, if any
  got,       \* the bytes that have arrived after it
  fin,       \* the peer has ended its direction of the connection
  late,      \* the deadline set by handle has passed
  reply,     \* the answer handle is about to write
  told,      \* the answer written so far
  clipboard, \* the local desktop's clipboard
  ran        \* history: what a desktop tool was run for, and how it ended

listenerVars == <<port, bound, at>>
peerVars     == <<line, got, fin>>
handlerVars  == <<pc, late, reply, told>>
desktopVars  == <<clipboard, ran>>
vars == <<listenerVars, peerVars, handlerVars, desktopVars>>

-----------------------------------------------------------------------------
(* The header: "SLUSH1 <token> <VERB> [<nbytes>]".                         *)

Verbs == {"HELLO", "COPY", "PASTE", "OPEN"}

Records == [verb : Verbs, data : Seq(Byte), ok : BOOLEAN]
ASSUME NotRunAssumption == NotRun \notin Records

clipboardVerbHasPayload(verb) == verb \in {"COPY", "OPEN"}

hasClipboardHeaderShape(fields, wantLength) ==
  Len(fields) = IF wantLength THEN 4 ELSE 3

validClipboardPayloadLength(n) == n \in 0..MaxPayload

\* clipboardHeaderPayloadLength succeeds.
LengthAccepted(verb, fields) ==
  LET wantLength == clipboardVerbHasPayload(verb)
  IN  /\ hasClipboardHeaderShape(fields, wantLength)
      /\ wantLength => /\ fields[4] \in DOMAIN Atoi
                       /\ validClipboardPayloadLength(Atoi[fields[4]])

\* parseClipboardHeader succeeds.
HeaderParses(fields) ==
  /\ Len(fields) >= 3
  /\ fields[1] = "SLUSH1"
  /\ fields[3] \in Verbs
  /\ LengthAccepted(fields[3], fields)

Verb(c) == line[c].fields[3]

PayloadLength(c) ==
  IF clipboardVerbHasPayload(Verb(c)) THEN Atoi[line[c].fields[4]] ELSE 0

TokenMatches(fields) == fields[2] = Token

Admitted(c) ==
  /\ line[c] # NoLine
  /\ ~line[c].long
  /\ HeaderParses(line[c].fields)
  /\ TokenMatches(line[c].fields)

-----------------------------------------------------------------------------
(* Answers.  length is the byte count an OK line announces, body the bytes *)
(* after the line.                                                         *)

NoAnswer == [status |-> "none", length |-> 0, body |-> <<>>]
Err      == [status |-> "ERR",  length |-> 0, body |-> <<>>]
Ok(body) == [status |-> "OK",   length |-> Len(body), body |-> body]

Payload(c) == SubSeq(got[c], 1, PayloadLength(c))

Serving == {"header", "payload", "operation", "reply", "body"}

Init ==
  /\ port = InitialPort
  /\ bound = {InitialPort}
  /\ at = [c \in Conn |-> InitialPort]
  /\ pc = [c \in Conn |-> "idle"]
  /\ line = [c \in Conn |-> NoLine]
  /\ got = [c \in Conn |-> <<>>]
  /\ fin = [c \in Conn |-> FALSE]
  /\ late = [c \in Conn |-> FALSE]
  /\ reply = [c \in Conn |-> NoAnswer]
  /\ told = [c \in Conn |-> NoAnswer]
  /\ clipboard = <<>>
  /\ ran = [c \in Conn |-> NotRun]

-----------------------------------------------------------------------------
(* Peers and the kernel.                                                   *)

\* The kernel completes a handshake on an open listener.
Dial(c, p) ==
  /\ pc[c] = "idle"
  /\ p \in bound
  /\ at' = [at EXCEPT ![c] = p]
  /\ pc' = [pc EXCEPT ![c] = "backlog"]
  /\ UNCHANGED <<port, bound, late, reply, told>>
  /\ UNCHANGED <<peerVars, desktopVars>>

Connected(c) == pc[c] \in Serving \union {"backlog"}

LineArrives(c, l) ==
  /\ Connected(c) /\ ~fin[c] /\ ~late[c]
  /\ line[c] = NoLine
  /\ line' = [line EXCEPT ![c] = l]
  /\ UNCHANGED <<got, fin>>
  /\ UNCHANGED <<listenerVars, handlerVars, desktopVars>>

\* At most one byte more than the largest payload: later ones change nothing.
ByteArrives(c, b) ==
  /\ Connected(c) /\ ~fin[c] /\ ~late[c]
  /\ line[c] # NoLine
  /\ Len(got[c]) <= MaxPayload
  /\ got' = [got EXCEPT ![c] = Append(@, b)]
  /\ UNCHANGED <<line, fin>>
  /\ UNCHANGED <<listenerVars, handlerVars, desktopVars>>

PeerEnds(c) ==
  /\ Connected(c) /\ ~fin[c]
  /\ fin' = [fin EXCEPT ![c] = TRUE]
  /\ UNCHANGED <<line, got>>
  /\ UNCHANGED <<listenerVars, handlerVars, desktopVars>>

\* clipboardIOTimeout after the SetDeadline of handle.
NoDeadline(c) == pc[c] = "idle" /\ late[c] /\ UNCHANGED vars
DeadlineExpires(c) ==
  /\ pc[c] \in Serving /\ ~late[c]
  /\ late' = [late EXCEPT ![c] = TRUE]
  /\ UNCHANGED <<pc, reply, told>>
  /\ UNCHANGED <<listenerVars, peerVars, desktopVars>>

-----------------------------------------------------------------------------
(* The listener.                                                           *)

\* serve: one goroutine per listener hands each connection to its own handle.
AcceptAlone(c) ==
  /\ pc[c] = "backlog" /\ at[c] \in bound
  /\ \A d \in Conn : pc[d] \notin Serving
  /\ pc' = [pc EXCEPT ![c] = "header"]
  /\ UNCHANGED <<late, reply, told>>
  /\ UNCHANGED <<listenerVars, peerVars, desktopVars>>
Accept(c) ==
  /\ pc[c] = "backlog" /\ at[c] \in bound
  /\ pc' = [pc EXCEPT ![c] = "header"]
  /\ UNCHANGED <<late, reply, told>>
  /\ UNCHANGED <<listenerVars, peerVars, desktopVars>>

\* Closing a listener resets the connections still in its backlog.
ResetBacklog(ports) ==
  pc' = [c \in Conn |-> IF pc[c] = "backlog" /\ at[c] \in ports
                        THEN "reset" ELSE pc[c]]

\* Relisten: the new listener is open before the old one is closed.  When
\* net.Listen fails it returns with nothing changed.
RelistenKeepsZero(p) ==
  /\ bound # {} /\ p \notin bound
  /\ port' = 0
  /\ bound' = {p}
  /\ ResetBacklog(bound)
  /\ UNCHANGED <<at, late, reply, told>>
  /\ UNCHANGED <<peerVars, desktopVars>>
RelistenForgetsPort(p) ==
  /\ bound # {} /\ p \notin bound
  /\ bound' = {p}
  /\ ResetBacklog(bound)
  /\ UNCHANGED <<port, at, late, reply, told>>
  /\ UNCHANGED <<peerVars, desktopVars>>
Relisten(p) ==
  /\ bound # {} /\ p \notin bound
  /\ port' = p
  /\ bound' = {p}
  /\ ResetBacklog(bound)
  /\ UNCHANGED <<at, late, reply, told>>
  /\ UNCHANGED <<peerVars, desktopVars>>

Stop ==
  /\ bound # {}
  /\ bound' = {}
  /\ ResetBacklog(bound)
  /\ UNCHANGED <<port, at, late, reply, told>>
  /\ UNCHANGED <<peerVars, desktopVars>>

-----------------------------------------------------------------------------
(* handle: one goroutine per connection.                                   *)

\* The goroutine goes on to write answer.
Answer(c, answer) ==
  /\ reply' = [reply EXCEPT ![c] = answer]
  /\ pc' = [pc EXCEPT ![c] = "reply"]
  /\ UNCHANGED <<late, told>>

\* ReadString ends without a newline.
ReadHeaderFails(c) ==
  /\ pc[c] = "header"
  /\ late[c] \/ (fin[c] /\ line[c] = NoLine)
  /\ Answer(c, Err)
  /\ UNCHANGED <<listenerVars, peerVars, desktopVars>>

\* Too long, malformed, unknown protocol or verb, bad length, wrong token.
RejectHeader(c) ==
  /\ pc[c] = "header"
  /\ line[c] # NoLine /\ ~Admitted(c)
  /\ Answer(c, Err)
  /\ UNCHANGED <<listenerVars, peerVars, desktopVars>>

Hello(c) ==
  /\ pc[c] = "header"
  /\ Admitted(c) /\ Verb(c) = "HELLO"
  /\ Answer(c, Ok(<<>>))
  /\ UNCHANGED <<listenerVars, peerVars, desktopVars>>

\* executeClipboardRequest: COPY and OPEN read a payload first.
Dispatch(c) ==
  /\ pc[c] = "header"
  /\ Admitted(c) /\ Verb(c) # "HELLO"
  /\ pc' = [pc EXCEPT ![c] = IF clipboardVerbHasPayload(Verb(c))
                             THEN "payload" ELSE "operation"]
  /\ UNCHANGED <<late, reply, told>>
  /\ UNCHANGED <<listenerVars, peerVars, desktopVars>>

\* readPayload.  A payload that was buffered before the deadline may still
\* be read after it.
ReadPayload(c) ==
  /\ pc[c] = "payload"
  /\ Len(got[c]) >= PayloadLength(c)
  /\ pc' = [pc EXCEPT ![c] = "operation"]
  /\ UNCHANGED <<late, reply, told>>
  /\ UNCHANGED <<listenerVars, peerVars, desktopVars>>

ReadPayloadFailsSilently(c) ==
  /\ pc[c] = "payload"
  /\ fin[c] /\ Len(got[c]) < PayloadLength(c)
  /\ pc' = [pc EXCEPT ![c] = "closed"]
  /\ UNCHANGED <<late, reply, told>>
  /\ UNCHANGED <<listenerVars, peerVars, desktopVars>>
ReadPayloadFails(c) ==
  /\ pc[c] = "payload"
  /\ \/ fin[c] /\ Len(got[c]) < PayloadLength(c)
     \/ late[c] /\ PayloadLength(c) > 0
  /\ Answer(c, Err)
  /\ UNCHANGED <<listenerVars, peerVars, desktopVars>>

-----------------------------------------------------------------------------
(* The desktop operations.  The tools are separate programs, run without a *)
(* timeout; a tool that fails may have done part of its work.              *)

Run(c, data, ok) ==
  ran' = [ran EXCEPT ![c] = [verb |-> Verb(c), data |-> data, ok |-> ok]]

\* desktop.Copy
CopyErrorIgnored(c) ==
  /\ pc[c] = "operation" /\ Verb(c) = "COPY"
  /\ \E ok \in BOOLEAN : Run(c, Payload(c), ok)
  /\ clipboard' = Payload(c)
  /\ Answer(c, Ok(<<>>))
  /\ UNCHANGED <<listenerVars, peerVars>>
CopyTool(c) ==
  /\ pc[c] = "operation" /\ Verb(c) = "COPY"
  /\ \/ /\ clipboard' = Payload(c)
        /\ Run(c, Payload(c), TRUE)
        /\ Answer(c, Ok(<<>>))
     \/ /\ clipboard' \in {clipboard, Payload(c)}
        /\ Run(c, Payload(c), FALSE)
        /\ Answer(c, Err)
  /\ UNCHANGED <<listenerVars, peerVars>>

\* desktop.Paste
PasteTool(c) ==
  /\ pc[c] = "operation" /\ Verb(c) = "PASTE"
  /\ \/ /\ Run(c, clipboard, TRUE)
        /\ Answer(c, Ok(clipboard))
     \/ /\ Run(c, <<>>, FALSE)
        /\ Answer(c, Err)
  /\ UNCHANGED clipboard
  /\ UNCHANGED <<listenerVars, peerVars>>

\* desktop.OpenURL runs the opener for URLs only.
OpenAnything(c) ==
  /\ pc[c] = "operation" /\ Verb(c) = "OPEN"
  /\ \E ok \in BOOLEAN : /\ Run(c, Payload(c), ok)
                         /\ Answer(c, IF ok THEN Ok(<<>>) ELSE Err)
  /\ UNCHANGED clipboard
  /\ UNCHANGED <<listenerVars, peerVars>>
OpenURL(c) ==
  /\ pc[c] = "operation" /\ Verb(c) = "OPEN"
  /\ IF Payload(c) \in Targets
     THEN \E ok \in BOOLEAN : /\ Run(c, Payload(c), ok)
                              /\ Answer(c, IF ok THEN Ok(<<>>) ELSE Err)
     ELSE UNCHANGED ran /\ Answer(c, Err)
  /\ UNCHANGED clipboard
  /\ UNCHANGED <<listenerVars, peerVars>>

\* The user of the desktop copies something else.
LocalCopy(data) ==
  /\ clipboard # data
  /\ clipboard' = data
  /\ UNCHANGED ran
  /\ UNCHANGED <<listenerVars, peerVars, handlerVars>>

-----------------------------------------------------------------------------
(* The answer.  Write errors are ignored, and no write succeeds after the  *)
(* deadline.  The status line and the body of a PASTE are separate writes. *)

WriteStatus(c) ==
  /\ pc[c] = "reply"
  /\ told' = [told EXCEPT ![c] =
                IF late[c] THEN @ ELSE [reply[c] EXCEPT !.body = <<>>]]
  /\ pc' = [pc EXCEPT ![c] =
              IF reply[c].status = "OK" /\ Verb(c) = "PASTE"
              THEN "body" ELSE "closed"]
  /\ UNCHANGED <<late, reply>>
  /\ UNCHANGED <<listenerVars, peerVars, desktopVars>>

WriteBodyReread(c) ==
  /\ pc[c] = "body"
  /\ told' = [told EXCEPT ![c].body = IF late[c] THEN <<>> ELSE clipboard]
  /\ pc' = [pc EXCEPT ![c] = "closed"]
  /\ UNCHANGED <<late, reply>>
  /\ UNCHANGED <<listenerVars, peerVars, desktopVars>>
\* The deadline may cut a Write that a slow peer has blocked.
WriteBody(c) ==
  /\ pc[c] = "body"
  /\ \E n \in 0..reply[c].length :
       /\ ~late[c] => n = reply[c].length
       /\ told[c].status = "none" => n = 0
       /\ told' = [told EXCEPT ![c].body = SubSeq(reply[c].body, 1, n)]
  /\ pc' = [pc EXCEPT ![c] = "closed"]
  /\ UNCHANGED <<late, reply>>
  /\ UNCHANGED <<listenerVars, peerVars, desktopVars>>

-----------------------------------------------------------------------------
Handle(c) ==
  \/ ReadHeaderFails(c) \/ RejectHeader(c) \/ Hello(c) \/ Dispatch(c)
  \/ ReadPayload(c) \/ ReadPayloadFails(c)
  \/ WriteStatus(c) \/ WriteBody(c)

Desktop(c) == CopyTool(c) \/ PasteTool(c) \/ OpenURL(c)

Server ==
  \/ \E c \in Conn : Accept(c) \/ Handle(c) \/ Desktop(c) \/ DeadlineExpires(c)
  \/ \E p \in Ports : Relisten(p)
  \/ Stop

Peers ==
  \E c \in Conn :
    \/ \E p \in Ports : Dial(c, p)
    \/ \E l \in Lines : LineArrives(c, l)
    \/ \E b \in Byte : ByteArrives(c, b)
    \/ PeerEnds(c)

Next == Server \/ Peers \/ \E b \in Byte : LocalCopy(<<b>>)

Spec == Init /\ [][Next]_vars

\* The Go scheduler runs every goroutine that can run and timers fire; a
\* desktop tool returns unless it hangs; peers owe nothing.
Fairness ==
  /\ \A c \in Conn : WF_vars(Accept(c)) /\ WF_vars(Handle(c))
                     /\ WF_vars(DeadlineExpires(c))
  /\ \A c \in Conn \ HungTools : WF_vars(Desktop(c))

FairSpec == Spec /\ Fairness

-----------------------------------------------------------------------------
Answers == [status : {"none", "OK", "ERR"}, length : Nat, body : Seq(Byte)]

\* Type invariant of the server's state, the peers' and the desktop's.
TypeOK ==
  /\ port \in Ports
  /\ bound \subseteq Ports
  /\ at \in [Conn -> Ports]
  /\ pc \in [Conn -> Serving \union {"idle", "backlog", "reset", "closed"}]
  /\ line \in [Conn -> Lines \union {NoLine}]
  /\ got \in [Conn -> Seq(Byte)]
  /\ fin \in [Conn -> BOOLEAN]
  /\ late \in [Conn -> BOOLEAN]
  /\ reply \in [Conn -> Answers]
  /\ told \in [Conn -> Answers]
  /\ clipboard \in Seq(Byte)
  /\ ran \in [Conn -> Records \union {NotRun}]

\* A desktop tool is only ever run for a well-formed header that carries the
\* session token, for exactly the payload that header declared, all of which
\* arrived, and an opener only for a URL (handle, readPayload, OpenURL).
OnlyCompleteAuthorizedRequestsRun ==
  \A c \in Conn : ran[c] # NotRun =>
    /\ Admitted(c) /\ line[c].fields[2] = Token
    /\ ran[c].verb = Verb(c)
    /\ clipboardVerbHasPayload(Verb(c)) =>
         /\ Len(ran[c].data) = PayloadLength(c)
         /\ ran[c].data = Payload(c)
    /\ Verb(c) = "OPEN" => ran[c].data \in Targets

\* What a peer has been told agrees with what the desktop did: OK only after
\* the tool succeeded, ERR never after it did, and the body of a PASTE is a
\* prefix of the one clipboard value whose length was announced.
AnswerTellsOutcome ==
  \A c \in Conn :
    /\ told[c].status = "OK" =>
         /\ Admitted(c)
         /\ Verb(c) # "HELLO" => ran[c] # NotRun /\ ran[c].ok
         /\ Verb(c) = "PASTE" =>
              /\ told[c].length = Len(ran[c].data)
              /\ \E n \in 0..told[c].length :
                   told[c].body = SubSeq(ran[c].data, 1, n)
    /\ told[c].status = "ERR" => ran[c] = NotRun \/ ~ran[c].ok
    /\ told[c].status # "OK" => told[c].body = <<>>

\* A connection that is closed before its deadline has been answered, and in
\* full: whatever the peer sent, handle leaves by no path without an answer.
AnsweredBeforeDeadline ==
  \A c \in Conn : pc[c] = "closed" /\ ~late[c] =>
    /\ told[c].status # "none"
    /\ told[c].status = "OK" /\ Verb(c) = "PASTE" =>
         told[c].body = ran[c].data

\* Until Stop, the port the session advertises is the one that is listening,
\* and no other listener is left open by the ports tried before it (Relisten).
AdvertisedPortListens == bound # {} => bound = {port}

\* Every accepted connection is closed, whatever its peer does, unless its
\* desktop tool hangs (the deadline of handle).
AcceptedIsClosed ==
  \A c \in Conn \ HungTools : pc[c] = "header" ~> pc[c] = "closed"

\* Connections are independent: one is accepted although others wait for
\* their peer or for a tool that never returns, as long as its listener is
\* open ("a plain TCP connect with no request never wedges the server").
BacklogIsDrained ==
  \A c \in Conn : pc[c] = "backlog" ~> pc[c] # "backlog"
=============================================================================
