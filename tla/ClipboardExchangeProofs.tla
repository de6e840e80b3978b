------------------------ MODULE ClipboardExchangeProofs ------------------------
(***************************************************************************)
(* ClipboardExchange implements ClipboardService, for every set of clients,*)
(* requests and payloads.                                                  *)
(*                                                                         *)
(* Every step of an exchange is a step of the server or leaves its state   *)
(* alone, so the server's invariant IInv holds in an exchange as well;     *)
(* ClientInv relates what a client wants and knows to the server's state.  *)
(***************************************************************************)
EXTENDS ClipboardExchange, ClipboardServerProofs

ClientTypeOK ==
  /\ want \in [Conn -> Requests]
  /\ creds \in [Conn -> {"current", "stale", "none", "own"}]
  /\ tunnel \in BOOLEAN
  /\ cut \in [Conn -> BOOLEAN]
  /\ cpc \in [Conn -> {"start", "line", "body", "done"}]
  /\ outcome \in [Conn -> {"pending", "ok", "error", "native"}]
  /\ output \in [Conn -> Seq(Byte)]

\* What the server has received of c is a part of c's request.
ReceivedInv(c) ==
  /\ line[c] # NoLine => line[c] = RequestLine(c)
  /\ Len(got[c]) <= Len(want[c].data)
  /\ \A i \in 1..Len(got[c]) : got[c][i] = want[c].data[i]

\* Before it has connected, and once it has handed over, a client has no
\* connection; it waits for a body only when it was told OK for a paste.
ClientInv(c) ==
  /\ cpc[c] = "start" \/ outcome[c] = "native" => pc[c] = "idle"
  /\ cpc[c] # "done" => outcome[c] = "pending"
  /\ cpc[c] = "body" => want[c].verb = "PASTE" /\ told[c].status = "OK"

XInv ==
  /\ IInv
  /\ ClientTypeOK
  /\ \A c \in Conn : ReceivedInv(c) /\ ClientInv(c)
-----------------------------------------------------------------------------
(* Requests and their lines.                                               *)

\* A request has a verb and bytes.
LEMMA RequestTyped ==
  ASSUME NEW r \in Requests
  PROVE  /\ r.verb \in {"COPY", "PASTE", "OPEN"}
         /\ r.data \in Seq(Byte)
         /\ Len(r.data) \in Nat
         /\ \A i \in 1..Len(r.data) : r.data[i] \in Byte
<1>1. r.verb \in {"COPY", "PASTE", "OPEN"} /\ r.data \in Seq(Byte)
  BY RequestAssumption
<1> QED
  BY <1>1, LenProperties, ElementOfSeq

\* The line a client writes is one the server may read.
LEMMA LineSent ==
  ASSUME ClientTypeOK, NEW c \in Conn
  PROVE  RequestLine(c) \in Lines
<1>1. want[c] \in Requests
  BY DEF ClientTypeOK
<1> QED
  BY <1>1, RequestAssumption DEF RequestLine

\* The server reads off the line the verb and the length the client wrote.
LEMMA LineRead ==
  ASSUME ClientTypeOK, NEW c \in Conn, line[c] = RequestLine(c)
  PROVE  /\ Verb(c) = want[c].verb
         /\ want[c].verb # "PASTE" => PayloadLength(c) = Len(want[c].data)
<1> DEFINE r     == want[c]
           token == IF creds[c] = "stale" THEN OldToken ELSE Token
           n     == Numeral(Len(r.data))
<1>1. r \in Requests
  BY DEF ClientTypeOK
<1>2. Atoi[n] = Len(r.data)
  BY <1>1, RequestAssumption DEF Numeral
<1> DEFINE head == <<"SLUSH1", token, r.verb>>
<1>3. line[c].fields = IF r.verb = "PASTE" THEN head ELSE Append(head, n)
  BY DEF RequestLine, LineFor
<1> HIDE DEF n, token
<1>4. Append(head, n)[3] = r.verb /\ Append(head, n)[4] = n
  OBVIOUS
<1>5. line[c].fields[3] = r.verb /\ (r.verb # "PASTE" => line[c].fields[4] = n)
  BY <1>3, <1>4
<1>6. r.verb \in {"COPY", "PASTE", "OPEN"}
  BY <1>1, RequestTyped
<1> QED
  BY <1>2, <1>5, <1>6 DEF Verb, PayloadLength, clipboardVerbHasPayload

-----------------------------------------------------------------------------
(* The server's part of an exchange.                                       *)

\* Every step of an exchange is one of the server, or nothing the server sees.
LEMMA ServerStep ==
  ASSUME XInv, [ExchangeNext]_exchangeVars
  PROVE  [Next]_vars
<1> USE DEF XInv
<1>1. ASSUME NEW c \in Conn, Client(c) PROVE [Next]_vars
  <2>1. port \in Ports
    BY DEF IInv, TypeOK
  <2>2. CASE Connect(c)
    BY <2>1, <2>2 DEF Connect, Next, Peers
  <2> QED
    BY <1>1, <2>2 DEF Client, Unavailable, ConnectNowhere, ReadLine, ReadNothing,
       ReadBody, Timeout
<1>2. CASE Transport
  <2>1. ASSUME NEW c \in Conn, DeliverLine(c) PROVE Next
    BY <2>1, LineSent DEF DeliverLine, Next, Peers
  <2>2. ASSUME NEW c \in Conn, DeliverByte(c) PROVE Next
    <3>1. want[c] \in Requests /\ got[c] \in Seq(Byte)
      BY DEF ClientTypeOK, IInv, TypeOK
    <3>2. want[c].data[Len(got[c]) + 1] \in Byte
      BY <2>2, <3>1, RequestTyped, LenProperties DEF DeliverByte
    <3> QED
      BY <2>2, <3>2 DEF DeliverByte, Next, Peers
  <2>3. ASSUME NEW c \in Conn, DeliverEnd(c) PROVE Next
    BY <2>3 DEF DeliverEnd, Next, Peers
  <2> QED
    BY <1>2, <2>1, <2>2, <2>3 DEF Transport, Cut, TunnelDrops
<1>3. CASE ServerSide
  BY <1>3 DEF ServerSide, Next, Server
<1>4. CASE UNCHANGED exchangeVars
  BY <1>4 DEF exchangeVars
<1> QED
  BY <1>1, <1>2, <1>3, <1>4 DEF ExchangeNext

\* An OK that was written is not taken back.
LEMMA ToldStays ==
  ASSUME IInv, [Next]_vars, NEW c \in Conn, told[c].status = "OK"
  PROVE  told'[c].status = "OK"
<1> USE DEF vars, handlerVars, Answer
<1>0. told \in [Conn -> Answers]
  BY DEF IInv, TypeOK
<1>1. ASSUME NEW d \in Conn, WriteStatus(d) PROVE told'[c].status = "OK"
  <2>1. told[d] = NoAnswer
    BY <1>1 DEF WriteStatus, IInv, ConnInv, LocationInv
  <2>2. c # d
    BY <2>1 DEF NoAnswer
  <2> QED
    BY <1>0, <1>1, <2>2 DEF WriteStatus
<1>2. ASSUME NEW d \in Conn, WriteBody(d) PROVE told'[c].status = "OK"
  BY <1>0, <1>2 DEF WriteBody, Answers
<1>3. ASSUME NEW d \in Conn, ConnStep(d) PROVE told'[c].status = "OK"
  BY <1>1, <1>2, <1>3 DEF ConnStep, Handle, Desktop, Dial, LineArrives, ByteArrives,
     PeerEnds, Accept, DeadlineExpires, ReadHeaderFails, RejectHeader, Hello, Dispatch,
     ReadPayload, ReadPayloadFails, CopyTool, PasteTool, OpenURL
<1>4. CASE Next
  BY <1>3, <1>4, NextCases DEF Relisten, Stop, LocalCopy
<1> QED
  BY <1>4

\* A connection that was not made stays so, unless its client connects.
LEMMA IdleStays ==
  ASSUME XInv, [ExchangeNext]_exchangeVars, NEW c \in Conn, pc[c] = "idle", ~Connect(c)
  PROVE  pc'[c] = "idle"
<1>0. pc \in [Conn -> Serving \union {"idle", "backlog", "reset", "closed"}]
  BY DEF XInv, IInv, TypeOK
<1> USE DEF listenerVars, peerVars, handlerVars, desktopVars, vars
<1>1. ASSUME NEW d \in Conn, Client(d) PROVE pc'[c] = "idle"
  BY <1>0, <1>1 DEF Client, Unavailable, Connect, ConnectNowhere, ReadLine,
     ReadNothing, ReadBody, Timeout, Dial
<1>2. CASE Transport
  BY <1>2 DEF Transport, DeliverLine, DeliverByte, DeliverEnd, Cut, TunnelDrops,
     LineArrives, ByteArrives, PeerEnds
<1>3. CASE ServerSide
  <2>1. ASSUME NEW d \in Conn, Accept(d) \/ Handle(d) PROVE pc'[c] = "idle"
    BY <1>0, <2>1 DEF Accept, Handle, ReadHeaderFails, RejectHeader, Hello, Dispatch,
       ReadPayload, ReadPayloadFails, WriteStatus, WriteBody, Answer
  <2>2. ASSUME NEW d \in Conn, Desktop(d) \/ DeadlineExpires(d) PROVE pc'[c] = "idle"
    BY <1>0, <2>2 DEF Desktop, DeadlineExpires, CopyTool, PasteTool, OpenURL, Answer
  <2> QED
    BY <1>3, <2>1, <2>2 DEF ServerSide, Stop, ResetBacklog, LocalCopy
<1> QED
  BY <1>1, <1>2, <1>3 DEF ExchangeNext, exchangeVars

-----------------------------------------------------------------------------
\* The first state.
LEMMA ExchangeInitInv == ExchangeInit => XInv
<1> SUFFICES ASSUME ExchangeInit PROVE XInv
  OBVIOUS
<1> USE DEF ExchangeInit, Init
<1>1. IInv
  BY InitIInv
<1>2. ClientTypeOK
  BY DEF ClientTypeOK
<1>3. ASSUME NEW c \in Conn PROVE ReceivedInv(c) /\ ClientInv(c)
  <2>1. Len(want[c].data) \in Nat
    BY RequestTyped
  <2> QED
    BY <2>1 DEF ReceivedInv, ClientInv
<1> QED
  BY <1>1, <1>2, <1>3 DEF XInv

\* The clients' own variables keep their types.
LEMMA ClientTypeStep ==
  ASSUME XInv, [ExchangeNext]_exchangeVars
  PROVE  ClientTypeOK'
<1> USE DEF XInv, ClientTypeOK, clientVars
<1>1. ASSUME NEW c \in Conn, Client(c) PROVE ClientTypeOK'
  <2>1. CASE ReadBody(c)
    <3>1. told[c].body \in Seq(Byte)
      BY DEF IInv, TypeOK, Answers
    <3>2. \A n \in 0..Len(told[c].body) : SubSeq(told[c].body, 1, n) \in Seq(Byte)
      BY <3>1, PrefixTyped, LenProperties
    <3> QED
      BY <2>1, <3>2 DEF ReadBody, End
  <2> QED
    BY <1>1, <2>1 DEF Client, Unavailable, Connect, ConnectNowhere, ReadLine,
       ReadNothing, Timeout, End
<1>2. CASE Transport
  BY <1>2 DEF Transport, DeliverLine, DeliverByte, DeliverEnd, Cut, TunnelDrops
<1> QED
  BY <1>1, <1>2 DEF ExchangeNext, exchangeVars, ServerSide

\* A request arrives as it was sent: its line, then its data in order.
LEMMA ReceivedStep ==
  ASSUME XInv, [ExchangeNext]_exchangeVars, NEW c \in Conn
  PROVE  ReceivedInv(c)'
<1> USE DEF listenerVars, peerVars, handlerVars, desktopVars, vars, clientVars
<1>0. /\ want \in [Conn -> Requests] /\ line \in [Conn -> Lines \union {NoLine}]
      /\ got \in [Conn -> Seq(Byte)] /\ ReceivedInv(c)
  BY DEF XInv, IInv, TypeOK, ClientTypeOK
<1>1. UNCHANGED <<want, creds>>
  BY DEF ExchangeNext, exchangeVars, Client, Unavailable, Connect, ConnectNowhere,
     ReadLine, ReadNothing, ReadBody, Timeout, Transport, DeliverLine, DeliverByte,
     DeliverEnd, Cut, TunnelDrops, ServerSide
<1>2. RequestLine(c)' = RequestLine(c)
  BY <1>1 DEF RequestLine
<1>3. CASE UNCHANGED <<line, got>>
  BY <1>0, <1>1, <1>2, <1>3 DEF ReceivedInv
<1>4. ASSUME NEW d \in Conn, DeliverLine(d) PROVE ReceivedInv(c)'
  <2>1. got' = got /\ line' = [line EXCEPT ![d] = RequestLine(d)]
    BY <1>4 DEF DeliverLine, LineArrives
  <2> QED
    BY <1>0, <1>1, <1>2, <2>1 DEF ReceivedInv
<1>5. ASSUME NEW d \in Conn, DeliverByte(d) PROVE ReceivedInv(c)'
  <2> DEFINE data == want[c].data
             b    == data[Len(got[c]) + 1]
  <2>1. line' = line /\ (c # d => got'[c] = got[c])
    BY <1>0, <1>5 DEF DeliverByte, ByteArrives
  <2>2. CASE c # d
    BY <1>0, <1>1, <1>2, <2>1, <2>2 DEF ReceivedInv
  <2>3. CASE c = d
    <3>1. got'[c] = Append(got[c], b) /\ Len(got[c]) < Len(data)
      BY <1>0, <1>5, <2>3 DEF DeliverByte, ByteArrives
    <3>2. Len(got[c]) \in Nat /\ Len(data) \in Nat
      BY <1>0, RequestTyped, LenProperties
    <3> HIDE DEF b
    <3>3. /\ Len(got'[c]) = Len(got[c]) + 1
          /\ \A i \in 1..Len(got[c]) : got'[c][i] = got[c][i]
          /\ got'[c][Len(got[c]) + 1] = b
      BY <1>0, <3>1, AppendProperties
    <3>5. b = data[Len(got[c]) + 1] BY DEF b
    <3>6. \A i \in 1..Len(got[c]) : got[c][i] = data[i] BY <1>0 DEF ReceivedInv
    <3>7. \A i \in 1..Len(got'[c]) : i \in 1..Len(got[c]) \/ i = Len(got[c]) + 1 BY <3>2, <3>3
    <3>8. Len(data) >= Len(got[c]) + 1 BY <3>1, <3>2
    <3> HIDE DEF data
    <3>4. \A i \in 1..Len(got'[c]) : got'[c][i] = data[i] BY <3>3, <3>5, <3>6, <3>7
    <3> USE DEF data
    <3> QED
      BY <1>0, <1>1, <1>2, <2>1, <3>2, <3>3, <3>4, <3>8 DEF ReceivedInv
  <2> QED
    BY <2>2, <2>3
<1> QED
  BY <1>3, <1>4, <1>5 DEF ExchangeNext, exchangeVars, Client, Unavailable, Connect, Dial,
     ConnectNowhere, ReadLine, ReadNothing, ReadBody, Timeout, Transport, DeliverEnd,
     PeerEnds, Cut, TunnelDrops, ServerSide, Accept, Handle, Desktop, DeadlineExpires,
     ReadHeaderFails, RejectHeader, Hello, Dispatch, ReadPayload, ReadPayloadFails,
     WriteStatus, WriteBody, CopyTool, PasteTool, OpenURL, Stop, LocalCopy

\* Every step keeps what a client's place says of its connection and its answer.
LEMMA ClientStep ==
  ASSUME XInv, [ExchangeNext]_exchangeVars, NEW c \in Conn
  PROVE  ClientInv(c)'
<1>0. ClientTypeOK /\ ClientInv(c)
  BY DEF XInv
<1>1. told[c].status = "OK" => told'[c].status = "OK"
  BY ServerStep, ToldStays DEF XInv
<1>2. CASE Connect(c)
  BY <1>0, <1>2 DEF Connect, ClientInv, ClientTypeOK
<1>3. CASE ~Connect(c)
  <2>1. pc[c] = "idle" => pc'[c] = "idle"
    BY <1>3, IdleStays
  <2>2. CASE UNCHANGED <<want, cpc, outcome>>
    BY <1>0, <1>1, <2>1, <2>2 DEF ClientInv
  <2>3. ASSUME NEW d \in Conn, Client(d) PROVE ClientInv(c)'
    <3>1. CASE c # d
      <4>1. want' = want /\ cpc'[c] = cpc[c] /\ outcome'[c] = outcome[c]
        BY <1>0, <2>3, <3>1 DEF ClientTypeOK, Client, Unavailable, Connect,
           ConnectNowhere, ReadLine, ReadNothing, ReadBody, Timeout, End
      <4> QED
        BY <1>0, <1>1, <2>1, <4>1 DEF ClientInv
    <3>2. CASE c = d
      BY <1>0, <1>1, <1>3, <2>1, <2>3, <3>2 DEF ClientInv, ClientTypeOK, Client,
         Unavailable, ConnectNowhere, ReadLine, ReadNothing, ReadBody, Timeout, End
    <3> QED
      BY <3>1, <3>2
  <2> QED
    BY <2>2, <2>3 DEF ExchangeNext, exchangeVars, clientVars, Transport, DeliverLine,
       DeliverByte, DeliverEnd, Cut, TunnelDrops, ServerSide
<1> QED
  BY <1>2, <1>3

\* A step of an exchange.
LEMMA ExchangeStepInv == XInv /\ [ExchangeNext]_exchangeVars => XInv'
<1> SUFFICES ASSUME XInv, [ExchangeNext]_exchangeVars PROVE XInv'
  OBVIOUS
<1>1. IInv'
  BY ServerStep, StepIInv DEF XInv
<1> QED
  BY <1>1, ClientTypeStep, ReceivedStep, ClientStep DEF XInv

\* The invariant holds throughout an exchange.
LEMMA ExchangeInductive == ExchangeSpec => []XInv
  BY ExchangeInitInv, ExchangeStepInv, PTL DEF ExchangeSpec

-----------------------------------------------------------------------------
(* The refinement.                                                         *)

\* The expressions that stand for the variables verb, content, exact and
\* performed of ClipboardService.
Asked     == [c \in Conn |-> want[c].verb]
Carried   == [c \in Conn |-> want[c].data]
Exact     == Conn \ Shims
Performed == [c \in Conn |-> IF ran[c] = NotRun THEN NotRun
                             ELSE [data |-> ran[c].data, ok |-> ran[c].ok]]

\* What the service is asked for is the clients' requests.
LEMMA RequestsStay ==
  ASSUME UNCHANGED <<want, creds>>
  PROVE  UNCHANGED <<Asked, Carried, Exact>>
  BY DEF Asked, Carried, Exact, Shims

\* A step that the service does not see.
LEMMA Stutter ==
  ASSUME UNCHANGED <<want, creds, clipboard, ran, outcome, output>>
  PROVE  UNCHANGED Service!serviceVars
  BY DEF Service!serviceVars, Shims

\* The tool runs on the data of the request.
LEMMA PayloadIsData ==
  ASSUME XInv, NEW c \in Conn, pc[c] = "operation"
  PROVE  /\ Verb(c) = want[c].verb
         /\ want[c].verb # "PASTE" => Payload(c) = want[c].data
<1>1. /\ IInv /\ TypeOK /\ ClientTypeOK /\ ConnInv(c) /\ ReceivedInv(c)
      /\ got[c] \in Seq(Byte) /\ want[c] \in Requests
  BY DEF XInv, IInv, TypeOK, ClientTypeOK
<1>2. Admitted(c) /\ line[c] = RequestLine(c)
  BY <1>1 DEF ConnInv, LocationInv, Admitted, ReceivedInv
<1>3. /\ Verb(c) = want[c].verb
      /\ want[c].verb # "PASTE" => PayloadLength(c) = Len(want[c].data)
  BY <1>1, <1>2, LineRead
<1>4. CASE want[c].verb # "PASTE"
  <2>1. want[c].data \in Seq(Byte) /\ clipboardVerbHasPayload(Verb(c))
    BY <1>1, <1>3, <1>4, RequestTyped DEF clipboardVerbHasPayload
  <2>2. PayloadLength(c) <= Len(got[c]) /\ Len(got[c]) <= Len(want[c].data)
    BY <1>1, <2>1 DEF ConnInv, LocationInv, ReceivedInv
  <2>3. Len(got[c]) \in Nat /\ Len(want[c].data) \in Nat
    BY <1>1, <2>1, LenProperties
  <2>4. Len(got[c]) = Len(want[c].data) /\ PayloadLength(c) = Len(got[c])
    BY <1>3, <1>4, <2>2, <2>3
  <2>5. got[c] = want[c].data
    BY <1>1, <2>1, <2>4, SeqEqual DEF ReceivedInv
  <2>6. SubSeq(got[c], 1, Len(got[c])) = got[c]
    BY <1>1, SubSeqFull
  <2> QED
    BY <1>3, <2>4, <2>5, <2>6 DEF Payload
<1> QED
  BY <1>3, <1>4

\* A tool that runs for c performs c's request, for the first time.
LEMMA RunPerforms ==
  ASSUME XInv, NEW c \in Conn, pc[c] = "operation",
         NEW data \in Seq(Byte), NEW ok \in BOOLEAN, Run(c, data, ok)
  PROVE  /\ Performed[c] = NotRun /\ outcome[c] # "native"
         /\ Performed' = [Performed EXCEPT ![c] = [data |-> data, ok |-> ok]]
<1>1. ran[c] = NotRun /\ outcome[c] # "native" /\ Verb(c) \in Verbs
  <2>1. Admitted(c) /\ ran[c] = NotRun /\ TypeOK
    BY DEF XInv, IInv, ConnInv, LocationInv
  <2>2. Verb(c) \in Verbs
    BY <2>1, AdmittedHeader
  <2> QED
    BY <2>1, <2>2 DEF XInv, ClientInv
<1> DEFINE record == [verb |-> Verb(c), data |-> data, ok |-> ok]
<1>2. record # NotRun /\ record.data = data /\ record.ok = ok
  BY <1>1, NotRunAssumption DEF Records
<1>3. ran \in [Conn -> Records \union {NotRun}] /\ ran' = [ran EXCEPT ![c] = record]
  BY DEF XInv, IInv, TypeOK, Run
<1> HIDE DEF record
<1>4. ran'[c] = record /\ \A d \in Conn \ {c} : ran'[d] = ran[d]
  BY <1>3
<1> QED
  BY <1>1, <1>2, <1>4 DEF Performed

\* A copy that succeeds is a performance of the service.
LEMMA CopyServes ==
  ASSUME XInv, NEW c \in Conn, CopyTool(c), UNCHANGED clientVars
  PROVE  Service!Perform(c)
<1>1. pc[c] = "operation" /\ want[c].verb = "COPY" /\ Payload(c) = want[c].data
  BY PayloadIsData DEF CopyTool
<1>2. want[c].data \in Seq(Byte)
  BY RequestTyped DEF XInv, ClientTypeOK
<1>3. PICK ok \in BOOLEAN : /\ Run(c, want[c].data, ok)
                            /\ clipboard' \in IF ok THEN {want[c].data}
                                             ELSE {clipboard, want[c].data}
  BY <1>1 DEF CopyTool
<1>4. /\ Performed[c] = NotRun /\ outcome[c] # "native"
      /\ Performed' = [Performed EXCEPT ![c] = [data |-> want[c].data, ok |-> ok]]
  BY <1>1, <1>2, <1>3, RunPerforms
<1>5. Asked[c] = "COPY" /\ Carried[c] = want[c].data
  BY <1>1 DEF Asked, Carried
<1>6. UNCHANGED <<Asked, Carried, Exact, outcome, output>>
  BY RequestsStay DEF clientVars
<1> QED
  BY <1>3, <1>4, <1>5, <1>6 DEF Service!Perform, Asked, Carried, Exact, Performed

\* So is a paste.
LEMMA PasteServes ==
  ASSUME XInv, NEW c \in Conn, PasteTool(c), UNCHANGED clientVars
  PROVE  Service!Perform(c)
<1>1. pc[c] = "operation" /\ want[c].verb = "PASTE" /\ UNCHANGED clipboard
  BY PayloadIsData DEF PasteTool
<1>2. clipboard \in Seq(Byte) /\ <<>> \in Seq(Byte)
  BY EmptySeq DEF XInv, IInv, TypeOK
<1>3. PICK ok \in BOOLEAN : Run(c, IF ok THEN clipboard ELSE <<>>, ok)
  BY <1>1 DEF PasteTool
<1>4. /\ Performed[c] = NotRun /\ outcome[c] # "native"
      /\ Performed' = [Performed EXCEPT ![c] =
                         [data |-> IF ok THEN clipboard ELSE <<>>, ok |-> ok]]
  BY <1>1, <1>2, <1>3, RunPerforms
<1>5. Asked[c] = "PASTE"
  BY <1>1 DEF Asked
<1>6. UNCHANGED <<Asked, Carried, Exact, outcome, output>>
  BY RequestsStay DEF clientVars
<1> QED
  BY <1>1, <1>4, <1>5, <1>6 DEF Service!Perform, Asked, Carried, Exact, Performed

\* What is not a URL is not opened, which the abstract service does not see.
LEMMA OpenServes ==
  ASSUME XInv, NEW c \in Conn, OpenURL(c), UNCHANGED clientVars
  PROVE  Service!Perform(c) \/ UNCHANGED Service!serviceVars
<1>1. /\ pc[c] = "operation" /\ want[c].verb = "OPEN" /\ Payload(c) = want[c].data
      /\ UNCHANGED clipboard
  BY PayloadIsData DEF OpenURL
<1>2. want[c].data \in Seq(Byte)
  BY RequestTyped DEF XInv, ClientTypeOK
<1>3. CASE Payload(c) \notin Targets
  BY <1>1, <1>3, Stutter DEF OpenURL, clientVars
<1>4. CASE Payload(c) \in Targets
  <2>1. PICK ok \in BOOLEAN : Run(c, want[c].data, ok)
    BY <1>1, <1>4 DEF OpenURL
  <2>2. /\ Performed[c] = NotRun /\ outcome[c] # "native"
        /\ Performed' = [Performed EXCEPT ![c] = [data |-> want[c].data, ok |-> ok]]
    BY <1>1, <1>2, <2>1, RunPerforms
  <2>3. Asked[c] = "OPEN" /\ Carried[c] = want[c].data
    BY <1>1 DEF Asked, Carried
  <2>4. UNCHANGED <<Asked, Carried, Exact, outcome, output>>
    BY RequestsStay DEF clientVars
  <2> QED
    BY <1>1, <2>2, <2>3, <2>4 DEF Service!Perform, Asked, Carried, Exact, Performed
<1> QED
  BY <1>3, <1>4

\* The beginning of a beginning.
LEMMA PrefixOfPrefix ==
  ASSUME NEW S, NEW s \in Seq(S), NEW k \in 0..Len(s), NEW n \in 0..k
  PROVE  SubSeq(SubSeq(s, 1, k), 1, n) = SubSeq(s, 1, n)
<1>1. Len(s) \in Nat
  BY LenProperties
<1>2. CASE n = 0
  BY <1>2, SubSeqEmpty
<1>3. CASE n # 0
  <2>1. 1 \in 1..Len(s) /\ k \in 1..Len(s) /\ 1 \in 1..k-1+1 /\ n \in 1..k-1+1
    BY <1>1, <1>3
  <2>2. SubSeq(SubSeq(s, 1, k), 1, n) = SubSeq(s, 1+1-1, 1+n-1)
    BY <2>1, SubSeqOfSubSeq
  <2> QED
    BY <1>1, <2>2
<1> QED
  BY <1>2, <1>3

\* A client that was told OK has had its request performed.
LEMMA ToldOk ==
  ASSUME XInv, NEW c \in Conn, told[c].status = "OK"
  PROVE  /\ ran[c] \in Records /\ ran[c] # NotRun /\ ran[c].ok
         /\ Performed[c] # NotRun /\ Performed[c].data = ran[c].data /\ Performed[c].ok
         /\ want[c].verb = "PASTE" =>
              /\ told[c].length = Len(ran[c].data)
              /\ \E k \in 0..Len(ran[c].data) : told[c].body = SubSeq(ran[c].data, 1, k)
<1>1. AnswerTellsOutcome /\ TypeOK /\ ClientTypeOK
  BY ToldIsTrue DEF XInv, IInv
<1>2. Admitted(c) /\ line[c] = RequestLine(c) /\ want[c] \in Requests
  BY <1>1 DEF AnswerTellsOutcome, Admitted, XInv, ReceivedInv, ClientTypeOK
<1>3. Verb(c) = want[c].verb /\ want[c].verb \in {"COPY", "PASTE", "OPEN"}
  BY <1>1, <1>2, LineRead, RequestTyped
<1>4. ran[c] # NotRun /\ ran[c].ok
  BY <1>1, <1>3 DEF AnswerTellsOutcome
<1>5. ran[c] \in Records /\ ran[c].data \in Seq(Byte) /\ ran[c].ok \in BOOLEAN
  BY <1>1, <1>4 DEF TypeOK, Records
<1>6. /\ Performed[c] = [data |-> ran[c].data, ok |-> ran[c].ok]
      /\ Performed[c].data = ran[c].data /\ Performed[c].ok = ran[c].ok
  BY <1>4, <1>5 DEF Performed
<1>7. Performed[c] \in [data : Seq(Byte), ok : BOOLEAN]
  BY <1>5, <1>6
<1>8. Performed[c] # NotRun
  BY <1>7, NotPerformedAssumption
<1> QED
  BY <1>1, <1>3, <1>4, <1>5, <1>6, <1>8 DEF AnswerTellsOutcome

\* A client ends: with success, in failure, or by handing its request over.
LEMMA EndServes ==
  ASSUME XInv, NEW c \in Conn, cpc[c] # "done", UNCHANGED vars,
         UNCHANGED <<want, creds>>,
         \/ End(c, "error") /\ UNCHANGED output
         \/ End(c, "native") /\ UNCHANGED output /\ cpc[c] = "start"
         \/ /\ End(c, "ok") /\ told[c].status = "OK"
            /\ IF want[c].verb = "PASTE"
               THEN \E n \in 0..Len(told[c].body) :
                      /\ c \notin Shims => n = told[c].length
                      /\ output' = [output EXCEPT ![c] = SubSeq(told[c].body, 1, n)]
               ELSE UNCHANGED output
  PROVE  Service!ServiceNext
<1>1. outcome[c] = "pending"
  BY DEF XInv, ClientInv
<1>2. UNCHANGED <<Asked, Carried, Exact, Performed, clipboard>>
  BY RequestsStay DEF vars, desktopVars, Performed
<1>3. CASE End(c, "error") /\ UNCHANGED output
  BY <1>1, <1>2, <1>3
  DEF End, Service!ServiceNext, Service!Fail, Asked, Carried, Exact, Performed
<1>4. CASE End(c, "native") /\ UNCHANGED output /\ cpc[c] = "start"
  <2>1. ran[c] = NotRun
    BY <1>4 DEF XInv, IInv, ConnInv, LocationInv, ClientInv
  <2>2. Performed[c] = NotRun
    BY <2>1 DEF Performed
  <2> QED
    BY <1>1, <1>2, <1>4, <2>2
    DEF End, Service!ServiceNext, Service!HandOver, Asked, Carried, Exact, Performed
<1>5. CASE End(c, "ok") /\ told[c].status = "OK" /\ want[c].verb # "PASTE" /\ UNCHANGED output
  <2>1. Performed[c] # NotRun /\ Performed[c].ok /\ Asked[c] = want[c].verb
    BY <1>5, ToldOk DEF Asked
  <2>2. Service!Succeed(c)
    BY <1>1, <1>2, <1>5, <2>1
    DEF End, Service!Succeed, Asked, Carried, Exact, Performed
  <2> QED
    BY <2>2 DEF Service!ServiceNext
<1>6. ASSUME End(c, "ok"), told[c].status = "OK", want[c].verb = "PASTE",
             NEW n \in 0..Len(told[c].body), c \notin Shims => n = told[c].length,
             output' = [output EXCEPT ![c] = SubSeq(told[c].body, 1, n)]
      PROVE  Service!ServiceNext
  <2> DEFINE data == ran[c].data
  <2>0. Asked[c] = "PASTE"
    BY <1>6 DEF Asked
  <2>1. /\ data \in Seq(Byte) /\ Performed[c] # NotRun /\ Performed[c].ok
        /\ Performed[c].data = data /\ told[c].length = Len(data)
    BY <1>6, ToldOk DEF Records
  <2>2. PICK k \in 0..Len(data) : told[c].body = SubSeq(data, 1, k)
    BY <1>6, ToldOk
  <2> HIDE DEF data
  <2>3. Len(data) \in Nat /\ Len(told[c].body) = k
    BY <2>1, <2>2, PrefixTyped, LenProperties
  <2>4. n \in 0..k /\ n \in 0..Len(data)
    BY <1>6, <2>3
  <2>5. SubSeq(told[c].body, 1, n) = SubSeq(Performed[c].data, 1, n)
    BY <2>1, <2>2, <2>4, PrefixOfPrefix
  <2>6. c \in Exact => n = Len(Performed[c].data)
    BY <1>6, <2>1 DEF Exact
  <2>7. n \in 0..Len(Performed[c].data)
    BY <2>1, <2>4
  <2>8. outcome' = [outcome EXCEPT ![c] = "ok"]
    BY <1>6 DEF End
  <2>9. output' = [output EXCEPT ![c] = SubSeq(Performed[c].data, 1, n)]
    BY <1>6, <2>5
  <2>10. Service!Succeed(c)
    BY <1>1, <1>2, <2>0, <2>1, <2>6, <2>7, <2>8, <2>9
    DEF Service!Succeed, Asked, Carried, Exact, Performed
  <2> QED
    BY <2>10 DEF Service!ServiceNext
<1> QED
  BY <1>3, <1>4, <1>5, <1>6

\* Every step of an exchange is a step of the service.
LEMMA StepServes ==
  ASSUME XInv, [ExchangeNext]_exchangeVars
  PROVE  [Service!ServiceNext]_(Service!serviceVars)
<1> USE DEF vars, desktopVars, clientVars
<1>1. ASSUME NEW c \in Conn, Client(c)
      PROVE  Service!ServiceNext \/ UNCHANGED Service!serviceVars
  <2>1. CASE Unavailable(c)
    BY <2>1, EndServes DEF Unavailable
  <2>2. CASE ReadLine(c)
    <3>1. CASE want[c].verb = "PASTE" /\ told[c].status = "OK"
      BY <2>2, <3>1, Stutter DEF ReadLine
    <3>2. CASE ~(want[c].verb = "PASTE" /\ told[c].status = "OK")
      BY <2>2, <3>2, EndServes DEF ReadLine
    <3> QED
      BY <3>1, <3>2
  <2>3. CASE ReadBody(c)
    <3>1. told[c].status = "OK" /\ want[c].verb = "PASTE" /\ cpc[c] # "done"
      BY <2>3 DEF ReadBody, XInv, ClientInv
    <3> QED
      BY <2>3, <3>1, EndServes DEF ReadBody
  <2>4. CASE ReadNothing(c) \/ Timeout(c)
    BY <2>4, EndServes DEF ReadNothing, Timeout
  <2>5. CASE Connect(c) \/ ConnectNowhere(c)
    BY <2>5, Stutter DEF Connect, Dial, ConnectNowhere
  <2> QED
    BY <1>1, <2>1, <2>2, <2>3, <2>4, <2>5 DEF Client
<1>2. CASE Transport
  BY <1>2, Stutter DEF Transport, DeliverLine, DeliverByte, DeliverEnd, Cut, TunnelDrops,
     LineArrives, ByteArrives, PeerEnds
<1>3. ASSUME NEW c \in Conn, Desktop(c), UNCHANGED clientVars
      PROVE  Service!ServiceNext \/ UNCHANGED Service!serviceVars
  BY <1>3, CopyServes, PasteServes, OpenServes DEF Desktop, Service!ServiceNext
<1>4. ASSUME NEW c \in Conn, Accept(c) \/ Handle(c) \/ DeadlineExpires(c),
             UNCHANGED clientVars
      PROVE  UNCHANGED Service!serviceVars
  BY <1>4, Stutter DEF Accept, Handle, DeadlineExpires, ReadHeaderFails, RejectHeader,
     Hello, Dispatch, ReadPayload, ReadPayloadFails, WriteStatus, WriteBody
<1>5. ASSUME Stop, UNCHANGED clientVars
      PROVE  UNCHANGED Service!serviceVars
  BY <1>5, Stutter DEF Stop
<1>6. ASSUME NEW b \in Byte, LocalCopy(<<b>>), UNCHANGED clientVars
      PROVE  Service!ServiceNext
  <2>1. UNCHANGED <<Asked, Carried, Exact, Performed, outcome, output>> /\ clipboard' = <<b>>
    BY <1>6, RequestsStay DEF LocalCopy, Performed
  <2>2. Service!SetDesktop(<<b>>)
    BY <2>1 DEF Service!SetDesktop, Asked, Carried, Exact, Performed
  <2> QED
    BY <2>2 DEF Service!ServiceNext
<1>7. CASE UNCHANGED exchangeVars
  BY <1>7, Stutter DEF exchangeVars
<1> QED
  BY <1>1, <1>2, <1>3, <1>4, <1>5, <1>6, <1>7 DEF ExchangeNext, ServerSide

\* Within an exchange the server behaves as it does with any peers: what is
\* proved of Spec, such as AnswersAreTrue, holds of it there as well.
THEOREM ExchangeRunsServer == ExchangeSpec => Spec
<1>1. ExchangeInit => Init
  BY DEF ExchangeInit
<1>2. XInv /\ [ExchangeNext]_exchangeVars => [Next]_vars
  BY ServerStep
<1> QED
  BY <1>1, <1>2, ExchangeInductive, PTL DEF ExchangeSpec, Spec

\* The exchange implements ClipboardService: a request is performed at most
\* once and with exactly its data, reported as done only when it was, and never
\* performed when it was handed to a native tool, however connections, cuts,
\* timeouts and desktop tools interleave (exchange, main of the shim, handle,
\* clipboardCall).
THEOREM ServiceIsKept == ExchangeSpec => KeepsServicePromise
<1>1. ExchangeInit => Service!ServiceInit
  <2> SUFFICES ASSUME ExchangeInit PROVE Service!ServiceInit
    OBVIOUS
  <2>1. \A c \in Conn : want[c].verb \in {"COPY", "PASTE", "OPEN"}
    BY RequestTyped DEF ExchangeInit
  <2> QED
    BY <2>1 DEF ExchangeInit, Init, Service!ServiceInit
<1>2. XInv /\ [ExchangeNext]_exchangeVars => [Service!ServiceNext]_(Service!serviceVars)
  BY StepServes
<1> QED
  BY <1>1, <1>2, ExchangeInductive, PTL
  DEF ExchangeSpec, KeepsServicePromise, Service!ServiceSpec
=============================================================================
