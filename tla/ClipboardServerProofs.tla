------------------------- MODULE ClipboardServerProofs -------------------------
(***************************************************************************)
(* The safety properties of ClipboardServer, for every set of connections, *)
(* ports, header lines and payloads.                                       *)
(*                                                                         *)
(* Connections are independent: ConnInv(c) speaks of connection c alone,   *)
(* and says at each location of its goroutine what has been established.   *)
(***************************************************************************)
EXTENDS ClipboardServer, SequenceTheorems, TLAPS

\* The answer handle is about to write agrees with what the desktop did.
ReplyInv(c) ==
  /\ reply[c].status \in {"OK", "ERR"}
  /\ reply[c].status = "OK" =>
       /\ Admitted(c)
       /\ Verb(c) # "HELLO" => ran[c] # NotRun /\ ran[c].ok
       /\ Verb(c) = "PASTE" => /\ reply[c].body = ran[c].data
                               /\ reply[c].length = Len(ran[c].data)
  /\ reply[c].status = "ERR" => /\ ran[c] = NotRun \/ ~ran[c].ok
                                /\ reply[c] = Err

\* A desktop tool has only been run for what the peer was entitled to.
RanInv(c) ==
  ran[c] # NotRun =>
    /\ Admitted(c)
    /\ ran[c].verb = Verb(c)
    /\ clipboardVerbHasPayload(Verb(c)) =>
         /\ PayloadLength(c) <= Len(got[c])
         /\ ran[c].data = Payload(c)
    /\ Verb(c) = "OPEN" => ran[c].data \in Targets

\* What the goroutine of c has established where it is.
LocationInv(c) ==
  /\ pc[c] \in {"idle", "backlog", "reset", "header", "payload", "operation"} =>
       ran[c] = NotRun /\ told[c] = NoAnswer
  /\ pc[c] \in {"payload", "operation"} => Admitted(c) /\ Verb(c) # "HELLO"
  /\ pc[c] = "payload" => clipboardVerbHasPayload(Verb(c))
  /\ pc[c] = "operation" /\ clipboardVerbHasPayload(Verb(c)) =>
       PayloadLength(c) <= Len(got[c])
  /\ pc[c] \in {"reply", "body", "closed"} => ReplyInv(c)
  /\ pc[c] = "reply" => told[c] = NoAnswer
  /\ pc[c] = "body" =>
       /\ reply[c].status = "OK" /\ Verb(c) = "PASTE"
       /\ \/ told[c] = NoAnswer /\ late[c]
          \/ told[c] = [reply[c] EXCEPT !.body = <<>>]
  /\ pc[c] = "closed" =>
       \/ told[c] = NoAnswer /\ late[c]
       \/ /\ told[c].status = reply[c].status
          /\ told[c].status = "ERR" => told[c].body = <<>>
          /\ told[c].status = "OK" /\ Verb(c) = "PASTE" =>
               /\ told[c].length = reply[c].length
               /\ \E n \in 0..reply[c].length : told[c].body = SubSeq(reply[c].body, 1, n)
               /\ ~late[c] => told[c].body = reply[c].body

ConnInv(c) == RanInv(c) /\ LocationInv(c)

IInv ==
  /\ TypeOK
  /\ bound # {} => bound = {port}
  /\ \A c \in Conn : ConnInv(c)

-----------------------------------------------------------------------------
(* Operators.                                                              *)

\* What handlers answer is an answer.
LEMMA AnswersTyped ==
  /\ NoAnswer \in Answers
  /\ Err \in Answers
  /\ Ok(<<>>) \in Answers
  /\ \A body \in Seq(Byte) : Ok(body) \in Answers
<1>1. <<>> \in Seq(Byte) /\ Len(<<>>) = 0
  BY EmptySeq
<1>2. \A body \in Seq(Byte) : Len(body) \in Nat
  BY LenProperties
<1> QED
  BY <1>1, <1>2 DEF NoAnswer, Err, Ok, Answers

\* A header that is admitted declares a length the server accepts.
LEMMA AdmittedHeader ==
  ASSUME TypeOK, NEW c \in Conn, Admitted(c)
  PROVE  /\ line[c] \in Lines
         /\ Verb(c) \in Verbs
         /\ PayloadLength(c) \in 0..MaxPayload
  BY PayloadAssumption, LineAssumption
  DEF TypeOK, Admitted, HeaderParses, LengthAccepted, validClipboardPayloadLength,
      Verb, PayloadLength

\* A part of a sequence is a sequence.
LEMMA PrefixTyped ==
  ASSUME NEW S, NEW s \in Seq(S), NEW n \in Int, n <= Len(s)
  PROVE  /\ SubSeq(s, 1, n) \in Seq(S)
         /\ n >= 0 => Len(SubSeq(s, 1, n)) = n
<1>1. \A i \in 1..n : s[i] \in S
  BY ElementOfSeq, LenProperties
<1> QED
  BY <1>1, SubSeqProperties

\* Bytes that arrive later do not change a prefix that has been read.
LEMMA PrefixStable ==
  ASSUME NEW S, NEW s \in Seq(S), NEW e \in S, NEW n \in 0..Len(s)
  PROVE  SubSeq(Append(s, e), 1, n) = SubSeq(s, 1, n)
<1>1. CASE n = 0
  BY <1>1, SubSeqEmpty
<1>2. CASE n # 0
  <2>1. Append(s, e) = s \o <<e>>
    BY AppendIsConcat
  <2>2. n \in 1..Len(s) /\ 1 \in 1..Len(s)
    BY <1>2, LenProperties
  <2> QED
    BY <2>1, <2>2, SubSeqOfConcat1
<1> QED
  BY <1>1, <1>2

\* The payload of a request that has arrived whole is typed and stays the same.
LEMMA PayloadTyped ==
  ASSUME TypeOK, NEW c \in Conn, Admitted(c), PayloadLength(c) <= Len(got[c])
  PROVE  Payload(c) \in Seq(Byte) /\ Len(Payload(c)) = PayloadLength(c)
<1>1. PayloadLength(c) \in 0..MaxPayload /\ got[c] \in Seq(Byte)
  BY AdmittedHeader DEF TypeOK
<1>2. MaxPayload \in Nat
  BY PayloadAssumption
<1> QED
  BY <1>1, <1>2, PrefixTyped DEF Payload

-----------------------------------------------------------------------------
\* The first state.
LEMMA InitIInv == Init => IInv
<1> SUFFICES ASSUME Init PROVE IInv
  OBVIOUS
<1> USE DEF Init
<1>1. TypeOK
  BY PortAssumption, AnswersTyped DEF TypeOK, Serving
<1>2. ASSUME NEW c \in Conn PROVE ConnInv(c)
  BY <1>2 DEF ConnInv, RanInv, LocationInv
<1> QED
  BY <1>1, <1>2 DEF IInv

\* Every step of Next is a step of one connection, of the listener, or of the
\* user of the desktop.
ConnStep(c) ==
  \/ Accept(c) \/ Handle(c) \/ Desktop(c) \/ DeadlineExpires(c)
  \/ \E p \in Ports : Dial(c, p)
  \/ \E l \in Lines : LineArrives(c, l)
  \/ \E b \in Byte : ByteArrives(c, b)
  \/ PeerEnds(c)

\* The steps by who takes them.
LEMMA NextCases ==
  ASSUME Next
  PROVE  \/ \E c \in Conn : ConnStep(c)
         \/ \E p \in Ports : Relisten(p)
         \/ Stop
         \/ \E b \in Byte : LocalCopy(<<b>>)
  BY DEF Next, Server, Peers, ConnStep

\* Every step keeps the types.
LEMMA TypeStep == IInv /\ [Next]_vars => TypeOK'
<1> SUFFICES ASSUME IInv, [Next]_vars PROVE TypeOK'
  OBVIOUS
<1> USE DEF TypeOK, Serving, listenerVars, peerVars, handlerVars, desktopVars
<1>1. TypeOK
  BY DEF IInv
<1>2. ASSUME NEW c \in Conn, ConnStep(c) PROVE TypeOK'
  <2>1. CASE \E p \in Ports : Dial(c, p)
    BY <1>1, <2>1 DEF Dial
  <2>2. CASE \E l \in Lines : LineArrives(c, l)
    BY <1>1, <2>2 DEF LineArrives
  <2>3. CASE \E b \in Byte : ByteArrives(c, b)
    <3>1. PICK b \in Byte : ByteArrives(c, b)
      BY <2>3
    <3>2. got[c] \in Seq(Byte) /\ Append(got[c], b) \in Seq(Byte)
      BY <1>1, AppendProperties
    <3> QED
      BY <1>1, <3>1, <3>2 DEF ByteArrives
  <2>4. CASE PeerEnds(c)
    BY <1>1, <2>4 DEF PeerEnds
  <2>5. CASE Accept(c)
    BY <1>1, <2>5 DEF Accept
  <2>6. CASE DeadlineExpires(c)
    BY <1>1, <2>6 DEF DeadlineExpires
  <2>7. CASE Handle(c)
    <3>1. CASE ReadHeaderFails(c) \/ RejectHeader(c) \/ Hello(c) \/ ReadPayloadFails(c)
      <4>1. Ok(<<>>) \in Answers /\ Err \in Answers
        BY AnswersTyped
      <4>2. PICK answer \in Answers :
              /\ reply' = [reply EXCEPT ![c] = answer]
              /\ pc' = [pc EXCEPT ![c] = "reply"]
        BY <3>1, <4>1
        DEF ReadHeaderFails, RejectHeader, Hello, ReadPayloadFails, Answer
      <4>3. UNCHANGED <<port, bound, at, line, got, fin, late, told, clipboard, ran>>
        BY <3>1 DEF ReadHeaderFails, RejectHeader, Hello, ReadPayloadFails, Answer
      <4> QED
        BY <1>1, <4>2, <4>3
    <3>2. CASE Dispatch(c) \/ ReadPayload(c)
      BY <1>1, <3>2 DEF Dispatch, ReadPayload
    <3>3. CASE WriteStatus(c)
      <4>1. [reply[c] EXCEPT !.body = <<>>] \in Answers /\ told[c] \in Answers
        <5>1. <<>> \in Seq(Byte) /\ reply[c] \in Answers /\ told[c] \in Answers
          BY <1>1, EmptySeq
        <5> QED
          BY <5>1 DEF Answers
      <4> QED
        BY <1>1, <3>3, <4>1 DEF WriteStatus
    <3>4. CASE WriteBody(c)
      <4>1. PICK n \in 0..reply[c].length :
              told' = [told EXCEPT ![c].body = SubSeq(reply[c].body, 1, n)]
        BY <3>4 DEF WriteBody
      <4>2. n <= Len(reply[c].body) /\ n \in Int
        <5>1. ReplyInv(c) /\ reply[c].status = "OK" /\ Verb(c) = "PASTE"
          BY <3>4 DEF IInv, ConnInv, LocationInv, WriteBody
        <5>2. reply[c].length = Len(reply[c].body)
          BY <5>1 DEF ReplyInv
        <5>3. Len(reply[c].body) \in Nat
          BY <1>1, LenProperties DEF Answers
        <5> QED
          BY <5>2, <5>3
      <4>3. SubSeq(reply[c].body, 1, n) \in Seq(Byte)
        BY <1>1, <4>2, PrefixTyped DEF Answers
      <4>4. [told[c] EXCEPT !.body = SubSeq(reply[c].body, 1, n)] \in Answers
        <5>1. told[c] \in Answers
          BY <1>1
        <5> QED
          BY <4>3, <5>1 DEF Answers
      <4> QED
        BY <1>1, <3>4, <4>1, <4>4 DEF WriteBody
    <3> QED
      BY <2>7, <3>1, <3>2, <3>3, <3>4 DEF Handle
  <2>8. CASE Desktop(c)
    <3> USE DEF Answer, Run
    <3>1. pc[c] = "operation" /\ Admitted(c) /\ Verb(c) \in Verbs
      BY <1>1, <2>8, AdmittedHeader
      DEF IInv, ConnInv, LocationInv, Desktop, CopyTool, PasteTool, OpenURL
    <3>2. clipboardVerbHasPayload(Verb(c)) => Payload(c) \in Seq(Byte)
      BY <1>1, <3>1, PayloadTyped DEF IInv, ConnInv, LocationInv
    <3>3. \A body \in Seq(Byte) : Ok(body) \in Answers
      BY AnswersTyped
    <3>4. Err \in Answers /\ Ok(<<>>) \in Answers /\ <<>> \in Seq(Byte)
      BY AnswersTyped, EmptySeq
    <3>5. PICK answer \in Answers, data \in Seq(Byte), ok \in BOOLEAN :
            /\ reply' = [reply EXCEPT ![c] = answer]
            /\ pc' = [pc EXCEPT ![c] = "reply"]
            /\ \/ ran' = [ran EXCEPT ![c] = [verb |-> Verb(c), data |-> data, ok |-> ok]]
               \/ UNCHANGED ran
            /\ clipboard' \in Seq(Byte)
      <4>1. clipboard \in Seq(Byte)
        BY <1>1
      <4>2. CASE CopyTool(c)
        BY <3>2, <3>4, <4>1, <4>2 DEF CopyTool, clipboardVerbHasPayload
      <4>3. CASE PasteTool(c)
        BY <3>3, <3>4, <4>1, <4>3 DEF PasteTool
      <4>4. CASE OpenURL(c)
        <5>1. Payload(c) \in Seq(Byte)
          BY <3>2, <4>4 DEF OpenURL, clipboardVerbHasPayload
        <5>2. CASE Payload(c) \in Targets
          BY <3>4, <4>1, <4>4, <5>1, <5>2 DEF OpenURL
        <5>3. CASE Payload(c) \notin Targets
          BY <3>4, <4>1, <4>4, <5>1, <5>3 DEF OpenURL
        <5> QED
          BY <5>2, <5>3
      <4> QED
        BY <2>8, <4>2, <4>3, <4>4 DEF Desktop
    <3>6. UNCHANGED <<port, bound, at, line, got, fin, late, told>>
      BY <2>8 DEF Desktop, CopyTool, PasteTool, OpenURL
    <3>7. ran' \in [Conn -> Records \union {NotRun}]
      <4> DEFINE record == [verb |-> Verb(c), data |-> data, ok |-> ok]
      <4>1. record \in Records
        BY <3>1 DEF Records
      <4>2. ran' = [ran EXCEPT ![c] = record] \/ UNCHANGED ran
        BY <3>5
      <4> HIDE DEF record
      <4> QED
        BY <1>1, <4>1, <4>2
    <3>8. reply' \in [Conn -> Answers]
      BY <1>1, <3>5
    <3>9. pc' \in [Conn -> Serving \union {"idle", "backlog", "reset", "closed"}]
      BY <1>1, <3>5
    <3> QED
      BY <1>1, <3>5, <3>6, <3>7, <3>8, <3>9
  <2> QED
    BY <1>2, <2>1, <2>2, <2>3, <2>4, <2>5, <2>6, <2>7, <2>8 DEF ConnStep
<1>3. ASSUME NEW p \in Ports, Relisten(p) PROVE TypeOK'
  BY <1>1, <1>3 DEF Relisten, ResetBacklog
<1>4. CASE Stop
  BY <1>1, <1>4 DEF Stop, ResetBacklog
<1>5. ASSUME NEW b \in Byte, LocalCopy(<<b>>) PROVE TypeOK'
  BY <1>1, <1>5 DEF LocalCopy
<1>6. CASE UNCHANGED vars
  BY <1>1, <1>6 DEF vars
<1> QED
  BY <1>2, <1>3, <1>4, <1>5, <1>6, NextCases

-----------------------------------------------------------------------------
\* What is read off a header stays while the header does.
LEMMA SameLine ==
  ASSUME NEW c \in Conn, line'[c] = line[c]
  PROVE  /\ Admitted(c)' <=> Admitted(c)
         /\ Verb(c)' = Verb(c)
         /\ PayloadLength(c)' = PayloadLength(c)
         /\ got'[c] = got[c] => Payload(c)' = Payload(c)
  BY DEF Admitted, Verb, PayloadLength, Payload

\* A step elsewhere, or one that only resets c in the backlog.
LEMMA Frame ==
  ASSUME NEW c \in Conn, ConnInv(c),
         pc'[c] = pc[c] \/ (pc[c] = "backlog" /\ pc'[c] = "reset"),
         line'[c] = line[c], got'[c] = got[c], late'[c] = late[c],
         reply'[c] = reply[c], told'[c] = told[c], ran'[c] = ran[c]
  PROVE  ConnInv(c)'
<1> USE SameLine
<1>1. RanInv(c)'
  BY DEF ConnInv, RanInv
<1>2. ReplyInv(c) => ReplyInv(c)'
  BY DEF ReplyInv
<1>3. LocationInv(c)'
  BY <1>2 DEF ConnInv, LocationInv
<1> QED
  BY <1>1, <1>3 DEF ConnInv

\* The goroutine of c turns a request down before any tool was run for it.
LEMMA Refused ==
  ASSUME TypeOK, NEW c \in Conn, ConnInv(c),
         pc[c] \in {"header", "payload"}, Answer(c, Err),
         UNCHANGED <<line, got, ran>>
  PROVE  ConnInv(c)'
<1> USE SameLine DEF TypeOK
<1>1. pc'[c] = "reply" /\ reply'[c] = Err /\ told'[c] = NoAnswer /\ ran'[c] = NotRun
  BY DEF Answer, ConnInv, LocationInv
<1>2. RanInv(c)'
  BY <1>1 DEF RanInv
<1>3. ReplyInv(c)'
  BY <1>1 DEF ReplyInv, Err
<1> QED
  BY <1>1, <1>2, <1>3 DEF ConnInv, LocationInv

\* The steps of the peer of c and of the kernel.
LEMMA PeerStep ==
  ASSUME TypeOK, NEW c \in Conn, ConnInv(c),
         \/ \E p \in Ports : Dial(c, p)
         \/ \E l \in Lines : LineArrives(c, l)
         \/ \E b \in Byte : ByteArrives(c, b)
         \/ PeerEnds(c) \/ Accept(c) \/ DeadlineExpires(c)
  PROVE  ConnInv(c)'
<1> USE DEF listenerVars, peerVars, handlerVars, desktopVars
<1>1. CASE (\E p \in Ports : Dial(c, p)) \/ Accept(c)
  <2>1. /\ pc[c] \in {"idle", "backlog"} /\ pc'[c] \in {"backlog", "header"}
        /\ UNCHANGED <<line, got, late, reply, told, ran>>
    BY <1>1 DEF Dial, Accept, TypeOK
  <2> QED
    BY <2>1, SameLine DEF ConnInv, RanInv, LocationInv
<1>2. CASE \E l \in Lines : LineArrives(c, l)
  <2>1. /\ line[c] = NoLine /\ pc[c] \in Serving \union {"backlog"}
        /\ UNCHANGED <<got, pc, late, reply, told, ran>>
    BY <1>2 DEF LineArrives, Connected
  <2>2. ~Admitted(c)
    BY <2>1 DEF Admitted
  <2>3. ran[c] = NotRun /\ pc[c] \in {"backlog", "header", "reply"}
    BY <2>1, <2>2 DEF ConnInv, RanInv, LocationInv, ReplyInv, Serving
  <2>4. ReplyInv(c) => ReplyInv(c)'
    BY <2>1, <2>2 DEF ReplyInv
  <2> QED
    BY <2>1, <2>3, <2>4 DEF ConnInv, RanInv, LocationInv
<1>3. CASE \E b \in Byte : ByteArrives(c, b)
  <2>1. PICK b \in Byte : got' = [got EXCEPT ![c] = Append(@, b)]
    BY <1>3 DEF ByteArrives
  <2>2. UNCHANGED <<line, pc, late, reply, told, ran>>
    BY <1>3 DEF ByteArrives
  <2>3. got'[c] = Append(got[c], b) /\ got[c] \in Seq(Byte)
    BY <2>1 DEF TypeOK
  <2>4. Len(got'[c]) = Len(got[c]) + 1 /\ Len(got[c]) \in Nat
    BY <2>3, AppendProperties, LenProperties
  <2>5. Admitted(c) => PayloadLength(c) \in Nat
    BY AdmittedHeader, PayloadAssumption
  <2>6. Admitted(c) /\ PayloadLength(c) <= Len(got[c]) => Payload(c)' = Payload(c)
    <3>1. SUFFICES ASSUME Admitted(c), PayloadLength(c) <= Len(got[c])
                   PROVE  Payload(c)' = Payload(c)
      OBVIOUS
    <3>2. PayloadLength(c) \in 0..Len(got[c])
      BY <2>4, <2>5, <3>1
    <3> QED
      BY <2>2, <2>3, <3>2, PrefixStable, SameLine DEF Payload
  <2>7. RanInv(c)'
    BY <2>2, <2>4, <2>5, <2>6, SameLine DEF ConnInv, RanInv
  <2>8. ReplyInv(c) => ReplyInv(c)'
    BY <2>2, SameLine DEF ReplyInv
  <2>9. LocationInv(c)'
    BY <2>2, <2>4, <2>5, <2>8, SameLine DEF ConnInv, LocationInv
  <2> QED
    BY <2>7, <2>9 DEF ConnInv
<1>4. CASE PeerEnds(c)
  BY <1>4, Frame DEF PeerEnds
<1>5. CASE DeadlineExpires(c)
  <2>1. /\ pc[c] \in Serving /\ late'[c] = TRUE
        /\ UNCHANGED <<line, got, pc, reply, told, ran>>
    BY <1>5 DEF DeadlineExpires, TypeOK
  <2>2. ReplyInv(c) => ReplyInv(c)'
    BY <2>1, SameLine DEF ReplyInv
  <2> QED
    BY <2>1, <2>2, SameLine DEF ConnInv, RanInv, LocationInv, Serving
<1> QED
  BY <1>1, <1>2, <1>3, <1>4, <1>5

\* The steps of the goroutine of c.
LEMMA HandleStep ==
  ASSUME TypeOK, NEW c \in Conn, ConnInv(c), Handle(c)
  PROVE  ConnInv(c)'
<1> USE DEF listenerVars, peerVars, desktopVars
<1>1. CASE ReadHeaderFails(c) \/ RejectHeader(c) \/ ReadPayloadFails(c)
  BY <1>1, Refused DEF ReadHeaderFails, RejectHeader, ReadPayloadFails
<1>2. CASE Hello(c)
  <2>1. /\ Admitted(c) /\ Verb(c) = "HELLO"
        /\ pc'[c] = "reply" /\ reply'[c] = Ok(<<>>)
        /\ told'[c] = NoAnswer /\ ran'[c] = NotRun
        /\ UNCHANGED <<line, got>>
    BY <1>2 DEF Hello, Answer, ConnInv, LocationInv, TypeOK
  <2>2. RanInv(c)'
    BY <2>1 DEF RanInv
  <2>3. ReplyInv(c)'
    BY <2>1, SameLine DEF ReplyInv, Ok
  <2> QED
    BY <2>1, <2>2, <2>3 DEF ConnInv, LocationInv
<1>3. CASE Dispatch(c)
  <2>1. /\ Admitted(c) /\ Verb(c) # "HELLO"
        /\ pc'[c] = IF clipboardVerbHasPayload(Verb(c)) THEN "payload" ELSE "operation"
        /\ told'[c] = NoAnswer /\ ran'[c] = NotRun
        /\ UNCHANGED <<line, got>>
    BY <1>3 DEF Dispatch, ConnInv, LocationInv, TypeOK
  <2> QED
    BY <2>1, SameLine DEF ConnInv, RanInv, LocationInv
<1>4. CASE ReadPayload(c)
  <2>1. /\ Admitted(c) /\ Verb(c) # "HELLO"
        /\ Len(got[c]) >= PayloadLength(c)
        /\ pc'[c] = "operation" /\ told'[c] = NoAnswer /\ ran'[c] = NotRun
        /\ UNCHANGED <<line, got>>
    BY <1>4 DEF ReadPayload, ConnInv, LocationInv, TypeOK
  <2>2. Len(got[c]) \in Nat /\ PayloadLength(c) \in Nat
    BY <2>1, AdmittedHeader, PayloadAssumption, LenProperties DEF TypeOK
  <2> QED
    BY <2>1, <2>2, SameLine DEF ConnInv, RanInv, LocationInv
<1>5. CASE WriteStatus(c)
  <2>1. /\ pc[c] = "reply" /\ told[c] = NoAnswer /\ ReplyInv(c) /\ RanInv(c)
        /\ UNCHANGED <<line, got, late, reply, ran>>
    BY <1>5 DEF WriteStatus, ConnInv, LocationInv
  <2>2. told'[c] = IF late[c] THEN NoAnswer ELSE [reply[c] EXCEPT !.body = <<>>]
    BY <1>5, <2>1 DEF WriteStatus, TypeOK
  <2>3. pc'[c] = IF reply[c].status = "OK" /\ Verb(c) = "PASTE" THEN "body" ELSE "closed"
    BY <1>5 DEF WriteStatus, TypeOK
  <2>4. RanInv(c)' /\ ReplyInv(c)'
    BY <2>1, SameLine DEF RanInv, ReplyInv
  <2>5. reply[c] \in Answers
    BY DEF TypeOK
  <2>6. CASE pc'[c] = "body"
    BY <2>1, <2>2, <2>3, <2>4, <2>6, SameLine DEF ConnInv, LocationInv
  <2>7. CASE pc'[c] = "closed"
    <3>1. CASE late[c]
      BY <2>1, <2>2, <2>4, <2>7, <3>1 DEF ConnInv, LocationInv
    <3>2. CASE ~late[c]
      <4>1. told'[c].status = reply[c].status /\ told'[c].body = <<>>
        BY <2>2, <2>5, <3>2 DEF Answers
      <4>2. ~(reply[c].status = "OK" /\ Verb(c) = "PASTE")
        BY <2>3, <2>7
      <4> QED
        BY <2>1, <2>4, <2>7, <4>1, <4>2, SameLine DEF ConnInv, LocationInv
    <3> QED
      BY <3>1, <3>2
  <2> QED
    BY <2>3, <2>6, <2>7
<1>6. CASE WriteBody(c)
  <2>1. /\ reply[c].status = "OK" /\ Verb(c) = "PASTE" /\ ReplyInv(c) /\ RanInv(c)
        /\ \/ told[c] = NoAnswer /\ late[c]
           \/ told[c] = [reply[c] EXCEPT !.body = <<>>]
        /\ UNCHANGED <<line, got, late, reply, ran>>
    BY <1>6 DEF WriteBody, ConnInv, LocationInv
  <2>2. reply[c] \in Answers /\ told[c] \in Answers /\ pc'[c] = "closed"
    BY <1>6 DEF WriteBody, TypeOK
  <2>3. PICK n \in 0..reply[c].length :
          /\ ~late[c] => n = reply[c].length
          /\ told[c].status = "none" => n = 0
          /\ told' = [told EXCEPT ![c].body = SubSeq(reply[c].body, 1, n)]
    BY <1>6 DEF WriteBody
  <2>4. told'[c] = [told[c] EXCEPT !.body = SubSeq(reply[c].body, 1, n)]
    BY <2>3 DEF TypeOK
  <2>5. RanInv(c)' /\ ReplyInv(c)'
    BY <2>1, SameLine DEF RanInv, ReplyInv
  <2>6. CASE told[c] = NoAnswer /\ late[c]
    <3>1. n = 0
      BY <2>3, <2>6 DEF NoAnswer
    <3>2. SubSeq(reply[c].body, 1, n) = <<>>
      BY <3>1, SubSeqEmpty
    <3>3. told'[c] = NoAnswer
      <4>1. [NoAnswer EXCEPT !.body = <<>>] = NoAnswer
        BY DEF NoAnswer
      <4> QED
        BY <2>4, <2>6, <3>2, <4>1
    <3> QED
      BY <2>1, <2>2, <2>5, <2>6, <3>3 DEF ConnInv, LocationInv
  <2>7. CASE told[c] = [reply[c] EXCEPT !.body = <<>>]
    <3>1. /\ told'[c].status = "OK" /\ told'[c].length = reply[c].length
          /\ told'[c].body = SubSeq(reply[c].body, 1, n)
      BY <2>1, <2>2, <2>4, <2>7 DEF Answers
    <3>2. ~late[c] => told'[c].body = reply[c].body
      <4>1. reply[c].body \in Seq(Byte)
        BY <2>2 DEF Answers
      <4>2. reply[c].length = Len(reply[c].body)
        BY <2>1 DEF ReplyInv
      <4>3. SubSeq(reply[c].body, 1, Len(reply[c].body)) = reply[c].body
        BY <4>1, SubSeqFull
      <4> QED
        BY <2>3, <3>1, <4>2, <4>3
    <3>3. \E m \in 0..reply[c].length : told'[c].body = SubSeq(reply[c].body, 1, m)
      BY <3>1
    <3> QED
      BY <2>1, <2>2, <2>5, <3>1, <3>2, <3>3, SameLine DEF ConnInv, LocationInv
  <2> QED
    BY <2>1, <2>6, <2>7
<1> QED
  BY <1>1, <1>2, <1>3, <1>4, <1>5, <1>6 DEF Handle

\* The steps of the desktop tool run for c.
LEMMA DesktopStep ==
  ASSUME TypeOK, NEW c \in Conn, ConnInv(c), Desktop(c)
  PROVE  ConnInv(c)'
<1> USE DEF listenerVars, peerVars
<1>1. /\ pc[c] = "operation" /\ Admitted(c)
      /\ told[c] = NoAnswer /\ ran[c] = NotRun
      /\ UNCHANGED <<line, got, told>>
      /\ pc'[c] = "reply"
  BY DEF Desktop, CopyTool, PasteTool, OpenURL, Answer, ConnInv, LocationInv, TypeOK
<1>2. clipboardVerbHasPayload(Verb(c)) =>
        PayloadLength(c) <= Len(got[c]) /\ Payload(c) \in Seq(Byte)
  BY <1>1, PayloadTyped DEF ConnInv, LocationInv
<1> SUFFICES RanInv(c)' /\ ReplyInv(c)'
  BY <1>1 DEF ConnInv, LocationInv
<1>3. \A data \in Seq(Byte), ok \in BOOLEAN :
        Run(c, data, ok) => /\ ran'[c] # NotRun
                            /\ ran'[c].verb = Verb(c)
                            /\ ran'[c].data = data
                            /\ ran'[c].ok = ok
  <2> TAKE data \in Seq(Byte), ok \in BOOLEAN
  <2> HAVE Run(c, data, ok)
  <2> DEFINE record == [verb |-> Verb(c), data |-> data, ok |-> ok]
  <2>1. ran'[c] = record
    BY DEF Run, TypeOK
  <2>2. Verb(c) \in Verbs
    BY <1>1, AdmittedHeader
  <2>3. record \in Records
    BY <2>2 DEF Records
  <2>4. record # NotRun
    BY <2>3, NotRunAssumption
  <2> QED
    BY <2>1, <2>4
<1>4. \A answer : Answer(c, answer) => reply'[c] = answer
  BY DEF Answer, TypeOK
<1>5. CASE CopyTool(c)
  <2>1. Verb(c) = "COPY" /\ Payload(c) \in Seq(Byte) /\ PayloadLength(c) <= Len(got[c])
    BY <1>2, <1>5 DEF CopyTool, clipboardVerbHasPayload
  <2>2. PICK ok \in BOOLEAN :
          Run(c, Payload(c), ok) /\ reply'[c] = IF ok THEN Ok(<<>>) ELSE Err
    BY <1>4, <1>5 DEF CopyTool
  <2>3. RanInv(c)'
    BY <1>1, <1>3, <2>1, <2>2, SameLine DEF RanInv
  <2>4. ReplyInv(c)'
    <3>1. ran'[c] # NotRun /\ ran'[c].ok = ok /\ Admitted(c)' /\ Verb(c)' = "COPY"
      BY <1>1, <1>3, <2>1, <2>2, SameLine
    <3>2. CASE ok
      BY <2>2, <3>1, <3>2 DEF ReplyInv, Ok
    <3>3. CASE ~ok
      BY <2>2, <3>1, <3>3 DEF ReplyInv, Err
    <3> QED
      BY <3>2, <3>3
  <2> QED
    BY <2>3, <2>4
<1>6. CASE PasteTool(c)
  <2>1. Verb(c) = "PASTE" /\ ~clipboardVerbHasPayload(Verb(c))
        /\ clipboard \in Seq(Byte) /\ <<>> \in Seq(Byte)
    BY <1>6, EmptySeq DEF PasteTool, clipboardVerbHasPayload, TypeOK
  <2>2. \/ Run(c, clipboard, TRUE) /\ reply'[c] = Ok(clipboard)
        \/ Run(c, <<>>, FALSE) /\ reply'[c] = Err
    BY <1>4, <1>6 DEF PasteTool
  <2>3. RanInv(c)'
    BY <1>1, <1>3, <2>1, <2>2, SameLine DEF RanInv
  <2>4. ReplyInv(c)'
    <3>1. Admitted(c)' /\ Verb(c)' = "PASTE"
      BY <1>1, <2>1, SameLine
    <3>2. CASE Run(c, clipboard, TRUE) /\ reply'[c] = Ok(clipboard)
      <4>1. ran'[c] # NotRun /\ ran'[c].ok /\ ran'[c].data = clipboard
        BY <1>3, <2>1, <3>2
      <4> QED
        BY <3>1, <3>2, <4>1 DEF ReplyInv, Ok
    <3>3. CASE Run(c, <<>>, FALSE) /\ reply'[c] = Err
      <4>1. ~ran'[c].ok
        BY <1>3, <2>1, <3>3
      <4> QED
        BY <3>3, <4>1 DEF ReplyInv, Err
    <3> QED
      BY <2>2, <3>2, <3>3
  <2> QED
    BY <2>3, <2>4
<1>7. CASE OpenURL(c)
  <2>1. Verb(c) = "OPEN" /\ Payload(c) \in Seq(Byte) /\ PayloadLength(c) <= Len(got[c])
    BY <1>2, <1>7 DEF OpenURL, clipboardVerbHasPayload
  <2>2. CASE Payload(c) \in Targets
    <3>1. PICK ok \in BOOLEAN :
            Run(c, Payload(c), ok) /\ reply'[c] = IF ok THEN Ok(<<>>) ELSE Err
      BY <1>4, <1>7, <2>2 DEF OpenURL
    <3>2. RanInv(c)'
      BY <1>1, <1>3, <2>1, <2>2, <3>1, SameLine DEF RanInv
    <3>3. ReplyInv(c)'
      BY <1>1, <1>3, <2>1, <3>1, SameLine DEF ReplyInv, Ok, Err
    <3> QED
      BY <3>2, <3>3
  <2>3. CASE Payload(c) \notin Targets
    <3>1. ran'[c] = NotRun /\ reply'[c] = Err
      BY <1>1, <1>4, <1>7, <2>3 DEF OpenURL
    <3> QED
      BY <3>1 DEF RanInv, ReplyInv, Err
  <2> QED
    BY <2>2, <2>3
<1> QED
  BY <1>5, <1>6, <1>7 DEF Desktop

\* A step of one connection leaves the others alone.
LEMMA OtherStep ==
  ASSUME TypeOK, NEW c \in Conn, NEW d \in Conn, c # d, ConnInv(c), ConnStep(d)
  PROVE  ConnInv(c)'
<1> USE DEF listenerVars, peerVars, handlerVars, desktopVars, Answer, Run, TypeOK
<1>1. /\ pc'[c] = pc[c] /\ line'[c] = line[c] /\ got'[c] = got[c]
      /\ late'[c] = late[c] /\ reply'[c] = reply[c] /\ told'[c] = told[c]
      /\ ran'[c] = ran[c]
  <2>1. CASE \/ \E p \in Ports : Dial(d, p)
             \/ \E l \in Lines : LineArrives(d, l)
             \/ \E b \in Byte : ByteArrives(d, b)
             \/ PeerEnds(d) \/ Accept(d) \/ DeadlineExpires(d)
    BY <2>1 DEF Dial, LineArrives, ByteArrives, PeerEnds, Accept, DeadlineExpires
  <2>2. CASE \/ ReadHeaderFails(d) \/ RejectHeader(d) \/ Hello(d) \/ Dispatch(d)
             \/ ReadPayload(d) \/ ReadPayloadFails(d)
    BY <2>2 DEF ReadHeaderFails, RejectHeader, Hello, Dispatch, ReadPayload,
                ReadPayloadFails
  <2>3. CASE WriteStatus(d) \/ WriteBody(d)
    BY <2>3 DEF WriteStatus, WriteBody
  <2>4. CASE Desktop(d)
    BY <2>4 DEF Desktop, CopyTool, PasteTool, OpenURL
  <2> QED
    BY <2>1, <2>2, <2>3, <2>4 DEF ConnStep, Handle
<1> QED
  BY <1>1, Frame

\* Every step keeps the invariant.
LEMMA StepIInv == IInv /\ [Next]_vars => IInv'
<1> SUFFICES ASSUME IInv, [Next]_vars PROVE IInv'
  OBVIOUS
<1> USE DEF listenerVars, peerVars, handlerVars, desktopVars
<1>1. TypeOK /\ TypeOK'
  BY TypeStep DEF IInv
<1>2. \A c \in Conn : ConnInv(c)'
  <2> TAKE c \in Conn
  <2>1. ConnInv(c)
    BY DEF IInv
  <2>2. ASSUME NEW d \in Conn, ConnStep(d) PROVE ConnInv(c)'
    <3>1. CASE c = d
      BY <1>1, <2>1, <2>2, <3>1, PeerStep, HandleStep, DesktopStep DEF ConnStep
    <3>2. CASE c # d
      BY <1>1, <2>1, <2>2, <3>2, OtherStep
    <3> QED
      BY <3>1, <3>2
  <2>3. ASSUME NEW p \in Ports, Relisten(p) PROVE ConnInv(c)'
    BY <1>1, <2>1, <2>3, Frame DEF Relisten, ResetBacklog, TypeOK
  <2>4. CASE Stop
    BY <1>1, <2>1, <2>4, Frame DEF Stop, ResetBacklog, TypeOK
  <2>5. ASSUME NEW b \in Byte, LocalCopy(<<b>>) PROVE ConnInv(c)'
    BY <2>1, <2>5, Frame DEF LocalCopy
  <2>6. CASE UNCHANGED vars
    BY <2>1, <2>6, Frame DEF vars
  <2> QED
    BY <2>2, <2>3, <2>4, <2>5, <2>6, NextCases
<1>3. (bound # {} => bound = {port})'
  <2>1. ASSUME NEW d \in Conn, ConnStep(d) PROVE UNCHANGED <<bound, port>>
    BY <2>1 DEF ConnStep, Handle, Desktop, Dial, LineArrives, ByteArrives, PeerEnds,
       Accept, DeadlineExpires, ReadHeaderFails, RejectHeader, Hello, Dispatch,
       ReadPayload, ReadPayloadFails, WriteStatus, WriteBody, CopyTool, PasteTool,
       OpenURL
  <2>2. ASSUME NEW p \in Ports, Relisten(p) PROVE bound' = {port'}
    BY <2>2 DEF Relisten
  <2>3. CASE Stop
    BY <2>3 DEF Stop
  <2>4. ASSUME NEW b \in Byte, LocalCopy(<<b>>) PROVE UNCHANGED <<bound, port>>
    BY <2>4 DEF LocalCopy
  <2> QED
    BY <2>1, <2>2, <2>3, <2>4, NextCases DEF IInv, vars
<1> QED
  BY <1>1, <1>2, <1>3 DEF IInv

\* The invariant holds in every behaviour of the server.
LEMMA Inductive == Spec => []IInv
  BY InitIInv, StepIInv, PTL DEF Spec

-----------------------------------------------------------------------------
\* The server's state is always well-typed (type invariant).
THEOREM TypeCorrect == Spec => []TypeOK
<1>1. IInv => TypeOK
  BY DEF IInv
<1> QED
  BY <1>1, Inductive, PTL

\* No tool runs for a request that is incomplete or not authorized, however
\* bytes, deadlines and connections interleave (handle, readPayload).
THEOREM OnlyEntitledRequestsRun == Spec => []OnlyCompleteAuthorizedRequestsRun
<1>1. ASSUME IInv PROVE OnlyCompleteAuthorizedRequestsRun
  <2> SUFFICES ASSUME NEW c \in Conn, ran[c] # NotRun
               PROVE  /\ Admitted(c) /\ line[c].fields[2] = Token
                      /\ ran[c].verb = Verb(c)
                      /\ clipboardVerbHasPayload(Verb(c)) =>
                           /\ Len(ran[c].data) = PayloadLength(c)
                           /\ ran[c].data = Payload(c)
                      /\ Verb(c) = "OPEN" => ran[c].data \in Targets
    BY DEF OnlyCompleteAuthorizedRequestsRun
  <2>1. RanInv(c) /\ TypeOK
    BY <1>1 DEF IInv, ConnInv
  <2> QED
    BY <2>1, PayloadTyped DEF RanInv, Admitted, TokenMatches
<1> QED
  BY <1>1, Inductive, PTL

\* Where the invariant holds, what was told is true of what ran.
LEMMA ToldIsTrue == IInv => AnswerTellsOutcome
<1>1. ASSUME IInv, NEW c \in Conn
      PROVE /\ told[c].status = "OK" =>
                 /\ Admitted(c)
                 /\ Verb(c) # "HELLO" => ran[c] # NotRun /\ ran[c].ok
                 /\ Verb(c) = "PASTE" =>
                      /\ told[c].length = Len(ran[c].data)
                      /\ \E n \in 0..told[c].length :
                           told[c].body = SubSeq(ran[c].data, 1, n)
            /\ told[c].status = "ERR" => ran[c] = NotRun \/ ~ran[c].ok
            /\ told[c].status # "OK" => told[c].body = <<>>
  <2>1. LocationInv(c) /\ TypeOK
    BY <1>1 DEF IInv, ConnInv
  <2>2. CASE told[c] = NoAnswer
    BY <2>2 DEF NoAnswer
  <2>3. CASE told[c] # NoAnswer
    <3>1. pc[c] \in {"body", "closed"} /\ ReplyInv(c)
      BY <2>1, <2>3 DEF LocationInv, TypeOK, Serving
    <3>2. reply[c] \in Answers /\ told[c] \in Answers
      BY <2>1 DEF TypeOK
    <3>3. CASE pc[c] = "body"
      <4>1. /\ told[c].status = "OK" /\ told[c].length = reply[c].length
            /\ told[c].body = <<>>
        BY <2>1, <2>3, <3>2, <3>3 DEF LocationInv, Answers
      <4>2. <<>> = SubSeq(reply[c].body, 1, 0) /\ 0 \in 0..reply[c].length
        BY <3>2, SubSeqEmpty DEF Answers
      <4>3. reply[c].status = "OK" /\ Verb(c) = "PASTE"
        BY <2>1, <3>3 DEF LocationInv
      <4> QED
        BY <3>1, <4>1, <4>2, <4>3 DEF ReplyInv
    <3>4. CASE pc[c] = "closed"
      <4>1. /\ told[c].status = reply[c].status
            /\ told[c].status = "ERR" => told[c].body = <<>>
            /\ told[c].status = "OK" /\ Verb(c) = "PASTE" =>
                 /\ told[c].length = reply[c].length
                 /\ \E n \in 0..reply[c].length :
                      told[c].body = SubSeq(reply[c].body, 1, n)
        BY <2>1, <2>3, <3>4 DEF LocationInv
      <4> QED
        BY <3>1, <4>1 DEF ReplyInv
    <3> QED
      BY <3>1, <3>3, <3>4
  <2> QED
    BY <2>2, <2>3
<1> QED
  BY <1>1 DEF AnswerTellsOutcome

\* A peer is never told OK for what was not done, nor ERR for what was, and
\* pastes come from one value of the clipboard (executeClipboardRequest).
THEOREM AnswersAreTrue == Spec => []AnswerTellsOutcome
  BY ToldIsTrue, Inductive, PTL

\* handle leaves by no path without an answer, unless the deadline has passed.
THEOREM NeverSilentInTime == Spec => []AnsweredBeforeDeadline
<1>1. ASSUME IInv, NEW c \in Conn, pc[c] = "closed", ~late[c]
      PROVE  /\ told[c].status # "none"
             /\ told[c].status = "OK" /\ Verb(c) = "PASTE" =>
                  told[c].body = ran[c].data
  <2>1. LocationInv(c) /\ ReplyInv(c)
    BY <1>1 DEF IInv, ConnInv, LocationInv
  <2> QED
    BY <1>1, <2>1 DEF LocationInv, ReplyInv
<1>2. IInv => AnsweredBeforeDeadline
  BY <1>1 DEF AnsweredBeforeDeadline
<1> QED
  BY <1>2, Inductive, PTL

\* The advertised port is the one that listens, through every Relisten.
THEOREM PortIsServed == Spec => []AdvertisedPortListens
<1>1. IInv => AdvertisedPortListens
  BY DEF IInv, AdvertisedPortListens
<1> QED
  BY <1>1, Inductive, PTL
=============================================================================
