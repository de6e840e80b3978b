--------------------------- MODULE CommandLineProofs ---------------------------
(***************************************************************************)
(* For any invocations, configurations and known hosts: the steps of a     *)
(* command go through the states TypeOK names, no client is run before the *)
(* transport is known; completion reads each file once, however files      *)
(* include each other, and finds the hosts that ssh's rules name; ssh      *)
(* takes from each line that slush runs the host, the script, the agent,   *)
(* the port, the identity and the configuration that were meant; the       *)
(* remote shell runs the command that was typed; and the ssh that mosh     *)
(* starts connects as slush's own does.                                    *)
(*                                                                         *)
(* What ssh takes rests on what the recursive scan for the host finds.     *)
(* A Chain is a set of positions of a line that hold options, each of      *)
(* which leads to the next.  What slush writes before the host is a chain, *)
(* chains join, and the scan of a line finds its chain and then the host.  *)
(*                                                                         *)
(* What completion finds rests on FoundInv: what has been found comes from *)
(* lines of reachable files, and each line of a visited file has given its *)
(* hosts and its files, or is yet to be read in an open call.              *)
(*                                                                         *)
(* What shells and mosh read rests on the reading of a text atom by atom.  *)
(* A text Leads from one state of the reading to another, texts join, and  *)
(* a quoted word Adds itself to the words read, whatever it contains.      *)
(***************************************************************************)
EXTENDS CommandLine, SequenceTheorems, FiniteSetTheorems, WellFoundedInduction, TLAPS

\* A sequence, of whatever it contains.
Sequence(s) == s \in Seq(ToSet(s))

\* The calls of readSSHConfig that are open are no more than MaxDepth, and visited
\* is what has been read, each file once.
ReadInv ==
  /\ Sequence(stack) /\ Len(stack) <= MaxDepth
  /\ Sequence(reads) /\ visited = ToSet(reads)
  /\ \A i, j \in 1..Len(reads) : reads[i] = reads[j] => i = j

-----------------------------------------------------------------------------
(* Sequences.                                                              *)

\* What is a sequence over some set is one over its elements.
LEMMA AnySequence ==
  ASSUME NEW S, NEW s \in Seq(S)
  PROVE  Sequence(s) /\ DOMAIN s = 1..Len(s) /\ Len(s) \in Nat
  BY DEF Sequence, ToSet

\* Appending an element.
LEMMA AppendFacts ==
  ASSUME NEW s, Sequence(s), NEW e
  PROVE  LET t == Append(s, e)
         IN  /\ Sequence(t) /\ Len(t) = Len(s) + 1 /\ ToSet(t) = ToSet(s) \union {e}
             /\ t[Len(s) + 1] = e /\ \A i \in 1..Len(s) : t[i] = s[i]
<1> DEFINE S == ToSet(s) \union {e}
           t == Append(s, e)
<1>1. s \in Seq(S) /\ e \in S BY DEF Sequence
<1>2. t \in Seq(S) /\ Len(t) = Len(s) + 1 /\ Len(s) \in Nat
      /\ t[Len(s) + 1] = e /\ \A i \in 1..Len(s) : t[i] = s[i]
  BY <1>1
<1>3. Sequence(t) /\ DOMAIN t = 1..Len(t) /\ DOMAIN s = 1..Len(s) BY <1>1, <1>2, AnySequence
<1>4. ToSet(t) = S
  <2>1. \A i \in 1..Len(t) : i \in 1..Len(s) \/ i = Len(s) + 1 BY <1>2
  <2>2. \A i \in 1..Len(s) : i \in 1..Len(t) /\ Len(s) + 1 \in 1..Len(t) BY <1>2
  <2> HIDE DEF t
  <2> QED BY <1>2, <1>3, <2>1, <2>2 DEF ToSet
<1> QED BY <1>2, <1>3, <1>4

\* Dropping the last element.
LEMMA FrontFacts ==
  ASSUME NEW s, Sequence(s), s # <<>>
  PROVE  /\ Sequence(Front(s)) /\ Len(Front(s)) = Len(s) - 1
         /\ Len(s) \in Nat \ {0}
<1> DEFINE S == ToSet(s)
           n == Len(s) - 1
<1>1. s \in Seq(S) BY DEF Sequence
<1> HIDE DEF S
<1>2. Len(s) \in Nat \ {0} /\ n \in Nat BY <1>1
<1>3. \A i \in 1..n : s[i] \in S BY <1>1, <1>2
<1>4. SubSeq(s, 1, n) \in Seq(S) /\ Len(SubSeq(s, 1, n)) = n
  <2> HIDE DEF n
  <2>1. Len(SubSeq(s, 1, n)) = IF 1 <= n THEN n - 1 + 1 ELSE 0
    BY <1>2, <1>3, SubSeqProperties
  <2> QED BY <1>2, <1>3, <2>1, SubSeqProperties
<1>5. Front(s) = SubSeq(s, 1, n) BY DEF Front
<1> QED BY <1>2, <1>4, <1>5, AnySequence

-----------------------------------------------------------------------------
(* Completion.                                                             *)

\* A call of readSSHConfig, from calls that are not deeper than allowed.
LEMMA CallReads ==
  ASSUME ReadInv, NEW file, NEW below, Sequence(below), Len(below) <= MaxDepth,
         Call(file, below)
  PROVE  ReadInv'
<1> USE DepthAssumption
<1>1. CASE Len(below) < MaxDepth /\ file \notin visited
  <2>1. visited' = visited \union {file} /\ reads' = Append(reads, file)
        /\ (stack' = below \/ stack' = Append(below, Frame(file)))
    BY <1>1 DEF Call
  <2>2. Len(below) \in Nat BY DEF Sequence
  <2>3. Sequence(stack') /\ Len(stack') <= MaxDepth
    <3>1. CASE stack' = below BY <3>1
    <3>2. CASE stack' = Append(below, Frame(file))
      BY <1>1, <2>2, <3>2, AppendFacts
    <3> QED BY <2>1, <3>1, <3>2
  <2>4. /\ Sequence(reads') /\ ToSet(reads') = ToSet(reads) \union {file}
        /\ Len(reads') = Len(reads) + 1 /\ reads'[Len(reads) + 1] = file
        /\ \A i \in 1..Len(reads) : reads'[i] = reads[i]
    BY <2>1, AppendFacts DEF ReadInv
  <2>5. Len(reads) \in Nat /\ \A i \in 1..Len(reads) : reads[i] # file
    BY <1>1 DEF ReadInv, Sequence, ToSet
  <2>6. \A i, j \in 1..Len(reads') : reads'[i] = reads'[j] => i = j
    <3> SUFFICES ASSUME NEW i \in 1..Len(reads'), NEW j \in 1..Len(reads'),
                        reads'[i] = reads'[j]
                 PROVE  i = j
      OBVIOUS
    <3>1. i \in 1..Len(reads) \/ i = Len(reads) + 1 BY <2>4, <2>5
    <3>2. j \in 1..Len(reads) \/ j = Len(reads) + 1 BY <2>4, <2>5
    <3> QED BY <2>4, <2>5, <3>1, <3>2 DEF ReadInv
  <2> QED BY <2>1, <2>3, <2>4, <2>6 DEF ReadInv, Sequence
<1>2. CASE ~(Len(below) < MaxDepth /\ file \notin visited)
  BY <1>2 DEF Call, ReadInv, Sequence
<1> QED BY <1>1, <1>2

\* Every step of a completion.
LEMMA CompletionReads == ASSUME ReadInv, CompletionNext PROVE ReadInv'
<1>1. CASE ReadMainConfig
  <2>1. Sequence(<<>>) /\ Len(<<>>) <= MaxDepth BY DepthAssumption DEF Sequence
  <2> QED BY <1>1, <2>1, CallReads DEF ReadMainConfig
<1>2. CASE ReadIncluded
  <2>1. stack # <<>> BY <1>2 DEF ReadIncluded
  <2> DEFINE frame == [Top EXCEPT !.calls = Tail(Top.calls)]
             below == Append(Front(stack), frame)
  <2>2. Call(Top.calls[1], below) BY <1>2 DEF ReadIncluded
  <2>3. Sequence(Front(stack)) /\ Len(Front(stack)) = Len(stack) - 1 /\ Len(stack) \in Nat
    BY <2>1, FrontFacts DEF ReadInv
  <2> HIDE DEF frame
  <2>4. Sequence(below) /\ Len(below) = Len(stack) BY <2>3, AppendFacts
  <2> HIDE DEF below
  <2> QED BY <2>2, <2>4, CallReads DEF ReadInv
<1>3. CASE ScanLine
  <2>1. stack # <<>> /\ UNCHANGED <<reads, visited>> BY <1>3 DEF ScanLine
  <2>2. PICK frame : stack' = Append(Front(stack), frame) BY <1>3 DEF ScanLine
  <2>3. Sequence(Front(stack)) /\ Len(Front(stack)) = Len(stack) - 1 /\ Len(stack) \in Nat
    BY <2>1, FrontFacts DEF ReadInv
  <2>4. Sequence(stack') /\ Len(stack') = Len(stack) BY <2>2, <2>3, AppendFacts
  <2> QED BY <2>1, <2>4 DEF ReadInv, Sequence
<1>4. CASE EndFile
  <2>1. stack # <<>> /\ UNCHANGED <<reads, visited>> /\ stack' = Front(stack)
    BY <1>4 DEF EndFile
  <2>2. Sequence(stack') /\ Len(stack') = Len(stack) - 1 /\ Len(stack) \in Nat
    BY <2>1, FrontFacts DEF ReadInv
  <2> QED BY <2>1, <2>2, DepthAssumption DEF ReadInv, Sequence
<1>5. CASE EndConfig \/ ReadKnownHosts \/ Match
  BY <1>5 DEF EndConfig, ReadKnownHosts, Match, ReadInv, Sequence
<1> QED BY <1>1, <1>2, <1>3, <1>4, <1>5 DEF CompletionNext

\* Every completion.
LEMMA AlwaysReadInv == Spec => []ReadInv
<1>1. Init => ReadInv
  <2>1. Sequence(<<>>) /\ ToSet(<<>>) = {} /\ Len(<<>>) = 0 BY DEF Sequence, ToSet
  <2>2. Init => stack = <<>> /\ reads = <<>> /\ visited = {} BY DEF Init, CompletionInit
  <2> QED BY <2>1, <2>2, DepthAssumption DEF ReadInv
<1>2. ReadInv /\ [Next]_<<commandVars, completionVars>> => ReadInv'
  <2>1. ReadInv /\ UNCHANGED completionVars => ReadInv'
    BY DEF completionVars, completionInput, ReadInv, Sequence
  <2>2. Next => Complete \/ UNCHANGED completionVars
    BY DEF Next, ReadOptions, OptionsFail, Install, StartMaster, CheckMaster,
           ForwardClipboard, CheckRemoteAgent, ProvisionOverMaster, ProvisionDirectly,
           NoLocalMosh, DetectTransport, RunClient, Probe, StopTunnel, MasterDies, Execute
  <2> QED BY <2>1, <2>2, CompletionReads DEF Complete
<1> QED BY <1>1, <1>2, PTL DEF Spec

\* However the files of a configuration include each other, readSSHConfig reads
\* each of them once and is never deeper than its bound (visited and depth in
\* hosts.go).
THEOREM ReadsOnce == Spec => []FileReadOnce
<1>1. ReadInv => FileReadOnce BY DEF ReadInv, FileReadOnce
<1> QED BY <1>1, AlwaysReadInv, PTL

-----------------------------------------------------------------------------
(* The steps of a command.                                                 *)

\* Completion keeps to its states and lists no wildcard, no hash and no option.
LEMMA CompletionTyped ==
  ASSUME TypeOK, CompletionNext
  PROVE  completing' \in {"config", "known", "matching", "done"} /\ hosts' \intersect Unlisted = {}
<1>1. CASE ScanLine
  <2>1. UNCHANGED completing BY <1>1 DEF ScanLine
  <2>2. hosts' = hosts \/ \E words : hosts' = hosts \union Listed(words)
    BY <1>1 DEF ScanLine
  <2> QED BY <2>1, <2>2 DEF TypeOK, Listed
<1>2. CASE ReadKnownHosts
  <2>1. completing' = "matching" BY <1>2 DEF ReadKnownHosts
  <2>2. hosts' = hosts \/ \E words : hosts' = hosts \union Listed(words)
    BY <1>2 DEF ReadKnownHosts
  <2> QED BY <2>1, <2>2 DEF TypeOK, Listed
<1>3. CASE ReadMainConfig \/ ReadIncluded \/ EndFile \/ EndConfig \/ Match
  BY <1>3 DEF ReadMainConfig, ReadIncluded, EndFile, EndConfig, Match, TypeOK
<1> QED BY <1>1, <1>2, <1>3 DEF CompletionNext

\* A step that leaves what TypeOK speaks of as it is.
LEMMA TypedStutter ==
  ASSUME TypeOK, UNCHANGED <<request, step, mode, master, run, completing, hosts>>
  PROVE  TypeOK'
<1>1. /\ request' = request /\ step' = step /\ mode' = mode /\ master' = master
      /\ run' = run /\ completing' = completing /\ hosts' = hosts
  OBVIOUS
<1> QED BY <1>1 DEF TypeOK

\* The steps of a command, one by one.
LEMMA TypedNext == ASSUME TypeOK, Next PROVE TypeOK'
<1>0. /\ request.verb \in {"session", "validate", "install"}
      /\ mode \in {"auto", "ssh", "mosh"} /\ master \in {"none", "up", "gone"}
      /\ step = "client" => mode # "auto"
  BY DEF TypeOK
<1>1. CASE ReadOptions BY <1>1 DEF ReadOptions, completionVars, TypeOK
<1>2. CASE OptionsFail BY <1>2 DEF OptionsFail, completionVars, TypeOK
<1>3. ASSUME run'.program \in {"ssh", "mosh"}, UNCHANGED <<request, completing, hosts>>,
             step' \in {"master", "check", "forward", "agent", "env", "env direct", "shim",
                        "shim direct", "detect", "client", "exit", "over"},
             step' = "client" => mode' # "auto",
             mode' \in {"auto", "ssh", "mosh"}, master' \in {"none", "up", "gone"}
      PROVE  TypeOK'
  BY <1>3 DEF TypeOK
<1> USE DEF Execute, completionVars
<1>4. CASE Install BY <1>0, <1>3, <1>4 DEF Install
<1>5. CASE StartMaster
  <2>1. /\ run'.program = "ssh" /\ UNCHANGED <<request, completing, hosts>>
        /\ step' = "check" /\ mode' = mode /\ master' \in {"none", "up", "gone"}
    BY <1>5 DEF StartMaster
  <2> QED BY <1>0, <1>3, <2>1
<1>6. CASE CheckMaster BY <1>0, <1>3, <1>6 DEF CheckMaster
<1>7. CASE ForwardClipboard
  <2>1. /\ run'.program = "ssh" /\ UNCHANGED <<request, completing, hosts, mode, master>>
        /\ step' \in {"forward", "agent", "env", "exit"}
    BY <1>7 DEF ForwardClipboard
  <2> QED BY <1>0, <1>3, <2>1
<1>8. CASE CheckRemoteAgent
  <2>1. /\ run'.program = "ssh" /\ UNCHANGED <<request, completing, hosts, mode, master>>
        /\ step' \in {"env", "exit"}
    BY <1>8 DEF CheckRemoteAgent
  <2> QED BY <1>0, <1>3, <2>1
<1>9. CASE ProvisionOverMaster
  <2>1. /\ run'.program = "ssh" /\ UNCHANGED <<request, completing, hosts, mode, master>>
        /\ step' \in {"env direct", "shim direct", "shim", "detect", "client"}
        /\ step' = "client" => mode # "auto"
    <3>1. step' \in {Directly[step], AfterProvision} \union IF step = "env" THEN {"shim"} ELSE {}
      BY <1>9 DEF ProvisionOverMaster
    <3>2. Directly[step] \in {"env direct", "shim direct"}
      <4>1. step = "env" \/ step = "shim" BY <1>9 DEF ProvisionOverMaster
      <4>2. Directly["env"] = "env direct" /\ Directly["shim"] = "shim direct" BY DEF Directly
      <4> QED BY <4>1, <4>2
    <3>3. AfterProvision = "detect" \/ (AfterProvision = "client" /\ mode # "auto")
      BY DEF AfterProvision
    <3>4. run'.program = "ssh" /\ UNCHANGED <<request, completing, hosts, mode, master>>
      BY <1>9 DEF ProvisionOverMaster
    <3> QED BY <3>1, <3>2, <3>3, <3>4
  <2> QED BY <1>0, <1>3, <2>1
<1>10. CASE ProvisionDirectly
  <2>1. /\ run'.program = "ssh" /\ UNCHANGED <<request, completing, hosts, mode, master>>
        /\ step' \in {"shim", "detect", "client"}
        /\ step' = "client" => mode # "auto"
    <3>1. step' \in {AfterProvision} \union IF step = "env direct" THEN {"shim"} ELSE {}
      BY <1>10 DEF ProvisionDirectly
    <3>2. AfterProvision = "detect" \/ (AfterProvision = "client" /\ mode # "auto")
      BY DEF AfterProvision
    <3>3. run'.program = "ssh" /\ UNCHANGED <<request, completing, hosts, mode, master>>
      <4>1. /\ \E args, next : Execute("ssh", args, next)
            /\ UNCHANGED <<mode, master>>
        BY <1>10 DEF ProvisionDirectly
      <4> QED BY <4>1
    <3>4. CASE step' = "shim" BY <3>3, <3>4
    <3>5. CASE step' = AfterProvision BY <3>2, <3>3, <3>5
    <3> QED BY <3>1, <3>4, <3>5
  <2> QED BY <1>0, <1>3, <2>1
<1>11. CASE NoLocalMosh BY <1>11 DEF NoLocalMosh, TypeOK
<1>12. CASE DetectTransport
  <2>1. /\ run'.program = "ssh" /\ UNCHANGED <<request, completing, hosts, master>>
        /\ \/ step' = "exit" /\ mode' = mode
           \/ step' = "client" /\ mode' \in {"ssh", "mosh"}
    BY <1>12 DEF DetectTransport
  <2> QED BY <1>0, <1>3, <2>1
<1>13. CASE RunClient
  <2>1. /\ run'.program \in {"ssh", "mosh"} /\ step' = "exit"
        /\ UNCHANGED <<request, completing, hosts, mode, master>>
    BY <1>13 DEF RunClient
  <2> QED BY <1>0, <1>3, <2>1
<1>14. CASE Probe
  <2>1. /\ run'.program = "ssh" /\ UNCHANGED <<request, completing, hosts, mode, master>>
        /\ step = "client" /\ step' \in {"client", "exit"}
    BY <1>14 DEF Probe
  <2> QED BY <1>0, <1>3, <2>1
<1>15. CASE StopTunnel BY <1>0, <1>3, <1>15 DEF StopTunnel
<1>16. CASE MasterDies BY <1>16 DEF MasterDies, completionVars, TypeOK
<1>17. CASE Complete
  <2>1. UNCHANGED <<request, step, mode, master, run>> BY <1>17 DEF Complete, commandVars
  <2>2. completing' \in {"config", "known", "matching", "done"}
        /\ hosts' \intersect Unlisted = {}
    BY <1>17, CompletionTyped DEF Complete
  <2>3. step' = "client" => mode' # "auto" BY <1>0, <2>1
  <2> QED BY <2>1, <2>2, <2>3 DEF TypeOK
<1> QED BY <1>1, <1>2, <1>4, <1>5, <1>6, <1>7, <1>8, <1>9, <1>10, <1>11, <1>12, <1>13, <1>14,
           <1>15, <1>16, <1>17 DEF Next

\* Every variable keeps its type, the transport is known before a client is run,
\* and no word that ssh_config gives a meaning is suggested as a host.
THEOREM CommandTypeCorrect == Spec => []TypeOK
<1>1. ASSUME Init PROVE TypeOK
  <2>1. request \in Requests /\ step \in {"options", "complete"}
    BY <1>1, RequestAssumption DEF Init
  <2>2. completing = "config" /\ hosts = {} BY <1>1 DEF Init, CompletionInit
  <2>3. mode = AskedTransport /\ master = "none" /\ run.program = ""
    BY <1>1 DEF Init, NoRun
  <2> QED BY <2>1, <2>2, <2>3, RequestAssumption DEF TypeOK, AskedTransport
<1>2. TypeOK /\ [Next]_<<commandVars, completionVars>> => TypeOK'
  <2>1. UNCHANGED <<commandVars, completionVars>>
          => UNCHANGED <<request, step, mode, master, run, completing, hosts>>
    <3>1. UNCHANGED <<commandVars, completionVars>>
            => UNCHANGED commandVars /\ UNCHANGED completionVars
      OBVIOUS
    <3>2. UNCHANGED commandVars => UNCHANGED <<request, step, mode, master, run>>
      BY DEF commandVars
    <3>3. UNCHANGED completionVars => UNCHANGED <<completing, hosts>> BY DEF completionVars
    <3> QED BY <3>1, <3>2, <3>3
  <2>2. CASE Next BY <2>2, TypedNext
  <2>3. CASE UNCHANGED <<commandVars, completionVars>> BY <2>1, <2>3, TypedStutter
  <2> QED BY <2>2, <2>3
<1> QED BY <1>1, <1>2, PTL DEF Spec

-----------------------------------------------------------------------------
(* Induction over positions, and the scan for the host.                     *)

\* What holds of 0 and is passed on to the next holds up to n.
LEMMA UpTo ==
  ASSUME NEW n \in Nat, NEW S, 0 \in S, \A k \in Nat : k < n /\ k \in S => k + 1 \in S
  PROVE  \A k \in 0..n : k \in S
<1> SUFFICES ASSUME {k \in 0..n : k \notin S} # {} PROVE FALSE OBVIOUS
<1> DEFINE T == {k \in 0..n : k \notin S}
<1>1. T \subseteq Nat OBVIOUS
<1>2. PICK k \in T : \A i \in T : ~(<<i, k>> \in OpToRel(<, Nat))
  BY <1>1, NatLessThanWellFounded, WFMin
<1>3. \A i \in T : ~(i < k) BY <1>1, <1>2 DEF OpToRel
<1>4. k \in Nat /\ k <= n /\ k \notin S OBVIOUS
<1>5. k # 0 BY <1>4
<1>6. k - 1 \in Nat /\ k - 1 < n /\ k - 1 \in 0..n /\ k - 1 < k BY <1>4, <1>5
<1>7. k - 1 \in S BY <1>3, <1>6
<1>8. k - 1 + 1 = k BY <1>4
<1> QED BY <1>4, <1>6, <1>7, <1>8

\* A function whose first values are built step by step, each from the one before.
Built(f, v, next, k) == f[0] = v /\ \A i \in 1..k : f[i] = next[i][f[i - 1]]

\* A function built step by step exists, whatever the steps are.
LEMMA Iterates ==
  ASSUME NEW n \in Nat, NEW V, NEW v \in V, NEW next \in [1..n -> [V -> V]]
  PROVE  \E f \in [0..n -> V] : Built(f, v, next, n)
<1> DEFINE S == {k \in 0..n : \E f \in [0..n -> V] : Built(f, v, next, k)}
<1>1. 0 \in S
  <2> DEFINE f == [i \in 0..n |-> v]
  <2>1. f \in [0..n -> V] /\ f[0] = v OBVIOUS
  <2> HIDE DEF f
  <2>2. Built(f, v, next, 0) BY <2>1 DEF Built
  <2> QED BY <2>1, <2>2
<1>2. ASSUME NEW k \in Nat, k < n, k \in S PROVE k + 1 \in S
  <2>1. PICK f \in [0..n -> V] : Built(f, v, next, k) BY <1>2
  <2>2. k + 1 \in 1..n /\ k \in 0..n /\ k + 1 \in 0..n BY <1>2
  <2>3. f[k] \in V BY <2>2
  <2> DEFINE x == next[k + 1][f[k]]
             g == [f EXCEPT ![k + 1] = x]
  <2>4. x \in V BY <2>2, <2>3
  <2> HIDE DEF x
  <2>5. g \in [0..n -> V] BY <2>4
  <2>6. g[k + 1] = x BY <2>2
  <2>7. \A i \in 0..k : g[i] = f[i] BY <2>2
  <2> HIDE DEF g
  <2>8. ASSUME NEW i \in 1..k+1 PROVE g[i] = next[i][g[i - 1]]
    <3>1. CASE i = k + 1
      <4>1. k \in 0..k /\ i - 1 = k BY <3>1, <2>2
      <4> QED BY <3>1, <2>6, <2>7, <4>1 DEF x
    <3>2. CASE i # k + 1
      <4>1. i \in 1..k /\ i \in 0..k /\ i - 1 \in 0..k BY <3>2, <1>2
      <4> QED BY <2>1, <2>7, <4>1 DEF Built
    <3> QED BY <3>1, <3>2
  <2>9. g[0] = v BY <2>1, <2>7, <1>2 DEF Built
  <2>10. Built(g, v, next, k + 1) BY <2>8, <2>9 DEF Built
  <2> QED BY <2>2, <2>5, <2>10
<1> HIDE DEF S
<1>3. \A k \in Nat : k < n /\ k \in S => k + 1 \in S BY <1>2
<1>4. \A k \in 0..n : k \in S BY <1>1, <1>3, UpTo
<1>5. n \in S BY <1>4
<1> QED BY <1>5 DEF S

-----------------------------------------------------------------------------
Width(word, flags) == IF Takes(word, flags) THEN 2 ELSE 1

\* Whether the scan comes to i after the positions of before.
Comes(args, flags, before, i) ==
  i = 1 \/ \E j \in before : IsOption(args[j]) /\ i = j + Width(args[j], flags)

\* The positions found before i, and i if the scan comes to it.
Extended(args, flags, before, i) ==
  IF Comes(args, flags, before, i) THEN before \union {i} ELSE before

\* Scanned is built so: the recursive function of its definition exists.
LEMMA ScanSteps ==
  ASSUME NEW args, Len(args) \in Nat, NEW flags
  PROVE  \E f : /\ f[0] = {} /\ Scanned(args, flags) = f[Len(args)]
                /\ \A i \in 1..Len(args) : f[i] = Extended(args, flags, f[i - 1], i)
<1> DEFINE n == Len(args)
           V == SUBSET (1..n)
           next == [i \in 1..n |-> [b \in V |-> Extended(args, flags, b, i)]]
           Body(h) == [i \in 0..n |->
                         IF i = 0 THEN {}
                         ELSE LET before == h[i - 1]
                              IN IF i = 1 \/ \E j \in before :
                                   /\ IsOption(args[j])
                                   /\ i = j + (IF Takes(args[j], flags) THEN 2 ELSE 1)
                                 THEN before \union {i} ELSE before]
<1>0. \A h : Body(h) = [i \in 0..n |-> IF i = 0 THEN {} ELSE Extended(args, flags, h[i - 1], i)]
  BY DEF Extended, Comes, Width
<1> DEFINE f == CHOOSE h : h = Body(h)
<1>7. Scanned(args, flags) = f[n] BY DEF Scanned
<1> HIDE DEF f, Body
<1>1. next \in [1..n -> [V -> V]] BY DEF Extended
<1>2. \A i \in 1..n, b \in V : next[i][b] = Extended(args, flags, b, i) OBVIOUS
<1> HIDE DEF next
<1> HIDE DEF n
<1>n. n \in Nat BY DEF n
<1>3. PICK g \in [0..n -> V] : Built(g, {}, next, n)
  <2>1. {} \in V OBVIOUS
  <2> HIDE DEF V
  <2> QED BY <1>1, <1>n, <2>1, Iterates
<1>4. \A i \in 1..n : g[i] = Extended(args, flags, g[i - 1], i)
  <2>1. \A i \in 1..n : i - 1 \in 0..n BY <1>n
  <2> QED BY <1>2, <1>3, <2>1 DEF Built
<1>5. g = Body(g)
  <2> DEFINE h == [i \in 0..n |-> IF i = 0 THEN {} ELSE Extended(args, flags, g[i - 1], i)]
  <2>1. \A i \in 0..n : g[i] = h[i] BY <1>3, <1>4, <1>n DEF Built
  <2>3. g = h BY <2>1
  <2>4. Body(g) = h BY <1>0
  <2> QED BY <2>3, <2>4
<1>6. f = Body(f) BY <1>5 DEF f
<1>8. f[0] = {} /\ \A i \in 1..n : f[i] = Extended(args, flags, f[i - 1], i)
  BY <1>0, <1>6, <1>n
<1> QED BY <1>7, <1>8 DEF n

-----------------------------------------------------------------------------
\* Joining two sequences, of whatever they contain.
LEMMA JoinFacts ==
  ASSUME NEW a, NEW b, Sequence(a), Sequence(b)
  PROVE  /\ Sequence(a \o b) /\ Len(a \o b) = Len(a) + Len(b)
         /\ Len(a) \in Nat /\ Len(b) \in Nat
         /\ \A i \in 1..Len(a) : (a \o b)[i] = a[i]
         /\ \A i \in 1..Len(b) : (a \o b)[Len(a) + i] = b[i]
<1> DEFINE S == ToSet(a) \union ToSet(b)
<1>1. a \in Seq(S) /\ b \in Seq(S) BY DEF Sequence
<1> HIDE DEF S
<1>2. Len(a) \in Nat /\ Len(b) \in Nat BY <1>1
<1>3. /\ a \o b \in Seq(S) /\ Len(a \o b) = Len(a) + Len(b)
      /\ \A i \in 1..Len(a) + Len(b) : (a \o b)[i] = IF i <= Len(a) THEN a[i] ELSE b[i - Len(a)]
  BY <1>1, ConcatProperties
<1>4. Sequence(a \o b) BY <1>3, AnySequence
<1> DEFINE c == a \o b
<1> HIDE DEF c
<1>5. \A i \in 1..Len(a) + Len(b) : c[i] = IF i <= Len(a) THEN a[i] ELSE b[i - Len(a)]
  BY <1>3 DEF c
<1>6. \A i \in 1..Len(a) : c[i] = a[i] BY <1>2, <1>5
<1>7. \A i \in 1..Len(b) : c[Len(a) + i] = b[i]
  <2> TAKE i \in 1..Len(b)
  <2>1. Len(a) + i \in 1..Len(a) + Len(b) /\ ~(Len(a) + i <= Len(a)) /\ Len(a) + i - Len(a) = i
    BY <1>2
  <2> QED BY <1>5, <2>1
<1> QED BY <1>2, <1>3, <1>4, <1>6, <1>7 DEF c

\* Sequences with the same elements are the same.
LEMMA SameSequence ==
  ASSUME NEW a, NEW b, Sequence(a), Sequence(b), Len(a) = Len(b),
         \A i \in 1..Len(a) : a[i] = b[i]
  PROVE  a = b
  BY SeqEqual, AnySequence DEF Sequence

\* It does not matter which of three are joined first.
LEMMA JoinAssociates ==
  ASSUME NEW a, NEW b, NEW c, Sequence(a), Sequence(b), Sequence(c)
  PROVE  (a \o b) \o c = a \o (b \o c)
<1> DEFINE S == ToSet(a) \union ToSet(b) \union ToSet(c)
<1>1. a \in Seq(S) /\ b \in Seq(S) /\ c \in Seq(S) BY DEF Sequence
<1> QED BY <1>1, ConcatAssociative

\* One word, two words and none.
LEMMA FewWords ==
  ASSUME NEW v, NEW w
  PROVE  /\ Sequence(<<v>>) /\ Len(<<v>>) = 1 /\ <<v>>[1] = v
         /\ Sequence(<<v, w>>) /\ Len(<<v, w>>) = 2 /\ <<v, w>>[1] = v /\ <<v, w>>[2] = w
         /\ Sequence(<<>>) /\ Len(<<>>) = 0
<1>1. <<v>> \in Seq({v}) /\ <<v, w>> \in Seq({v, w}) /\ <<>> \in Seq({v}) OBVIOUS
<1> QED BY <1>1, AnySequence

\* A word after a word.
LEMMA TwoWords == ASSUME NEW v, NEW w PROVE <<v>> \o <<w>> = <<v, w>>
<1> DEFINE a == <<v>>
           b == <<w>>
           c == <<v, w>>
<1>1. /\ Sequence(a) /\ Len(a) = 1 /\ a[1] = v /\ Sequence(b) /\ Len(b) = 1 /\ b[1] = w
      /\ Sequence(c) /\ Len(c) = 2 /\ c[1] = v /\ c[2] = w
  BY FewWords
<1> HIDE DEF a, b, c
<1>2. /\ Sequence(a \o b) /\ Len(a \o b) = Len(a) + Len(b)
      /\ \A i \in 1..Len(a) : (a \o b)[i] = a[i]
      /\ \A i \in 1..Len(b) : (a \o b)[Len(a) + i] = b[i]
  <2>1. Sequence(a) /\ Sequence(b) BY <1>1
  <2> QED BY <2>1, JoinFacts
<1> DEFINE d == a \o b
<1> HIDE DEF d
<1>3. Sequence(d) /\ Len(d) = 2 /\ d[1] = v /\ d[2] = w
  <2>1. 1 \in 1..Len(a) /\ 1 \in 1..Len(b) /\ Len(a) + 1 = 2 BY <1>1
  <2>2. d[1] = a[1] /\ d[Len(a) + 1] = b[1] BY <1>2, <2>1 DEF d
  <2> QED BY <1>1, <1>2, <2>1, <2>2 DEF d
<1>4. \A i \in 1..2 : d[i] = c[i]
  <2>1. \A i \in 1..2 : i = 1 \/ i = 2 OBVIOUS
  <2> QED BY <1>1, <1>3, <2>1
<1>5. d = c BY <1>1, <1>3, <1>4, SameSequence
<1> QED BY <1>5 DEF a, b, c, d

-----------------------------------------------------------------------------
\* P are the positions of the options of w, and the one after w: every one is an
\* option, and leads to the next.
Chain(w, P, flags) ==
  /\ P \subseteq 1..Len(w) + 1 /\ 1 \in P /\ Len(w) + 1 \in P
  /\ \A i \in P : i <= Len(w) => IsOption(w[i]) /\ i + Width(w[i], flags) \in P
  /\ \A i \in P : i # 1 => \E j \in P : j <= Len(w) /\ i = j + Width(w[j], flags)

Options(w, flags) == Sequence(w) /\ \E P : Chain(w, P, flags)

\* An option is one word or two.
LEMMA WidthType == ASSUME NEW word, NEW flags PROVE Width(word, flags) \in 1..2
  BY DEF Width

\* What the scan finds in options, and what follows them that is none.
LEMMA ScanOfChain ==
  ASSUME NEW w, NEW P, NEW flags, NEW rest, Sequence(w), Sequence(rest),
         Chain(w, P, flags), rest # <<>> => ~IsOption(rest[1])
  PROVE  Scanned(w \o rest, flags) = P \intersect (1..Len(w \o rest))
<1> DEFINE args == w \o rest
           n    == Len(args)
<1>1. /\ n = Len(w) + Len(rest) /\ n \in Nat /\ Len(w) \in Nat /\ Len(rest) \in Nat
      /\ \A i \in 1..Len(w) : args[i] = w[i]
      /\ \A i \in 1..Len(rest) : args[Len(w) + i] = rest[i]
  BY JoinFacts
<1>2. Len(w) < n => ~IsOption(args[Len(w) + 1])
  <2>1. CASE Len(w) < n
    <3>1. 1 \in 1..Len(rest) BY <1>1, <2>1
    <3>2. rest # <<>> BY <3>1
    <3> QED BY <1>1, <3>1, <3>2
  <2> QED BY <2>1
<1> HIDE DEF args
<1>3. PICK f : /\ f[0] = {} /\ Scanned(args, flags) = f[n]
               /\ \A i \in 1..n : f[i] = Extended(args, flags, f[i - 1], i)
  <2>1. Len(args) \in Nat BY <1>1
  <2> QED BY <2>1, ScanSteps
<1> HIDE DEF n
<1> DEFINE S == {k \in 0..n : f[k] = P \intersect (1..k)}
<1>4. 0 \in S BY <1>1, <1>3
<1>5. ASSUME NEW k \in Nat, k < n, k \in S PROVE k + 1 \in S
  <2> DEFINE i == k + 1
             before == P \intersect (1..k)
  <2>1. f[i] = Extended(args, flags, before, i)
    <3>1. i \in 1..n /\ i - 1 = k BY <1>1, <1>5
    <3>2. f[k] = before BY <1>5
    <3> QED BY <1>3, <3>1, <3>2
  <2>2. Comes(args, flags, before, i) => i \in P
    <3> SUFFICES ASSUME NEW j \in before, IsOption(args[j]), i = j + Width(args[j], flags)
                 PROVE  i \in P
      BY DEF Comes, Chain
    <3>1. j \in P /\ j \in Nat /\ j <= k /\ j <= Len(w) + 1 BY <1>1, <1>5 DEF Chain
    <3>2. j # Len(w) + 1 BY <1>2, <1>5, <1>1, <3>1
    <3>3. j \in 1..Len(w) /\ args[j] = w[j] BY <1>1, <3>1, <3>2
    <3> QED BY <3>1, <3>3 DEF Chain
  <2>3. i \in P => Comes(args, flags, before, i)
    <3> SUFFICES ASSUME i \in P, i # 1 PROVE Comes(args, flags, before, i) BY DEF Comes
    <3>1. PICK j \in P : j <= Len(w) /\ i = j + Width(w[j], flags) BY DEF Chain
    <3>2. j \in 1..Len(w) BY <1>1, <3>1 DEF Chain
    <3>3. args[j] = w[j] /\ IsOption(w[j]) BY <1>1, <3>1, <3>2 DEF Chain
    <3>4. Width(w[j], flags) \in 1..2 BY WidthType
    <3>5. j \in Nat /\ j <= k BY <3>1, <3>2, <3>4, <1>1, <1>5
    <3>6. j \in before BY <3>2, <3>5, <1>1, <1>5
    <3> QED BY <3>1, <3>3, <3>6 DEF Comes
  <2>4. f[i] = P \intersect (1..i)
    <3>1. CASE i \in P
      <4>1. P \intersect (1..i) = before \union {i} BY <3>1, <1>5
      <4> QED BY <2>1, <2>3, <3>1, <4>1 DEF Extended
    <3>2. CASE i \notin P
      <4>1. P \intersect (1..i) = before BY <3>2, <1>5
      <4> QED BY <2>1, <2>2, <3>2, <4>1 DEF Extended
    <3> QED BY <3>1, <3>2
  <2> QED BY <2>4, <1>1, <1>5
<1> HIDE DEF S
<1>6. \A k \in Nat : k < n /\ k \in S => k + 1 \in S BY <1>5
<1>7. \A k \in 0..n : k \in S BY <1>1, <1>4, <1>6, UpTo
<1>8. n \in S BY <1>1, <1>7
<1> QED BY <1>3, <1>8 DEF S, args, n

-----------------------------------------------------------------------------
\* The options that slush writes: none, one with a value, one without.
LEMMA NoOptions == ASSUME NEW flags PROVE Options(<<>>, flags)
<1>1. Chain(<<>>, {1}, flags) BY FewWords DEF Chain
<1> QED BY <1>1, FewWords DEF Options

\* An option with a value.
LEMMA OneOption ==
  ASSUME NEW flag \in DashedAtoms, flag # "--", NEW flags, flag \in flags, NEW value
  PROVE  Chain(Opt(flag, value), {1, 3}, flags) /\ Options(Opt(flag, value), flags)
<1> DEFINE w == Opt(flag, value)
<1>1. Sequence(w) /\ Len(w) = 2 /\ w[1] = W(flag) BY FewWords DEF Opt
<1> HIDE DEF w
<1>2. W(flag) # W("--") /\ Len(W(flag)) = 1 /\ W(flag)[1] = flag /\ W(flag) # <<>> BY DEF W
<1>3. IsOption(w[1]) /\ Width(w[1], flags) = 2
  BY <1>1, <1>2 DEF IsOption, Dashed, Width, Takes
<1>4. Chain(w, {1, 3}, flags) BY <1>1, <1>3 DEF Chain
<1> QED BY <1>1, <1>4 DEF Options, w

\* An option without one.
LEMMA OneFlag ==
  ASSUME NEW flag \in DashedAtoms, flag # "--", NEW flags, flag \notin flags
  PROVE  Chain(<<W(flag)>>, {1, 2}, flags) /\ Options(<<W(flag)>>, flags)
<1> DEFINE w == <<W(flag)>>
<1>1. Sequence(w) /\ Len(w) = 1 /\ w[1] = W(flag) BY FewWords
<1> HIDE DEF w
<1>2. W(flag) # W("--") /\ Len(W(flag)) = 1 /\ W(flag)[1] = flag /\ W(flag) # <<>> BY DEF W
<1>3. IsOption(w[1]) /\ Width(w[1], flags) = 1
  BY <1>1, <1>2 DEF IsOption, Dashed, Width, Takes
<1>4. Chain(w, {1, 2}, flags) BY <1>1, <1>3 DEF Chain
<1> QED BY <1>1, <1>4 DEF Options, w

\* Options behind options are options: the scan of the one ends where that of the
\* other begins.
LEMMA ChainsJoin ==
  ASSUME NEW a, NEW b, NEW P, NEW Q, NEW flags, Sequence(a), Sequence(b),
         Chain(a, P, flags), Chain(b, Q, flags)
  PROVE  Chain(a \o b, P \union {Len(a) + i : i \in Q}, flags)
<1> DEFINE w == a \o b
           R == P \union {Len(a) + i : i \in Q}
<1>1. /\ Len(w) = Len(a) + Len(b) /\ Len(a) \in Nat /\ Len(b) \in Nat
      /\ \A i \in 1..Len(a) : w[i] = a[i]
      /\ \A i \in 1..Len(b) : w[Len(a) + i] = b[i]
  BY JoinFacts
<1> HIDE DEF w
<1>2. P \subseteq 1..Len(a) + 1 /\ Q \subseteq 1..Len(b) + 1 BY DEF Chain
<1>3. R \subseteq 1..Len(w) + 1 /\ 1 \in R /\ Len(w) + 1 \in R
  <2>1. \A i \in P : i \in 1..Len(w) + 1 BY <1>1, <1>2
  <2>2. \A i \in Q : Len(a) + i \in 1..Len(w) + 1 BY <1>1, <1>2
  <2>3. Len(a) + (Len(b) + 1) = Len(w) + 1 BY <1>1
  <2>4. 1 \in P /\ Len(b) + 1 \in Q BY DEF Chain
  <2> QED BY <2>1, <2>2, <2>3, <2>4
<1>4. ASSUME NEW i \in P, i <= Len(a) PROVE IsOption(w[i]) /\ i + Width(w[i], flags) \in R
  <2>1. i \in 1..Len(a) /\ w[i] = a[i] BY <1>1, <1>2, <1>4
  <2> QED BY <1>4, <2>1 DEF Chain
<1>5. ASSUME NEW q \in Q, q <= Len(b)
      PROVE  IsOption(w[Len(a) + q]) /\ Len(a) + q + Width(w[Len(a) + q], flags) \in R
  <2>1. q \in 1..Len(b) /\ w[Len(a) + q] = b[q] BY <1>1, <1>2, <1>5
  <2>2. IsOption(b[q]) /\ q + Width(b[q], flags) \in Q BY <1>5 DEF Chain
  <2>3. Len(a) + (q + Width(b[q], flags)) = Len(a) + q + Width(b[q], flags)
    <3>1. Width(b[q], flags) \in 1..2 BY WidthType
    <3> QED BY <1>1, <2>1, <3>1
  <2> QED BY <2>1, <2>2, <2>3
<1>6. \A i \in R : i <= Len(w) => IsOption(w[i]) /\ i + Width(w[i], flags) \in R
  <2> SUFFICES ASSUME NEW i \in R, i <= Len(w)
               PROVE  IsOption(w[i]) /\ i + Width(w[i], flags) \in R
    OBVIOUS
  <2>1. CASE i \in P /\ i <= Len(a) BY <1>4, <2>1
  <2>2. CASE i \in P /\ ~(i <= Len(a))
    <3>1. i = Len(a) + 1 /\ 1 \in Q /\ 1 <= Len(b) BY <1>1, <1>2, <2>2 DEF Chain
    <3> QED BY <1>5, <3>1
  <2>3. CASE i \notin P
    <3>1. PICK q \in Q : i = Len(a) + q BY <2>3
    <3>2. q <= Len(b) BY <1>1, <1>2, <3>1
    <3> QED BY <1>5, <3>1, <3>2
  <2> QED BY <2>1, <2>2, <2>3
<1>7. ASSUME NEW i \in P, i # 1
      PROVE  \E j \in R : j <= Len(w) /\ i = j + Width(w[j], flags)
  <2>1. PICK j \in P : j <= Len(a) /\ i = j + Width(a[j], flags) BY <1>7 DEF Chain
  <2>2. j \in 1..Len(a) /\ j <= Len(w) /\ w[j] = a[j] BY <1>1, <1>2, <2>1
  <2> QED BY <2>1, <2>2
<1>8. ASSUME NEW q \in Q, q # 1
      PROVE  \E j \in R : j <= Len(w) /\ Len(a) + q = j + Width(w[j], flags)
  <2>1. PICK p \in Q : p <= Len(b) /\ q = p + Width(b[p], flags) BY <1>8 DEF Chain
  <2>2. p \in 1..Len(b) /\ Len(a) + p <= Len(w) /\ w[Len(a) + p] = b[p] BY <1>1, <1>2, <2>1
  <2>3. Len(a) + q = Len(a) + p + Width(b[p], flags) BY <1>1, <2>1, <2>2, WidthType
  <2> QED BY <2>1, <2>2, <2>3
<1>9. \A i \in R : i # 1 => \E j \in R : j <= Len(w) /\ i = j + Width(w[j], flags)
  <2> SUFFICES ASSUME NEW i \in R, i # 1
               PROVE  \E j \in R : j <= Len(w) /\ i = j + Width(w[j], flags)
    OBVIOUS
  <2>1. CASE i \in P BY <1>7, <2>1
  <2>2. CASE i \notin P
    <3>1. PICK q \in Q : i = Len(a) + q BY <2>2
    <3>2. q # 1 BY <2>2, <3>1 DEF Chain
    <3> QED BY <1>8, <3>1, <3>2
  <2> QED BY <2>1, <2>2
<1> HIDE DEF R
<1> QED BY <1>3, <1>6, <1>9 DEF Chain, R, w

-----------------------------------------------------------------------------
(* Flattening.                                                             *)

\* A flattened list of sequences is built up from the first of them.
LEMMA FlattenSteps ==
  ASSUME NEW T, NEW seqs \in Seq(Seq(T)), Len(seqs) # 0
  PROVE  \E f \in [0..Len(seqs) -> Seq(T)] :
           /\ f[0] = <<>> /\ f[1] = seqs[1] /\ FlattenSeq(seqs) = f[Len(seqs)]
           /\ \A i \in 1..Len(seqs) : f[i] = f[i - 1] \o seqs[i]
<1> DEFINE n == Len(seqs)
           V == Seq(T)
           next == [i \in 1..n |-> [b \in V |-> b \o seqs[i]]]
           Body(h) == [i \in 1..n |-> IF i = 1 THEN seqs[i] ELSE h[i - 1] \o seqs[i]]
           h == CHOOSE x : x = Body(x)
<1>1. n \in Nat /\ n >= 1 /\ \A i \in 1..n : seqs[i] \in V OBVIOUS
<1>2. FlattenSeq(seqs) = h[n] BY <1>1 DEF FlattenSeq
<1> HIDE DEF h, n
<1>3. next \in [1..n -> [V -> V]]
  <2>1. \A i \in 1..n, b \in V : b \o seqs[i] \in V BY <1>1
  <2> HIDE DEF V
  <2> QED BY <2>1
<1>4. \A i \in 1..n, b \in V : next[i][b] = b \o seqs[i] OBVIOUS
<1> HIDE DEF next, Body
<1>5. PICK f \in [0..n -> V] : Built(f, <<>>, next, n)
  <2>1. <<>> \in V OBVIOUS
  <2> HIDE DEF V
  <2> QED BY <1>1, <1>3, <2>1, Iterates
<1>6. f[0] = <<>> /\ \A i \in 1..n : f[i] = f[i - 1] \o seqs[i]
  <2>1. \A i \in 1..n : f[i - 1] \in V
    <3>1. \A i \in 1..n : i - 1 \in 0..n BY <1>1
    <3> HIDE DEF V
    <3> QED BY <3>1
  <2> QED BY <1>4, <1>5, <2>1 DEF Built
<1>7. f[1] = seqs[1]
  <2>1. f[1] = <<>> \o seqs[1]
    <3>1. 1 \in 1..n /\ 1 - 1 = 0 BY <1>1
    <3> QED BY <1>6, <3>1
  <2>2. seqs[1] \in Seq(T) BY <1>1
  <2> QED BY <2>1, <2>2, ConcatEmptySeq
<1>8. \E x : x = Body(x)
  <2> DEFINE x == [i \in 1..n |-> f[i]]
  <2>1. \A i \in 1..n : x[i] = f[i] OBVIOUS
  <2>2. \A i \in 1..n : i # 1 => i - 1 \in 1..n BY <1>1
  <2>3. \A i \in 1..n : i # 1 => x[i - 1] = f[i - 1] BY <2>1, <2>2
  <2>4. x = [i \in 1..n |-> x[i]] OBVIOUS
  <2> HIDE DEF x
  <2>5. \A i \in 1..n : x[i] = IF i = 1 THEN seqs[i] ELSE x[i - 1] \o seqs[i]
    BY <1>6, <1>7, <2>1, <2>3
  <2>6. [i \in 1..n |-> x[i]] = Body(x) BY <2>5 DEF Body
  <2>7. x = Body(x) BY <2>4, <2>6
  <2> QED BY <2>7
<1>9. h = Body(h) BY <1>8 DEF h
<1>a. \A i \in 1..n : h[i] = IF i = 1 THEN seqs[i] ELSE h[i - 1] \o seqs[i]
  BY <1>9 DEF Body
<1> DEFINE S == {k \in 0..n : k = 0 \/ h[k] = f[k]}
<1>10. ASSUME NEW k \in Nat, k < n, k \in S PROVE k + 1 \in S
  <2>1. k + 1 \in 1..n /\ k + 1 \in 0..n BY <1>10, <1>1
  <2>3. k + 1 - 1 = k /\ (k + 1 = 1 <=> k = 0) OBVIOUS
  <2>2. h[k + 1] = IF k = 0 THEN seqs[k + 1] ELSE h[k] \o seqs[k + 1]
    <3> DEFINE i == k + 1
    <3>1. i \in 1..n /\ i - 1 = k /\ (i = 1 <=> k = 0) BY <2>1
    <3> HIDE DEF i
    <3>2. h[i] = IF k = 0 THEN seqs[i] ELSE h[k] \o seqs[i] BY <1>a, <3>1
    <3> QED BY <3>2 DEF i
  <2>4. f[k + 1] = f[k] \o seqs[k + 1]
    <3> DEFINE i == k + 1
    <3>1. i \in 1..n /\ i - 1 = k BY <2>1
    <3> HIDE DEF i
    <3>2. f[i] = f[k] \o seqs[i] BY <1>6, <3>1
    <3> QED BY <3>2 DEF i
  <2>5. CASE k = 0 BY <1>7, <2>1, <2>2, <2>5
  <2>6. CASE k # 0
    <3>1. h[k] = f[k] BY <1>10, <2>6
    <3> QED BY <2>1, <2>2, <2>3, <2>4, <2>6, <3>1
  <2> QED BY <2>5, <2>6
<1>11. 0 \in S BY <1>1
<1> HIDE DEF S
<1>12. \A k \in Nat : k < n /\ k \in S => k + 1 \in S BY <1>10
<1>13. \A k \in 0..n : k \in S BY <1>1, <1>11, <1>12, UpTo
<1>14. h[n] = f[n] BY <1>1, <1>13 DEF S
<1> QED BY <1>2, <1>6, <1>7, <1>14 DEF n

\* Flattening one sequence, whatever it is, and none.
LEMMA FlattenFew == ASSUME NEW s PROVE FlattenSeq(<<s>>) = s /\ FlattenSeq(<<>>) = <<>>
<1> DEFINE q == <<s>>
           Body(h) == [i \in 1..Len(q) |-> IF i = 1 THEN q[i] ELSE h[i - 1] \o q[i]]
           h == CHOOSE x : x = Body(x)
<1>1. Len(q) = 1 /\ q[1] = s /\ Len(<<>>) = 0 OBVIOUS
<1> HIDE DEF q
<1>2. FlattenSeq(q) = h[Len(q)] BY <1>1 DEF FlattenSeq
<1>3. \A x : Body(x) = [i \in {1} |-> s] BY <1>1
<1> HIDE DEF Body
<1>4. h = [i \in {1} |-> s] BY <1>3
<1>5. h[1] = s BY <1>4
<1> QED BY <1>1, <1>2, <1>5 DEF q, FlattenSeq

\* Flattening keeps to the elements.
LEMMA FlattenType ==
  ASSUME NEW T, NEW seqs \in Seq(Seq(T)) PROVE FlattenSeq(seqs) \in Seq(T)
<1>1. CASE Len(seqs) = 0
  <2>1. FlattenSeq(seqs) = seqs /\ seqs = <<>> BY <1>1 DEF FlattenSeq
  <2> QED BY <2>1
<1>2. CASE Len(seqs) # 0
  <2>1. PICK f \in [0..Len(seqs) -> Seq(T)] : FlattenSeq(seqs) = f[Len(seqs)]
    BY <1>2, FlattenSteps
  <2>2. Len(seqs) \in 0..Len(seqs) OBVIOUS
  <2> QED BY <2>1, <2>2
<1> QED BY <1>1, <1>2

-----------------------------------------------------------------------------
(* What options give to a flag.                                            *)

\* Joining nothing.
LEMMA NothingAdded == ASSUME NEW w, Sequence(w) PROVE w \o <<>> = w /\ <<>> \o w = w
  BY ConcatEmptySeq DEF Sequence

\* Where a flag is among the positions of the options of w.
AtFlag(w, P, flag) == {i \in P : i <= Len(w) /\ w[i] = W(flag)}

\* Where a flag stands, by the chain of the options.
LEMMA FlagAtChain ==
  ASSUME NEW w, NEW P, Sequence(w), Chain(w, P, RealSSHTakesArg),
         NEW flag \in RealSSHTakesArg
  PROVE  FlagAt(w, flag) = AtFlag(w, P, flag) /\ \A i \in AtFlag(w, P, flag) : i + 1 \in 1..Len(w)
<1> DEFINE at == AtFlag(w, P, flag)
<1>0. \A i : i \in at <=> i \in P /\ i <= Len(w) /\ w[i] = W(flag) BY DEF AtFlag
<1> HIDE DEF at
<1>1. Len(w) \in Nat /\ P \subseteq 1..Len(w) + 1 BY AnySequence DEF Sequence, Chain
<1>2. Width(W(flag), RealSSHTakesArg) = 2 BY DEF Width, Takes, W
<1>3. \A i \in at : i \in Nat /\ i >= 1 /\ i < Len(w)
  <2> TAKE i \in at
  <2>1. i + 2 \in P BY <1>0, <1>2 DEF Chain
  <2>2. i \in 1..Len(w) + 1 /\ i + 2 \in 1..Len(w) + 1 BY <1>0, <1>1, <2>1
  <2> QED BY <1>1, <2>2
<1>4. Scanned(w, RealSSHTakesArg) = P \intersect (1..Len(w))
  <2>1. Sequence(<<>>) BY FewWords
  <2>2. Scanned(w \o <<>>, RealSSHTakesArg) = P \intersect (1..Len(w \o <<>>))
    BY <2>1, ScanOfChain
  <2> QED BY <2>2, NothingAdded
<1>5. FlagAt(w, flag) = at
  <2>1. \A i \in P : i <= Len(w) => i \in 1..Len(w) BY <1>1
  <2>2. \A i \in at : i \in P /\ i \in 1..Len(w) /\ i < Len(w) /\ w[i] = W(flag) BY <1>0, <1>3, <2>1
  <2>3. \A i \in FlagAt(w, flag) : i \in P /\ i \in 1..Len(w) /\ i < Len(w) /\ w[i] = W(flag)
    BY <1>4 DEF FlagAt
  <2>4. \A i \in P \intersect (1..Len(w)) : i <= Len(w) BY <1>1
  <2>5. \A i \in at : i \in FlagAt(w, flag) BY <1>4, <2>2 DEF FlagAt
  <2>6. \A i \in FlagAt(w, flag) : i \in at BY <1>0, <2>3, <2>4
  <2> QED BY <2>5, <2>6
<1>6. \A i \in at : i + 1 \in 1..Len(w) BY <1>1, <1>3
<1> QED BY <1>5, <1>6 DEF at

\* A flag that takes a value has one behind it, among the options.
LEMMA GivenByChain ==
  ASSUME NEW w, NEW P, Sequence(w), Chain(w, P, RealSSHTakesArg),
         NEW flag \in RealSSHTakesArg
  PROVE  /\ \A i \in AtFlag(w, P, flag) : i + 1 \in 1..Len(w)
         /\ GivenTo(w, flag) = {w[i + 1] : i \in AtFlag(w, P, flag)}
  BY FlagAtChain DEF GivenTo

\* Options after options give what both give.
LEMMA OptionsJoin ==
  ASSUME NEW a, NEW b, NEW flags, Options(a, flags), Options(b, flags)
  PROVE  Options(a \o b, flags)
<1>1. PICK P, Q : Chain(a, P, flags) /\ Chain(b, Q, flags) BY DEF Options
<1>2. Sequence(a) /\ Sequence(b) BY DEF Options
<1>3. Chain(a \o b, P \union {Len(a) + i : i \in Q}, flags) BY <1>1, <1>2, ChainsJoin
<1>4. Sequence(a \o b) BY <1>2, JoinFacts
<1> QED BY <1>3, <1>4 DEF Options

\* They give what the one and the other give.
LEMMA GivenJoin ==
  ASSUME NEW a, NEW b, Options(a, RealSSHTakesArg), Options(b, RealSSHTakesArg),
         NEW flag \in RealSSHTakesArg
  PROVE  GivenTo(a \o b, flag) = GivenTo(a, flag) \union GivenTo(b, flag)
<1>1. PICK P, Q : Chain(a, P, RealSSHTakesArg) /\ Chain(b, Q, RealSSHTakesArg) BY DEF Options
<1>2. Sequence(a) /\ Sequence(b) BY DEF Options
<1> DEFINE w == a \o b
           R == P \union {Len(a) + i : i \in Q}
           atA == AtFlag(a, P, flag)
           atB == AtFlag(b, Q, flag)
           at  == AtFlag(w, R, flag)
<1>3. Chain(w, R, RealSSHTakesArg) BY <1>1, <1>2, ChainsJoin
<1>4. /\ Sequence(w) /\ Len(w) = Len(a) + Len(b) /\ Len(a) \in Nat /\ Len(b) \in Nat
      /\ \A i \in 1..Len(a) : w[i] = a[i]
      /\ \A i \in 1..Len(b) : w[Len(a) + i] = b[i]
  BY <1>2, JoinFacts
<1> HIDE DEF w
<1>5. (\A i \in atA : i + 1 \in 1..Len(a)) /\ GivenTo(a, flag) = {a[i + 1] : i \in atA}
  BY <1>1, <1>2, GivenByChain
<1>6. (\A i \in atB : i + 1 \in 1..Len(b)) /\ GivenTo(b, flag) = {b[i + 1] : i \in atB}
  BY <1>1, <1>2, GivenByChain
<1>7. (\A i \in at : i + 1 \in 1..Len(w)) /\ GivenTo(w, flag) = {w[i + 1] : i \in at}
  <2> HIDE DEF R
  <2> QED BY <1>3, <1>4, GivenByChain
<1>b. /\ \A i : i \in atA <=> i \in P /\ i <= Len(a) /\ a[i] = W(flag)
      /\ \A i : i \in atB <=> i \in Q /\ i <= Len(b) /\ b[i] = W(flag)
      /\ \A i : i \in at <=> i \in R /\ i <= Len(w) /\ w[i] = W(flag)
  BY DEF AtFlag
<1> HIDE DEF at, atA, atB
<1>c. \A i : i \in R <=> i \in P \/ \E j \in Q : i = Len(a) + j OBVIOUS
<1> HIDE DEF R
<1>8. P \subseteq 1..Len(a) + 1 /\ Q \subseteq 1..Len(b) + 1 /\ 1 \in Q BY <1>1 DEF Chain
<1>9. ASSUME NEW i \in atA PROVE i \in at /\ w[i + 1] = a[i + 1]
  <2>0. i \in P /\ i <= Len(a) BY <1>b
  <2>1. i \in 1..Len(a) /\ i <= Len(w) BY <1>4, <1>8, <2>0
  <2> QED BY <1>b, <1>c, <1>4, <1>5, <2>0, <2>1
<1>10. ASSUME NEW i \in atB PROVE Len(a) + i \in at /\ w[Len(a) + i + 1] = b[i + 1]
  <2>0. i \in Q /\ i <= Len(b) BY <1>b
  <2>1. i \in 1..Len(b) /\ Len(a) + i <= Len(w) BY <1>4, <1>8, <2>0
  <2>2. Len(a) + i + 1 = Len(a) + (i + 1) BY <1>4, <2>1
  <2>3. Len(a) + i \in R BY <1>c, <2>0
  <2>4. w[Len(a) + i] = W(flag) BY <1>b, <1>4, <2>1
  <2>5. Len(a) + i \in at BY <1>b, <2>1, <2>3, <2>4
  <2>6. w[Len(a) + (i + 1)] = b[i + 1] BY <1>4, <1>6
  <2> QED BY <2>2, <2>5, <2>6
<1>11. ASSUME NEW i \in at PROVE i \in atA \/ \E j \in atB : i = Len(a) + j
  <2>1. CASE i \in P /\ i <= Len(a)
    <3>1. i \in 1..Len(a) BY <1>4, <1>8, <2>1
    <3> QED BY <1>b, <1>c, <1>4, <2>1, <3>1
  <2>2. CASE i \in P /\ ~(i <= Len(a))
    <3>1. i = Len(a) + 1 /\ 1 <= Len(b) BY <1>b, <1>c, <1>4, <1>8, <2>2
    <3>2. 1 \in 1..Len(b) BY <1>b, <1>c, <1>4, <3>1
    <3>3. 1 \in atB BY <1>b, <1>c, <1>4, <1>8, <3>1, <3>2
    <3> QED BY <3>1, <3>3
  <2>3. CASE i \notin P
    <3>1. PICK j \in Q : i = Len(a) + j BY <1>b, <1>c, <2>3
    <3>2. j \in 1..Len(b) BY <1>b, <1>c, <1>4, <1>8, <3>1
    <3>3. j \in atB BY <1>b, <1>c, <1>4, <3>1, <3>2
    <3> QED BY <3>1, <3>3
  <2> QED BY <2>1, <2>2, <2>3
<1>12. \A v \in GivenTo(w, flag) : v \in GivenTo(a, flag) \union GivenTo(b, flag)
  BY <1>5, <1>6, <1>7, <1>9, <1>10, <1>11
<1>13. \A v \in GivenTo(a, flag) : v \in GivenTo(w, flag) BY <1>5, <1>7, <1>9
<1>14. \A v \in GivenTo(b, flag) : v \in GivenTo(w, flag) BY <1>6, <1>7, <1>10
<1> QED BY <1>12, <1>13, <1>14 DEF w

\* What one option gives, and that one flag and no options give nothing.
LEMMA GivenOne ==
  ASSUME NEW f \in RealSSHTakesArg, f \in DashedAtoms, f # "--", NEW value,
         NEW flag \in RealSSHTakesArg
  PROVE  GivenTo(Opt(f, value), flag) = IF f = flag THEN {value} ELSE {}
<1> DEFINE w == Opt(f, value)
           at == AtFlag(w, {1, 3}, flag)
<1>1. Sequence(w) /\ Len(w) = 2 /\ w[1] = W(f) /\ w[2] = value BY FewWords DEF Opt
<1>2. Chain(w, {1, 3}, RealSSHTakesArg) BY OneOption
<1> HIDE DEF w
<1>3. GivenTo(w, flag) = {w[i + 1] : i \in at} BY <1>1, <1>2, GivenByChain
<1>4. W(f) = W(flag) <=> f = flag BY DEF W
<1>5. at = IF f = flag THEN {1} ELSE {} BY <1>1, <1>4 DEF AtFlag
<1> HIDE DEF at
<1>6. 1 + 1 = 2 OBVIOUS
<1>7. {w[i + 1] : i \in {1}} = {value} BY <1>1, <1>6
<1> QED BY <1>3, <1>5, <1>7 DEF w

\* An option without a value gives nothing.
LEMMA GivenFlag ==
  ASSUME NEW f \in DashedAtoms, f # "--", f \notin RealSSHTakesArg, NEW flag \in RealSSHTakesArg
  PROVE  GivenTo(<<W(f)>>, flag) = {}
<1> DEFINE w == <<W(f)>>
           at == AtFlag(w, {1, 2}, flag)
<1>1. Sequence(w) /\ Len(w) = 1 /\ w[1] = W(f) BY FewWords
<1>2. Chain(w, {1, 2}, RealSSHTakesArg) BY OneFlag
<1> HIDE DEF w
<1>3. GivenTo(w, flag) = {w[i + 1] : i \in at} BY <1>1, <1>2, GivenByChain
<1>4. W(f) # W(flag) BY DEF W
<1>5. at = {} BY <1>1, <1>4 DEF AtFlag
<1> QED BY <1>3, <1>5 DEF w

\* No options give nothing.
LEMMA GivenNone == ASSUME NEW flag \in RealSSHTakesArg PROVE GivenTo(<<>>, flag) = {}
<1>1. Chain(<<>>, {1}, RealSSHTakesArg) BY FewWords DEF Chain
<1> DEFINE w == <<>>
           at == AtFlag(w, {1}, flag)
<1>2. Sequence(w) /\ Len(w) = 0 BY FewWords
<1>3. Chain(w, {1}, RealSSHTakesArg) BY <1>1
<1> HIDE DEF w
<1>4. GivenTo(w, flag) = {w[i + 1] : i \in at} BY <1>2, <1>3, GivenByChain
<1>5. at = {} BY <1>2 DEF AtFlag
<1> QED BY <1>4, <1>5 DEF w

-----------------------------------------------------------------------------
(* What ssh reads.                                                         *)

\* What was joined is cut again.
LEMMA Cut ==
  ASSUME NEW a, NEW b, Sequence(a), Sequence(b)
  PROVE  HeadOf(a \o b, Len(a)) = a /\ TailOf(a \o b, Len(a)) = b
<1> DEFINE w == a \o b
           S == ToSet(w)
           m == Len(a)
<1>1. /\ Sequence(w) /\ Len(w) = m + Len(b) /\ m \in Nat /\ Len(b) \in Nat
      /\ \A i \in 1..m : w[i] = a[i]
      /\ \A i \in 1..Len(b) : w[m + i] = b[i]
  BY JoinFacts
<1>2. \A i \in 1..Len(w) : w[i] \in S
  <2>1. w \in Seq(S) BY <1>1 DEF Sequence
  <2> HIDE DEF w, S
  <2> QED BY <2>1
<1> HIDE DEF w, S, m
<1>3. /\ SubSeq(w, 1, m) \in Seq(S) /\ Len(SubSeq(w, 1, m)) = m
      /\ \A i \in 1..m : SubSeq(w, 1, m)[i] = w[i]
  <2>1. \A i \in 1..m : w[i] \in S BY <1>1, <1>2
  <2>2. \A i \in 1..m - 1 + 1 : SubSeq(w, 1, m)[i] = w[1 + i - 1]
    BY <1>1, <2>1, SubSeqProperties
  <2>3. Len(SubSeq(w, 1, m)) = IF 1 <= m THEN m - 1 + 1 ELSE 0
    BY <1>1, <2>1, SubSeqProperties
  <2>4. \A i \in 1..m : i \in 1..m - 1 + 1 /\ 1 + i - 1 = i BY <1>1
  <2>5. SubSeq(w, 1, m) \in Seq(S) BY <1>1, <2>1, SubSeqProperties
  <2> QED BY <1>1, <2>2, <2>3, <2>4, <2>5
<1>4. LET t == SubSeq(w, m + 1, Len(w))
      IN  t \in Seq(S) /\ Len(t) = Len(b) /\ \A i \in 1..Len(b) : t[i] = w[m + i]
  <2> DEFINE p == m + 1
             n == Len(w)
             t == SubSeq(w, p, n)
  <2>1. p \in Int /\ n \in Int /\ \A i \in p..n : w[i] \in S BY <1>1, <1>2
  <2>2. Len(b) = n - p + 1 /\ n = m + Len(b) BY <1>1
  <2> HIDE DEF p, n
  <2>3. t \in Seq(S) BY <2>1, SubSeqProperties
  <2>4. Len(t) = IF p <= n THEN n - p + 1 ELSE 0 BY <2>1, SubSeqProperties
  <2>5. \A i \in 1..n - p + 1 : t[i] = w[p + i - 1] BY <2>1, SubSeqProperties
  <2>6. Len(t) = Len(b) BY <1>1, <2>1, <2>2, <2>4
  <2>7. \A i \in 1..Len(b) : p + i - 1 = m + i BY <1>1 DEF p
  <2>8. \A i \in 1..Len(b) : t[i] = w[m + i] BY <2>2, <2>5, <2>7
  <2> QED BY <2>3, <2>6, <2>8 DEF p, n
<1>5. SubSeq(w, 1, m) = a
  <2>1. Sequence(SubSeq(w, 1, m)) BY <1>3, AnySequence
  <2>2. \A i \in 1..m : SubSeq(w, 1, m)[i] = a[i] BY <1>1, <1>3
  <2> QED BY <1>3, <2>1, <2>2, SameSequence DEF m
<1>6. SubSeq(w, m + 1, Len(w)) = b
  <2>1. Sequence(SubSeq(w, m + 1, Len(w))) BY <1>4, AnySequence
  <2>2. \A i \in 1..Len(b) : SubSeq(w, m + 1, Len(w))[i] = b[i] BY <1>1, <1>4
  <2> QED BY <1>4, <2>1, <2>2, SameSequence
<1> QED BY <1>5, <1>6 DEF HeadOf, TailOf, w, m

\* The first word after the options that does not begin with a dash is the host.
LEMMA HostAfterOptions ==
  ASSUME NEW w, NEW rest, NEW flags, Options(w, flags), Sequence(rest), rest # <<>>,
         ~Dashed(rest[1])
  PROVE  HostIndex(w \o rest, flags) = Len(w) + 1
<1> DEFINE args == w \o rest
           h    == Len(w) + 1
           stops == {i \in Scanned(args, flags) : ~IsOption(args[i])}
<1>1. PICK P : Chain(w, P, flags) BY DEF Options
<1>2. Sequence(w) BY DEF Options
<1>3. /\ Len(args) = Len(w) + Len(rest) /\ Len(w) \in Nat /\ Len(rest) \in Nat
      /\ \A i \in 1..Len(w) : args[i] = w[i]
      /\ \A i \in 1..Len(rest) : args[Len(w) + i] = rest[i]
  BY <1>2, JoinFacts
<1>4. ~IsOption(rest[1]) /\ rest[1] # W("--")
  <2>1. W("--") # <<>> /\ W("--")[1] = "--" BY DEF W
  <2> QED BY <2>1, DashAssumption DEF IsOption, Dashed
<1>5. Scanned(args, flags) = P \intersect (1..Len(args)) BY <1>1, <1>2, <1>4, ScanOfChain
<1> HIDE DEF args
<1>6. 1 \in 1..Len(rest)
  <2>1. Len(rest) # 0 BY FewWords, SameSequence
  <2> QED BY <1>3, <2>1
<1>7. h \in P /\ h \in 1..Len(args) /\ args[h] = rest[1] BY <1>1, <1>3, <1>6 DEF Chain
<1>8. \A i \in P : i \in 1..Len(w) \/ i = h BY <1>1, <1>3 DEF Chain
<1>9. \A i \in P : i \in 1..Len(w) => IsOption(args[i])
  <2>1. \A i \in P : i \in 1..Len(w) => i <= Len(w) BY <1>3
  <2> QED BY <1>1, <1>3, <2>1 DEF Chain
<1>10. stops = {h} BY <1>4, <1>5, <1>7, <1>8, <1>9
<1> HIDE DEF stops
<1>11. (CHOOSE i \in stops : TRUE) = h BY <1>10
<1> HIDE DEF h
<1>12. HostIndex(args, flags)
         = IF stops = {} \/ (args[CHOOSE i \in stops : TRUE] = W("--")
                             /\ (CHOOSE i \in stops : TRUE) = Len(args)) THEN 0
           ELSE IF args[CHOOSE i \in stops : TRUE] = W("--") THEN (CHOOSE i \in stops : TRUE) + 1
           ELSE (CHOOSE i \in stops : TRUE)
  BY DEF HostIndex, stops
<1>13. HostIndex(args, flags) = h BY <1>4, <1>7, <1>10, <1>11, <1>12
<1> QED BY <1>13 DEF args, h

\* There is no host among nothing.
LEMMA HostOfNothing == ASSUME NEW flags PROVE HostIndex(<<>>, flags) = 0
<1>1. Chain(<<>>, {1}, flags) BY FewWords DEF Chain
<1> DEFINE e == <<>>
<1>2. Sequence(e) /\ Chain(e, {1}, flags) /\ e \o e = e /\ e = <<>> /\ Len(e) = 0
  BY <1>1, FewWords, NothingAdded
<1> HIDE DEF e
<1>5. e # <<>> => ~IsOption(e[1]) BY <1>2
<1>3. Scanned(e \o e, flags) = {1} \intersect (1..Len(e \o e)) 
  <2>1. Sequence(e) /\ Chain(e, {1}, flags) BY <1>2
  <2> QED BY <1>5, <2>1, ScanOfChain
<1>4. Scanned(e, flags) = {} BY <1>2, <1>3
<1> QED BY <1>2, <1>4 DEF HostIndex

\* What ssh reads, by where it finds the host, and no command or one.
LEMMA ReadsNoCommand ==
  ASSUME NEW args, NEW k \in Nat, NEW rest, HostIndex(args, RealSSHTakesArg) = k + 1,
         TailOf(args, k + 1) = rest, HostIndex(rest, RealSSHTakesArg) = 0
  PROVE  SSHReads(args) =
           [host |-> args[k + 1], options |-> HeadOf(args, k) \o rest, command |-> <<>>]
<1> DEFINE h == k + 1
<1>1. h # 0 /\ h - 1 = k OBVIOUS
<1>2. HostIndex(args, RealSSHTakesArg) = h /\ TailOf(args, h) = rest OBVIOUS
<1> HIDE DEF h
<1>3. SSHReads(args) = [host |-> args[h], options |-> HeadOf(args, h - 1) \o rest, command |-> <<>>]
  BY <1>1, <1>2 DEF SSHReads
<1>4. SSHReads(args) = [host |-> args[h], options |-> HeadOf(args, k) \o rest, command |-> <<>>]
  BY <1>1, <1>3
<1> QED BY <1>4 DEF h

\* With the command behind the host.
LEMMA ReadsCommand ==
  ASSUME NEW args, NEW k \in Nat, NEW rest, HostIndex(args, RealSSHTakesArg) = k + 1,
         TailOf(args, k + 1) = rest, HostIndex(rest, RealSSHTakesArg) = 1
  PROVE  SSHReads(args) =
           [host    |-> args[k + 1],
            options |-> HeadOf(args, k) \o HeadOf(rest, 0),
            command |-> Join(TailOf(rest, 0))]
<1> DEFINE h == k + 1
           c == 1
<1>1. h # 0 /\ h - 1 = k /\ c # 0 /\ c - 1 = 0 OBVIOUS
<1>2. /\ HostIndex(args, RealSSHTakesArg) = h /\ TailOf(args, h) = rest
      /\ HostIndex(rest, RealSSHTakesArg) = c
  OBVIOUS
<1> HIDE DEF h, c
<1>3. SSHReads(args) = [host    |-> args[h],
                        options |-> HeadOf(args, h - 1) \o HeadOf(rest, c - 1),
                        command |-> Join(TailOf(rest, c - 1))]
  BY <1>1, <1>2 DEF SSHReads
<1>4. SSHReads(args) = [host    |-> args[h],
                        options |-> HeadOf(args, k) \o HeadOf(rest, 0),
                        command |-> Join(TailOf(rest, 0))]
  BY <1>1, <1>3
<1> QED BY <1>4 DEF h

\* The lines that slush writes: options, the host and at most a script.
LEMMA ReadsHost ==
  ASSUME NEW w, Options(w, RealSSHTakesArg), NEW host, ~Dashed(host)
  PROVE  SSHReads(w \o <<host>>) = [host |-> host, options |-> w, command |-> <<>>]
<1> DEFINE args == w \o <<host>>
           n    == Len(w)
<1>1. Sequence(w) /\ Sequence(<<host>>) /\ Sequence(<<>>) BY FewWords DEF Options
<1>2. /\ Sequence(args) /\ n \in Nat /\ Len(args) = n + 1 /\ args[n + 1] = host
  BY <1>1, JoinFacts, FewWords
<1>3. HostIndex(args, RealSSHTakesArg) = n + 1
  BY <1>1, HostAfterOptions, FewWords
<1>4. HeadOf(args, n) = w BY <1>1, Cut
<1>5. TailOf(args, n + 1) = <<>>
  <2>1. args \o <<>> = args BY <1>2, NothingAdded
  <2> HIDE DEF args
  <2>2. TailOf(args \o <<>>, Len(args)) = <<>> BY <1>1, <1>2, Cut
  <2> QED BY <1>2, <2>1, <2>2
<1> HIDE DEF args, n
<1>6. HostIndex(<<>>, RealSSHTakesArg) = 0 BY HostOfNothing
<1>7. SSHReads(args) = [host |-> args[n + 1], options |-> HeadOf(args, n) \o <<>>, command |-> <<>>]
  BY <1>2, <1>3, <1>5, <1>6, ReadsNoCommand
<1>8. w \o <<>> = w BY <1>1, NothingAdded
<1> QED BY <1>2, <1>4, <1>7, <1>8 DEF args

\* The same with a script, which no dash begins.
LEMMA ReadsScript ==
  ASSUME NEW w, Options(w, RealSSHTakesArg), NEW host, ~Dashed(host), NEW script, ~Dashed(script)
  PROVE  SSHReads(w \o <<host, script>>) = [host |-> host, options |-> w, command |-> script]
<1> DEFINE args == w \o <<host, script>>
           n    == Len(w)
           rest == <<script>>
<1>1. Sequence(w) /\ Sequence(<<host, script>>) /\ Sequence(<<>>) /\ Sequence(rest)
      /\ Sequence(<<host>>)
  BY FewWords DEF Options
<1>2. /\ Sequence(args) /\ n \in Nat /\ Len(args) = n + 2 /\ args[n + 1] = host
  BY <1>1, JoinFacts, FewWords
<1>3. HostIndex(args, RealSSHTakesArg) = n + 1
  BY <1>1, HostAfterOptions, FewWords
<1>4. HeadOf(args, n) = w BY <1>1, Cut
<1>5. TailOf(args, n + 1) = rest
  <2> DEFINE pre == w \o <<host>>
  <2>1. Sequence(pre) /\ Len(pre) = n + 1 BY <1>1, JoinFacts, FewWords
  <2>2. args = pre \o rest
    <3>1. <<host, script>> = <<host>> \o <<script>> BY TwoWords
    <3>2. w \o (<<host>> \o rest) = (w \o <<host>>) \o rest BY <1>1, JoinAssociates
    <3> QED BY <3>1, <3>2
  <2> HIDE DEF pre, rest, args, n
  <2>3. TailOf(pre \o rest, Len(pre)) = rest BY <1>1, <2>1, Cut
  <2> QED BY <2>1, <2>2, <2>3
<1>6. HostIndex(rest, RealSSHTakesArg) = 1
  <2>1. Options(<<>>, RealSSHTakesArg) BY NoOptions
  <2>2. HostIndex(<<>> \o rest, RealSSHTakesArg) = Len(<<>>) + 1
    BY <1>1, <2>1, HostAfterOptions, FewWords
  <2>3. <<>> \o rest = rest BY <1>1, NothingAdded
  <2> QED BY <2>2, <2>3, FewWords
<1>7. HeadOf(rest, 0) = <<>> /\ TailOf(rest, 0) = rest
  <2>1. <<>> \o rest = rest BY <1>1, NothingAdded
  <2> HIDE DEF rest
  <2>2. HeadOf(<<>> \o rest, Len(<<>>)) = <<>> /\ TailOf(<<>> \o rest, Len(<<>>)) = rest
    BY <1>1, Cut
  <2> QED BY <2>1, <2>2, FewWords
<1>8. Join(rest) = script
  <2>1. [i \in 1..Len(rest) |-> IF i = 1 THEN rest[i] ELSE <<" ">> \o rest[i]] = <<script>>
    <3>1. Len(rest) = 1 /\ rest[1] = script BY FewWords
    <3> DEFINE x == [i \in 1..Len(rest) |-> IF i = 1 THEN rest[i] ELSE <<" ">> \o rest[i]]
    <3> HIDE DEF rest
    <3>2. DOMAIN x = 1..1 /\ x[1] = script BY <3>1
    <3>3. x = [i \in 1..1 |-> script] BY <3>1
    <3>4. <<script>> = [i \in 1..1 |-> script] OBVIOUS
    <3> QED BY <3>3, <3>4
  <2> QED BY <2>1, FlattenFew DEF Join
<1> HIDE DEF args, n, rest
<1>9. SSHReads(args) = [host |-> args[n + 1], options |-> HeadOf(args, n) \o HeadOf(rest, 0),
                        command |-> Join(TailOf(rest, 0))]
  BY <1>2, <1>3, <1>5, <1>6, ReadsCommand
<1>10. w \o <<>> = w BY <1>1, NothingAdded
<1>11. SSHReads(args) = [host |-> host, options |-> w, command |-> script]
  BY <1>2, <1>4, <1>7, <1>8, <1>9, <1>10
<1> QED BY <1>11 DEF args

-----------------------------------------------------------------------------
(* The options slush writes.                                               *)

WithValue == {"-F", "-L", "-O", "-R", "-S", "-i", "-o", "-p"}

\* Each of these, with any value.
LEMMA SlushOption ==
  ASSUME NEW f \in WithValue, NEW value
  PROVE  /\ Options(Opt(f, value), RealSSHTakesArg)
         /\ \A flag \in RealSSHTakesArg :
              GivenTo(Opt(f, value), flag) = IF f = flag THEN {value} ELSE {}
<1>1. f \in RealSSHTakesArg /\ f \in DashedAtoms /\ f # "--"
  BY DashAssumption DEF WithValue, RealSSHTakesArg
<1> QED BY <1>1, OneOption, GivenOne

\* The options of one word.
LEMMA SlushFlag ==
  ASSUME NEW f \in {"-A", "-N", "-t", "-n"}
  PROVE  /\ Options(<<W(f)>>, RealSSHTakesArg)
         /\ \A flag \in RealSSHTakesArg : GivenTo(<<W(f)>>, flag) = {}
<1>1. f \notin RealSSHTakesArg /\ f \in DashedAtoms /\ f # "--"
  BY DashAssumption DEF RealSSHTakesArg
<1> QED BY <1>1, OneFlag, GivenFlag

\* What w gives to the flags the properties ask about.
Gives(w, p, i, F, o, S) ==
  /\ Options(w, RealSSHTakesArg)
  /\ GivenTo(w, "-p") = p /\ GivenTo(w, "-i") = i /\ GivenTo(w, "-F") = F
  /\ GivenTo(w, "-o") = o /\ GivenTo(w, "-S") = S

\* Options behind options give both.
LEMMA GivesJoin ==
  ASSUME NEW a, NEW p, NEW i, NEW F, NEW o, NEW S, Gives(a, p, i, F, o, S),
         NEW b, NEW q, NEW j, NEW G, NEW r, NEW T, Gives(b, q, j, G, r, T)
  PROVE  Gives(a \o b, p \union q, i \union j, F \union G, o \union r, S \union T)
<1>1. Options(a, RealSSHTakesArg) /\ Options(b, RealSSHTakesArg) BY DEF Gives
<1>2. {"-p", "-i", "-F", "-o", "-S"} \subseteq RealSSHTakesArg BY DEF RealSSHTakesArg
<1>3. \A flag \in {"-p", "-i", "-F", "-o", "-S"} :
        GivenTo(a \o b, flag) = GivenTo(a, flag) \union GivenTo(b, flag)
  BY <1>1, <1>2, GivenJoin
<1>4. Options(a \o b, RealSSHTakesArg) BY <1>1, OptionsJoin
<1> QED BY <1>3, <1>4 DEF Gives

\* What each option gives.
LEMMA GivesOption ==
  ASSUME NEW v
  PROVE  /\ Gives(Opt("-p", v), {v}, {}, {}, {}, {})
         /\ Gives(Opt("-i", v), {}, {v}, {}, {}, {})
         /\ Gives(Opt("-F", v), {}, {}, {v}, {}, {})
         /\ Gives(Opt("-o", v), {}, {}, {}, {v}, {})
         /\ Gives(Opt("-S", v), {}, {}, {}, {}, {v})
         /\ \A f \in {"-L", "-R", "-O"} : Gives(Opt(f, v), {}, {}, {}, {}, {})
<1>1. {"-p", "-i", "-F", "-o", "-S"} \subseteq RealSSHTakesArg BY DEF RealSSHTakesArg
<1>2. \A f \in WithValue : Options(Opt(f, v), RealSSHTakesArg) BY SlushOption
<1>3. \A f \in WithValue, flag \in {"-p", "-i", "-F", "-o", "-S"} :
        GivenTo(Opt(f, v), flag) = IF f = flag THEN {v} ELSE {}
  BY <1>1, SlushOption
<1> QED BY <1>2, <1>3 DEF Gives, WithValue

\* What gives nothing.
LEMMA GivesNothing ==
  /\ Gives(<<>>, {}, {}, {}, {}, {})
  /\ \A f \in {"-A", "-N", "-t", "-n"} : Gives(<<W(f)>>, {}, {}, {}, {}, {})
<1>1. {"-p", "-i", "-F", "-o", "-S"} \subseteq RealSSHTakesArg BY DEF RealSSHTakesArg
<1>2. \A flag \in {"-p", "-i", "-F", "-o", "-S"} : GivenTo(<<>>, flag) = {} BY <1>1, GivenNone
<1>3. Options(<<>>, RealSSHTakesArg) BY NoOptions
<1>4. ASSUME NEW f \in {"-A", "-N", "-t", "-n"} PROVE Gives(<<W(f)>>, {}, {}, {}, {}, {})
  BY <1>1, SlushFlag DEF Gives
<1> QED BY <1>2, <1>3, <1>4 DEF Gives

\* ConnectionFlags and ConnOpts.
PortOf(r) == IF r.port = <<>> THEN {} ELSE {W(Itoa(CHOOSE n \in TCPPort(r.port) : TRUE))}
GivenBy(value) == IF value = <<>> THEN {} ELSE {value}
AskedPort     == PortOf(request)
AskedIdentity == GivenBy(request.identity)
AskedConfig   == GivenBy(request.config)
AgentWord     == IF request.agent THEN "ForwardAgent=yes" ELSE "ForwardAgent=no"

\* The options of ConnectionFlags give what the user named.
LEMMA GivesConnectionFlags ==
  Gives(ConnectionFlags, AskedPort, AskedIdentity, AskedConfig, {}, {})
<1> DEFINE pv == IF request.port = <<>> THEN <<>>
                 ELSE W(Itoa(CHOOSE n \in TCPPort(request.port) : TRUE))
<1>1. Gives(IfGiven("-p", pv), AskedPort, {}, {}, {}, {})
  <2>1. CASE request.port = <<>>
    <3>1. IfGiven("-p", pv) = <<>> /\ AskedPort = {} BY <2>1 DEF IfGiven, AskedPort, PortOf
    <3> QED BY <3>1, GivesNothing
  <2>2. CASE request.port # <<>>
    <3> DEFINE v == W(Itoa(CHOOSE n \in TCPPort(request.port) : TRUE))
    <3>1. pv = v /\ AskedPort = {v} BY <2>2 DEF AskedPort, PortOf
    <3>2. v # <<>> BY DEF W
    <3> HIDE DEF v, pv
    <3>3. IfGiven("-p", pv) = Opt("-p", v) BY <3>1, <3>2 DEF IfGiven
    <3> QED BY <3>1, <3>3, GivesOption
  <2> QED BY <2>1, <2>2
<1>2. Gives(IfGiven("-i", request.identity), {}, AskedIdentity, {}, {}, {})
  BY GivesOption, GivesNothing DEF IfGiven, AskedIdentity, GivenBy
<1>3. Gives(IfGiven("-F", request.config), {}, {}, AskedConfig, {}, {})
  BY GivesOption, GivesNothing DEF IfGiven, AskedConfig, GivenBy
<1>4. ConnectionFlags = (IfGiven("-p", pv) \o IfGiven("-i", request.identity))
                          \o IfGiven("-F", request.config)
  BY DEF ConnectionFlags
<1> HIDE DEF pv
<1>5. Gives(IfGiven("-p", pv) \o IfGiven("-i", request.identity),
            AskedPort \union {}, {} \union AskedIdentity, {} \union {}, {} \union {}, {} \union {})
  BY <1>1, <1>2, GivesJoin
<1>6. Gives(ConnectionFlags, AskedPort \union {} \union {}, {} \union AskedIdentity \union {},
            {} \union {} \union AskedConfig, {} \union {} \union {}, {} \union {} \union {})
  BY <1>3, <1>4, <1>5, GivesJoin
<1>7. /\ AskedPort \union {} \union {} = AskedPort
      /\ {} \union AskedIdentity \union {} = AskedIdentity
      /\ {} \union {} \union AskedConfig = AskedConfig
      /\ {} \union {} \union {} = {}
  OBVIOUS
<1> QED BY <1>6, <1>7

\* And what ForwardAgent is set to, before them.
LEMMA GivesConnOpts ==
  Gives(ConnOpts, AskedPort, AskedIdentity, AskedConfig, {W(AgentWord)}, {})
<1>1. ConnOpts = Opt("-o", W(AgentWord)) \o ConnectionFlags BY DEF ConnOpts, AgentWord
<1>2. Gives(Opt("-o", W(AgentWord)), {}, {}, {}, {W(AgentWord)}, {}) BY GivesOption
<1>3. Gives(ConnOpts, {} \union AskedPort, {} \union AskedIdentity, {} \union AskedConfig,
            {W(AgentWord)} \union {}, {} \union {})
  BY <1>1, <1>2, GivesConnectionFlags, GivesJoin
<1>4. /\ {} \union AskedPort = AskedPort /\ {} \union AskedIdentity = AskedIdentity
      /\ {} \union AskedConfig = AskedConfig /\ {W(AgentWord)} \union {} = {W(AgentWord)}
      /\ {} \union {} = {}
  OBVIOUS
<1> QED BY <1>3, <1>4

\* slush's own search for the host knows these options too.
LEMMA ConnOptsForSlush == Options(ConnOpts, SSHTakesArg)
<1>1. ASSUME NEW f \in {"-o", "-p", "-i", "-F"}, NEW v PROVE Options(Opt(f, v), SSHTakesArg)
  <2>1. f \in SSHTakesArg /\ f \in DashedAtoms /\ f # "--" BY DashAssumption DEF SSHTakesArg
  <2> QED BY <2>1, OneOption
<1>2. ASSUME NEW f \in {"-o", "-p", "-i", "-F"}, NEW v PROVE Options(IfGiven(f, v), SSHTakesArg)
  BY <1>1, NoOptions DEF IfGiven
<1> DEFINE a == Opt("-o", W(AgentWord))
           pv == IF request.port = <<>> THEN <<>>
                 ELSE W(Itoa(CHOOSE n \in TCPPort(request.port) : TRUE))
           p == IfGiven("-p", pv)
           i == IfGiven("-i", request.identity)
           F == IfGiven("-F", request.config)
<1>3. Options(a, SSHTakesArg) /\ Options(p, SSHTakesArg) /\ Options(i, SSHTakesArg)
      /\ Options(F, SSHTakesArg)
  BY <1>1, <1>2
<1>4. ConnOpts = a \o ((p \o i) \o F) BY DEF ConnOpts, ConnectionFlags, AgentWord
<1> HIDE DEF a, p, i, F
<1>5. Options(p \o i, SSHTakesArg) BY <1>3, OptionsJoin
<1>6. Options((p \o i) \o F, SSHTakesArg) BY <1>3, <1>5, OptionsJoin
<1> QED BY <1>3, <1>4, <1>6, OptionsJoin

\* However many forwards there are.
LEMMA GivesForwardOpts ==
  ASSUME NEW flag \in {"-L", "-R"}, NEW texts, Len(texts) \in Nat
  PROVE  Gives(ForwardOpts(flag, texts), {}, {}, {}, {}, {})
<1> DEFINE n == Len(texts)
           V == {Rendered(CHOOSE f \in Forwards(texts)[i] : TRUE) : i \in 1..n} \union {W(flag)}
           seqs == [i \in 1..n |-> Opt(flag, Rendered(CHOOSE f \in Forwards(texts)[i] : TRUE))]
<1>1. n \in Nat OBVIOUS
<1>2. ForwardOpts(flag, texts) = FlattenSeq(seqs) BY DEF ForwardOpts
<1>3. \A i \in 1..n : seqs[i] \in Seq(V)
  <2> TAKE i \in 1..n
  <2> DEFINE v == Rendered(CHOOSE f \in Forwards(texts)[i] : TRUE)
  <2>1. v \in V /\ W(flag) \in V OBVIOUS
  <2>2. seqs[i] = <<W(flag), v>> BY DEF Opt
  <2> HIDE DEF v, V, seqs
  <2> QED BY <2>1, <2>2
<1>4. \A i \in 1..n : Gives(seqs[i], {}, {}, {}, {}, {}) BY GivesOption
<1>5. seqs = [i \in 1..n |-> seqs[i]] OBVIOUS
<1> HIDE DEF V, n, seqs
<1>6. seqs \in Seq(Seq(V)) /\ Len(seqs) = n BY <1>1, <1>3, <1>5
<1>7. CASE n = 0
  <2>1. seqs = <<>> BY <1>6, <1>7
  <2> QED BY <1>2, <2>1, FlattenFew, GivesNothing
<1>8. CASE n # 0
  <2>1. PICK f : /\ f[0] = <<>> /\ FlattenSeq(seqs) = f[n]
                 /\ \A i \in 1..n : f[i] = f[i - 1] \o seqs[i]
    <3>1. PICK f \in [0..Len(seqs) -> Seq(V)] :
                   /\ f[0] = <<>> /\ f[1] = seqs[1] /\ FlattenSeq(seqs) = f[Len(seqs)]
                   /\ \A i \in 1..Len(seqs) : f[i] = f[i - 1] \o seqs[i]
      <4>1. Len(seqs) # 0 BY <1>6, <1>8
      <4> QED BY <1>6, <4>1, FlattenSteps
    <3> QED BY <1>6, <3>1
  <2> DEFINE S == {k \in 0..n : Gives(f[k], {}, {}, {}, {}, {})}
  <2>2. 0 \in S BY <1>1, <2>1, GivesNothing
  <2>3. ASSUME NEW k \in Nat, k < n, k \in S PROVE k + 1 \in S
    <3> DEFINE i == k + 1
    <3>1. i \in 1..n /\ i - 1 = k /\ i \in 0..n BY <1>1, <2>3
    <3> HIDE DEF i
    <3>2. f[i] = f[k] \o seqs[i] BY <2>1, <3>1
    <3>3. Gives(f[k], {}, {}, {}, {}, {}) BY <2>3
    <3>4. Gives(seqs[i], {}, {}, {}, {}, {}) BY <1>4, <3>1
    <3>5. Gives(f[i], {} \union {}, {} \union {}, {} \union {}, {} \union {}, {} \union {})
      BY <3>2, <3>3, <3>4, GivesJoin
    <3>6. {} \union {} = {} OBVIOUS
    <3>7. Gives(f[i], {}, {}, {}, {}, {}) BY <3>5, <3>6
    <3> QED BY <3>1, <3>7 DEF i
  <2> HIDE DEF S
  <2>4. \A k \in Nat : k < n /\ k \in S => k + 1 \in S BY <2>3
  <2>5. \A k \in 0..n : k \in S BY <1>1, <2>2, <2>4, UpTo
  <2>6. n \in S BY <1>1, <2>5
  <2> QED BY <1>2, <2>1, <2>6 DEF S
<1> QED BY <1>7, <1>8

-----------------------------------------------------------------------------
(* The agent.                                                              *)

AgentWords == {"-A", "ForwardAgent=yes", "ForwardAgent=no", "-oForwardAgent=no"}

\* Words that say nothing of the agent, and options of which ConnOpts's word is the
\* first that does.
Silent(w) == Sequence(w) /\ \A i \in 1..Len(w) : w[i][1] \notin AgentWords
AgentFirst(w) ==
  \E a, b : /\ Silent(a) /\ Sequence(b)
            /\ w = a \o (Opt("-o", W(AgentWord)) \o b)

\* Words of which none is about the agent.
LEMMA SilentFacts ==
  /\ Silent(<<>>)
  /\ \A f : f \notin AgentWords => Silent(<<W(f)>>)
  /\ \A f, v : f \notin AgentWords /\ v[1] \notin AgentWords => Silent(Opt(f, v))
<1>1. Silent(<<>>)
  <2> DEFINE e == <<>>
  <2>1. Sequence(e) /\ Len(e) = 0 BY FewWords
  <2> HIDE DEF e
  <2>2. Silent(e) BY <2>1 DEF Silent
  <2> QED BY <2>2 DEF e
<1>2. ASSUME NEW f, f \notin AgentWords PROVE Silent(<<W(f)>>)
  <2>1. Sequence(<<W(f)>>) /\ Len(<<W(f)>>) = 1 /\ <<W(f)>>[1] = W(f) BY FewWords
  <2>2. W(f)[1] = f BY DEF W
  <2> QED BY <1>2, <2>1, <2>2 DEF Silent
<1>3. ASSUME NEW f, NEW v, f \notin AgentWords, v[1] \notin AgentWords PROVE Silent(Opt(f, v))
  <2> DEFINE w == Opt(f, v)
  <2>1. Sequence(w) /\ Len(w) = 2 /\ w[1] = W(f) /\ w[2] = v BY FewWords DEF Opt
  <2>2. W(f)[1] = f BY DEF W
  <2> HIDE DEF w
  <2>3. Silent(w) BY <1>3, <2>1, <2>2 DEF Silent
  <2> QED BY <2>3 DEF w
<1> QED BY <1>1, <1>2, <1>3

\* And those behind them.
LEMMA SilentJoin == ASSUME NEW a, NEW b, Silent(a), Silent(b) PROVE Silent(a \o b)
<1> DEFINE w == a \o b
<1>1. /\ Sequence(w) /\ Len(w) = Len(a) + Len(b) /\ Len(a) \in Nat /\ Len(b) \in Nat
      /\ \A i \in 1..Len(a) : w[i] = a[i]
      /\ \A i \in 1..Len(b) : w[Len(a) + i] = b[i]
  BY JoinFacts DEF Silent
<1> HIDE DEF w
<1>2. ASSUME NEW i \in 1..Len(w) PROVE w[i][1] \notin AgentWords
  <2>1. CASE i <= Len(a)
    <3>1. i \in 1..Len(a) BY <1>1, <2>1
    <3> QED BY <1>1, <3>1 DEF Silent
  <2>2. CASE ~(i <= Len(a))
    <3> DEFINE j == i - Len(a)
    <3>1. j \in 1..Len(b) /\ Len(a) + j = i BY <1>1, <2>2
    <3> HIDE DEF j
    <3>2. w[i] = b[j] BY <1>1, <3>1
    <3> QED BY <3>1, <3>2 DEF Silent
  <2> QED BY <2>1, <2>2
<1> QED BY <1>1, <1>2 DEF Silent, w

\* The first word about the agent is what ssh takes.
LEMMA AgentRead ==
  ASSUME NEW w, AgentFirst(w), request.agent \in BOOLEAN PROVE  AgentIn(w) = request.agent
<1>1. PICK a, b : Silent(a) /\ Sequence(b) /\ w = a \o (Opt("-o", W(AgentWord)) \o b)
  BY DEF AgentFirst
<1> DEFINE opt  == Opt("-o", W(AgentWord))
           rest == opt \o b
           n    == Len(a)
           I    == {i \in 1..Len(w) : w[i][1] \in AgentWords}
<1>2. Sequence(opt) /\ Len(opt) = 2 /\ opt[1] = W("-o") /\ opt[2] = W(AgentWord)
  BY FewWords DEF Opt
<1> HIDE DEF opt
<1>3. /\ Sequence(rest) /\ Len(rest) = 2 + Len(b) /\ Len(b) \in Nat
      /\ rest[1] = W("-o") /\ rest[2] = W(AgentWord)
  <2>1. /\ Sequence(rest) /\ Len(rest) = Len(opt) + Len(b) /\ Len(b) \in Nat
        /\ \A i \in 1..Len(opt) : rest[i] = opt[i]
    BY <1>1, <1>2, JoinFacts
  <2> HIDE DEF rest
  <2>2. 1 \in 1..Len(opt) /\ 2 \in 1..Len(opt) BY <1>2
  <2> QED BY <1>2, <2>1, <2>2
<1>4. Sequence(a) BY <1>1 DEF Silent
<1>5. w = a \o rest BY <1>1 DEF opt
<1> HIDE DEF rest
<1>6. /\ Len(w) = n + Len(rest) /\ n \in Nat
      /\ \A i \in 1..n : w[i] = a[i]
      /\ \A i \in 1..Len(rest) : w[n + i] = rest[i]
  <2> DEFINE v == a \o rest
  <2>1. /\ Len(v) = Len(a) + Len(rest) /\ Len(a) \in Nat
        /\ \A i \in 1..Len(a) : v[i] = a[i]
        /\ \A i \in 1..Len(rest) : v[Len(a) + i] = rest[i]
    BY <1>3, <1>4, JoinFacts
  <2> HIDE DEF v
  <2>2. v = w BY <1>5 DEF v
  <2> QED BY <2>1, <2>2
<1>7. W("-o")[1] = "-o" /\ W(AgentWord)[1] = AgentWord BY DEF W
<1>8. "-o" \notin AgentWords /\ AgentWord \in AgentWords BY DEF AgentWords, AgentWord
<1>9. 1 \in 1..Len(rest) /\ 2 \in 1..Len(rest) BY <1>3
<1>10. w[n + 1] = W("-o") /\ w[n + 2] = W(AgentWord) BY <1>3, <1>6, <1>9
<1>11. \A i \in 1..n : w[i][1] \notin AgentWords BY <1>1, <1>6 DEF Silent
<1> HIDE DEF n
<1>12. n + 2 \in I BY <1>3, <1>6, <1>7, <1>8, <1>10
<1>13. \A i \in I : n + 2 <= i
  <2> TAKE i \in I
  <2>1. i \notin 1..n /\ i # n + 1 BY <1>7, <1>8, <1>10, <1>11
  <2> QED BY <1>6, <2>1
<1>14. Min(I) = n + 2
  <2>1. \A i \in I : i \in Nat BY <1>6
  <2> HIDE DEF I
  <2>2. \E i \in I : \A j \in I : i <= j BY <1>12, <1>13
  <2>3. Min(I) \in I /\ \A j \in I : Min(I) <= j BY <2>2 DEF Min
  <2> QED BY <1>6, <1>12, <1>13, <2>1, <2>3
<1>15. AgentIn(w) = (w[n + 2][1] \in {"-A", "ForwardAgent=yes"})
  <2> DEFINE at == SelectInSeq(w, LAMBDA word : word[1] \in AgentWords)
  <2>1. at = IF I # {} THEN Min(I) ELSE 0 BY DEF SelectInSeq
  <2> HIDE DEF I
  <2>2. at = n + 2 /\ at # 0 BY <1>6, <1>12, <1>14, <2>1
  <2>3. AgentIn(w) = IF at = 0 THEN Configured ELSE w[at][1] \in {"-A", "ForwardAgent=yes"}
    BY DEF AgentIn, AgentWords
  <2> HIDE DEF at
  <2> QED BY <2>2, <2>3
<1>16. (AgentWord \in {"-A", "ForwardAgent=yes"}) = request.agent
  BY DEF AgentWord
<1> QED BY <1>7, <1>10, <1>15, <1>16

-----------------------------------------------------------------------------
(* What slush gives to remote shells.                                      *)

\* A sequence of words.
WordList(words) == Sequence(words) /\ \A i \in 1..Len(words) : Sequence(words[i])

\* Flattening a list of words.
LEMMA FlattenWords == ASSUME NEW words, WordList(words) PROVE Sequence(FlattenSeq(words))
<1> DEFINE n == Len(words)
           T == UNION {ToSet(words[i]) : i \in 1..n}
<1>1. Sequence(words) /\ n \in Nat /\ DOMAIN words = 1..n BY AnySequence DEF WordList, Sequence
<1>2. ASSUME NEW i \in 1..n PROVE words[i] \in Seq(T)
  <2>1. words[i] \in Seq(ToSet(words[i])) BY DEF WordList, Sequence
  <2>2. ToSet(words[i]) \subseteq T OBVIOUS
  <2> DEFINE S == ToSet(words[i])
             w == words[i]
  <2> HIDE DEF S, T, w
  <2>3. w \in Seq(S) /\ S \subseteq T BY <2>1, <2>2 DEF S, w
  <2>4. w \in Seq(T) BY <2>3
  <2> QED BY <2>4 DEF w
<1>3. words = [i \in 1..n |-> words[i]]
  <2>1. words = [i \in DOMAIN words |-> words[i]] BY <1>1 DEF Sequence
  <2> QED BY <1>1, <2>1
<1> HIDE DEF T, n
<1>4. words \in Seq(Seq(T)) BY <1>1, <1>2, <1>3
<1>5. FlattenSeq(words) \in Seq(T) BY <1>4, FlattenType
<1> QED BY <1>5, AnySequence

\* A function of the positions of a sequence is one.
LEMMA MapWords ==
  ASSUME NEW n \in Nat, NEW f, f = [i \in 1..n |-> f[i]], \A i \in 1..n : Sequence(f[i])
  PROVE  WordList(f) /\ Len(f) = n
<1> DEFINE S == {f[i] : i \in 1..n}
<1>1. \A i \in 1..n : f[i] \in S OBVIOUS
<1> HIDE DEF S
<1>2. f \in Seq(S) /\ Len(f) = n BY <1>1
<1> QED BY <1>2, AnySequence DEF WordList

\* strings.Join of words.
LEMMA JoinType == ASSUME NEW words, WordList(words) PROVE Sequence(Join(words))
<1> DEFINE seqs == [i \in 1..Len(words) |-> IF i = 1 THEN words[i] ELSE <<" ">> \o words[i]]
<1>1. Len(words) \in Nat /\ \A i \in 1..Len(words) : Sequence(words[i])
  BY AnySequence DEF WordList, Sequence
<1>2. \A i \in 1..Len(words) : Sequence(seqs[i])
  <2>1. \A i \in 1..Len(words) : Sequence(<<" ">> \o words[i]) BY <1>1, FewWords, JoinFacts
  <2> QED BY <1>1, <2>1
<1>3. seqs = [i \in 1..Len(words) |-> seqs[i]] OBVIOUS
<1>4. Join(words) = FlattenSeq(seqs) BY DEF Join
<1> HIDE DEF seqs
<1>5. WordList(seqs) BY <1>1, <1>2, <1>3, MapWords
<1> QED BY <1>4, <1>5, FlattenWords

\* ShellQuote of a word.
LEMMA ShellQuoteType == ASSUME NEW word, Sequence(word) PROVE Sequence(ShellQuote(word))
<1> DEFINE seqs == [i \in 1..Len(word) |-> IF word[i] = "'" THEN <<"'", "\\'", "'">>
                                           ELSE <<word[i]>>]
<1>1. Len(word) \in Nat BY DEF Sequence
<1>2. \A i \in 1..Len(word) : Sequence(seqs[i])
  <2>1. Sequence(<<"'", "\\'", "'">>)
    <3>1. <<"'", "\\'", "'">> \in Seq({"'", "\\'"}) OBVIOUS
    <3> QED BY <3>1, AnySequence
  <2>2. \A i \in 1..Len(word) : Sequence(<<word[i]>>) BY FewWords
  <2> QED BY <2>1, <2>2
<1>3. seqs = [i \in 1..Len(word) |-> seqs[i]] OBVIOUS
<1>4. ShellQuote(word) = (<<"'">> \o FlattenSeq(seqs)) \o <<"'">> BY DEF ShellQuote
<1> HIDE DEF seqs
<1>5. WordList(seqs) BY <1>1, <1>2, <1>3, MapWords
<1>6. Sequence(FlattenSeq(seqs)) /\ Sequence(<<"'">>) BY <1>5, FlattenWords, FewWords
<1>7. Sequence(<<"'">> \o FlattenSeq(seqs)) BY <1>6, JoinFacts
<1> QED BY <1>4, <1>6, <1>7, JoinFacts

\* What begins with the exports is no option.
LEMMA ExportsFirst ==
  ASSUME NEW text, Sequence(text)
  PROVE  Sequence(Exports \o text) /\ ~Dashed(Exports \o text)
<1> DEFINE first == "export SLUSH SLUSH_TOKEN SLUSH_PORT BROWSER PATH;"
<1>1. Sequence(Exports) /\ Len(Exports) = 2 /\ Exports[1] = first BY FewWords DEF Exports
<1>2. first \notin DashedAtoms BY DashAssumption
<1> HIDE DEF first
<1> DEFINE all == Exports \o text
<1>3. 1 \in 1..Len(Exports) BY <1>1
<1>4. Sequence(all) /\ all[1] = Exports[1] BY <1>1, <1>3, JoinFacts
<1> HIDE DEF all
<1>5. Sequence(all) /\ ~Dashed(all) BY <1>1, <1>2, <1>4 DEF Dashed
<1> QED BY <1>5 DEF all

\* The remote command of an ssh session.
LEMMA SSHCommandType ==
  ASSUME NEW command, WordList(command)
  PROVE  Sequence(SSHCommand(command)) /\ ~Dashed(SSHCommand(command))
<1> DEFINE rest == IF command = <<>> THEN InteractiveShell ELSE Join(command)
<1>1. Sequence(rest) BY FewWords, JoinType DEF InteractiveShell
<1>2. SSHCommand(command) = Exports \o rest BY DEF SSHCommand
<1> HIDE DEF rest
<1> QED BY <1>1, <1>2, ExportsFirst

\* The remote command of a check that asks for the session's wrapper.
LEMMA WrappedCommandType ==
  ASSUME NEW command, Sequence(command) PROVE Sequence(WrappedCommand(command))
<1>1. CASE mode # "mosh"
  <2> DEFINE words == <<command>>
  <2>1. Sequence(words) /\ Len(words) = 1 /\ words[1] = command BY FewWords
  <2>2. WrappedCommand(command) = SSHCommand(words) BY <1>1 DEF WrappedCommand
  <2> HIDE DEF words
  <2>3. WordList(words) BY <2>1 DEF WordList
  <2> QED BY <2>2, <2>3, SSHCommandType
<1>2. CASE mode = "mosh"
  <2> DEFINE script  == (Exports \o <<>>) \o ExecParameters
             head    == <<W("sh"), W("-c"), script, W("sh")>>
             words   == <<W("sh"), W("-c"), command>>
             wrapped == MoshCommand(words, FALSE)
             quoted  == [i \in 1..Len(wrapped) - 3 |-> ShellQuote(wrapped[i + 3])]
  <2>1. Sequence(W("sh")) /\ Sequence(W("-c")) BY FewWords DEF W
  <2>2. Sequence(script)
    <3>1. Sequence(Exports) /\ Sequence(<<>>) /\ Sequence(ExecParameters)
      BY FewWords DEF Exports, ExecParameters
    <3>2. Sequence(Exports \o <<>>) BY <3>1, JoinFacts
    <3> QED BY <3>1, <3>2, JoinFacts
  <2>3. wrapped = head \o words BY DEF MoshCommand
  <2> HIDE DEF script
  <2>4. /\ Sequence(head) /\ Len(head) = 4 /\ \A i \in 1..4 : Sequence(head[i])
        /\ Sequence(words) /\ Len(words) = 3 /\ \A i \in 1..3 : Sequence(words[i])
    <3>1. head \in Seq({W("sh"), W("-c"), script}) /\ words \in Seq({W("sh"), W("-c"), command})
          /\ Len(head) = 4 /\ Len(words) = 3
      OBVIOUS
    <3>2. \A i \in 1..4 : head[i] \in {W("sh"), W("-c"), script} BY <3>1
    <3>3. \A i \in 1..3 : words[i] \in {W("sh"), W("-c"), command} BY <3>1
    <3>4. Sequence(head) /\ Sequence(words) BY <3>1, AnySequence
    <3> HIDE DEF head, words
    <3> QED BY <2>1, <2>2, <3>1, <3>2, <3>3, <3>4
  <2>5. WrappedCommand(command)
           = ((<<"sh", " ", "-c", " ">> \o ShellQuote(wrapped[3])) \o <<" ">>) \o Join(quoted)
    BY <1>2 DEF WrappedCommand
  <2> HIDE DEF head, words, wrapped
  <2>6. /\ Len(wrapped) = 7 /\ \A i \in 1..4 : wrapped[i] = head[i]
        /\ \A i \in 1..3 : wrapped[4 + i] = words[i]
    <3> DEFINE all == head \o words
    <3>1. /\ Len(all) = Len(head) + Len(words)
          /\ \A i \in 1..Len(head) : all[i] = head[i]
          /\ \A i \in 1..Len(words) : all[Len(head) + i] = words[i]
      <4>1. Sequence(head) /\ Sequence(words) BY <2>4
      <4> QED BY <4>1, JoinFacts
    <3> HIDE DEF all
    <3>2. all = wrapped BY <2>3 DEF all
    <3> QED BY <2>4, <3>1, <3>2
  <2>7. \A i \in 1..7 : Sequence(wrapped[i])
    <3> TAKE i \in 1..7
    <3>1. i \in 1..4 \/ (i - 4 \in 1..3 /\ 4 + (i - 4) = i) OBVIOUS
    <3> QED BY <2>4, <2>6, <3>1
  <2>8. WordList(quoted)
    <3>1. Len(wrapped) - 3 = 4 BY <2>6
    <3>2. \A i \in 1..4 : i + 3 \in 1..7 OBVIOUS
    <3>3. \A i \in 1..4 : Sequence(ShellQuote(wrapped[i + 3])) BY <2>7, <3>2, ShellQuoteType
    <3>4. \A i \in 1..4 : quoted[i] = ShellQuote(wrapped[i + 3]) BY <3>1
    <3>5. quoted = [i \in 1..4 |-> quoted[i]] BY <3>1
    <3> HIDE DEF quoted
    <3> QED BY <3>3, <3>4, <3>5, MapWords
  <2>9. Sequence(Join(quoted)) /\ Sequence(ShellQuote(wrapped[3])) /\ Sequence(<<" ">>)
    <3>1. Sequence(Join(quoted)) BY <2>8, JoinType
    <3>2. Sequence(wrapped[3]) BY <2>7
    <3>3. Sequence(ShellQuote(wrapped[3])) BY <3>2, ShellQuoteType
    <3>4. Sequence(<<" ">>) BY FewWords
    <3> QED BY <3>1, <3>3, <3>4
  <2>10. Sequence(<<"sh", " ", "-c", " ">>)
    <3>1. <<"sh", " ", "-c", " ">> \in Seq({"sh", " ", "-c"}) OBVIOUS
    <3> QED BY <3>1, AnySequence
  <2> HIDE DEF quoted
  <2>11. Sequence(<<"sh", " ", "-c", " ">> \o ShellQuote(wrapped[3])) BY <2>9, <2>10, JoinFacts
  <2>12. Sequence((<<"sh", " ", "-c", " ">> \o ShellQuote(wrapped[3])) \o <<" ">>)
    BY <2>9, <2>11, JoinFacts
  <2> QED BY <2>5, <2>9, <2>12, JoinFacts
<1> QED BY <1>1, <1>2

-----------------------------------------------------------------------------
(* The lines that slush runs.                                              *)

\* One more -o.
LEMMA GivesSetting ==
  ASSUME NEW a, NEW p, NEW i, NEW F, NEW o, NEW S, Gives(a, p, i, F, o, S), NEW v
  PROVE  Gives(a \o Opt("-o", v), p, i, F, o \union {v}, S)
<1>1. Gives(Opt("-o", v), {}, {}, {}, {v}, {}) BY GivesOption
<1>2. Gives(a \o Opt("-o", v), p \union {}, i \union {}, F \union {}, o \union {v}, S \union {})
  BY <1>1, GivesJoin
<1>3. p \union {} = p /\ i \union {} = i /\ F \union {} = F /\ S \union {} = S OBVIOUS
<1> QED BY <1>2, <1>3

\* Options that give nothing to these flags.
LEMMA GivesNoMore ==
  ASSUME NEW a, NEW p, NEW i, NEW F, NEW o, NEW S, Gives(a, p, i, F, o, S),
         NEW b, Gives(b, {}, {}, {}, {}, {})
  PROVE  Gives(a \o b, p, i, F, o, S)
<1>1. Gives(a \o b, p \union {}, i \union {}, F \union {}, o \union {}, S \union {})
  BY GivesJoin
<1>2. p \union {} = p /\ i \union {} = i /\ F \union {} = F /\ o \union {} = o /\ S \union {} = S
  OBVIOUS
<1> QED BY <1>1, <1>2

\* The word stays the first before and behind words that say nothing of the agent.
LEMMA AgentMore ==
  ASSUME NEW w, AgentFirst(w), NEW c, Sequence(c) PROVE AgentFirst(w \o c)
<1> DEFINE ag == Opt("-o", W(AgentWord))
<1>1. PICK a, b : Silent(a) /\ Sequence(b) /\ w = a \o (ag \o b) BY DEF AgentFirst
<1>2. Sequence(a) /\ Sequence(ag) BY <1>1, FewWords DEF Silent, Opt
<1> HIDE DEF ag
<1>3. Sequence(b \o c) BY <1>1, JoinFacts
<1>4. Sequence(ag \o b) BY <1>1, <1>2, JoinFacts
<1>5. (a \o (ag \o b)) \o c = a \o ((ag \o b) \o c) BY <1>2, <1>4, JoinAssociates
<1>6. (ag \o b) \o c = ag \o (b \o c) BY <1>1, <1>2, JoinAssociates
<1>7. w \o c = a \o (ag \o (b \o c)) BY <1>1, <1>5, <1>6
<1> QED BY <1>1, <1>3, <1>7 DEF AgentFirst, ag

\* The same behind them.
LEMMA AgentAfter ==
  ASSUME NEW c, Silent(c), NEW w, AgentFirst(w) PROVE AgentFirst(c \o w)
<1> DEFINE ag == Opt("-o", W(AgentWord))
<1>1. PICK a, b : Silent(a) /\ Sequence(b) /\ w = a \o (ag \o b) BY DEF AgentFirst
<1>2. Sequence(c) /\ Sequence(a) /\ Sequence(ag) BY <1>1, FewWords DEF Silent, Opt
<1> HIDE DEF ag
<1>3. Sequence(ag \o b) BY <1>1, <1>2, JoinFacts
<1>4. c \o (a \o (ag \o b)) = (c \o a) \o (ag \o b) BY <1>2, <1>3, JoinAssociates
<1>5. Silent(c \o a) BY <1>1, SilentJoin
<1>6. c \o w = (c \o a) \o (ag \o b) BY <1>1, <1>4
<1> QED BY <1>1, <1>5, <1>6 DEF AgentFirst, ag

\* It is the first of ConnOpts.
LEMMA AgentOfConnOpts == AgentFirst(ConnOpts)
<1> DEFINE ag == Opt("-o", W(AgentWord))
<1>1. ConnOpts = ag \o ConnectionFlags BY DEF ConnOpts, AgentWord
<1>2. Sequence(ConnectionFlags) BY GivesConnectionFlags DEF Gives, Options
<1>3. Sequence(ag) BY FewWords DEF Opt
<1> HIDE DEF ag
<1>4. Sequence(ag \o ConnectionFlags) BY <1>2, <1>3, JoinFacts
<1>5. ConnOpts = <<>> \o (ag \o ConnectionFlags) BY <1>1, <1>4, NothingAdded
<1>6. Silent(<<>>) BY SilentFacts
<1> QED BY <1>2, <1>5, <1>6 DEF AgentFirst, ag

Bare     == {"master", "check", "forward", "exit"}
ByItself == {"install", "env direct", "shim direct"}

\* What a line that is run for a request says to ssh.
ReadsFor(r, by, args) ==
  LET read == SSHReads(args)
  IN /\ read.host = r.operands[1]
     /\ read.command = IF by \in Bare THEN <<>> ELSE Last(args)
     /\ by \notin ByItself => FindsControlPath(read.options)
     /\ by \in {"master", "client", "install"} =>
          /\ GivenTo(read.options, "-p") = PortOf(r)
          /\ GivenTo(read.options, "-i") = GivenBy(r.identity)
          /\ GivenTo(read.options, "-F") = GivenBy(r.config)
     /\ by \in {"master", "client"} => AgentIn(read.options) = r.agent

\* The same of options, with the host and at most a script behind them.
OptionsFor(by, w) ==
  /\ Options(w, RealSSHTakesArg)
  /\ by \notin ByItself => FindsControlPath(w)
  /\ by \in {"master", "client", "install"} =>
       /\ GivenTo(w, "-p") = AskedPort /\ GivenTo(w, "-i") = AskedIdentity
       /\ GivenTo(w, "-F") = AskedConfig
  /\ by \in {"master", "client"} => AgentFirst(w)

\* A request that was not refused.
Fit == request \in Requests /\ ~Refused

\* What was checked of such a request.
LEMMA FitFacts ==
  ASSUME Fit
  PROVE  /\ ~Dashed(Host) /\ request.agent \in BOOLEAN /\ WordList(Command)
         /\ Len(request.local) \in Nat /\ Len(request.remote) \in Nat
<1>1. ~Dashed(Host) /\ request.operands # <<>> BY DEF Fit, Refused, HostRefused, OperandsRefused
<1>2. request.agent \in BOOLEAN /\ {request.operands, request.local, request.remote}
                                     \subseteq Seq(Seq(STRING))
  BY RequestAssumption DEF Fit
<1>3. Command \in Seq(Seq(STRING))
  <2> DEFINE q == request.operands
             T == Seq(STRING)
  <2>1. q # <<>> /\ q \in Seq(T) BY <1>1, <1>2
  <2> HIDE DEF q, T
  <2>2. Tail(q) \in Seq(T) BY <2>1
  <2> QED BY <2>2 DEF Command, q, T
<1> DEFINE c == Command
<1> HIDE DEF c
<1>4. c \in Seq(Seq(STRING)) BY <1>3 DEF c
<1>5. \A i \in 1..Len(c) : c[i] \in Seq(STRING) BY <1>4
<1>6. WordList(c) BY <1>4, <1>5, AnySequence DEF WordList
<1> QED BY <1>1, <1>2, <1>6 DEF c

\* The scan finds the host that was asked for, in the arguments of any transport.
LEMMA SessionHostIs == ASSUME Fit PROVE SessionHost = Host
<1> DEFINE host == <<Host>>
           more == IF AskedTransport # "mosh" THEN Command
                   ELSE IF Command = <<>> THEN <<>> ELSE <<W("sh"), W("-c"), Join(Command)>>
           before == IF AskedTransport # "mosh" THEN ConnOpts ELSE <<>>
           flags == IF AskedTransport = "mosh" THEN MoshTakesArg ELSE SSHTakesArg
           args == NativeArgsFor(AskedTransport)
<1>1. ~Dashed(Host) /\ WordList(Command) BY FitFacts
<1>2. Sequence(host) /\ Len(host) = 1 /\ host[1] = Host BY FewWords
<1>3. Sequence(more)
  <2>1. Sequence(Command) BY <1>1 DEF WordList
  <2>2. Sequence(<<>>) BY FewWords
  <2>3. Sequence(<<W("sh"), W("-c"), Join(Command)>>)
    <3>1. <<W("sh"), W("-c"), Join(Command)>> \in Seq({W("sh"), W("-c"), Join(Command)}) OBVIOUS
    <3> QED BY <3>1, AnySequence
  <2> QED BY <2>1, <2>2, <2>3
<1>4. Options(before, flags) BY ConnOptsForSlush, NoOptions
<1>5. Sequence(before) BY <1>4 DEF Options
<1>6. AskedTransport # "mosh" => args = (before \o host) \o more BY DEF NativeArgsFor
<1>7. AskedTransport = "mosh" => args = host \o more /\ before = <<>> BY DEF NativeArgsFor
<1> HIDE DEF host, more, before, args, flags
<1> DEFINE rest == host \o more
<1>8. /\ Sequence(rest) /\ Len(rest) = Len(host) + Len(more) /\ Len(more) \in Nat
      /\ \A i \in 1..Len(host) : rest[i] = host[i]
  BY <1>2, <1>3, JoinFacts
<1>9. 1 \in 1..Len(host) BY <1>2
<1> HIDE DEF rest
<1>10. rest[1] = Host /\ Len(rest) # 0 BY <1>2, <1>8, <1>9
<1>11. rest # <<>> BY <1>10, FewWords
<1>12. args = before \o rest
  <2>1. (before \o host) \o more = before \o rest BY <1>2, <1>3, <1>5, JoinAssociates DEF rest
  <2>2. <<>> \o rest = rest BY <1>8, NothingAdded
  <2> QED BY <1>6, <1>7, <2>1, <2>2 DEF rest
<1>13. HostIndex(args, flags) = Len(before) + 1
  BY <1>1, <1>4, <1>8, <1>10, <1>11, <1>12, HostAfterOptions
<1>14. args[Len(before) + 1] = Host
  <2>1. \A i \in 1..Len(rest) : (before \o rest)[Len(before) + i] = rest[i]
    BY <1>5, <1>8, JoinFacts
  <2>2. Len(rest) \in Nat BY <1>8 DEF Sequence
  <2>3. 1 \in 1..Len(rest) BY <1>10, <2>2
  <2> QED BY <1>10, <1>12, <2>1, <2>3
<1>15. SessionHost = IF request.verb = "install" THEN Host ELSE args[HostIndex(args, flags)]
  BY DEF SessionHost, args, flags
<1> QED BY <1>13, <1>14, <1>15

\* A line that ends with the host.
LEMMA BareLine ==
  ASSUME Fit, NEW by \in Bare, NEW w, OptionsFor(by, w)
  PROVE  ReadsFor(request, by, w \o <<Host>>)
<1>1. ~Dashed(Host) /\ request.agent \in BOOLEAN BY FitFacts
<1>2. SSHReads(w \o <<Host>>) = [host |-> Host, options |-> w, command |-> <<>>]
  BY <1>1, ReadsHost DEF OptionsFor
<1>3. by \in {"master", "client"} => AgentIn(w) = request.agent
  BY <1>1, AgentRead DEF OptionsFor
<1> QED BY <1>2, <1>3 DEF ReadsFor, OptionsFor, AskedPort, AskedIdentity, AskedConfig, Host

\* A line that ends with the host and a script.
LEMMA ScriptLine ==
  ASSUME Fit, NEW by, by \notin Bare, NEW w, OptionsFor(by, w), NEW script, ~Dashed(script)
  PROVE  ReadsFor(request, by, w \o <<Host, script>>)
<1>1. ~Dashed(Host) /\ request.agent \in BOOLEAN BY FitFacts
<1> DEFINE args == w \o <<Host, script>>
<1>2. SSHReads(args) = [host |-> Host, options |-> w, command |-> script]
  BY <1>1, ReadsScript DEF OptionsFor
<1>3. by \in {"master", "client"} => AgentIn(w) = request.agent
  BY <1>1, AgentRead DEF OptionsFor
<1>4. Last(args) = script
  <2> DEFINE two == <<Host, script>>
  <2>1. Sequence(w) /\ Sequence(two) /\ Len(two) = 2 /\ two[2] = script
    BY FewWords DEF OptionsFor, Options
  <2> HIDE DEF two
  <2>2. 2 \in 1..Len(two) BY <2>1
  <2>3. /\ Len(w \o two) = Len(w) + Len(two)
        /\ \A i \in 1..Len(two) : (w \o two)[Len(w) + i] = two[i]
    <3>1. Sequence(w) /\ Sequence(two) BY <2>1
    <3> QED BY <3>1, JoinFacts
  <2>4. Last(w \o two) = script BY <2>1, <2>2, <2>3 DEF Last
  <2> QED BY <2>4 DEF two
<1> HIDE DEF args
<1>5. ReadsFor(request, by, args)
  BY <1>2, <1>3, <1>4 DEF ReadsFor, OptionsFor, AskedPort, AskedIdentity, AskedConfig, Host
<1> QED BY <1>5 DEF args

\* SSHExec puts its own options behind those it gets.
LEMMA ExecLine ==
  ASSUME Fit, NEW by, by \notin Bare, NEW extra, NEW script, ~Dashed(script),
         NEW p, NEW i, NEW F, NEW o, NEW S, Gives(extra, p, i, F, o, S),
         by \notin ByItself => S = {W("ctl")},
         by \in {"client", "install"} => p = AskedPort /\ i = AskedIdentity /\ F = AskedConfig,
         by = "client" => AgentFirst(extra)
  PROVE  ReadsFor(request, by, SSHExecArgs(extra, script))
<1> DEFINE bm == Opt("-o", W("BatchMode=yes"))
           ct == Opt("-o", W("ConnectTimeout=10"))
           w  == (extra \o bm) \o ct
<1>1. SSHExecArgs(extra, script) = w \o <<Host, script>> BY SessionHostIs DEF SSHExecArgs
<1>2. Gives(extra \o bm, p, i, F, o \union {W("BatchMode=yes")}, S) BY GivesSetting
<1>3. Gives(w, p, i, F, o \union {W("BatchMode=yes")} \union {W("ConnectTimeout=10")}, S)
  BY <1>2, GivesSetting
<1>4. Sequence(extra) /\ Sequence(bm) /\ Sequence(ct) BY FewWords DEF Gives, Options, Opt
<1> HIDE DEF bm, ct
<1>5. by = "client" => AgentFirst(w)
  <2>1. AgentFirst(extra) => AgentFirst(extra \o bm) BY <1>4, AgentMore
  <2>2. AgentFirst(extra \o bm) => AgentFirst(w) BY <1>4, AgentMore
  <2> QED BY <2>1, <2>2
<1>6. by \notin {"master"} BY DEF Bare
<1> HIDE DEF w
<1>7. OptionsFor(by, w)
  <2>1. by \notin ByItself => FindsControlPath(w) BY <1>3 DEF Gives, FindsControlPath
  <2> QED BY <1>3, <1>5, <1>6, <2>1 DEF OptionsFor, Gives
<1> QED BY <1>1, <1>7, ScriptLine

-----------------------------------------------------------------------------
(* The line of each step.                                                  *)

\* The scripts of provision.go and session.go are no options.
LEMMA PlainScripts ==
  \A s \in {"install", "agent", "env", "shim", "env direct", "shim direct", "detect"} :
    ~Dashed(<<s>>)
<1> SUFFICES ASSUME NEW s \in {"install", "agent", "env", "shim", "env direct", "shim direct",
                               "detect"}
             PROVE  ~Dashed(<<s>>)
  OBVIOUS
<1>1. s \notin DashedAtoms BY DashAssumption
<1>2. <<s>>[1] = s OBVIOUS
<1> QED BY <1>1, <1>2 DEF Dashed

\* The options of what rides the master: -o ControlMaster=no -S ctl.
LEMMA GivesHeld ==
  /\ Gives(NoMaster \o Held, {}, {}, {}, {W("ControlMaster=no")}, {W("ctl")})
  /\ Silent(NoMaster \o Held)
<1>1. Gives(NoMaster, {}, {}, {}, {W("ControlMaster=no")}, {}) BY GivesOption DEF NoMaster
<1>2. Gives(Held, {}, {}, {}, {}, {W("ctl")}) BY GivesOption DEF Held, W
<1>3. Gives(NoMaster \o Held, {} \union {}, {} \union {}, {} \union {},
            {W("ControlMaster=no")} \union {}, {} \union {W("ctl")})
  BY <1>1, <1>2, GivesJoin
<1>4. {} \union {} = {} /\ {W("ControlMaster=no")} \union {} = {W("ControlMaster=no")}
      /\ {} \union {W("ctl")} = {W("ctl")}
  OBVIOUS
<1>5. Silent(NoMaster)
  <2>1. W("ControlMaster=no")[1] = "ControlMaster=no" BY DEF W
  <2> QED BY <2>1, SilentFacts DEF NoMaster, AgentWords
<1>6. Silent(Held)
  <2>1. <<"ctl">>[1] = "ctl" OBVIOUS
  <2> QED BY <2>1, SilentFacts DEF Held, AgentWords
<1> QED BY <1>3, <1>4, <1>5, <1>6, SilentJoin

\* slush install.
LEMMA InstallLine ==
  ASSUME Fit PROVE ReadsFor(request, "install", SSHExecArgs(ConnectionFlags, <<"install">>))
<1>1. ~Dashed(<<"install">>) BY PlainScripts
<1>2. "install" \notin Bare /\ "install" \in ByItself BY DEF Bare, ByItself
<1> QED BY <1>1, <1>2, GivesConnectionFlags, ExecLine

\* The check for the remote agent.
LEMMA AgentLine ==
  ASSUME Fit
  PROVE  ReadsFor(request, "agent", SSHExecArgs(<<W("-A")>> \o NoMaster \o Held, <<"agent">>))
<1> DEFINE extra == <<W("-A")>> \o NoMaster \o Held
<1>1. ~Dashed(<<"agent">>) BY PlainScripts
<1>2. Gives(<<W("-A")>>, {}, {}, {}, {}, {}) BY GivesNothing
<1>3. Gives(NoMaster, {}, {}, {}, {W("ControlMaster=no")}, {}) BY GivesOption DEF NoMaster
<1>4. Gives(Held, {}, {}, {}, {}, {W("ctl")}) BY GivesOption DEF Held, W
<1>5. Gives(<<W("-A")>> \o NoMaster, {} \union {}, {} \union {}, {} \union {},
            {} \union {W("ControlMaster=no")}, {} \union {})
  BY <1>2, <1>3, GivesJoin
<1>6. Gives(extra, {} \union {} \union {}, {} \union {} \union {}, {} \union {} \union {},
            {} \union {W("ControlMaster=no")} \union {}, {} \union {} \union {W("ctl")})
  BY <1>4, <1>5, GivesJoin
<1>7. {} \union {} \union {W("ctl")} = {W("ctl")} OBVIOUS
<1>8. "agent" \notin Bare BY DEF Bare
<1> HIDE DEF extra
<1>9. ReadsFor(request, "agent", SSHExecArgs(extra, <<"agent">>))
  BY <1>1, <1>6, <1>7, <1>8, ExecLine
<1> QED BY <1>9 DEF extra

\* The scripts of provision.go, over the master and directly.
LEMMA ProvisionLines ==
  ASSUME Fit
  PROVE  /\ \A by \in {"env", "shim"} :
              ReadsFor(request, by, SSHExecArgs(NoMaster \o Held, <<by>>))
         /\ \A by \in {"env direct", "shim direct"} :
              ReadsFor(request, by, SSHExecArgs(<<>>, <<by>>))
<1>1. ASSUME NEW by \in {"env", "shim"}
      PROVE  ReadsFor(request, by, SSHExecArgs(NoMaster \o Held, <<by>>))
  <2>1. ~Dashed(<<by>>) BY PlainScripts
  <2>2. by \notin Bare /\ by \notin {"client", "install"} BY DEF Bare
  <2> QED BY <2>1, <2>2, GivesHeld, ExecLine
<1>2. ASSUME NEW by \in {"env direct", "shim direct"}
      PROVE  ReadsFor(request, by, SSHExecArgs(<<>>, <<by>>))
  <2>1. ~Dashed(<<by>>) BY PlainScripts
  <2>2. by \notin Bare /\ by \notin {"client", "install"} /\ by \in ByItself
    BY DEF Bare, ByItself
  <2>3. Gives(<<>>, {}, {}, {}, {}, {}) BY GivesNothing
  <2> QED BY <2>1, <2>2, <2>3, ExecLine
<1> QED BY <1>1, <1>2

\* The detection of mosh.
LEMMA DetectLine ==
  ASSUME Fit
  PROVE  ReadsFor(request, "detect",
                  SSHExecArgs(NoMaster \o Opt("-o", W("ProxyCommand=false")) \o Held \o ConnOpts,
                              <<"detect">>))
<1> DEFINE pc == Opt("-o", W("ProxyCommand=false"))
           extra == ((NoMaster \o pc) \o Held) \o ConnOpts
           o == {W("ControlMaster=no")} \union {W("ProxyCommand=false")}
<1>1. ~Dashed(<<"detect">>) BY PlainScripts
<1>2. Gives(NoMaster, {}, {}, {}, {W("ControlMaster=no")}, {}) BY GivesOption DEF NoMaster
<1>3. Gives(NoMaster \o pc, {}, {}, {}, o, {}) BY <1>2, GivesSetting
<1>4. Gives(Held, {}, {}, {}, {}, {W("ctl")}) BY GivesOption DEF Held, W
<1> HIDE DEF pc, o
<1>5. Gives((NoMaster \o pc) \o Held, {} \union {}, {} \union {}, {} \union {}, o \union {},
            {} \union {W("ctl")})
  BY <1>3, <1>4, GivesJoin
<1>6. Gives(extra, {} \union {} \union AskedPort, {} \union {} \union AskedIdentity,
            {} \union {} \union AskedConfig, o \union {} \union {W(AgentWord)},
            {} \union {W("ctl")} \union {})
  BY <1>5, GivesConnOpts, GivesJoin
<1>7. {} \union {W("ctl")} \union {} = {W("ctl")} OBVIOUS
<1>8. "detect" \notin Bare BY DEF Bare
<1> HIDE DEF extra
<1>9. ReadsFor(request, "detect", SSHExecArgs(extra, <<"detect">>))
  BY <1>1, <1>6, <1>7, <1>8, ExecLine
<1> QED BY <1>9 DEF extra, pc

\* The probes of validate.
LEMMA ProbeLine ==
  ASSUME Fit, NEW script \in {CheckScript, WrappedCommand(CheckScript)}
  PROVE  ReadsFor(request, "client",
                  SSHExecArgs(NoMaster \o Held \o ConnOpts, Exports \o script))
<1> DEFINE extra == (NoMaster \o Held) \o ConnOpts
<1>1. Sequence(CheckScript)
  <2>1. ASSUME NEW a, NEW b, NEW c, NEW d PROVE Sequence(<<a, b, a, c, d>>)
    <3>1. <<a, b, a, c, d>> \in Seq({a, b, c, d}) OBVIOUS
    <3> QED BY <3>1, AnySequence
  <2> QED BY <2>1 DEF CheckScript
<1>2. Sequence(script) BY <1>1, WrappedCommandType
<1>3. ~Dashed(Exports \o script) BY <1>2, ExportsFirst
<1>4. Gives(extra, {} \union AskedPort, {} \union AskedIdentity, {} \union AskedConfig,
            {W("ControlMaster=no")} \union {W(AgentWord)}, {W("ctl")} \union {})
  BY GivesHeld, GivesConnOpts, GivesJoin
<1>5. /\ {} \union AskedPort = AskedPort /\ {} \union AskedIdentity = AskedIdentity
      /\ {} \union AskedConfig = AskedConfig /\ {W("ctl")} \union {} = {W("ctl")}
  OBVIOUS
<1>6. AgentFirst(extra) BY GivesHeld, AgentOfConnOpts, AgentAfter
<1>7. "client" \notin Bare BY DEF Bare
<1> HIDE DEF extra
<1>8. ReadsFor(request, "client", SSHExecArgs(extra, Exports \o script))
  BY <1>3, <1>4, <1>5, <1>6, <1>7, ExecLine
<1> QED BY <1>8 DEF extra

\* ssh -O check, forward and exit.
LEMMA ControlLines ==
  ASSUME Fit
  PROVE  /\ \A by \in {"check", "exit"} : \A word :
              ReadsFor(request, by, Opt("-o", ControlPath) \o Opt("-O", word) \o <<Host>>)
         /\ ReadsFor(request, "forward",
                     Opt("-o", ControlPath) \o NoMaster \o Opt("-O", W("forward"))
                       \o Opt("-R", <<"clipboard">>) \o <<Host>>)
<1>1. Gives(Opt("-o", ControlPath), {}, {}, {}, {ControlPath}, {}) BY GivesOption
<1>2. \A f \in {"-O", "-R"} : \A v : Gives(Opt(f, v), {}, {}, {}, {}, {}) BY GivesOption
<1>3. ASSUME NEW by \in {"check", "exit"}, NEW word
      PROVE  ReadsFor(request, by, Opt("-o", ControlPath) \o Opt("-O", word) \o <<Host>>)
  <2> DEFINE w == Opt("-o", ControlPath) \o Opt("-O", word)
  <2>1. Gives(w, {}, {}, {}, {ControlPath}, {}) BY <1>1, <1>2, GivesNoMore
  <2>2. by \in Bare /\ by \notin {"master", "client", "install"} BY DEF Bare
  <2> HIDE DEF w
  <2>3. OptionsFor(by, w) BY <2>1, <2>2 DEF OptionsFor, Gives, FindsControlPath
  <2>4. ReadsFor(request, by, w \o <<Host>>) BY <2>2, <2>3, BareLine
  <2> QED BY <2>4 DEF w
<1>4. ReadsFor(request, "forward",
               Opt("-o", ControlPath) \o NoMaster \o Opt("-O", W("forward"))
                 \o Opt("-R", <<"clipboard">>) \o <<Host>>)
  <2> DEFINE a == Opt("-o", ControlPath) \o NoMaster
             b == a \o Opt("-O", W("forward"))
             w == b \o Opt("-R", <<"clipboard">>)
  <2>1. Gives(a, {}, {}, {}, {ControlPath} \union {W("ControlMaster=no")}, {})
    BY <1>1, GivesSetting DEF NoMaster
  <2> HIDE DEF a
  <2>2. Gives(b, {}, {}, {}, {ControlPath} \union {W("ControlMaster=no")}, {})
    BY <1>2, <2>1, GivesNoMore
  <2> HIDE DEF b
  <2>3. Gives(w, {}, {}, {}, {ControlPath} \union {W("ControlMaster=no")}, {})
    BY <1>2, <2>2, GivesNoMore
  <2>4. "forward" \in Bare BY DEF Bare
  <2> HIDE DEF w
  <2>5. OptionsFor("forward", w) BY <2>3 DEF OptionsFor, Gives, FindsControlPath
  <2>6. ReadsFor(request, "forward", w \o <<Host>>) BY <2>4, <2>5, BareLine
  <2> QED BY <2>6 DEF w, b, a
<1> QED BY <1>3, <1>4

\* The ControlMaster, with any forwards.
LEMMA MasterLine == ASSUME Fit PROVE ReadsFor(request, "master", MasterArgs)
<1> DEFINE a1 == <<W("-N")>>
           a2 == a1 \o Opt("-o", W("ExitOnForwardFailure=yes"))
           a3 == a2 \o Opt("-o", W("ControlMaster=yes"))
           a4 == a3 \o Opt("-o", ControlPath)
           a5 == a4 \o Opt("-o", W("ControlPersist=no"))
           a6 == a5 \o ConnOpts
           fl == ForwardOpts("-L", request.local)
           fr == ForwardOpts("-R", request.remote)
           a7 == a6 \o fl
           w  == a7 \o fr
           o2 == {} \union {W("ExitOnForwardFailure=yes")}
           o3 == o2 \union {W("ControlMaster=yes")}
           o4 == o3 \union {ControlPath}
           o5 == o4 \union {W("ControlPersist=no")}
<1>1. MasterArgs = w \o <<Host>> BY SessionHostIs DEF MasterArgs
<1>2. Gives(a1, {}, {}, {}, {}, {}) /\ Silent(a1)
  BY GivesNothing, SilentFacts DEF AgentWords
<1>3. Gives(fl, {}, {}, {}, {}, {}) /\ Gives(fr, {}, {}, {}, {}, {})
  BY FitFacts, GivesForwardOpts
<1>4. ControlPath \in o5 OBVIOUS
<1>5. ASSUME NEW v, v[1] \notin AgentWords PROVE Silent(Opt("-o", v))
  BY <1>5, SilentFacts DEF AgentWords
<1>6. /\ Silent(Opt("-o", W("ExitOnForwardFailure=yes")))
      /\ Silent(Opt("-o", W("ControlMaster=yes")))
      /\ Silent(Opt("-o", ControlPath)) /\ Silent(Opt("-o", W("ControlPersist=no")))
  <2>1. /\ W("ExitOnForwardFailure=yes")[1] \notin AgentWords
        /\ W("ControlMaster=yes")[1] \notin AgentWords
        /\ ControlPath[1] \notin AgentWords /\ W("ControlPersist=no")[1] \notin AgentWords
    BY DEF W, ControlPath, AgentWords
  <2> QED BY <1>5, <2>1
<1> HIDE DEF a1, fl, fr
<1>7. Gives(a2, {}, {}, {}, o2, {}) /\ Silent(a2) BY <1>2, <1>6, GivesSetting, SilentJoin
<1> HIDE DEF a2, o2
<1>8. Gives(a3, {}, {}, {}, o3, {}) /\ Silent(a3) BY <1>6, <1>7, GivesSetting, SilentJoin
<1> HIDE DEF a3, o3
<1>9. Gives(a4, {}, {}, {}, o4, {}) /\ Silent(a4) BY <1>6, <1>8, GivesSetting, SilentJoin
<1> HIDE DEF a4, o4
<1>10. Gives(a5, {}, {}, {}, o5, {}) /\ Silent(a5) BY <1>6, <1>9, GivesSetting, SilentJoin
<1> HIDE DEF a5, o5
<1>11. Gives(a6, {} \union AskedPort, {} \union AskedIdentity, {} \union AskedConfig,
             o5 \union {W(AgentWord)}, {} \union {})
  BY <1>10, GivesConnOpts, GivesJoin
<1>12. AgentFirst(a6) BY <1>10, AgentOfConnOpts, AgentAfter
<1> DEFINE o6 == o5 \union {W(AgentWord)}
<1>13. Gives(a6, AskedPort, AskedIdentity, AskedConfig, o6, {})
  <2>1. /\ {} \union AskedPort = AskedPort /\ {} \union AskedIdentity = AskedIdentity
        /\ {} \union AskedConfig = AskedConfig /\ {} \union {} = {}
    OBVIOUS
  <2> QED BY <1>11, <2>1
<1>14. ControlPath \in o6 BY <1>4
<1> HIDE DEF a6, o6
<1>15. Gives(a7, AskedPort, AskedIdentity, AskedConfig, o6, {}) BY <1>3, <1>13, GivesNoMore
<1>16. Sequence(fl) /\ Sequence(fr) BY <1>3 DEF Gives, Options
<1>17. AgentFirst(a7) BY <1>12, <1>16, AgentMore
<1> HIDE DEF a7
<1>18. Gives(w, AskedPort, AskedIdentity, AskedConfig, o6, {}) BY <1>3, <1>15, GivesNoMore
<1>19. AgentFirst(w) BY <1>16, <1>17, AgentMore
<1> HIDE DEF w
<1>20. OptionsFor("master", w)
  BY <1>14, <1>18, <1>19 DEF OptionsFor, Gives, FindsControlPath
<1>21. "master" \in Bare BY DEF Bare
<1> QED BY <1>1, <1>20, <1>21, BareLine

\* slush finds the host where its own options end, with any command.
LEMMA HostCut ==
  ASSUME Fit, mode # "mosh"
  PROVE  /\ HeadOf(NativeArgs, SSHHostIndex) = ConnOpts \o <<Host>>
         /\ TailOf(NativeArgs, SSHHostIndex) = Command
<1> DEFINE host == <<Host>>
           head == ConnOpts \o host
<1>1. ~Dashed(Host) /\ WordList(Command) BY FitFacts
<1>2. Sequence(Command) /\ Sequence(host) /\ Len(host) = 1 /\ host[1] = Host
  BY <1>1, FewWords DEF WordList
<1>3. Options(ConnOpts, SSHTakesArg) /\ Sequence(ConnOpts) /\ Len(ConnOpts) \in Nat
  BY ConnOptsForSlush, AnySequence DEF Options, Sequence
<1>4. NativeArgs = head \o Command BY DEF NativeArgs, NativeArgsFor
<1> DEFINE rest == host \o Command
<1>5. Sequence(rest) /\ rest # <<>> /\ rest[1] = Host
  <2> HIDE DEF host
  <2>1. /\ Sequence(host \o Command) /\ Len(host \o Command) = Len(host) + Len(Command)
        /\ Len(Command) \in Nat /\ \A i \in 1..Len(host) : (host \o Command)[i] = host[i]
    BY <1>2, JoinFacts
  <2>2. 1 \in 1..Len(host) BY <1>2
  <2> HIDE DEF rest
  <2>3. Sequence(rest) /\ Len(rest) # 0 /\ rest[1] = Host BY <1>2, <2>1, <2>2 DEF rest
  <2>4. Len(<<>>) = 0 OBVIOUS
  <2> QED BY <2>3, <2>4
<1> HIDE DEF host
<1>6. head \o Command = ConnOpts \o rest BY <1>2, <1>3, JoinAssociates
<1> HIDE DEF rest
<1>7. HostIndex(ConnOpts \o rest, SSHTakesArg) = Len(ConnOpts) + 1
  BY <1>1, <1>3, <1>5, HostAfterOptions
<1>8. SSHHostIndex = Len(head) /\ Sequence(head)
  <2>1. Sequence(ConnOpts \o host) /\ Len(ConnOpts \o host) = Len(ConnOpts) + Len(host)
    BY <1>2, <1>3, JoinFacts
  <2>2. Sequence(head) /\ Len(head) = Len(ConnOpts) + 1 BY <1>2, <2>1
  <2> QED BY <1>4, <1>6, <1>7, <2>2 DEF SSHHostIndex
<1> HIDE DEF head
<1>9. HeadOf(NativeArgs, SSHHostIndex) = head /\ TailOf(NativeArgs, SSHHostIndex) = Command
  BY <1>2, <1>4, <1>8, Cut
<1> QED BY <1>9 DEF head, host

\* The ssh client.
LEMMA ClientLine ==
  ASSUME Fit, mode # "mosh", NEW terminal \in BOOLEAN
  PROVE  ReadsFor(request, "client", SSHClientArgs(terminal))
<1> DEFINE cp   == Opt("-o", ControlPath)
           tty  == IF Command = <<>> /\ terminal THEN <<W("-t")>> ELSE <<>>
           host == <<Host>>
           pre  == cp \o tty
           w    == pre \o ConnOpts
           cmd  == SSHCommand(Command)
           head == ConnOpts \o host
<1>1. ~Dashed(Host) /\ WordList(Command) BY FitFacts
<1>2. Sequence(host) BY FewWords
<1>3. Sequence(ConnOpts) BY ConnOptsForSlush DEF Options
<1>4. HeadOf(NativeArgs, SSHHostIndex) = head /\ TailOf(NativeArgs, SSHHostIndex) = Command
  BY HostCut
<1> HIDE DEF host, head
<1>5. SSHClientArgs(terminal) = (pre \o head) \o <<cmd>>
  BY <1>4 DEF SSHClientArgs
<1>6. ~Dashed(cmd) BY <1>1, SSHCommandType
<1> HIDE DEF cmd
<1>7. Gives(cp, {}, {}, {}, {ControlPath}, {}) BY GivesOption
<1>8. Gives(tty, {}, {}, {}, {}, {}) /\ Silent(tty)
  BY GivesNothing, SilentFacts DEF AgentWords
<1>9. Silent(cp)
  <2>1. ControlPath[1] \notin AgentWords BY DEF ControlPath, AgentWords
  <2> QED BY <2>1, SilentFacts DEF AgentWords
<1> HIDE DEF cp, tty
<1>10. Gives(pre, {}, {}, {}, {ControlPath}, {}) BY <1>7, <1>8, GivesNoMore
<1>11. Silent(pre) BY <1>8, <1>9, SilentJoin
<1> HIDE DEF pre
<1>12. Gives(w, {} \union AskedPort, {} \union AskedIdentity, {} \union AskedConfig,
             {ControlPath} \union {W(AgentWord)}, {} \union {})
  BY <1>10, GivesConnOpts, GivesJoin
<1>13. AgentFirst(w) BY <1>11, AgentOfConnOpts, AgentAfter
<1>14. (pre \o head) \o <<cmd>> = w \o <<Host, cmd>>
  <2>1. Sequence(pre) /\ Sequence(<<cmd>>) BY <1>10, FewWords DEF Gives, Options
  <2>2. pre \o head = w \o host
    <3>1. pre \o (ConnOpts \o host) = (pre \o ConnOpts) \o host
      <4>1. Sequence(pre) /\ Sequence(ConnOpts) /\ Sequence(host) BY <1>2, <1>3, <2>1
      <4> HIDE DEF w
      <4> QED BY <4>1, JoinAssociates
    <3> QED BY <3>1 DEF head
  <2>3. Sequence(w) BY <1>12 DEF Gives, Options
  <2> HIDE DEF w
  <2>4. (w \o host) \o <<cmd>> = w \o (host \o <<cmd>>)
    <3> DEFINE last == <<cmd>>
    <3>1. Sequence(last) BY <2>1
    <3> HIDE DEF last
    <3>2. (w \o host) \o last = w \o (host \o last) BY <1>2, <2>3, <3>1, JoinAssociates
    <3> QED BY <3>2 DEF last
  <2>5. host \o <<cmd>> = <<Host, cmd>> BY TwoWords DEF host
  <2> QED BY <2>2, <2>4, <2>5
<1> HIDE DEF w
<1>15. /\ {} \union AskedPort = AskedPort /\ {} \union AskedIdentity = AskedIdentity
       /\ {} \union AskedConfig = AskedConfig
  OBVIOUS
<1>16. OptionsFor("client", w)
  <2>1. FindsControlPath(w) BY <1>12 DEF Gives, FindsControlPath
  <2> QED BY <1>12, <1>13, <1>15, <2>1 DEF OptionsFor, Gives
<1>17. "client" \notin Bare BY DEF Bare
<1> QED BY <1>5, <1>6, <1>14, <1>16, <1>17, ScriptLine

-----------------------------------------------------------------------------
(* The lines are what ssh is to read.                                      *)

\* The steps that follow a refusal, or none.
Unstarted == {"complete", "options", "refused"}

\* What is run for ssh is run for a request that was accepted, and ssh reads it so.
LineInv ==
  /\ request \in Requests
  /\ step \notin Unstarted => ~Refused
  /\ run.by # "none" => ~Refused
  /\ run.by \in Bare => run.program = "ssh"
  /\ run.program = "ssh" => ReadsFor(request, run.by, run.args)

\* A step that runs something for ssh.
LEMMA SSHRuns ==
  ASSUME LineInv, NEW by, NEW args, NEW held, ReadsFor(request, by, args),
         run' = [by |-> by, program |-> "ssh", args |-> args, held |-> held],
         request' = request, step \notin Unstarted
  PROVE  LineInv'
<1>1. run'.by = by /\ run'.program = "ssh" /\ run'.args = args OBVIOUS
<1>2. Refused' = Refused
  BY DEF Refused, ValueRefused, OperandsRefused, InstallRefused, HostRefused, Host, Command,
         Forwards
<1>3. ReadsFor(request', run'.by, run'.args) BY <1>1
<1> QED BY <1>1, <1>2, <1>3 DEF LineInv

\* A step that runs nothing.
LEMMA RunsNothing ==
  ASSUME LineInv, run' = run, request' = request,
         step' \notin Unstarted => step \notin Unstarted \/ ~Refused
  PROVE  LineInv'
<1>1. Refused' = Refused
  BY DEF Refused, ValueRefused, OperandsRefused, InstallRefused, HostRefused, Host, Command,
         Forwards
<1> QED BY <1>1 DEF LineInv

\* The steps, one by one.
LEMMA LineNext == ASSUME LineInv, Next PROVE LineInv'
<1>0. step \notin Unstarted => Fit BY DEF LineInv, Fit
<1> USE DEF Execute
<1>1. CASE ReadOptions
  <2>1. run' = run /\ request' = request /\ step' = IF Refused THEN "refused"
              ELSE IF request.verb = "install" THEN "install" ELSE "master"
    BY <1>1 DEF ReadOptions
  <2>2. step' \notin Unstarted => ~Refused BY <2>1 DEF Unstarted
  <2> QED BY <2>1, <2>2, RunsNothing
<1>2. CASE OptionsFail
  <2>1. run' = run /\ request' = request /\ step' \in Unstarted
    BY <1>2 DEF OptionsFail, Unstarted
  <2> QED BY <2>1, RunsNothing
<1>3. CASE Install
  <2>1. step \notin Unstarted /\ request' = request
        /\ run' = [by |-> step, program |-> "ssh",
                   args |-> SSHExecArgs(ConnectionFlags, <<"install">>), held |-> master = "up"]
        /\ step = "install"
    BY <1>3 DEF Install, Unstarted
  <2> QED BY <1>0, <2>1, InstallLine, SSHRuns
<1>4. CASE StartMaster
  <2>1. step \notin Unstarted /\ request' = request /\ step = "master"
        /\ run' = [by |-> step, program |-> "ssh", args |-> MasterArgs, held |-> master = "up"]
    BY <1>4 DEF StartMaster, Unstarted
  <2> QED BY <1>0, <2>1, MasterLine, SSHRuns
<1>5. CASE CheckMaster
  <2>1. step \notin Unstarted /\ request' = request /\ step = "check"
        /\ run' = [by |-> step, program |-> "ssh",
                   args |-> Opt("-o", ControlPath) \o Opt("-O", W("check")) \o <<Host>>,
                   held |-> master = "up"]
    BY <1>0, <1>5, SessionHostIs DEF CheckMaster, Unstarted
  <2> QED BY <1>0, <2>1, ControlLines, SSHRuns
<1>6. CASE ForwardClipboard
  <2>1. step \notin Unstarted /\ request' = request /\ step = "forward"
        /\ run' = [by |-> step, program |-> "ssh",
                   args |-> Opt("-o", ControlPath) \o NoMaster \o Opt("-O", W("forward"))
                              \o Opt("-R", <<"clipboard">>) \o <<Host>>,
                   held |-> master = "up"]
    BY <1>0, <1>6, SessionHostIs DEF ForwardClipboard, Unstarted
  <2> QED BY <1>0, <2>1, ControlLines, SSHRuns
<1>7. CASE CheckRemoteAgent
  <2>1. step \notin Unstarted /\ request' = request /\ step = "agent"
        /\ run' = [by |-> step, program |-> "ssh",
                   args |-> SSHExecArgs(<<W("-A")>> \o NoMaster \o Held, <<"agent">>),
                   held |-> master = "up"]
    BY <1>7 DEF CheckRemoteAgent, Unstarted
  <2> QED BY <1>0, <2>1, AgentLine, SSHRuns
<1>8. CASE ProvisionOverMaster
  <2>1. step \notin Unstarted /\ request' = request /\ step \in {"env", "shim"}
        /\ run' = [by |-> step, program |-> "ssh",
                   args |-> SSHExecArgs(NoMaster \o Held, <<step>>), held |-> master = "up"]
    BY <1>8 DEF ProvisionOverMaster, Unstarted
  <2> QED BY <1>0, <2>1, ProvisionLines, SSHRuns
<1>9. CASE ProvisionDirectly
  <2>1. step \notin Unstarted /\ request' = request /\ step \in {"env direct", "shim direct"}
        /\ run' = [by |-> step, program |-> "ssh",
                   args |-> SSHExecArgs(<<>>, <<step>>), held |-> master = "up"]
    BY <1>9 DEF ProvisionDirectly, Unstarted
  <2> QED BY <1>0, <2>1, ProvisionLines, SSHRuns
<1>10. CASE NoLocalMosh
  <2>1. run' = run /\ request' = request /\ step \notin Unstarted
    BY <1>10 DEF NoLocalMosh, Unstarted
  <2> QED BY <2>1, RunsNothing
<1>11. CASE DetectTransport
  <2>1. step \notin Unstarted /\ request' = request /\ step = "detect"
        /\ run' = [by |-> step, program |-> "ssh",
                   args |-> SSHExecArgs(NoMaster \o Opt("-o", W("ProxyCommand=false")) \o Held
                                          \o ConnOpts, <<"detect">>),
                   held |-> master = "up"]
    BY <1>11 DEF DetectTransport, Unstarted
  <2> QED BY <1>0, <2>1, DetectLine, SSHRuns
<1>12. CASE RunClient
  <2>0. step \notin Unstarted /\ request' = request /\ step = "client"
    BY <1>12 DEF RunClient, Unstarted
  <2>1. CASE mode = "mosh"
    <3>1. run'.program = "mosh" /\ run'.by = "client" /\ step' = "exit"
      BY <1>12, <2>1 DEF RunClient
    <3>2. Refused' = Refused
      BY <2>0 DEF Refused, ValueRefused, OperandsRefused, InstallRefused, HostRefused, Host,
                  Command, Forwards
    <3> QED BY <2>0, <3>1, <3>2 DEF LineInv, Bare
  <2>2. CASE mode # "mosh"
    <3>1. PICK terminal \in BOOLEAN :
            run' = [by |-> step, program |-> "ssh", args |-> SSHClientArgs(terminal),
                    held |-> master = "up"]
      BY <1>12, <2>2 DEF RunClient
    <3>2. ReadsFor(request, "client", SSHClientArgs(terminal)) BY <1>0, <2>0, <2>2, ClientLine
    <3> QED BY <2>0, <3>1, <3>2, SSHRuns
  <2> QED BY <2>1, <2>2
<1>13. CASE Probe
  <2>1. PICK script \in {CheckScript, WrappedCommand(CheckScript)} :
          run' = [by |-> step, program |-> "ssh",
                  args |-> SSHExecArgs(NoMaster \o Held \o ConnOpts, Exports \o script),
                  held |-> master = "up"]
    BY <1>13 DEF Probe
  <2>2. step \notin Unstarted /\ request' = request /\ step = "client"
    BY <1>13 DEF Probe, Unstarted
  <2>3. ReadsFor(request, "client",
                 SSHExecArgs(NoMaster \o Held \o ConnOpts, Exports \o script))
    BY <1>0, <2>2, ProbeLine
  <2> QED BY <2>1, <2>2, <2>3, SSHRuns
<1>14. CASE StopTunnel
  <2>1. step \notin Unstarted /\ request' = request /\ step = "exit"
        /\ run' = [by |-> step, program |-> "ssh",
                   args |-> Opt("-o", ControlPath) \o Opt("-O", W("exit")) \o <<Host>>,
                   held |-> master = "up"]
    BY <1>0, <1>14, SessionHostIs DEF StopTunnel, Unstarted
  <2> QED BY <1>0, <2>1, ControlLines, SSHRuns
<1>15. CASE MasterDies
  <2>1. run' = run /\ request' = request /\ step' = step BY <1>15 DEF MasterDies
  <2> QED BY <2>1, RunsNothing
<1>16. CASE Complete
  <2>1. run' = run /\ request' = request /\ step' = step BY <1>16 DEF Complete, commandVars
  <2> QED BY <2>1, RunsNothing
<1> QED BY <1>1, <1>2, <1>3, <1>4, <1>5, <1>6, <1>7, <1>8, <1>9, <1>10, <1>11, <1>12, <1>13, <1>14,
           <1>15, <1>16 DEF Next

\* The invariant holds of every state.
LEMMA AlwaysLineInv == Spec => []LineInv
<1>1. Init => LineInv
  <2>1. Init => request \in Requests
    <3>1. \E r \in Requests : TRUE BY RequestAssumption
    <3> QED BY <3>1 DEF Init
  <2>2. Init => step \in Unstarted /\ run.by = "none" /\ run.program = ""
    <3>1. Init => step \in Unstarted BY DEF Init, Unstarted
    <3>2. Init => run = NoRun BY DEF Init
    <3>3. NoRun.by = "none" /\ NoRun.program = "" BY DEF NoRun
    <3> QED BY <3>1, <3>2, <3>3
  <2> QED BY <2>1, <2>2 DEF LineInv, Bare
<1>2. LineInv /\ [Next]_<<commandVars, completionVars>> => LineInv'
  <2>1. UNCHANGED <<commandVars, completionVars>> => UNCHANGED commandVars OBVIOUS
  <2>2. UNCHANGED commandVars => run' = run /\ request' = request /\ step' = step
    BY DEF commandVars
  <2>3. CASE Next BY <2>3, LineNext
  <2>4. CASE UNCHANGED <<commandVars, completionVars>> BY <2>1, <2>2, <2>4, RunsNothing
  <2> QED BY <2>3, <2>4
<1> QED BY <1>1, <1>2, PTL DEF Spec

\* However the user's command, key or forwards look, every ssh that slush starts
\* takes the user's host for its destination and slush's script, whole, for its
\* command, and finds the session's control path (SSHExec, startSSHTunnel,
\* sshClientArgs).
THEOREM ReadsTheHost == Spec => []SSHReadsTheHost
<1>1. LineInv => SSHReadsTheHost
  BY DEF LineInv, ReadsFor, SSHReadsTheHost, Read, SSHArgs, Host, Bare, ByItself
<1> QED BY <1>1, AlwaysLineInv, PTL

\* The held connection forwards the agent if and only if -A was given, whatever the
\* ssh configuration says, and so does an ssh client: ForwardAgent of nativeOptions
\* is the first word about the agent on their lines.
THEOREM AgentIffAsked == Spec => []HeldAgentIffAsked
<1>1. LineInv => HeldAgentIffAsked
  BY DEF LineInv, ReadsFor, HeldAgentIffAsked, Ran, Read, SSHArgs, Bare
<1> QED BY <1>1, AlwaysLineInv, PTL

\* A text that denotes a port, and the one slush writes for it, are the same port.
LEMMA PortKept ==
  ASSUME NEW field, TCPPort(field) # {}
  PROVE  TCPPort(W(Itoa(CHOOSE n \in TCPPort(field) : TRUE))) = TCPPort(field)
<1> DEFINE n == CHOOSE m \in TCPPort(field) : TRUE
<1>1. Decimal(field) /\ TCPPort(field) = {Number[field[1]]} \cap PortRange BY DEF TCPPort
<1>2. n = Number[field[1]] /\ n \in PortRange /\ TCPPort(field) = {n} BY <1>1
<1> HIDE DEF n
<1>3. \E w \in DOMAIN Number : Number[w] = n BY <1>1, <1>2 DEF Decimal
<1>4. Itoa(n) \in DOMAIN Number /\ Number[Itoa(n)] = n BY <1>3 DEF Itoa
<1>5. Decimal(W(Itoa(n))) /\ W(Itoa(n))[1] = Itoa(n) BY <1>4 DEF Decimal, W
<1>6. TCPPort(W(Itoa(n))) = {n} BY <1>2, <1>4, <1>5 DEF TCPPort
<1> QED BY <1>2, <1>6 DEF n

\* So it is with the port of a request, or without one.
LEMMA PortsKept ==
  ASSUME ~Refused
  PROVE  {TCPPort(port) : port \in PortOf(request)}
           = IF request.port = <<>> THEN {} ELSE {TCPPort(request.port)}
<1>1. CASE request.port = <<>> BY <1>1 DEF PortOf
<1>2. CASE request.port # <<>>
  <2>1. TCPPort(request.port) # {} BY <1>2 DEF Refused, ValueRefused
  <2>2. PortOf(request) = {W(Itoa(CHOOSE n \in TCPPort(request.port) : TRUE))}
    BY <1>2 DEF PortOf
  <2> QED BY <1>2, <2>1, <2>2, PortKept
<1> QED BY <1>1, <1>2

\* The master, an installation, and the ssh client and checks of a session whose
\* master is gone connect with the port, the identity and the configuration the
\* user named, and with no other (nativeOptions).
THEOREM ConnectsWhereAsked == Spec => []SessionConnectsWhereAsked
<1>1. ASSUME LineInv PROVE SessionConnectsWhereAsked
  <2> SUFFICES ASSUME run.program = "ssh", run.by \in {"master", "client", "install"}
               PROVE  GoesWhereAsked
    BY DEF SessionConnectsWhereAsked
  <2>1. Read = SSHReads(run.args) BY DEF Read, SSHArgs
  <2>2. /\ GivenTo(Read.options, "-p") = PortOf(request)
        /\ GivenTo(Read.options, "-i") = GivenBy(request.identity)
        /\ GivenTo(Read.options, "-F") = GivenBy(request.config)
    BY <1>1, <2>1 DEF LineInv, ReadsFor
  <2>3. {TCPPort(port) : port \in PortOf(request)}
          = IF request.port = <<>> THEN {} ELSE {TCPPort(request.port)}
    BY <1>1, PortsKept DEF LineInv
  <2> QED BY <2>2, <2>3 DEF GoesWhereAsked, GivenBy
<1> QED BY <1>1, AlwaysLineInv, PTL

-----------------------------------------------------------------------------
(* What completion finds.                                                  *)

\* All but the first element.
LEMMA TailFacts ==
  ASSUME NEW S, NEW s \in Seq(S), s # <<>>
  PROVE  /\ Tail(s) \in Seq(S) /\ Len(Tail(s)) = Len(s) - 1 /\ Len(s) \in Nat \ {0}
         /\ \A i \in 1..Len(s) - 1 : Tail(s)[i] = s[i + 1]
         /\ s[1] \in S
         /\ ToSet(Tail(s)) = {s[i] : i \in 2..Len(s)}
<1>1. /\ Tail(s) \in Seq(S) /\ Len(Tail(s)) = Len(s) - 1 /\ Len(s) \in Nat \ {0}
      /\ \A i \in 1..Len(s) - 1 : Tail(s)[i] = s[i + 1]
      /\ s[1] \in S
  OBVIOUS
<1>2. ToSet(Tail(s)) = {s[i] : i \in 2..Len(s)}
  <2> DEFINE t == Tail(s)
             n == Len(s)
  <2>1. DOMAIN t = 1..n - 1 /\ \A i \in 1..n - 1 : t[i] = s[i + 1] BY <1>1, AnySequence
  <2>2. n \in Nat BY <1>1
  <2> HIDE DEF t, n
  <2>3. ToSet(t) = {t[i] : i \in 1..n - 1} BY <2>1 DEF ToSet
  <2>4. \A i \in 2..n : i - 1 \in 1..n - 1 /\ i - 1 + 1 = i BY <2>2
  <2>5. \A i \in 1..n - 1 : i + 1 \in 2..n BY <2>2
  <2>6. \A i \in 2..n : t[i - 1] = s[i] BY <2>1, <2>4
  <2>7. {t[i] : i \in 1..n - 1} = {s[i] : i \in 2..n} BY <2>1, <2>4, <2>5, <2>6
  <2> QED BY <2>3, <2>7 DEF t, n
<1> QED BY <1>1, <1>2

\* What a sequence over S holds.
LEMMA SetOf ==
  ASSUME NEW S, NEW s \in Seq(S)
  PROVE  ToSet(s) = {s[i] : i \in 1..Len(s)} /\ ToSet(s) \subseteq S
  BY DEF ToSet

\* Joined sequences hold what the two hold.
LEMMA JoinHolds ==
  ASSUME NEW S, NEW a \in Seq(S), NEW b \in Seq(S)
  PROVE  ToSet(a \o b) = ToSet(a) \union ToSet(b)
<1> DEFINE c == a \o b
<1>1. /\ Len(c) = Len(a) + Len(b) /\ Len(a) \in Nat /\ Len(b) \in Nat
      /\ \A i \in 1..Len(a) : c[i] = a[i]
      /\ \A i \in 1..Len(b) : c[Len(a) + i] = b[i]
  <2>1. Sequence(a) /\ Sequence(b) BY AnySequence
  <2> QED BY <2>1, JoinFacts
<1>2. c \in Seq(S) BY ConcatProperties
<1> HIDE DEF c
<1>3. /\ ToSet(a) = {a[i] : i \in 1..Len(a)} /\ ToSet(b) = {b[i] : i \in 1..Len(b)}
      /\ ToSet(c) = {c[i] : i \in 1..Len(c)}
  BY <1>2, SetOf
<1>4. ASSUME NEW i \in 1..Len(c) PROVE c[i] \in ToSet(a) \union ToSet(b)
  <2>1. CASE i <= Len(a)
    <3>1. i \in 1..Len(a) BY <1>1, <2>1
    <3> QED BY <1>1, <1>3, <3>1
  <2>2. CASE ~(i <= Len(a))
    <3> DEFINE j == i - Len(a)
    <3>1. j \in 1..Len(b) /\ Len(a) + j = i BY <1>1, <2>2
    <3> HIDE DEF j
    <3> QED BY <1>1, <1>3, <3>1
  <2> QED BY <2>1, <2>2
<1>5. \A i \in 1..Len(a) : a[i] \in ToSet(c)
  <2>1. \A i \in 1..Len(a) : i \in 1..Len(c) BY <1>1
  <2> QED BY <1>1, <1>3, <2>1
<1>6. \A i \in 1..Len(b) : b[i] \in ToSet(c)
  <2>1. \A i \in 1..Len(b) : Len(a) + i \in 1..Len(c) BY <1>1
  <2> QED BY <1>1, <1>3, <2>1
<1> QED BY <1>3, <1>4, <1>5, <1>6 DEF c

\* A flattened sequence holds what its sequences hold.
LEMMA FlattenHolds ==
  ASSUME NEW T, NEW seqs \in Seq(Seq(T))
  PROVE  ToSet(FlattenSeq(seqs)) = UNION {ToSet(seqs[i]) : i \in 1..Len(seqs)}
<1> DEFINE n == Len(seqs)
           Parts(k) == UNION {ToSet(seqs[i]) : i \in 1..k}
<1>1. n \in Nat /\ \A i \in 1..n : seqs[i] \in Seq(T) OBVIOUS
<1>2. CASE n = 0
  <2>1. FlattenSeq(seqs) = seqs /\ seqs = <<>> BY <1>2 DEF FlattenSeq
  <2>2. ToSet(<<>>) = {} BY DEF ToSet
  <2> QED BY <1>2, <2>1, <2>2
<1>3. CASE n # 0
  <2>1. PICK f \in [0..n -> Seq(T)] :
          /\ f[0] = <<>> /\ FlattenSeq(seqs) = f[n]
          /\ \A i \in 1..n : f[i] = f[i - 1] \o seqs[i]
    BY <1>3, FlattenSteps
  <2> HIDE DEF n
  <2> DEFINE S == {k \in 0..n : ToSet(f[k]) = Parts(k)}
  <2>2. 0 \in S
    <3>1. ToSet(<<>>) = {} BY DEF ToSet
    <3>2. Parts(0) = {} OBVIOUS
    <3> QED BY <1>1, <2>1, <3>1, <3>2
  <2>3. ASSUME NEW k \in Nat, k < n, k \in S PROVE k + 1 \in S
    <3> DEFINE i == k + 1
    <3>1. i \in 1..n /\ i \in 0..n /\ i - 1 = k /\ k \in 0..n BY <1>1, <2>3
    <3>2. Parts(i) = Parts(k) \union ToSet(seqs[i])
      <4>1. \A j \in 1..i : j \in 1..k \/ j = i BY <2>3
      <4>2. \A j \in 1..k : j \in 1..i BY <2>3
      <4>3. i \in 1..i BY <2>3
      <4> QED BY <4>1, <4>2, <4>3
    <3> HIDE DEF i
    <3>3. f[i] = f[k] \o seqs[i] BY <2>1, <3>1
    <3>4. f[k] \in Seq(T) /\ seqs[i] \in Seq(T) BY <1>1, <3>1
    <3>5. ToSet(f[i]) = ToSet(f[k]) \union ToSet(seqs[i]) BY <3>3, <3>4, JoinHolds
    <3> QED BY <2>3, <3>1, <3>2, <3>5 DEF i
  <2> HIDE DEF S
  <2>4. \A k \in Nat : k < n /\ k \in S => k + 1 \in S BY <2>3
  <2>5. \A k \in 0..n : k \in S BY <1>1, <2>2, <2>4, UpTo
  <2>6. n \in S BY <1>1, <2>5
  <2> QED BY <2>1, <2>6 DEF S, n
<1> QED BY <1>2, <1>3

\* The calls and the lines that are left in open files.
CallsOf(s) == UNION {ToSet(s[i].calls) : i \in 1..Len(s)}
RestsOf(s) == UNION {ToSet(s[i].rest) : i \in 1..Len(s)}

\* The lines of the files of a set that can be read.
LinesOf(files) == UNION {ToSet(content[f]) : f \in {g \in files : content[g] # Unreadable}}

\* What a line lists and what it includes.
Lists(line)    == IF IsBroken(line) \/ line[1][1] # "host" THEN {} ELSE Arguments(line)
Includes(line) == IF IsBroken(line) \/ line[1][1] # "include" THEN {}
                  ELSE UNION {ToSet(Glob[p]) : p \in Arguments(line)}

\* The hosts found in the configuration and those of known_hosts.
ListedHosts == UNION {Lists(line) : line \in LinesOf(Reachable)}
ConfigHosts == ListedHosts \ Unlisted
OtherHosts  == KnownOnes \ Unlisted

Frames == [rest : Seq(Seq(Seq(STRING))), calls : Seq(File)]

FoundInv ==
  /\ WellWritten(content)
  /\ stack \in Seq(Frames)
  /\ visited \subseteq Reachable /\ CallsOf(stack) \subseteq Reachable
  /\ RestsOf(stack) \subseteq LinesOf(Reachable)
  /\ completing # "config" => stack = <<>> /\ reads # <<>>
  /\ reads # <<>> => MainConfig \in visited
  /\ hosts \subseteq ConfigHosts \union IF completing \in {"matching", "done"} THEN OtherHosts ELSE {}
  /\ completing \in {"matching", "done"} => OtherHosts \subseteq hosts
  /\ Len(stack) <= Cardinality(visited)
  /\ Cardinality(Reachable) <= MaxDepth =>
       \A line \in LinesOf(visited) \ RestsOf(stack) :
         /\ Lists(line) \ Unlisted \subseteq hosts
         /\ Includes(line) \subseteq visited \union CallsOf(stack)

\* The keyword of a line with at most one "=" attached, and its arguments one by one.
LEMMA WrittenLine ==
  ASSUME NEW line, WellCut(line), line # <<>>
  PROVE  LET n == Len(line)  k == line[1]  m == Len(k) IN
         /\ n \in Nat \ {0} /\ Tail(line) \in Seq(Seq(STRING)) /\ Len(Tail(line)) = n - 1
         /\ \A i \in 1..n - 1 : Tail(line)[i] = line[i + 1]
         /\ m \in 1..3 /\ (m > 2 => k[3] # "=")
         /\ Arguments(line) = ((IF m > 2 THEN {k[3]} ELSE {})
                                 \union UNION {ToSet(line[i]) : i \in 2..n}) \ {"="}
<1> DEFINE n == Len(line)
           k == line[1]
           m == Len(k)
<1>1. line \in Seq(Seq(STRING)) /\ m \in 1..3 /\ k[1] # "=" /\ (m > 1 => k[2] = "=")
      /\ (m > 2 => k[3] # "=")
  BY DEF WellCut
<1>2. /\ n \in Nat \ {0} /\ Tail(line) \in Seq(Seq(STRING)) /\ Len(Tail(line)) = n - 1
      /\ \A i \in 1..n - 1 : Tail(line)[i] = line[i + 1]
      /\ k \in Seq(STRING) /\ ToSet(Tail(line)) = {line[i] : i \in 2..n}
  <2> DEFINE T == Seq(STRING)
  <2>1. line \in Seq(T) BY <1>1
  <2> HIDE DEF T
  <2>2. /\ n \in Nat \ {0} /\ Tail(line) \in Seq(T) /\ Len(Tail(line)) = n - 1
        /\ \A i \in 1..n - 1 : Tail(line)[i] = line[i + 1]
        /\ k \in T /\ ToSet(Tail(line)) = {line[i] : i \in 2..n}
    BY <2>1, TailFacts
  <2> QED BY <2>2 DEF T
<1>3. k # <<>> BY <1>1
<1>4. ToSet(Tail(k)) = {k[i] : i \in 2..m} BY <1>2, <1>3, TailFacts
<1>5. ToSet(Tail(k)) \ {"="} = IF m > 2 THEN {k[3]} ELSE {}
  <2> HIDE DEF k, m
  <2>1. \A i \in 2..m : i = 2 \/ (i = 3 /\ m > 2) BY <1>1
  <2>2. m > 2 => 3 \in 2..m BY <1>1
  <2> QED BY <1>1, <1>4, <2>1, <2>2
<1>6. UNION {ToSet(field) : field \in ToSet(Tail(line))} = UNION {ToSet(line[i]) : i \in 2..n}
  BY <1>2
<1> HIDE DEF n, k, m
<1>7. Arguments(line) = (ToSet(Tail(k)) \union UNION {ToSet(line[i]) : i \in 2..n}) \ {"="}
  BY <1>6 DEF Arguments, k
<1>8. Arguments(line) = ((IF m > 2 THEN {k[3]} ELSE {})
                           \union UNION {ToSet(line[i]) : i \in 2..n}) \ {"="}
  BY <1>1, <1>5, <1>7
<1> QED BY <1>1, <1>2, <1>8 DEF n, k, m

\* One element before others.
LEMMA OneHeld ==
  ASSUME NEW S, NEW e \in S, NEW s \in Seq(S)
  PROVE  <<e>> \o s \in Seq(S) /\ ToSet(<<e>> \o s) = {e} \union ToSet(s)
<1> DEFINE a == <<e>>
<1>1. a \in Seq(S) OBVIOUS
<1>2. ToSet(a) = {e} BY DEF ToSet
<1> HIDE DEF a
<1>3. a \o s \in Seq(S) BY <1>1, ConcatProperties
<1>4. ToSet(a \o s) = ToSet(a) \union ToSet(s) BY <1>1, JoinHolds
<1> QED BY <1>2, <1>3, <1>4 DEF a

\* Words of one atom each hold their first atoms.
LEMMA Singles ==
  ASSUME NEW I, NEW f, \A i \in I : f[i] \in Seq(STRING) /\ Len(f[i]) = 1
  PROVE  /\ \A i \in I : ToSet(f[i]) = {f[i][1]}
         /\ UNION {ToSet(f[i]) : i \in I} = {f[i][1] : i \in I}
<1>1. ASSUME NEW i \in I PROVE ToSet(f[i]) = {f[i][1]}
  <2> DEFINE w == f[i]
  <2>1. w \in Seq(STRING) /\ Len(w) = 1 OBVIOUS
  <2> HIDE DEF w
  <2>2. ToSet(w) = {w[j] : j \in 1..Len(w)} BY <2>1, SetOf
  <2>3. 1..1 = {1} OBVIOUS
  <2> QED BY <2>1, <2>2, <2>3 DEF w
<1>2. \A x : x \in UNION {ToSet(f[i]) : i \in I} <=> \E i \in I : x \in ToSet(f[i]) OBVIOUS
<1>3. \A x : x \in {f[i][1] : i \in I} <=> \E i \in I : x = f[i][1] OBVIOUS
<1>4. \A x : \A i \in I : x \in ToSet(f[i]) <=> x = f[i][1] BY <1>1
<1> QED BY <1>1, <1>2, <1>3, <1>4

\* The values that sshConfigDirective cuts from a line are the arguments it has.
LEMMA ValuesRead ==
  ASSUME NEW line, WellCut(line), line # <<>>
  PROVE  /\ ValuesOf(line) \in Seq(Seq(STRING))
         /\ Words(ValuesOf(line)) = Arguments(line)
<1> DEFINE n == Len(line)
           k == line[1]
           m == Len(k)
           values == Tail(line)
           attached == SubSeq(k, 3, m)
<1>1. /\ n \in Nat \ {0} /\ values \in Seq(Seq(STRING)) /\ Len(values) = n - 1
      /\ \A i \in 1..n - 1 : values[i] = line[i + 1]
      /\ m \in 1..3 /\ (m > 2 => k[3] # "=")
      /\ Arguments(line) = ((IF m > 2 THEN {k[3]} ELSE {})
                              \union UNION {ToSet(line[i]) : i \in 2..n}) \ {"="}
  BY WrittenLine
<1>2. \A i \in 2..n :
        \/ Len(line[i]) = 1 /\ line[i][1] # "="
        \/ /\ i = 2 /\ m < 3
           /\ Len(line[2]) \in 1..2 /\ line[2][1] = "="
           /\ Len(line[2]) > 1 => line[2][2] # "="
  BY DEF WellCut
<1>3. k \in Seq(STRING) /\ \A i \in 1..n : line[i] \in Seq(STRING)
  BY <1>1 DEF WellCut
<1>4. ValuesOf(line) =
        CASE attached # <<>> -> <<attached>> \o values
          [] attached = <<>> /\ values # <<>> /\ values[1][1] = "=" ->
               (IF Len(values[1]) = 1 THEN <<>> ELSE <<Tail(values[1])>>) \o Tail(values)
          [] OTHER -> values
  BY DEF ValuesOf
<1>5. Words(values) = {line[i][1] : i \in 2..n}
  <2>1. ToSet(values) = {line[i] : i \in 2..n}
    <3> DEFINE T == Seq(STRING)
    <3>1. line \in Seq(T) /\ line # <<>> BY DEF WellCut
    <3> HIDE DEF T
    <3> QED BY <3>1, TailFacts
  <2> DEFINE I == 2..n
  <2>2. ToSet(values) = {line[i] : i \in I} BY <2>1
  <2> HIDE DEF values, I
  <2>3. \A x : x \in Words(values) <=> \E i \in I : x = line[i][1] BY <2>2 DEF Words
  <2>4. Words(values) = {line[i][1] : i \in I} BY <2>3
  <2> QED BY <2>4 DEF I
<1>b. \A i \in 2..n : line[i] \in Seq(STRING)
  <2>1. \A i \in 2..n : i \in 1..n BY <1>1
  <2> QED BY <1>3, <2>1
<1> HIDE DEF values, n, k, m
<1>6. CASE m > 2
  <2>1. m = 3 BY <1>1, <1>6
  <2>2. attached = <<k[3]>>
    <3>1. k[3] \in STRING /\ \A i \in 3..3 : k[i] \in STRING BY <1>3, <2>1 DEF m
    <3>2. /\ SubSeq(k, 3, 3) \in Seq(STRING) /\ Len(SubSeq(k, 3, 3)) = 1
          /\ SubSeq(k, 3, 3)[1] = k[3]
      <4>1. /\ SubSeq(k, 3, 3) \in Seq(STRING)
            /\ Len(SubSeq(k, 3, 3)) = IF 3 <= 3 THEN 3 - 3 + 1 ELSE 0
            /\ \A i \in 1..3 - 3 + 1 : SubSeq(k, 3, 3)[i] = k[3 + i - 1]
        BY <3>1, SubSeqProperties
      <4>2. 1 \in 1..3 - 3 + 1 /\ 3 + 1 - 1 = 3 OBVIOUS
      <4> QED BY <4>1, <4>2
    <3> DEFINE one == <<k[3]>>
               cut == SubSeq(k, 3, 3)
    <3>3. Sequence(one) /\ Len(one) = 1 /\ one[1] = k[3] BY FewWords
    <3>4. Sequence(cut) BY <3>2, AnySequence
    <3>5. Len(cut) = 1 /\ cut[1] = k[3] BY <3>2
    <3>6. attached = cut BY <2>1
    <3> HIDE DEF one, cut
    <3>7. \A i \in 1..1 : cut[i] = one[i] BY <3>3, <3>5
    <3>8. cut = one BY <3>3, <3>4, <3>5, <3>7, SameSequence
    <3> QED BY <3>6, <3>8 DEF one
  <2> HIDE DEF attached
  <2>3. ValuesOf(line) = <<<<k[3]>>>> \o values BY <1>4, <2>2
  <2>4. <<k[3]>> \in Seq(STRING)
    <3>1. k[3] \in STRING BY <1>3, <2>1 DEF m
    <3> QED BY <3>1
  <2>5. /\ <<<<k[3]>>>> \o values \in Seq(Seq(STRING))
        /\ ToSet(<<<<k[3]>>>> \o values) = {<<k[3]>>} \union ToSet(values)
    <3> DEFINE T == Seq(STRING)
               e == <<k[3]>>
    <3>1. e \in T /\ values \in Seq(T) BY <1>1, <2>4
    <3> HIDE DEF T, e
    <3>2. <<e>> \o values \in Seq(T) /\ ToSet(<<e>> \o values) = {e} \union ToSet(values)
      BY <3>1, OneHeld
    <3> QED BY <3>2 DEF T, e
  <2>6. Words(ValuesOf(line)) = {k[3]} \union Words(values) BY <2>3, <2>5 DEF Words
  <2>7. \A i \in 2..n : Len(line[i]) = 1 /\ line[i][1] # "=" BY <1>2, <2>1
  <2>8. UNION {ToSet(line[i]) : i \in 2..n} = {line[i][1] : i \in 2..n}
    <3> DEFINE I == 2..n
    <3>1. \A i \in I : line[i] \in Seq(STRING) /\ Len(line[i]) = 1 BY <1>b, <2>7
    <3> HIDE DEF I
    <3>2. UNION {ToSet(line[i]) : i \in I} = {line[i][1] : i \in I} BY <3>1, Singles
    <3> QED BY <3>2 DEF I
  <2>9. Arguments(line) = {k[3]} \union {line[i][1] : i \in 2..n} BY <1>1, <1>6, <2>7, <2>8
  <2>10. ValuesOf(line) \in Seq(Seq(STRING)) BY <2>3, <2>5
  <2> QED BY <1>5, <2>6, <2>9, <2>10
<1>7. CASE ~(m > 2)
  <2>1. attached = <<>> BY <1>1, <1>3, <1>7 DEF m
  <2> HIDE DEF attached
  <2>2. Arguments(line) = (UNION {ToSet(line[i]) : i \in 2..n}) \ {"="} BY <1>1, <1>7
  <2>3. CASE values # <<>> /\ values[1][1] = "="
    <3>1. n > 1 /\ 2 \in 2..n /\ values[1] = line[2]
      <4>1. Len(values) # 0 BY <1>1, <2>3
      <4>2. n > 1 /\ 1 \in 1..n - 1 BY <1>1, <4>1
      <4> QED BY <1>1, <4>2
    <3> DEFINE x == line[2]
               head == IF Len(x) = 1 THEN <<>> ELSE <<Tail(x)>>
    <3>2. x[1] = "=" /\ Len(x) \in 1..2 /\ (Len(x) > 1 => x[2] # "=") /\ x \in Seq(STRING)
      <4>1. x[1] = "=" BY <2>3, <3>1
      <4> QED BY <1>2, <1>3, <1>1, <3>1, <4>1
    <3>3. ValuesOf(line) = head \o Tail(values) BY <1>4, <2>1, <2>3, <3>1
    <3>4. /\ Tail(values) \in Seq(Seq(STRING))
          /\ ToSet(Tail(values)) = {line[i] : i \in 3..n}
      <4> DEFINE T == Seq(STRING)
      <4>1. values \in Seq(T) /\ values # <<>> BY <1>1, <2>3
      <4> HIDE DEF T
      <4>2. Tail(values) \in Seq(T) /\ ToSet(Tail(values)) = {values[i] : i \in 2..n - 1}
        BY <1>1, <4>1, TailFacts
      <4>3. \A i \in 3..n : i - 1 \in 2..n - 1 /\ values[i - 1] = line[i]
        <5>1. \A i \in 3..n : i - 1 \in 2..n - 1 /\ i - 1 \in 1..n - 1 /\ i - 1 + 1 = i BY <1>1
        <5> QED BY <1>1, <5>1
      <4>4. \A i \in 2..n - 1 : i + 1 \in 3..n /\ i \in 1..n - 1 BY <1>1
      <4>6. \A i \in 2..n - 1 : values[i] = line[i + 1] BY <1>1, <4>4
      <4>5. {values[i] : i \in 2..n - 1} = {line[i] : i \in 3..n} BY <4>3, <4>4, <4>6
      <4> QED BY <4>2, <4>5 DEF T
    <3>5. \A i \in 3..n : i \in 2..n /\ Len(line[i]) = 1 /\ line[i][1] # "=" /\ i # 2
      <4>1. \A i \in 3..n : i \in 2..n /\ i # 2 BY <1>1
      <4> QED BY <1>2, <4>1
    <3>6. UNION {ToSet(line[i]) : i \in 2..n} = ToSet(x) \union {line[i][1] : i \in 3..n}
      <4>1. \A i : i \in 2..n <=> i = 2 \/ i \in 3..n BY <1>1, <3>1
      <4>2. UNION {ToSet(line[i]) : i \in 3..n} = {line[i][1] : i \in 3..n}
        <5> DEFINE I == 3..n
        <5>1. \A i \in I : line[i] \in Seq(STRING) /\ Len(line[i]) = 1 BY <1>b, <3>5
        <5> HIDE DEF I
        <5>2. UNION {ToSet(line[i]) : i \in I} = {line[i][1] : i \in I} BY <5>1, Singles
        <5> QED BY <5>2 DEF I
      <4>3. UNION {ToSet(line[i]) : i \in 2..n}
              = ToSet(line[2]) \union UNION {ToSet(line[i]) : i \in 3..n}
        BY <4>1
      <4> QED BY <4>2, <4>3
    <3>7. Words(Tail(values)) = {line[i][1] : i \in 3..n}
      <4> DEFINE I == 3..n
                 t == Tail(values)
      <4>1. ToSet(t) = {line[i] : i \in I} BY <3>4
      <4> HIDE DEF I, t
      <4>3. \A v : v \in Words(t) <=> \E i \in I : v = line[i][1] BY <4>1 DEF Words
      <4>2. Words(t) = {line[i][1] : i \in I} BY <4>3
      <4> QED BY <4>2 DEF I, t
    <3>8. CASE Len(x) = 1
      <4>1. ToSet(x) = {"="}
        <5>1. ToSet(x) = {x[j] : j \in 1..Len(x)} BY <3>2, SetOf
        <5>2. 1..1 = {1} OBVIOUS
        <5> QED BY <3>2, <3>8, <5>1, <5>2
      <4>2. Arguments(line) = {line[i][1] : i \in 3..n} BY <2>2, <3>5, <3>6, <4>1
      <4>3. ValuesOf(line) = Tail(values)
        <5>1. <<>> \o Tail(values) = Tail(values)
          <6>1. Sequence(Tail(values)) BY <3>4, AnySequence
          <6> QED BY <6>1, NothingAdded
        <5> QED BY <3>3, <3>8, <5>1
      <4> QED BY <3>4, <3>7, <4>2, <4>3
    <3>9. CASE Len(x) # 1
      <4>1. Len(x) = 2 /\ x[2] # "=" BY <3>2, <3>9
      <4>2. Tail(x) = <<x[2]>>
        <5> DEFINE one == <<x[2]>>
        <5>1. Sequence(one) /\ Len(one) = 1 /\ one[1] = x[2] BY FewWords
        <5>2. x # <<>> BY <4>1
        <5>3. /\ Tail(x) \in Seq(STRING) /\ Len(Tail(x)) = Len(x) - 1
              /\ \A i \in 1..Len(x) - 1 : Tail(x)[i] = x[i + 1]
          BY <3>2, <5>2, TailFacts
        <5>4. Len(Tail(x)) = 1 /\ Tail(x)[1] = x[2]
          <6>1. 1 \in 1..Len(x) - 1 /\ 1 + 1 = 2 BY <4>1
          <6> QED BY <4>1, <5>3, <6>1
        <5>5. Sequence(Tail(x)) BY <5>3, AnySequence
        <5> DEFINE t == Tail(x)
        <5> HIDE DEF one, t
        <5>6. \A i \in 1..1 : t[i] = one[i] BY <5>1, <5>4 DEF t
        <5>7. t = one BY <5>1, <5>4, <5>5, <5>6, SameSequence DEF t
        <5> QED BY <5>7 DEF one, t
      <4>3. ToSet(x) = {"=", x[2]}
        <5>1. ToSet(x) = {x[j] : j \in 1..Len(x)} BY <3>2, SetOf
        <5>2. 1..2 = {1, 2} OBVIOUS
        <5> QED BY <3>2, <4>1, <5>1, <5>2
      <4>4. Arguments(line) = {x[2]} \union {line[i][1] : i \in 3..n}
        <5>1. x[2] # "=" BY <4>1
        <5>2. "=" \notin {line[i][1] : i \in 3..n} BY <3>5
        <5>3. Arguments(line) = ({"=", x[2]} \union {line[i][1] : i \in 3..n}) \ {"="}
          BY <2>2, <3>6, <4>3
        <5> HIDE DEF x
        <5> QED BY <5>1, <5>2, <5>3
      <4>5. ValuesOf(line) = <<<<x[2]>>>> \o Tail(values) BY <3>3, <3>9, <4>2
      <4>6. <<x[2]>> \in Seq(STRING)
        <5>1. x[2] \in STRING BY <3>2, <4>1
        <5> QED BY <5>1
      <4>7. /\ <<<<x[2]>>>> \o Tail(values) \in Seq(Seq(STRING))
            /\ ToSet(<<<<x[2]>>>> \o Tail(values)) = {<<x[2]>>} \union ToSet(Tail(values))
        <5> DEFINE T == Seq(STRING)
                   e == <<x[2]>>
                   s == Tail(values)
        <5>1. e \in T /\ s \in Seq(T) BY <3>4, <4>6
        <5> HIDE DEF T, e, s
        <5>2. <<e>> \o s \in Seq(T) /\ ToSet(<<e>> \o s) = {e} \union ToSet(s)
          BY <5>1, OneHeld
        <5> QED BY <5>2 DEF T, e, s
      <4>8. Words(ValuesOf(line)) = {x[2]} \union Words(Tail(values))
        <5>1. ToSet(ValuesOf(line)) = {<<x[2]>>} \union ToSet(Tail(values)) BY <4>5, <4>7
        <5>2. <<x[2]>>[1] = x[2] OBVIOUS
        <5> DEFINE e == <<x[2]>>
        <5> HIDE DEF e, x
        <5>3. ToSet(ValuesOf(line)) = {e} \union ToSet(Tail(values)) /\ e[1] = x[2]
          BY <5>1, <5>2 DEF e
        <5> QED BY <5>3 DEF Words
      <4>9. ValuesOf(line) \in Seq(Seq(STRING)) BY <4>5, <4>7
      <4> QED BY <3>7, <4>4, <4>8, <4>9
    <3> QED BY <3>8, <3>9
  <2>4. CASE ~(values # <<>> /\ values[1][1] = "=")
    <3>1. ValuesOf(line) = values BY <1>4, <2>1, <2>4
    <3>2. ASSUME NEW i \in 2..n PROVE Len(line[i]) = 1 /\ line[i][1] # "="
      <4>1. CASE i = 2
        <5>1. values # <<>> /\ values[1] = line[2]
          <6>1. 1 \in 1..n - 1 /\ Len(values) # 0 BY <1>1, <3>2
          <6>2. values[1] = line[1 + 1] BY <1>1, <6>1
          <6> QED BY <1>1, <6>1, <6>2
        <5> QED BY <1>2, <2>4, <4>1, <5>1, <3>2
      <4>2. CASE i # 2 BY <1>2, <4>2, <3>2
      <4> QED BY <4>1, <4>2
    <3>3. UNION {ToSet(line[i]) : i \in 2..n} = {line[i][1] : i \in 2..n}
      <4> DEFINE I == 2..n
      <4>1. \A i \in I : line[i] \in Seq(STRING) /\ Len(line[i]) = 1 BY <1>b, <3>2
      <4> HIDE DEF I
      <4>2. UNION {ToSet(line[i]) : i \in I} = {line[i][1] : i \in I} BY <4>1, Singles
      <4> QED BY <4>2 DEF I
    <3>4. Arguments(line) = {line[i][1] : i \in 2..n} BY <2>2, <3>2, <3>3
    <3> QED BY <1>1, <1>5, <3>1, <3>4
  <2> QED BY <2>3, <2>4
<1> QED BY <1>6, <1>7

\* Scan and sshConfigDirective find a host or an include where there is one, and
\* what it says.
LEMMA DirectiveRead ==
  ASSUME NEW line, WellCut(line)
  PROVE  LET d == Directive(line) IN
         /\ d.key = "host" => Words(d.values) = Lists(line)
         /\ d.key # "host" => Lists(line) = {}
         /\ d.key = "include" =>
              /\ ~IsBroken(line) /\ line[1][1] = "include"
              /\ d.values \in Seq(Seq(STRING)) /\ Words(d.values) = Arguments(line)
         /\ d.key # "include" => Includes(line) = {}
<1>1. IsBroken(line) <=> line = <<>> \/ \E i \in 1..Len(line) : Contains(line[i], "unterminated")
  <2> DEFINE T == Seq(STRING)
             n == Len(line)
  <2>1. line \in Seq(T) BY DEF WellCut
  <2>2. ToSet(line) = {line[i] : i \in 1..n} /\ \A i \in 1..n : line[i] \in T
    <3> HIDE DEF T
    <3> QED BY <2>1, SetOf
  <2>3. ASSUME NEW i \in 1..n
        PROVE  "unterminated" \in ToSet(line[i]) <=> Contains(line[i], "unterminated")
    <3> DEFINE w == line[i]
    <3>1. w \in Seq(STRING) BY <2>2
    <3> HIDE DEF w
    <3>2. ToSet(w) = {w[j] : j \in 1..Len(w)} BY <3>1, SetOf
    <3>3. "unterminated" \in ToSet(w) <=> Contains(w, "unterminated") BY <3>2 DEF Contains
    <3> QED BY <3>3 DEF w
  <2> HIDE DEF n, T
  <2>4. (\E field \in ToSet(line) : "unterminated" \in ToSet(field))
          <=> \E i \in 1..n : Contains(line[i], "unterminated")
    BY <2>2, <2>3
  <2> QED BY <2>4 DEF IsBroken, n
<1>2. CASE IsBroken(line)
  <2>1. Directive(line).key = "" BY <1>1, <1>2 DEF Directive
  <2>2. Lists(line) = {} /\ Includes(line) = {} BY <1>2 DEF Lists, Includes
  <2> QED BY <2>1, <2>2
<1>3. CASE ~IsBroken(line)
  <2>1. Directive(line).key = line[1][1] /\ Directive(line).values = ValuesOf(line)
    BY <1>1, <1>3 DEF Directive, KeyOf
  <2>2. line # <<>> BY <1>3 DEF IsBroken
  <2>3. ValuesOf(line) \in Seq(Seq(STRING)) /\ Words(ValuesOf(line)) = Arguments(line)
    BY <2>2, ValuesRead
  <2>4. /\ Lists(line) = IF line[1][1] = "host" THEN Arguments(line) ELSE {}
        /\ line[1][1] # "include" => Includes(line) = {}
    BY <1>3 DEF Lists, Includes
  <2> QED BY <1>3, <2>1, <2>3, <2>4
<1> QED BY <1>2, <1>3

\* sshIncludePaths finds the files of all the patterns.
LEMMA IncludesRead ==
  ASSUME NEW line, WellCut(line), ~IsBroken(line), line[1][1] = "include",
         Arguments(line) \subseteq DOMAIN Glob,
         NEW values \in Seq(Seq(STRING)), Words(values) = Arguments(line)
  PROVE  Included(values) \in Seq(File) /\ ToSet(Included(values)) = Includes(line)
<1> DEFINE n    == Len(values)
           seqs == [i \in 1..n |-> Glob[values[i][1]]]
           T    == Seq(STRING)
<1>1. Included(values) = FlattenSeq(seqs) BY DEF Included
<1>2. values \in Seq(T) /\ n \in Nat /\ ToSet(values) = {values[i] : i \in 1..n}
  <2>1. values \in Seq(T) OBVIOUS
  <2> HIDE DEF T
  <2> QED BY <2>1, SetOf
<1> HIDE DEF T
<1>3. \A w : w \in Arguments(line) <=> \E i \in 1..n : w = values[i][1] BY <1>2 DEF Words
<1>4. \A i \in 1..n : Glob[values[i][1]] \in Seq(File) BY <1>3, FileAssumption
<1>5. seqs \in Seq(Seq(File)) /\ Len(seqs) = n
  <2> DEFINE F == Seq(File)
  <2>1. \A i \in 1..n : seqs[i] \in F BY <1>4
  <2> HIDE DEF F
  <2>2. seqs \in Seq(F) BY <1>2, <2>1
  <2> QED BY <1>2, <2>2 DEF F
<1>6. \A i \in 1..n : seqs[i] = Glob[values[i][1]] OBVIOUS
<1> HIDE DEF seqs, n
<1>7. FlattenSeq(seqs) \in Seq(File) BY <1>5, FlattenType
<1>8. ToSet(FlattenSeq(seqs)) = UNION {ToSet(seqs[i]) : i \in 1..n} BY <1>5, FlattenHolds
<1>9. Includes(line) = UNION {ToSet(Glob[p]) : p \in Arguments(line)} BY DEF Includes
<1>10. \A f : f \in UNION {ToSet(seqs[i]) : i \in 1..n}
                <=> \E i \in 1..n : f \in ToSet(Glob[values[i][1]])
  BY <1>6
<1>11. \A f : f \in Includes(line) <=> \E p \in Arguments(line) : f \in ToSet(Glob[p]) BY <1>9
<1>12. ToSet(FlattenSeq(seqs)) = Includes(line)
  <2> DEFINE found == ToSet(FlattenSeq(seqs))
             meant == Includes(line)
  <2>1. \A f : f \in found <=> \E i \in 1..n : f \in ToSet(Glob[values[i][1]]) BY <1>8, <1>10
  <2>2. \A f : f \in meant <=> \E i \in 1..n : f \in ToSet(Glob[values[i][1]]) BY <1>3, <1>11
  <2> HIDE DEF found, meant
  <2>3. \A f : f \in found <=> f \in meant BY <2>1, <2>2
  <2>4. found = meant BY <2>3
  <2> QED BY <2>4 DEF found, meant
<1> QED BY <1>1, <1>7, <1>12

\* The stack is its lower calls and its top.
LEMMA StackTop ==
  ASSUME NEW s \in Seq(Frames), s # <<>>
  PROVE  /\ Front(s) \in Seq(Frames) /\ Last(s) \in Frames /\ Len(Front(s)) = Len(s) - 1
         /\ Len(s) \in Nat /\ Len(Front(s)) \in Nat /\ s = Append(Front(s), Last(s))
<1>1. /\ Front(s) \in Seq(Frames) /\ Len(Front(s)) = Len(s) - 1 /\ Len(s) \in Nat \ {0}
      /\ \A i \in 1..Len(s) - 1 : Front(s)[i] = s[i]
  <2> DEFINE n == Len(s) - 1
  <2>1. Len(s) \in Nat \ {0} /\ n \in Nat /\ \A i \in 1..n : s[i] \in Frames OBVIOUS
  <2> HIDE DEF n
  <2>2. /\ SubSeq(s, 1, n) \in Seq(Frames)
        /\ Len(SubSeq(s, 1, n)) = IF 1 <= n THEN n - 1 + 1 ELSE 0
        /\ \A i \in 1..n - 1 + 1 : SubSeq(s, 1, n)[i] = s[1 + i - 1]
    BY <2>1, SubSeqProperties
  <2>3. n - 1 + 1 = n /\ \A i \in 1..n : 1 + i - 1 = i BY <2>1
  <2>4. Len(SubSeq(s, 1, n)) = n /\ \A i \in 1..n : SubSeq(s, 1, n)[i] = s[i]
    BY <2>1, <2>2, <2>3
  <2> QED BY <2>1, <2>2, <2>4 DEF Front, n
<1>2. Last(s) \in Frames /\ Last(s) = s[Len(s)] BY <1>1 DEF Last
<1> DEFINE f == Front(s)
           e == Last(s)
           t == Append(f, e)
<1> HIDE DEF f, e
<1>3. /\ Sequence(t) /\ Len(t) = Len(f) + 1 /\ t[Len(f) + 1] = e
      /\ \A i \in 1..Len(f) : t[i] = f[i]
  <2>1. Sequence(f) BY <1>1, AnySequence DEF f
  <2> QED BY <2>1, AppendFacts
<1>4. Sequence(s) BY AnySequence
<1> HIDE DEF t
<1>5. ASSUME NEW i \in 1..Len(s) PROVE t[i] = s[i]
  <2>1. CASE i = Len(s) BY <1>1, <1>2, <1>3, <2>1 DEF f, e
  <2>2. CASE i # Len(s)
    <3>1. i \in 1..Len(s) - 1 /\ i \in 1..Len(f) BY <1>1, <2>2 DEF f
    <3> QED BY <1>1, <1>3, <3>1 DEF f
  <2> QED BY <2>1, <2>2
<1>6. Len(s) = Len(t) BY <1>1, <1>3 DEF f
<1>7. s = t BY <1>3, <1>4, <1>5, <1>6, SameSequence
<1> QED BY <1>1, <1>2, <1>7 DEF t, f, e

\* What is left in open files when one is opened.
LEMMA StackParts ==
  ASSUME NEW s \in Seq(Frames), NEW e \in Frames
  PROVE  /\ Append(s, e) \in Seq(Frames) /\ Len(Append(s, e)) = Len(s) + 1
         /\ CallsOf(Append(s, e)) = CallsOf(s) \union ToSet(e.calls)
         /\ RestsOf(Append(s, e)) = RestsOf(s) \union ToSet(e.rest)
<1> DEFINE t == Append(s, e)
           n == Len(s)
<1>1. t \in Seq(Frames) /\ Len(t) = n + 1 /\ n \in Nat OBVIOUS
<1>2. t[n + 1] = e /\ \A i \in 1..n : t[i] = s[i]
  <2>1. Sequence(s) BY AnySequence
  <2> QED BY <2>1, AppendFacts
<1>3. \A i : i \in 1..n + 1 <=> i \in 1..n \/ i = n + 1 BY <1>1
<1> HIDE DEF t, n
<1>4. CallsOf(t) = CallsOf(s) \union ToSet(e.calls)
  <2>1. \A x : x \in CallsOf(t) <=> \E i \in 1..n + 1 : x \in ToSet(t[i].calls)
    BY <1>1 DEF CallsOf
  <2>2. \A x : x \in CallsOf(s) <=> \E i \in 1..n : x \in ToSet(s[i].calls) BY DEF CallsOf, n
  <2> QED BY <1>2, <1>3, <2>1, <2>2
<1>5. RestsOf(t) = RestsOf(s) \union ToSet(e.rest)
  <2>1. \A x : x \in RestsOf(t) <=> \E i \in 1..n + 1 : x \in ToSet(t[i].rest)
    BY <1>1 DEF RestsOf
  <2>2. \A x : x \in RestsOf(s) <=> \E i \in 1..n : x \in ToSet(s[i].rest) BY DEF RestsOf, n
  <2> QED BY <1>2, <1>3, <2>1, <2>2
<1> QED BY <1>1, <1>4, <1>5 DEF t, n

\* The lines of files that are read, and what they include.
LEMMA ReachableFacts ==
  ASSUME WellWritten(content)
  PROVE  /\ MainConfig \in Reachable /\ Reachable \subseteq File
         /\ \A files \in SUBSET File : \A line \in LinesOf(files) :
              /\ WellCut(line)
              /\ ~IsBroken(line) /\ line[1][1] = "include" => Arguments(line) \subseteq DOMAIN Glob
         /\ \A line \in LinesOf(Reachable) : Includes(line) \subseteq Reachable
         /\ \A files \in SUBSET File :
              MainConfig \in files /\ (\A line \in LinesOf(files) : Includes(line) \subseteq files)
                => Reachable \subseteq files
<1>1. Reachable \subseteq File /\ MainConfig \in Reachable BY MainAssumption DEF Reachable
<1>2. ASSUME NEW files \in SUBSET File, NEW line \in LinesOf(files)
      PROVE  /\ WellCut(line)
             /\ ~IsBroken(line) /\ line[1][1] = "include" => Arguments(line) \subseteq DOMAIN Glob
  <2>1. PICK f \in files : content[f] # Unreadable /\ line \in ToSet(content[f])
    BY <1>2 DEF LinesOf
  <2>2. f \in File OBVIOUS
  <2>3. /\ WellCut(line)
        /\ line # <<>> /\ line[1][1] = "include" => Arguments(line) \subseteq DOMAIN Glob
    BY <2>1, <2>2 DEF WellWritten
  <2> QED BY <2>3 DEF IsBroken
<1>3. ASSUME NEW file \in File PROVE \A f : f \in IncludedBy(file)
                                       <=> \E line \in LinesOf({file}) : f \in Includes(line)
  <2> DEFINE lines == Lines(file, "include")
  <2>1. \A line : line \in lines <=> /\ content[file] # Unreadable /\ line \in ToSet(content[file])
                                     /\ ~IsBroken(line) /\ line[1][1] = "include"
    BY DEF Lines
  <2>2. \A line : line \in LinesOf({file})
                    <=> content[file] # Unreadable /\ line \in ToSet(content[file])
    BY DEF LinesOf
  <2>3. \A f : f \in IncludedBy(file)
                 <=> \E line \in lines : \E p \in Arguments(line) : f \in ToSet(Glob[p])
    BY DEF IncludedBy
  <2>4. \A line, f : f \in Includes(line)
                       <=> /\ ~IsBroken(line) /\ line[1][1] = "include"
                           /\ \E p \in Arguments(line) : f \in ToSet(Glob[p])
    BY DEF Includes
  <2> HIDE DEF lines
  <2> QED BY <2>1, <2>2, <2>3, <2>4
<1>4. \A files : \A line : line \in LinesOf(files)
                             <=> \E f \in files : line \in LinesOf({f})
  BY DEF LinesOf
<1>5. ASSUME NEW files \in SUBSET File
      PROVE  (\A line \in LinesOf(files) : Includes(line) \subseteq files)
               <=> \A f \in files : IncludedBy(f) \subseteq files
  <2>1. \A f \in files : f \in File OBVIOUS
  <2>2. ASSUME \A line \in LinesOf(files) : Includes(line) \subseteq files,
               NEW f \in files, NEW g \in IncludedBy(f)
        PROVE  g \in files
    <3>1. PICK line \in LinesOf({f}) : g \in Includes(line) BY <1>3, <2>1, <2>2
    <3> QED BY <1>4, <2>2, <3>1
  <2>3. ASSUME \A f \in files : IncludedBy(f) \subseteq files,
               NEW line \in LinesOf(files), NEW g \in Includes(line)
        PROVE  g \in files
    <3>1. PICK f \in files : line \in LinesOf({f}) BY <1>4, <2>3
    <3>2. g \in IncludedBy(f) BY <1>3, <2>1, <3>1
    <3> QED BY <2>3, <3>2
  <2> QED BY <2>2, <2>3
<1>6. ASSUME NEW files \in SUBSET File, MainConfig \in files,
             \A line \in LinesOf(files) : Includes(line) \subseteq files
      PROVE  Reachable \subseteq files
  <2>1. \A f \in files : IncludedBy(f) \subseteq files BY <1>5, <1>6
  <2> QED BY <1>6, <2>1 DEF Reachable
<1>7. ASSUME NEW f \in Reachable PROVE IncludedBy(f) \subseteq Reachable
  <2>1. IncludedBy(f) \subseteq File
    <3>1. f \in File BY <1>1
    <3> SUFFICES ASSUME NEW g \in IncludedBy(f) PROVE g \in File OBVIOUS
    <3>2. PICK line \in LinesOf({f}) : g \in Includes(line) BY <1>3, <3>1
    <3>3. {f} \in SUBSET File BY <3>1
    <3>4. PICK p \in Arguments(line) : g \in ToSet(Glob[p]) BY <3>2 DEF Includes
    <3>5. p \in DOMAIN Glob BY <1>2, <3>2, <3>3, <3>4 DEF Includes
    <3>6. Glob[p] \in Seq(File) BY <3>5, FileAssumption
    <3>7. ToSet(Glob[p]) \subseteq File BY <3>6, SetOf
    <3> QED BY <3>4, <3>7
  <2> SUFFICES ASSUME NEW g \in IncludedBy(f), NEW S \in SUBSET File, MainConfig \in S,
                      \A h \in S : IncludedBy(h) \subseteq S
               PROVE  g \in S
    BY <2>1 DEF Reachable
  <2>2. f \in S BY DEF Reachable
  <2> QED BY <2>2
<1>8. \A line \in LinesOf(Reachable) : Includes(line) \subseteq Reachable BY <1>1, <1>5, <1>7
<1> QED BY <1>1, <1>2, <1>6, <1>8

\* What a step leaves as it is.
Same == UNCHANGED <<content, known>>

LEMMA SameFiles ==
  ASSUME Same
  PROVE  /\ Reachable' = Reachable /\ ConfigHosts' = ConfigHosts /\ OtherHosts' = OtherHosts
         /\ WellWritten(content)' = WellWritten(content)
         /\ \A files : LinesOf(files)' = LinesOf(files)
<1>1. content' = content /\ known' = known BY DEF Same
<1>2. \A file : IncludedBy(file)' = IncludedBy(file) BY <1>1 DEF IncludedBy, Lines
<1>3. Reachable' = Reachable BY <1>2 DEF Reachable
<1>4. \A files : LinesOf(files)' = LinesOf(files) BY <1>1 DEF LinesOf
<1>5. ConfigHosts' = ConfigHosts BY <1>1, <1>3 DEF ConfigHosts, ListedHosts, LinesOf
<1>6. OtherHosts' = OtherHosts BY <1>1 DEF OtherHosts, KnownOnes
<1> QED BY <1>1, <1>3, <1>4, <1>5, <1>6

\* A call of readSSHConfig, for a file that may be read.
LEMMA CallFinds ==
  ASSUME FoundInv, Same, UNCHANGED <<hosts, completing>>, completing = "config",
         NEW file \in Reachable, NEW below \in Seq(Frames), Len(below) = Len(stack),
         CallsOf(below) \subseteq CallsOf(stack), CallsOf(stack) \subseteq CallsOf(below) \union {file},
         RestsOf(below) = RestsOf(stack), reads # <<>> \/ file = MainConfig, Call(file, below)
  PROVE  FoundInv'
<1>1. WellWritten(content) /\ stack \in Seq(Frames) /\ visited \subseteq Reachable
      /\ CallsOf(stack) \subseteq Reachable /\ RestsOf(stack) \subseteq LinesOf(Reachable)
      /\ Len(stack) <= Cardinality(visited) /\ Len(stack) \in Nat
      /\ hosts \subseteq ConfigHosts
  BY DEF FoundInv
<1>2. /\ Reachable' = Reachable /\ ConfigHosts' = ConfigHosts /\ OtherHosts' = OtherHosts
      /\ WellWritten(content)' = WellWritten(content) /\ content' = content
      /\ \A files : LinesOf(files)' = LinesOf(files)
  BY SameFiles DEF Same
<1>3. Reachable \subseteq File BY <1>1, ReachableFacts
<1>4. IsFiniteSet(Reachable) /\ IsFiniteSet(visited)
  BY <1>1, <1>3, FileAssumption, FS_Subset
<1>5. Cardinality(Reachable) \in Nat /\ Cardinality(visited) \in Nat BY <1>4, FS_CardinalityType
<1>6. CASE Len(below) < MaxDepth /\ file \notin visited
  <2>1. /\ visited' = visited \union {file} /\ reads' = Append(reads, file)
        /\ stack' = IF content[file] = Unreadable THEN below ELSE Append(below, Frame(file))
    BY <1>6 DEF Call
  <2>2. Cardinality(visited') = Cardinality(visited) + 1 BY <1>4, <1>6, <2>1, FS_AddElement
  <2>3. MainConfig \in visited'
    <3>1. reads # <<>> => MainConfig \in visited BY DEF FoundInv
    <3> QED BY <2>1, <3>1
  <2>4. /\ stack' \in Seq(Frames) /\ Len(stack') \in Len(below)..Len(below) + 1
        /\ CallsOf(stack') = CallsOf(below)
        /\ RestsOf(stack') = RestsOf(below) \union LinesOf({file})
    <3>1. CASE content[file] = Unreadable
      <4>1. LinesOf({file}) = {} BY <3>1 DEF LinesOf
      <4>2. stack' = below BY <2>1, <3>1
      <4>3. Len(stack') \in Len(below)..Len(below) + 1 BY <1>1, <4>2
      <4> DEFINE R == RestsOf(below)
      <4>4. CallsOf(stack') = CallsOf(below) /\ RestsOf(stack') = R BY <4>2
      <4> HIDE DEF R
      <4> QED BY <4>1, <4>2, <4>3, <4>4 DEF R
    <3>2. CASE content[file] # Unreadable
      <4>1. LinesOf({file}) = ToSet(content[file]) BY <3>2 DEF LinesOf
      <4>2. content[file] \in Seq(Seq(Seq(STRING))) BY <1>1, <1>3, <3>2 DEF WellWritten
      <4>3. Frame(file) \in Frames /\ Frame(file).rest = content[file] /\ Frame(file).calls = <<>>
        <5>1. <<>> \in Seq(File) OBVIOUS
        <5> QED BY <4>2, <5>1 DEF Frame, Frames
      <4> DEFINE e == Frame(file)
      <4> HIDE DEF e
      <4>4. e \in Frames /\ e.rest = content[file] /\ e.calls = <<>> BY <4>3 DEF e
      <4>5. stack' = Append(below, e) BY <2>1, <3>2 DEF e
      <4>6. ToSet(<<>>) = {} BY DEF ToSet
      <4>7. /\ Append(below, e) \in Seq(Frames) /\ Len(Append(below, e)) = Len(below) + 1
            /\ CallsOf(Append(below, e)) = CallsOf(below) \union ToSet(e.calls)
            /\ RestsOf(Append(below, e)) = RestsOf(below) \union ToSet(e.rest)
        BY <4>4, StackParts
      <4> HIDE DEF e
      <4> QED BY <1>1, <4>1, <4>4, <4>5, <4>6, <4>7
    <3> QED BY <3>1, <3>2
  <2>5. \A files : \A line : line \in LinesOf(files \union {file})
                               <=> line \in LinesOf(files) \/ line \in LinesOf({file})
    BY DEF LinesOf
  <2>6. LinesOf({file}) \subseteq LinesOf(Reachable) BY DEF LinesOf
  <2>7. ASSUME Cardinality(Reachable) <= MaxDepth, NEW line \in LinesOf(visited') \ RestsOf(stack')
        PROVE  Lists(line) \ Unlisted \subseteq hosts
               /\ Includes(line) \subseteq visited' \union CallsOf(stack')
    <3>1. line \in LinesOf(visited) \ RestsOf(stack) BY <2>1, <2>4, <2>5, <2>7
    <3>2. Lists(line) \ Unlisted \subseteq hosts /\ Includes(line) \subseteq visited \union CallsOf(stack)
      BY <2>7, <3>1 DEF FoundInv
    <3> QED BY <2>1, <2>4, <3>2
  <2>8. Len(stack') <= Cardinality(visited') BY <1>1, <1>5, <2>2, <2>4
  <2>9. visited' \subseteq Reachable BY <1>1, <2>1
  <2>10. completing' = "config" /\ hosts' = hosts OBVIOUS
  <2>11. LinesOf(visited)' = LinesOf(visited') BY <1>2 DEF LinesOf
  <2>12. CallsOf(stack)' = CallsOf(stack') /\ RestsOf(stack)' = RestsOf(stack')
    BY DEF CallsOf, RestsOf
  <2>13. LinesOf(Reachable)' = LinesOf(Reachable) BY <1>2 DEF LinesOf
  <2> QED BY <1>1, <1>2, <2>3, <2>4, <2>6, <2>7, <2>8, <2>9, <2>10, <2>11, <2>12, <2>13
      DEF FoundInv
<1>7. CASE ~(Len(below) < MaxDepth /\ file \notin visited)
  <2>1. UNCHANGED <<visited, reads>> /\ stack' = below BY <1>7 DEF Call
  <2>2. Cardinality(Reachable) <= MaxDepth => file \in visited
    <3> SUFFICES ASSUME Cardinality(Reachable) <= MaxDepth, file \notin visited PROVE FALSE
      OBVIOUS
    <3>1. ~(Len(below) < MaxDepth) BY <1>7
    <3>2. Cardinality(visited \union {file}) = Cardinality(visited) + 1
      BY <1>4, FS_AddElement
    <3>3. Cardinality(visited \union {file}) <= Cardinality(Reachable)
      <4>1. visited \union {file} \subseteq Reachable BY <1>1
      <4> QED BY <1>4, <4>1, FS_Subset
    <3> QED BY <1>1, <1>5, <3>1, <3>2, <3>3, DepthAssumption
  <2>3. completing' = "config" /\ hosts' = hosts OBVIOUS
  <2>4. LinesOf(visited)' = LinesOf(visited) /\ LinesOf(Reachable)' = LinesOf(Reachable)
    BY <1>2, <2>1 DEF LinesOf
  <2>5. CallsOf(stack)' = CallsOf(below) /\ RestsOf(stack)' = RestsOf(stack)
    <3>1. CallsOf(stack)' = CallsOf(below) /\ RestsOf(stack)' = RestsOf(below)
      BY <2>1 DEF CallsOf, RestsOf
    <3> QED BY <3>1
  <2>6. reads # <<>> => MainConfig \in visited BY DEF FoundInv
  <2>7. ASSUME Cardinality(Reachable) <= MaxDepth, NEW line \in LinesOf(visited) \ RestsOf(stack)
        PROVE  Lists(line) \ Unlisted \subseteq hosts
               /\ Includes(line) \subseteq visited \union CallsOf(below)
    <3>1. Lists(line) \ Unlisted \subseteq hosts /\ Includes(line) \subseteq visited \union CallsOf(stack)
      BY <2>7 DEF FoundInv
    <3> QED BY <2>2, <2>7, <3>1
  <2>8. stack' \in Seq(Frames) /\ Len(stack') <= Cardinality(visited) BY <1>1, <2>1
  <2> QED BY <1>1, <1>2, <2>1, <2>3, <2>4, <2>5, <2>6, <2>7, <2>8 DEF FoundInv
<1> QED BY <1>6, <1>7

\* A host is listed by a line.
LEMMA ConfigHostsAre ==
  \A h : h \in ConfigHosts <=> h \notin Unlisted /\ \E line \in LinesOf(Reachable) : h \in Lists(line)
<1>1. \A h : h \in ListedHosts <=> \E line \in LinesOf(Reachable) : h \in Lists(line)
  BY DEF ListedHosts
<1> QED BY <1>1 DEF ConfigHosts

\* A line of an open file.
LEMMA ScanFinds == ASSUME FoundInv, ScanLine PROVE FoundInv'
<1> DEFINE below == Front(stack)
           line  == Top.rest[1]
           d     == Directive(line)
           new   == IF d.key = "include" THEN Included(d.values) ELSE <<>>
           frame == [rest |-> Tail(Top.rest), calls |-> new]
<1>1. /\ stack # <<>> /\ Top.calls = <<>> /\ Top.rest # <<>>
      /\ hosts' = IF d.key = "host" THEN hosts \union Listed(Words(d.values)) ELSE hosts
      /\ stack' = Append(below, frame)
      /\ UNCHANGED <<completionInput, visited, completing, matches, reads>>
  BY DEF ScanLine
<1>2. WellWritten(content) /\ stack \in Seq(Frames) /\ visited \subseteq Reachable
      /\ CallsOf(stack) \subseteq Reachable /\ RestsOf(stack) \subseteq LinesOf(Reachable)
      /\ Len(stack) <= Cardinality(visited) /\ Len(stack) \in Nat
      /\ completing = "config" /\ hosts \subseteq ConfigHosts
      /\ (reads # <<>> => MainConfig \in visited)
  BY <1>1 DEF FoundInv
<1>3. /\ below \in Seq(Frames) /\ Top \in Frames /\ Len(below) = Len(stack) - 1
      /\ stack = Append(below, Top)
  BY <1>1, <1>2, StackTop DEF Top
<1> DEFINE rest == Top.rest
<1>4. rest \in Seq(Seq(Seq(STRING))) BY <1>3 DEF Frames
<1>5. /\ CallsOf(stack) = CallsOf(below) /\ RestsOf(stack) = RestsOf(below) \union ToSet(rest)
  <2>1. ToSet(<<>>) = {} BY DEF ToSet
  <2>2. /\ CallsOf(Append(below, Top)) = CallsOf(below) \union ToSet(Top.calls)
        /\ RestsOf(Append(below, Top)) = RestsOf(below) \union ToSet(Top.rest)
    BY <1>3, StackParts
  <2> HIDE DEF below
  <2> QED BY <1>1, <1>3, <2>1, <2>2
<1>6. /\ ToSet(rest) = {line} \union ToSet(Tail(rest)) /\ Tail(rest) \in Seq(Seq(Seq(STRING)))
      /\ line \in ToSet(rest)
  <2> DEFINE T == Seq(Seq(STRING))
  <2>1. rest \in Seq(T) /\ rest # <<>> BY <1>1, <1>4
  <2>2. line = rest[1] OBVIOUS
  <2> HIDE DEF T, rest, line
  <2>3. Tail(rest) \in Seq(T) /\ ToSet(Tail(rest)) = {rest[i] : i \in 2..Len(rest)}
        /\ Len(rest) \in Nat \ {0}
    BY <2>1, TailFacts
  <2>4. ToSet(rest) = {rest[i] : i \in 1..Len(rest)} BY <2>1, SetOf
  <2>5. \A i : i \in 1..Len(rest) <=> i = 1 \/ i \in 2..Len(rest) BY <2>3
  <2>6. ToSet(rest) = {line} \union ToSet(Tail(rest)) BY <2>2, <2>3, <2>4, <2>5
  <2> QED BY <2>3, <2>6 DEF T
<1> HIDE DEF rest, line
<1>7. line \in LinesOf(Reachable) BY <1>2, <1>5, <1>6
<1>8. /\ Reachable \subseteq File /\ WellCut(line)
      /\ ~IsBroken(line) /\ line[1][1] = "include" => Arguments(line) \subseteq DOMAIN Glob
      /\ Includes(line) \subseteq Reachable
  BY <1>2, <1>7, ReachableFacts
<1>9. /\ d.key = "host" => Words(d.values) = Lists(line)
      /\ d.key # "host" => Lists(line) = {}
      /\ d.key = "include" =>
           /\ ~IsBroken(line) /\ line[1][1] = "include"
           /\ d.values \in Seq(Seq(STRING)) /\ Words(d.values) = Arguments(line)
      /\ d.key # "include" => Includes(line) = {}
  BY <1>8, DirectiveRead
<1> HIDE DEF d
<1>10. hosts' = hosts \union (Lists(line) \ Unlisted) BY <1>1, <1>9 DEF Listed
<1>11. new \in Seq(File) /\ ToSet(new) = Includes(line)
  <2>1. CASE d.key = "include"
    <3>1. Included(d.values) \in Seq(File) /\ ToSet(Included(d.values)) = Includes(line)
      BY <1>8, <1>9, <2>1, IncludesRead
    <3> QED BY <2>1, <3>1
  <2>2. CASE d.key # "include"
    <3>1. <<>> \in Seq(File) /\ ToSet(<<>>) = {} BY DEF ToSet
    <3> QED BY <1>9, <2>2, <3>1
  <2> QED BY <2>1, <2>2
<1> HIDE DEF new
<1>12. frame \in Frames /\ frame.rest = Tail(rest) /\ frame.calls = new
  BY <1>6, <1>11 DEF Frames, rest
<1> HIDE DEF frame, below
<1>13. /\ stack' \in Seq(Frames) /\ Len(stack') = Len(stack)
       /\ CallsOf(stack') = CallsOf(stack) \union Includes(line)
       /\ RestsOf(stack') = RestsOf(below) \union ToSet(Tail(rest))
  <2>1. /\ Append(below, frame) \in Seq(Frames) /\ Len(Append(below, frame)) = Len(below) + 1
        /\ CallsOf(Append(below, frame)) = CallsOf(below) \union ToSet(frame.calls)
        /\ RestsOf(Append(below, frame)) = RestsOf(below) \union ToSet(frame.rest)
    BY <1>3, <1>12, StackParts
  <2> QED BY <1>1, <1>2, <1>3, <1>5, <1>11, <1>12, <2>1
<1>14. Same /\ visited' = visited /\ completing' = completing /\ reads' = reads
  BY <1>1 DEF completionInput, Same
<1>15. /\ Reachable' = Reachable /\ ConfigHosts' = ConfigHosts /\ OtherHosts' = OtherHosts
       /\ WellWritten(content)' = WellWritten(content)
       /\ LinesOf(visited)' = LinesOf(visited) /\ LinesOf(Reachable)' = LinesOf(Reachable)
  BY <1>14, SameFiles DEF LinesOf, Same
<1>16. CallsOf(stack)' = CallsOf(stack') /\ RestsOf(stack)' = RestsOf(stack')
  BY DEF CallsOf, RestsOf
<1>17. hosts' \subseteq ConfigHosts
  <2>1. Lists(line) \ Unlisted \subseteq ConfigHosts BY <1>7, ConfigHostsAre
  <2> QED BY <1>2, <1>10, <2>1
<1>18. RestsOf(stack') \subseteq RestsOf(stack) /\ RestsOf(stack) \subseteq RestsOf(stack') \union {line}
  BY <1>5, <1>6, <1>13
<1>19. ASSUME Cardinality(Reachable) <= MaxDepth, NEW l \in LinesOf(visited) \ RestsOf(stack')
       PROVE  Lists(l) \ Unlisted \subseteq hosts' /\ Includes(l) \subseteq visited \union CallsOf(stack')
  <2>1. CASE l = line BY <1>10, <1>13, <2>1
  <2>2. CASE l # line
    <3>1. l \in LinesOf(visited) \ RestsOf(stack) BY <1>18, <1>19, <2>2
    <3>2. Lists(l) \ Unlisted \subseteq hosts /\ Includes(l) \subseteq visited \union CallsOf(stack)
      BY <1>19, <3>1 DEF FoundInv
    <3> QED BY <1>10, <1>13, <3>2
  <2> QED BY <2>1, <2>2
<1>20. CallsOf(stack') \subseteq Reachable /\ RestsOf(stack') \subseteq LinesOf(Reachable)
  BY <1>2, <1>8, <1>13, <1>18
<1> QED BY <1>2, <1>13, <1>14, <1>15, <1>16, <1>17, <1>19, <1>20 DEF FoundInv

\* Every step of a completion.
LEMMA CompletionFinds == ASSUME ReadInv, FoundInv, CompletionNext PROVE FoundInv'
<1>1. WellWritten(content) /\ stack \in Seq(Frames) /\ visited \subseteq Reachable
      /\ CallsOf(stack) \subseteq Reachable /\ RestsOf(stack) \subseteq LinesOf(Reachable)
      /\ Len(stack) <= Cardinality(visited) /\ Len(stack) \in Nat
      /\ (reads # <<>> => MainConfig \in visited)
      /\ (completing # "config" => stack = <<>> /\ reads # <<>>)
  BY DEF FoundInv
<1>2. CASE ReadMainConfig
  <2>1. completing = "config" /\ reads = <<>> /\ Call(MainConfig, <<>>) /\ Same
        /\ UNCHANGED <<hosts, completing>>
    BY <1>2 DEF ReadMainConfig, completionInput, Same
  <2>2. visited = {}
    <3>1. ToSet(<<>>) = {} BY DEF ToSet
    <3> QED BY <2>1, <3>1 DEF ReadInv
  <2>3. stack = <<>>
    <3>1. Cardinality(visited) = 0 BY <2>2, FS_EmptySet
    <3>2. Len(stack) = 0 BY <1>1, <3>1
    <3> QED BY <1>1, <3>2
  <2>4. MainConfig \in Reachable BY <1>1, ReachableFacts
  <2> DEFINE below == stack
  <2>5. below \in Seq(Frames) /\ Len(below) = Len(stack) /\ Call(MainConfig, below)
        /\ CallsOf(below) \subseteq CallsOf(stack)
        /\ CallsOf(stack) \subseteq CallsOf(below) \union {MainConfig}
        /\ RestsOf(below) = RestsOf(stack)
    BY <1>1, <2>1, <2>3
  <2> HIDE DEF below
  <2> QED BY <2>1, <2>4, <2>5, CallFinds
<1>3. CASE ReadIncluded
  <2> DEFINE calls == Top.calls
             front == Front(stack)
             frame == [Top EXCEPT !.calls = Tail(Top.calls)]
             below == Append(front, frame)
             file  == Top.calls[1]
  <2>1. stack # <<>> /\ calls # <<>> /\ Call(file, below) /\ Same /\ UNCHANGED <<hosts, completing>>
    BY <1>3 DEF ReadIncluded, completionInput, Same
  <2>2. /\ front \in Seq(Frames) /\ Top \in Frames /\ Len(front) = Len(stack) - 1
        /\ stack = Append(front, Top)
    BY <1>1, <2>1, StackTop DEF Top
  <2>3. calls \in Seq(File) /\ Top.rest \in Seq(Seq(Seq(STRING))) BY <2>2 DEF Frames
  <2>4. /\ Tail(calls) \in Seq(File) /\ ToSet(calls) = {file} \union ToSet(Tail(calls))
    <3>1. calls # <<>> BY <2>1
    <3>2. file = calls[1] OBVIOUS
    <3> HIDE DEF calls, file
    <3>3. Tail(calls) \in Seq(File) /\ ToSet(Tail(calls)) = {calls[i] : i \in 2..Len(calls)}
          /\ Len(calls) \in Nat \ {0}
      BY <2>3, <3>1, TailFacts
    <3>4. ToSet(calls) = {calls[i] : i \in 1..Len(calls)} BY <2>3, SetOf
    <3>5. \A i : i \in 1..Len(calls) <=> i = 1 \/ i \in 2..Len(calls) BY <3>3
    <3> QED BY <3>2, <3>3, <3>4, <3>5
  <2>5. frame \in Frames /\ frame.rest = Top.rest /\ frame.calls = Tail(calls)
    BY <2>2, <2>4 DEF Frames
  <2> HIDE DEF calls, frame, front, file
  <2>6. /\ below \in Seq(Frames) /\ Len(below) = Len(front) + 1
        /\ CallsOf(below) = CallsOf(front) \union ToSet(Tail(calls))
        /\ RestsOf(below) = RestsOf(front) \union ToSet(Top.rest)
    BY <2>2, <2>5, StackParts
  <2>7. /\ CallsOf(stack) = CallsOf(front) \union ToSet(calls)
        /\ RestsOf(stack) = RestsOf(front) \union ToSet(Top.rest)
    <3>1. /\ CallsOf(Append(front, Top)) = CallsOf(front) \union ToSet(Top.calls)
          /\ RestsOf(Append(front, Top)) = RestsOf(front) \union ToSet(Top.rest)
      BY <2>2, StackParts
    <3> QED BY <2>2, <3>1 DEF calls
  <2> HIDE DEF below
  <2>8. /\ Len(below) = Len(stack) /\ CallsOf(below) \subseteq CallsOf(stack)
        /\ CallsOf(stack) \subseteq CallsOf(below) \union {file} /\ RestsOf(below) = RestsOf(stack)
        /\ file \in CallsOf(stack)
    BY <1>1, <2>2, <2>4, <2>6, <2>7
  <2>9. file \in Reachable BY <1>1, <2>8
  <2>10. completing = "config" BY <1>1, <2>1
  <2>11. reads # <<>>
    <3>1. visited # {}
      <4>1. Len(stack) # 0 BY <1>1, <2>2, <2>6, <2>8
      <4>2. Len(stack) >= 1 BY <1>1, <4>1
      <4>3. visited = {} => Cardinality(visited) = 0 BY FS_EmptySet
      <4> QED BY <1>1, <4>2, <4>3
    <3>2. ToSet(<<>>) = {} BY DEF ToSet
    <3> QED BY <3>1, <3>2 DEF ReadInv
  <2> QED BY <2>1, <2>6, <2>8, <2>9, <2>10, <2>11, CallFinds
<1>4. CASE ScanLine BY <1>4, ScanFinds
<1>5. CASE EndFile
  <2> DEFINE front == Front(stack)
  <2>1. /\ stack # <<>> /\ Top.calls = <<>> /\ Top.rest = <<>> /\ stack' = front
        /\ Same /\ UNCHANGED <<hosts, visited, completing, reads>>
    BY <1>5 DEF EndFile, completionInput, Same
  <2>2. /\ front \in Seq(Frames) /\ Top \in Frames /\ Len(front) = Len(stack) - 1
        /\ stack = Append(front, Top)
    BY <1>1, <2>1, StackTop DEF Top
  <2> HIDE DEF front
  <2>3. CallsOf(front) = CallsOf(stack) /\ RestsOf(front) = RestsOf(stack)
    <3>1. /\ CallsOf(Append(front, Top)) = CallsOf(front) \union ToSet(Top.calls)
          /\ RestsOf(Append(front, Top)) = RestsOf(front) \union ToSet(Top.rest)
      BY <2>2, StackParts
    <3>2. ToSet(<<>>) = {} BY DEF ToSet
    <3> QED BY <2>1, <2>2, <3>1, <3>2
  <2>4. CallsOf(stack)' = CallsOf(stack) /\ RestsOf(stack)' = RestsOf(stack)
    <3>1. CallsOf(stack)' = CallsOf(front) /\ RestsOf(stack)' = RestsOf(front)
      BY <2>1 DEF CallsOf, RestsOf
    <3> QED BY <2>3, <3>1
  <2>5. /\ Reachable' = Reachable /\ ConfigHosts' = ConfigHosts /\ OtherHosts' = OtherHosts
        /\ WellWritten(content)' = WellWritten(content)
        /\ LinesOf(visited)' = LinesOf(visited) /\ LinesOf(Reachable)' = LinesOf(Reachable)
    BY <2>1, SameFiles DEF LinesOf, Same
  <2>6. completing = "config" BY <1>1, <2>1
  <2>7. stack' \in Seq(Frames) /\ Len(stack') <= Cardinality(visited)
    <3>1. IsFiniteSet(visited)
      <4>1. Reachable \subseteq File BY <1>1, ReachableFacts
      <4> QED BY <1>1, <4>1, FileAssumption, FS_Subset
    <3>2. Cardinality(visited) \in Nat BY <3>1, FS_CardinalityType
    <3> QED BY <1>1, <2>1, <2>2, <3>2
  <2> QED BY <1>1, <2>1, <2>4, <2>5, <2>6, <2>7 DEF FoundInv
<1>6. CASE EndConfig \/ ReadKnownHosts \/ Match
  <2>1. Same /\ UNCHANGED <<stack, visited, reads>> /\ stack = <<>> /\ reads # <<>>
    BY <1>1, <1>6 DEF EndConfig, ReadKnownHosts, Match, completionInput, Same
  <2>2. /\ Reachable' = Reachable /\ ConfigHosts' = ConfigHosts /\ OtherHosts' = OtherHosts
        /\ WellWritten(content)' = WellWritten(content)
        /\ LinesOf(visited)' = LinesOf(visited) /\ LinesOf(Reachable)' = LinesOf(Reachable)
        /\ CallsOf(stack)' = CallsOf(stack) /\ RestsOf(stack)' = RestsOf(stack)
    BY <2>1, SameFiles DEF LinesOf, Same, CallsOf, RestsOf
  <2>3. /\ hosts \subseteq hosts'
        /\ hosts' \subseteq ConfigHosts
             \union IF completing' \in {"matching", "done"} THEN OtherHosts ELSE {}
        /\ completing' \in {"matching", "done"} => OtherHosts \subseteq hosts'
    <3>1. CASE EndConfig
      <4>1. completing = "config" /\ completing' = "known" /\ hosts' = hosts BY <3>1 DEF EndConfig
      <4> QED BY <4>1 DEF FoundInv
    <3>2. CASE ReadKnownHosts
      <4>1. completing = "known" /\ completing' = "matching" BY <3>2 DEF ReadKnownHosts
      <4>2. hosts' = hosts \union OtherHosts
        BY <3>2 DEF ReadKnownHosts, OtherHosts, KnownOnes, Listed
      <4>3. hosts \subseteq ConfigHosts BY <4>1 DEF FoundInv
      <4> QED BY <4>1, <4>2, <4>3
    <3>3. CASE Match
      <4>1. completing = "matching" /\ completing' = "done" /\ hosts' = hosts BY <3>3 DEF Match
      <4> QED BY <4>1 DEF FoundInv
    <3> QED BY <1>6, <3>1, <3>2, <3>3
  <2>4. ASSUME Cardinality(Reachable) <= MaxDepth, NEW line \in LinesOf(visited) \ RestsOf(stack)
        PROVE  Lists(line) \ Unlisted \subseteq hosts'
               /\ Includes(line) \subseteq visited \union CallsOf(stack)
    BY <2>3, <2>4 DEF FoundInv
  <2>5. stack' = stack /\ visited' = visited /\ reads' = reads BY <2>1
  <2> QED BY <1>1, <2>1, <2>2, <2>3, <2>4, <2>5 DEF FoundInv
<1> QED BY <1>2, <1>3, <1>4, <1>5, <1>6 DEF CompletionNext

\* Completion finds literal aliases of the configuration and of what it includes,
\* and hosts of known_hosts, and no others; it finds all of them unless so many
\* files are read that the bound on the depth may be met (readSSHConfig,
\* sshConfigDirective, addSSHHost, readKnownHosts).
THEOREM FindsTheHosts == Spec => []HostsAsDocumented
<1>1. Init => FoundInv
  <2> SUFFICES ASSUME Init PROVE FoundInv OBVIOUS
  <2>1. /\ stack = <<>> /\ hosts = {} /\ visited = {} /\ reads = <<>> /\ completing = "config"
        /\ content \in Contents \union {[f \in File |-> Unreadable]}
    BY DEF Init, CompletionInit
  <2>2. WellWritten(content)
    <3>1. WellWritten([f \in File |-> Unreadable]) BY DEF WellWritten
    <3> QED BY <2>1, <3>1, ContentAssumption
  <2>3. stack \in Seq(Frames) /\ Len(stack) = 0 /\ CallsOf(stack) = {} /\ RestsOf(stack) = {}
    BY <2>1 DEF CallsOf, RestsOf
  <2>4. LinesOf(visited) = {} BY <2>1 DEF LinesOf
  <2>5. Cardinality(visited) = 0 BY <2>1, FS_EmptySet
  <2> QED BY <2>1, <2>2, <2>3, <2>4, <2>5 DEF FoundInv
<1>2. ReadInv /\ FoundInv /\ [Next]_<<commandVars, completionVars>> => FoundInv'
  <2>1. Next => Complete \/ UNCHANGED completionVars
    BY DEF Next, ReadOptions, OptionsFail, Install, StartMaster, CheckMaster,
           ForwardClipboard, CheckRemoteAgent, ProvisionOverMaster, ProvisionDirectly,
           NoLocalMosh, DetectTransport, RunClient, Probe, StopTunnel, MasterDies, Execute
  <2>2. FoundInv /\ UNCHANGED completionVars => FoundInv'
    <3> SUFFICES ASSUME FoundInv, UNCHANGED completionVars PROVE FoundInv' OBVIOUS
    <3>1. Same /\ UNCHANGED <<stack, hosts, visited, completing, reads>>
      BY DEF completionVars, completionInput, Same
    <3>2. stack' = stack /\ hosts' = hosts /\ visited' = visited /\ completing' = completing
          /\ reads' = reads
      BY <3>1
    <3>3. /\ Reachable' = Reachable /\ ConfigHosts' = ConfigHosts /\ OtherHosts' = OtherHosts
          /\ WellWritten(content)' = WellWritten(content)
          /\ LinesOf(visited)' = LinesOf(visited) /\ LinesOf(Reachable)' = LinesOf(Reachable)
          /\ CallsOf(stack)' = CallsOf(stack) /\ RestsOf(stack)' = RestsOf(stack)
      BY <3>1, SameFiles DEF LinesOf, Same, CallsOf, RestsOf
    <3> QED BY <3>2, <3>3 DEF FoundInv
  <2> QED BY <2>1, <2>2, CompletionFinds DEF Complete
<1>3. FoundInv => HostsAsDocumented
  <2> SUFFICES ASSUME FoundInv, completing = "done"
               PROVE  /\ hosts \subseteq Documented
                      /\ Cardinality(Reachable) <= MaxDepth => hosts = Documented
    BY DEF HostsAsDocumented
  <2>1. /\ WellWritten(content) /\ stack = <<>> /\ MainConfig \in visited
        /\ visited \subseteq Reachable /\ hosts \subseteq ConfigHosts \union OtherHosts
        /\ OtherHosts \subseteq hosts
    BY DEF FoundInv
  <2>2. Documented = ConfigHosts \union OtherHosts
    <3>1. \A f : \A line : line \in Lines(f, "host")
                    <=> /\ content[f] # Unreadable /\ line \in ToSet(content[f])
                        /\ ~IsBroken(line) /\ line[1][1] = "host"
      BY DEF Lines
    <3>2. \A line : line \in LinesOf(Reachable)
                    <=> \E f \in Reachable : content[f] # Unreadable /\ line \in ToSet(content[f])
      BY DEF LinesOf
    <3>3. \A line, h : h \in Lists(line)
                       <=> ~IsBroken(line) /\ line[1][1] = "host" /\ h \in Arguments(line)
      BY DEF Lists
    <3>4. \A h : h \in NamedHosts <=> \E f \in Reachable : \E line \in Lines(f, "host") :
                                        h \in Arguments(line)
      BY DEF NamedHosts
    <3>6. Documented = (NamedHosts \union KnownOnes) \ Unlisted BY DEF Documented
    <3>7. OtherHosts = KnownOnes \ Unlisted BY DEF OtherHosts
    <3>8. \A h : h \in NamedHosts <=> \E line \in LinesOf(Reachable) : h \in Lists(line)
      BY <3>1, <3>2, <3>3, <3>4
    <3>9. \A h : h \in Documented <=> h \in ConfigHosts \union OtherHosts
      BY <3>6, <3>7, <3>8, ConfigHostsAre
    <3> DEFINE all == ConfigHosts \union OtherHosts
    <3> HIDE DEF all
    <3>10. \A h : h \in Documented <=> h \in all BY <3>9 DEF all
    <3>11. Documented = all BY <3>10
    <3> QED BY <3>11 DEF all
  <2>3. ASSUME Cardinality(Reachable) <= MaxDepth PROVE ConfigHosts \subseteq hosts
    <3>1. CallsOf(stack) = {} /\ RestsOf(stack) = {} BY <2>1 DEF CallsOf, RestsOf
    <3>2. \A line \in LinesOf(visited) : /\ Lists(line) \ Unlisted \subseteq hosts
                                         /\ Includes(line) \subseteq visited
      BY <2>3, <3>1 DEF FoundInv
    <3>3. Reachable \subseteq visited
      <4>1. visited \in SUBSET File BY <2>1, ReachableFacts
      <4> QED BY <2>1, <3>2, <4>1, ReachableFacts
    <3>4. visited = Reachable BY <2>1, <3>3
    <3> SUFFICES ASSUME NEW h \in ConfigHosts PROVE h \in hosts OBVIOUS
    <3>5. PICK line \in LinesOf(Reachable) : h \in Lists(line) /\ h \notin Unlisted
      BY ConfigHostsAre
    <3> QED BY <3>2, <3>4, <3>5
  <2> QED BY <2>1, <2>2, <2>3
<1>4. Spec => []ReadInv BY AlwaysReadInv
<1> QED BY <1>1, <1>2, <1>3, <1>4, PTL DEF Spec

-----------------------------------------------------------------------------
(* What shells and mosh read.                                             *)

\* A state of the reading of a text, and the first.
At(open, begun, word, words) ==
  [open |-> open, begun |-> begun, word |-> word, words |-> words]
Start == At(FALSE, FALSE, <<>>, <<>>)

\* A text leads from one state to another, atom by atom.
Follows(f, text) == \A i \in 1..Len(text) : f[i] = ReadAtom(f[i - 1], text[i])
Leads(s, text, t) == \E f : f[0] = s /\ f[Len(text)] = t /\ Follows(f, text)

\* Texts one behind the other.
LEMMA LeadsNone == ASSUME NEW s PROVE Leads(s, <<>>, s)
<1> DEFINE f == [i \in {0} |-> s]
<1>1. f[0] = s OBVIOUS
<1> HIDE DEF f
<1>2. Len(<<>>) = 0 /\ Follows(f, <<>>) BY DEF Follows
<1> QED BY <1>1, <1>2 DEF Leads

\* One atom.
LEMMA LeadsOne == ASSUME NEW s, NEW atom PROVE Leads(s, <<atom>>, ReadAtom(s, atom))
<1> DEFINE f == [i \in {0, 1} |-> IF i = 0 THEN s ELSE ReadAtom(s, atom)]
<1>1. f[0] = s /\ f[1] = ReadAtom(s, atom) OBVIOUS
<1> HIDE DEF f
<1>2. Len(<<atom>>) = 1 /\ <<atom>>[1] = atom BY FewWords
<1>3. Follows(f, <<atom>>)
  <2>1. \A i \in 1..1 : i = 1 /\ i - 1 = 0 OBVIOUS
  <2> QED BY <1>1, <1>2, <2>1 DEF Follows
<1> QED BY <1>1, <1>2, <1>3 DEF Leads

\* A text and another behind it.
LEMMA LeadsJoin ==
  ASSUME NEW u, NEW v, Sequence(u), Sequence(v), NEW s, NEW t, NEW x,
         Leads(s, u, t), Leads(t, v, x)
  PROVE  Leads(s, u \o v, x)
<1> DEFINE m == Len(u)
           n == Len(v)
           w == u \o v
<1>1. PICK f : f[0] = s /\ f[m] = t /\ Follows(f, u) BY DEF Leads
<1>2. PICK g : g[0] = t /\ g[n] = x /\ Follows(g, v) BY DEF Leads
<1>3. /\ Len(w) = m + n /\ m \in Nat /\ n \in Nat
      /\ \A i \in 1..m : w[i] = u[i]
      /\ \A i \in 1..n : w[m + i] = v[i]
  BY JoinFacts
<1> DEFINE h == [i \in 0..m + n |-> IF i <= m THEN f[i] ELSE g[i - m]]
<1> HIDE DEF w, m, n
<1>4. /\ \A i \in 0..m : h[i] = f[i]
      /\ \A i \in 1..n : h[m + i] = g[i]
  <2>1. \A i \in 0..m : i \in 0..m + n /\ i <= m BY <1>3
  <2>3. \A j \in 0..m + n : ~(j <= m) => h[j] = g[j - m] OBVIOUS
  <2>4. \A i \in 0..m : h[i] = f[i] BY <2>1
  <2> HIDE DEF h
  <2>5. ASSUME NEW i \in 1..n PROVE h[m + i] = g[i]
    <3> DEFINE j == m + i
    <3>1. j \in 0..m + n /\ ~(j <= m) /\ j - m = i BY <1>3
    <3> HIDE DEF j
    <3>2. h[j] = g[i] BY <2>3, <3>1
    <3> QED BY <3>2 DEF j
  <2> QED BY <2>4, <2>5
<1> HIDE DEF h
<1>5. \A i \in 0..n : h[m + i] = g[i]
  <2>1. h[m + 0] = g[0]
    <3>1. m + 0 = m /\ m \in 0..m BY <1>3
    <3> QED BY <1>1, <1>2, <1>4, <3>1
  <2>2. \A i \in 0..n : i = 0 \/ i \in 1..n BY <1>3
  <2> QED BY <1>4, <2>1, <2>2
<1>6. \A i \in 1..m + n : h[i] = ReadAtom(h[i - 1], w[i])
  <2> TAKE i \in 1..m + n
  <2>1. CASE i <= m
    <3>1. i \in 1..m /\ i - 1 \in 0..m /\ i \in 0..m BY <1>3, <2>1
    <3> QED BY <1>1, <1>3, <1>4, <3>1 DEF Follows, m
  <2>2. CASE ~(i <= m)
    <3> DEFINE j == i - m
    <3>1. j \in 1..n /\ j \in 0..n /\ j - 1 \in 0..n /\ i = m + j /\ i - 1 = m + (j - 1)
      BY <1>3, <2>2
    <3> HIDE DEF j
    <3>2. g[j] = ReadAtom(g[j - 1], v[j]) BY <1>2, <3>1 DEF Follows, n
    <3> QED BY <1>3, <1>5, <3>1, <3>2
  <2> QED BY <2>1, <2>2
<1>7. h[0] = s /\ h[m + n] = x
  <2>1. 0 \in 0..m /\ n \in 0..n BY <1>3
  <2> QED BY <1>1, <1>2, <1>4, <1>5, <2>1
<1>8. Follows(h, w) BY <1>3, <1>6 DEF Follows
<1>9. Leads(s, w, x) BY <1>3, <1>7, <1>8 DEF Leads
<1> QED BY <1>9 DEF w

\* Appending is joining one element.
LEMMA AppendJoins == ASSUME NEW s, Sequence(s), NEW e PROVE s \o <<e>> = Append(s, e)
<1> DEFINE A == ToSet(s)
           T == A \union {e}
<1>1. s \in Seq(A) /\ A \subseteq T /\ e \in T BY DEF Sequence
<1> HIDE DEF A, T
<1>2. s \in Seq(T) BY <1>1
<1> QED BY <1>1, <1>2

\* ShellWords reads a text from the first state and ends it like a blank.
LEMMA WordsRead ==
  ASSUME NEW text, Sequence(text), NEW t, Leads(Start, text, t)
  PROVE  ShellWords(text) = ReadAtom(t, " ").words
<1> DEFINE atoms == Append(text, " ")
           n == Len(atoms)
           first == [open |-> FALSE, begun |-> FALSE, word |-> <<>>, words |-> <<>>]
           Body(h) == [i \in 0..n |-> IF i = 0 THEN first ELSE ReadAtom(h[i - 1], atoms[i])]
           h == CHOOSE x : x = Body(x)
<1>1. ShellWords(text) = h[n].words BY DEF ShellWords
<1> HIDE DEF h
<1>2. n \in Nat
  <2> DEFINE v == Append(text, " ")
  <2>1. Len(v) = Len(text) + 1 /\ Len(text) \in Nat BY AppendFacts DEF Sequence
  <2> QED BY <2>1
<1>3. Leads(Start, atoms, ReadAtom(t, " "))
  <2>1. Leads(t, <<" ">>, ReadAtom(t, " ")) BY LeadsOne
  <2>2. Sequence(<<" ">>) BY FewWords
  <2>3. text \o <<" ">> = Append(text, " ") BY AppendJoins
  <2>4. Leads(Start, text \o <<" ">>, ReadAtom(t, " ")) BY <2>1, <2>2, LeadsJoin
  <2> QED BY <2>3, <2>4
<1> HIDE DEF atoms, n
<1>4. PICK f : f[0] = Start /\ f[n] = ReadAtom(t, " ")
               /\ \A i \in 1..n : f[i] = ReadAtom(f[i - 1], atoms[i])
  BY <1>3 DEF Leads, Follows, n
<1>5. first = Start BY DEF Start, At
<1> HIDE DEF first
<1>6. \E x : x = Body(x)
  <2> DEFINE x == [i \in 0..n |-> f[i]]
  <2>1. \A i \in 0..n : x[i] = f[i] OBVIOUS
  <2>2. \A i \in 0..n : i # 0 => i \in 1..n /\ i - 1 \in 0..n BY <1>2
  <2>3. x = [i \in 0..n |-> x[i]] OBVIOUS
  <2> HIDE DEF x
  <2>4. \A i \in 0..n : x[i] = IF i = 0 THEN first ELSE ReadAtom(x[i - 1], atoms[i])
    BY <1>4, <1>5, <2>1, <2>2
  <2>5. [i \in 0..n |-> x[i]] = Body(x) BY <2>4
  <2>6. x = Body(x) BY <2>3, <2>5
  <2> QED BY <2>6
<1>7. h = Body(h)
  <2> HIDE DEF Body
  <2> QED BY <1>6 DEF h
<1>8. \A i \in 0..n : h[i] = IF i = 0 THEN first ELSE ReadAtom(h[i - 1], atoms[i]) BY <1>7
<1> DEFINE S == {k \in 0..n : h[k] = f[k]}
<1>9. 0 \in S
  <2>1. 0 \in 0..n BY <1>2
  <2>2. h[0] = first BY <1>8, <2>1
  <2> QED BY <1>4, <1>5, <2>1, <2>2
<1>10. ASSUME NEW k \in Nat, k < n, k \in S PROVE k + 1 \in S
  <2> DEFINE i == k + 1
  <2>1. i \in 0..n /\ i \in 1..n /\ i # 0 /\ i - 1 = k BY <1>2, <1>10
  <2> HIDE DEF i
  <2>2. h[k] = f[k] BY <1>10
  <2>3. h[i] = f[i] BY <1>4, <1>8, <2>1, <2>2
  <2> QED BY <2>1, <2>3 DEF i
<1> HIDE DEF S
<1>11. \A k \in Nat : k < n /\ k \in S => k + 1 \in S BY <1>10
<1>12. \A k \in 0..n : k \in S BY <1>2, <1>9, <1>11, UpTo
<1>13. h[n] = f[n] BY <1>2, <1>12 DEF S
<1> QED BY <1>1, <1>4, <1>13

\* Prefixes of a sequence.
LEMMA PrefixGrows ==
  ASSUME NEW s, Sequence(s)
  PROVE  /\ SubSeq(s, 1, 0) = <<>> /\ SubSeq(s, 1, Len(s)) = s /\ Len(s) \in Nat
         /\ \A k \in Nat : k < Len(s) =>
              /\ Sequence(SubSeq(s, 1, k))
              /\ SubSeq(s, 1, k + 1) = Append(SubSeq(s, 1, k), s[k + 1])
<1> DEFINE A == ToSet(s)
<1>1. s \in Seq(A) BY DEF Sequence
<1> HIDE DEF A
<1>2. SubSeq(s, 1, 0) = <<>> /\ SubSeq(s, 1, Len(s)) = s /\ Len(s) \in Nat BY <1>1
<1>3. ASSUME NEW k \in Nat, k < Len(s)
      PROVE  /\ Sequence(SubSeq(s, 1, k))
             /\ SubSeq(s, 1, k + 1) = Append(SubSeq(s, 1, k), s[k + 1])
  <2>1. SubSeq(s, 1, k) \in Seq(A) BY <1>1, <1>3
  <2>2. SubSeq(s, 1, k + 1) = Append(SubSeq(s, 1, k), s[k + 1]) BY <1>1, <1>3
  <2> QED BY <2>1, <2>2, AnySequence
<1> QED BY <1>2, <1>3

\* Flattening words one by one.
LEMMA FlattenBySteps ==
  ASSUME NEW words, WordList(words), Len(words) # 0
  PROVE  \E f : /\ f[0] = <<>> /\ f[1] = words[1] /\ FlattenSeq(words) = f[Len(words)]
                /\ \A i \in 0..Len(words) : Sequence(f[i])
                /\ \A i \in 1..Len(words) : f[i] = f[i - 1] \o words[i]
<1> DEFINE n == Len(words)
           T == UNION {ToSet(words[i]) : i \in 1..n}
<1>1. Sequence(words) /\ n \in Nat /\ DOMAIN words = 1..n BY AnySequence DEF WordList, Sequence
<1>2. ASSUME NEW i \in 1..n PROVE words[i] \in Seq(T)
  <2>1. words[i] \in Seq(ToSet(words[i])) BY DEF WordList, Sequence
  <2>2. ToSet(words[i]) \subseteq T OBVIOUS
  <2> DEFINE S == ToSet(words[i])
             w == words[i]
  <2> HIDE DEF S, T, w
  <2>3. w \in Seq(S) /\ S \subseteq T BY <2>1, <2>2 DEF S, w
  <2>4. w \in Seq(T) BY <2>3
  <2> QED BY <2>4 DEF w
<1>3. words = [i \in 1..n |-> words[i]]
  <2>1. words = [i \in DOMAIN words |-> words[i]] BY <1>1 DEF Sequence
  <2> QED BY <1>1, <2>1
<1> HIDE DEF T, n
<1>4. words \in Seq(Seq(T)) BY <1>1, <1>2, <1>3
<1>5. PICK f \in [0..Len(words) -> Seq(T)] :
         /\ f[0] = <<>> /\ f[1] = words[1] /\ FlattenSeq(words) = f[Len(words)]
         /\ \A i \in 1..Len(words) : f[i] = f[i - 1] \o words[i]
  BY <1>4, FlattenSteps
<1>6. \A i \in 0..Len(words) : Sequence(f[i]) BY <1>5, AnySequence
<1> QED BY <1>5, <1>6

\* What stands for one atom inside quotes.
Quoted(atom) == IF atom = "'" THEN <<"'", "\\'", "'">> ELSE <<atom>>

\* Inside quotes, what stands for an atom adds the atom to the word.
LEMMA QuotedAtom ==
  ASSUME NEW atom, NEW word, NEW words
  PROVE  /\ Sequence(Quoted(atom))
         /\ Leads(At(TRUE, TRUE, word, words), Quoted(atom),
                  At(TRUE, TRUE, Append(word, atom), words))
<1>1. CASE atom # "'"
  <2>1. Quoted(atom) = <<atom>> BY <1>1 DEF Quoted
  <2>2. ReadAtom(At(TRUE, TRUE, word, words), atom) = At(TRUE, TRUE, Append(word, atom), words)
    BY <1>1 DEF At, ReadAtom
  <2> QED BY <2>1, <2>2, LeadsOne, FewWords
<1>2. CASE atom = "'"
  <2> DEFINE a == <<"'">>
             b == <<"\\'">>
             s == At(TRUE, TRUE, word, words)
             t == At(FALSE, TRUE, word, words)
             u == At(FALSE, TRUE, Append(word, "'"), words)
             v == At(TRUE, TRUE, Append(word, "'"), words)
  <2>1. Sequence(a) /\ Sequence(b) BY FewWords
  <2>2. ReadAtom(s, "'") = t /\ ReadAtom(t, "\\'") = u /\ ReadAtom(u, "'") = v
    BY DEF At, ReadAtom
  <2>3. Quoted(atom) = (a \o b) \o a BY <1>2 DEF Quoted
  <2> HIDE DEF s, t, u, v
  <2>4. Leads(s, a, t) /\ Leads(t, b, u) /\ Leads(u, a, v) BY <2>2, LeadsOne
  <2> HIDE DEF a, b
  <2>5. Sequence(a \o b) /\ Leads(s, a \o b, u) BY <2>1, <2>4, LeadsJoin, JoinFacts
  <2>6. Sequence((a \o b) \o a) /\ Leads(s, (a \o b) \o a, v)
    BY <2>1, <2>4, <2>5, LeadsJoin, JoinFacts
  <2> QED BY <1>2, <2>3, <2>6 DEF s, v
<1> QED BY <1>1, <1>2

\* A quoted word is read as it was.
LEMMA QuotedWord ==
  ASSUME NEW word, Sequence(word), NEW words
  PROVE  Leads(At(FALSE, FALSE, <<>>, words), ShellQuote(word), At(FALSE, TRUE, word, words))
<1> DEFINE n == Len(word)
           seqs == [i \in 1..n |-> Quoted(word[i])]
           q == <<"'">>
           open(w) == At(TRUE, TRUE, w, words)
<1>1. n \in Nat BY DEF Sequence
<1>2. WordList(seqs) /\ Len(seqs) = n
  <2>1. seqs = [i \in 1..n |-> seqs[i]] OBVIOUS
  <2>2. \A i \in 1..n : seqs[i] = Quoted(word[i]) OBVIOUS
  <2> HIDE DEF seqs, n
  <2>3. \A i \in 1..n : Sequence(seqs[i]) BY <2>2, QuotedAtom
  <2> QED BY <1>1, <2>1, <2>3, MapWords
<1>3. ShellQuote(word) = (q \o FlattenSeq(seqs)) \o q BY DEF ShellQuote, Quoted
<1>4. \A i \in 1..n : seqs[i] = Quoted(word[i]) OBVIOUS
<1>5. Sequence(FlattenSeq(seqs)) BY <1>2, FlattenWords
<1>6. SubSeq(word, 1, 0) = <<>> /\ SubSeq(word, 1, n) = word
      /\ \A k \in Nat : k < n => SubSeq(word, 1, k + 1) = Append(SubSeq(word, 1, k), word[k + 1])
  BY PrefixGrows
<1> HIDE DEF seqs, n
<1>7. Leads(open(<<>>), FlattenSeq(seqs), open(word))
  <2>1. CASE n = 0
    <3>1. seqs = <<>> BY <1>2, <2>1 DEF WordList, Sequence
    <3>2. FlattenSeq(seqs) = <<>> BY <3>1, FlattenFew
    <3>3. word = <<>> BY <1>6, <2>1
    <3> QED BY <3>2, <3>3, LeadsNone
  <2>2. CASE n # 0
    <3>1. PICK f : /\ f[0] = <<>> /\ FlattenSeq(seqs) = f[n]
                   /\ \A i \in 0..n : Sequence(f[i])
                   /\ \A i \in 1..n : f[i] = f[i - 1] \o seqs[i]
      BY <1>2, <2>2, FlattenBySteps
    <3> DEFINE S == {k \in 0..n : Leads(open(<<>>), f[k], open(SubSeq(word, 1, k)))}
    <3>2. 0 \in S
      <4>1. Leads(open(<<>>), <<>>, open(<<>>)) BY LeadsNone
      <4> HIDE DEF open
      <4>2. 0 \in 0..n BY <1>1
      <4> DEFINE w == SubSeq(word, 1, 0)
      <4>3. w = <<>> BY <1>6
      <4> HIDE DEF w
      <4>4. Leads(open(<<>>), f[0], open(w)) BY <3>1, <4>1, <4>3
      <4> QED BY <4>2, <4>4 DEF w
    <3>3. ASSUME NEW k \in Nat, k < n, k \in S PROVE k + 1 \in S
      <4> DEFINE i == k + 1
                 w == SubSeq(word, 1, k)
                 x == SubSeq(word, 1, i)
      <4>1. i \in 1..n /\ i \in 0..n /\ k \in 0..n /\ i - 1 = k BY <1>1, <3>3
      <4>2. x = Append(w, word[i]) BY <1>6, <3>3
      <4>3. Leads(open(<<>>), f[k], open(w)) BY <3>3
      <4> HIDE DEF i, w, x, open
      <4>4. f[i] = f[k] \o seqs[i] /\ Sequence(f[k]) BY <3>1, <4>1
      <4>5. Sequence(seqs[i]) /\ Leads(open(w), seqs[i], open(x))
        BY <1>4, <4>1, <4>2, QuotedAtom DEF open
      <4>6. Leads(open(<<>>), f[i], open(x)) BY <4>3, <4>4, <4>5, LeadsJoin
      <4> QED BY <4>1, <4>6 DEF i, x
    <3> HIDE DEF S
    <3>4. \A k \in Nat : k < n /\ k \in S => k + 1 \in S BY <3>3
    <3>5. \A k \in 0..n : k \in S BY <1>1, <3>2, <3>4, UpTo
    <3>6. n \in S BY <1>1, <3>5
    <3> QED BY <1>6, <3>1, <3>6 DEF S
  <2> QED BY <2>1, <2>2
<1> DEFINE s == At(FALSE, FALSE, <<>>, words)
           t == At(FALSE, TRUE, word, words)
           text == FlattenSeq(seqs)
<1>8. Leads(s, q, open(<<>>)) /\ Leads(open(word), q, t) /\ Sequence(q)
  <2>1. ReadAtom(s, "'") = open(<<>>) /\ ReadAtom(open(word), "'") = t BY DEF At, ReadAtom
  <2> HIDE DEF s, t, open
  <2> QED BY <2>1, LeadsOne, FewWords
<1> HIDE DEF s, t, open, q, text
<1>9. Leads(open(<<>>), text, open(word)) /\ Sequence(text) BY <1>5, <1>7 DEF text
<1>10. Leads(s, q \o text, open(word)) /\ Sequence(q \o text) BY <1>8, <1>9, LeadsJoin, JoinFacts
<1>11. Leads(s, (q \o text) \o q, t) BY <1>8, <1>10, LeadsJoin
<1> QED BY <1>3, <1>11 DEF s, t, text

\* A text that begins behind a blank and, with a blank behind it, adds words.
Fresh(words) == At(FALSE, FALSE, <<>>, words)
Adds(text, before, after) ==
  /\ Sequence(text) /\ Sequence(before)
  /\ \E t : Leads(Fresh(before), text, t) /\ ReadAtom(t, " ") = Fresh(after)

\* The atoms that are not read as they stand.
Special == {"'", "\\'", " "}

\* A quoted word is read as that word, whatever it contains.
LEMMA AddsQuoted ==
  ASSUME NEW word, Sequence(word), NEW before, Sequence(before)
  PROVE  Adds(ShellQuote(word), before, Append(before, word))
<1> DEFINE t == At(FALSE, TRUE, word, before)
<1>1. ReadAtom(t, " ") = Fresh(Append(before, word)) BY DEF ReadAtom, At, Fresh
<1>2. Leads(Fresh(before), ShellQuote(word), t) BY QuotedWord DEF Fresh
<1> HIDE DEF t
<1> QED BY <1>1, <1>2, ShellQuoteType DEF Adds

\* An atom that means nothing else is taken into a word.
LEMMA PlainAtom ==
  ASSUME NEW a, a \notin Special, NEW begun \in BOOLEAN, NEW word, NEW words
  PROVE  ReadAtom(At(FALSE, begun, word, words), a) = At(FALSE, TRUE, Append(word, a), words)
<1>1. a # "'" /\ a # "\\'" /\ a # " " BY DEF Special
<1> QED BY <1>1 DEF ReadAtom, At

\* A word of two plain atoms is read as it stands.
LEMMA AddsPlainTwo ==
  ASSUME NEW a, a \notin Special, NEW b, b \notin Special, NEW before, Sequence(before)
  PROVE  Adds(<<a, b>>, before, Append(before, <<a, b>>))
<1> DEFINE s == At(FALSE, TRUE, <<a>>, before)
           t == At(FALSE, TRUE, <<a, b>>, before)
           u == <<a>>
           v == <<b>>
<1>1. ReadAtom(t, " ") = Fresh(Append(before, <<a, b>>)) BY DEF ReadAtom, At, Fresh
<1>2. ReadAtom(Fresh(before), a) = s
  <2>1. Append(<<>>, a) = <<a>> OBVIOUS
  <2>2. ReadAtom(At(FALSE, FALSE, <<>>, before), a) = At(FALSE, TRUE, Append(<<>>, a), before)
    BY PlainAtom
  <2> QED BY <2>1, <2>2 DEF Fresh
<1>3. ReadAtom(s, b) = t
  <2>1. Append(<<a>>, b) = <<a, b>>
    <3> HIDE DEF s, t, u, v
    <3> DEFINE w == <<a>>
    <3>1. w \o <<b>> = <<a, b>> BY TwoWords
    <3>2. Sequence(w) BY FewWords
    <3> HIDE DEF w
    <3>3. w \o <<b>> = Append(w, b) BY <3>2, AppendJoins
    <3>4. Append(w, b) = <<a, b>> BY <3>1, <3>3
    <3> QED BY <3>4 DEF w
  <2>2. ReadAtom(s, b) = At(FALSE, TRUE, Append(<<a>>, b), before) BY PlainAtom
  <2> QED BY <2>1, <2>2
<1> HIDE DEF s, t
<1>4. Leads(Fresh(before), u, s) /\ Leads(s, v, t) BY <1>2, <1>3, LeadsOne
<1>5. Sequence(u) /\ Sequence(v) BY FewWords
<1>6. u \o v = <<a, b>> BY TwoWords
<1> HIDE DEF u, v
<1>7. Leads(Fresh(before), u \o v, t) BY <1>4, <1>5, LeadsJoin
<1> QED BY <1>1, <1>6, <1>7, FewWords DEF Adds

\* Texts with a blank between.
LEMMA AddsBoth ==
  ASSUME NEW u, NEW v, NEW a, NEW b, NEW c, Adds(u, a, b), Adds(v, b, c)
  PROVE  Adds(u \o (<<" ">> \o v), a, c)
<1> DEFINE blank == <<" ">>
<1>1. PICK t : Leads(Fresh(a), u, t) /\ ReadAtom(t, " ") = Fresh(b) BY DEF Adds
<1>2. PICK x : Leads(Fresh(b), v, x) /\ ReadAtom(x, " ") = Fresh(c) BY DEF Adds
<1>3. Sequence(u) /\ Sequence(v) /\ Sequence(a) BY DEF Adds
<1>4. Leads(t, blank, Fresh(b)) BY <1>1, LeadsOne
<1>5. Sequence(blank) BY FewWords
<1> HIDE DEF blank
<1>6. Leads(t, blank \o v, x) /\ Sequence(blank \o v) BY <1>2, <1>3, <1>4, <1>5, LeadsJoin, JoinFacts
<1> DEFINE w == blank \o v
<1> HIDE DEF w
<1>7. Leads(t, w, x) /\ Sequence(w) BY <1>6 DEF w
<1>8. Leads(Fresh(a), u \o w, x) /\ Sequence(u \o w) BY <1>1, <1>3, <1>7, LeadsJoin, JoinFacts
<1>9. Adds(u \o w, a, c) BY <1>2, <1>3, <1>8 DEF Adds
<1> QED BY <1>9 DEF w, blank

\* What a text adds is what it is read as.
LEMMA AddsAll == ASSUME NEW text, NEW words, Adds(text, <<>>, words) PROVE ShellWords(text) = words
<1>1. PICK t : Leads(Fresh(<<>>), text, t) /\ ReadAtom(t, " ") = Fresh(words) BY DEF Adds
<1>2. Fresh(<<>>) = Start BY DEF Fresh, Start
<1>3. ShellWords(text) = ReadAtom(t, " ").words BY <1>1, <1>2, WordsRead DEF Adds
<1>4. Fresh(words).words = words BY DEF Fresh, At
<1> QED BY <1>1, <1>3, <1>4

\* Quoted words that are joined are read as they were.
LEMMA AddsJoined ==
  ASSUME NEW words, WordList(words), Len(words) # 0, NEW before, Sequence(before)
  PROVE  Adds(Join([i \in 1..Len(words) |-> ShellQuote(words[i])]), before, before \o words)
<1> DEFINE n == Len(words)
           quoted == [i \in 1..n |-> ShellQuote(words[i])]
           seqs == [i \in 1..Len(quoted) |-> IF i = 1 THEN quoted[i] ELSE <<" ">> \o quoted[i]]
<1>1. n \in Nat /\ Sequence(words) /\ \A i \in 1..n : Sequence(words[i]) BY DEF WordList, Sequence
<1>2. WordList(quoted) /\ Len(quoted) = n
  <2>1. quoted = [i \in 1..n |-> quoted[i]] OBVIOUS
  <2>2. \A i \in 1..n : quoted[i] = ShellQuote(words[i]) OBVIOUS
  <2> HIDE DEF quoted, n
  <2>3. \A i \in 1..n : Sequence(quoted[i]) BY <1>1, <2>2, ShellQuoteType
  <2> QED BY <1>1, <2>1, <2>3, MapWords
<1>3. \A i \in 1..n : quoted[i] = ShellQuote(words[i]) OBVIOUS
<1>4. Join(quoted) = FlattenSeq(seqs) BY DEF Join
<1> HIDE DEF quoted, n
<1>5. \A i \in 1..n : seqs[i] = IF i = 1 THEN quoted[i] ELSE <<" ">> \o quoted[i] BY <1>2
<1>6. WordList(seqs) /\ Len(seqs) = n
  <2>1. seqs = [i \in 1..n |-> seqs[i]] BY <1>2
  <2>2. \A i \in 1..n : Sequence(<<" ">> \o quoted[i]) /\ Sequence(quoted[i])
    BY <1>2, FewWords, JoinFacts DEF WordList
  <2> HIDE DEF seqs
  <2>3. \A i \in 1..n : Sequence(seqs[i]) BY <1>5, <2>2
  <2> QED BY <1>1, <2>1, <2>3, MapWords
<1> HIDE DEF seqs
<1>7. PICK f : /\ f[1] = seqs[1] /\ FlattenSeq(seqs) = f[n]
               /\ \A i \in 1..n : f[i] = f[i - 1] \o seqs[i]
  <2>1. Len(seqs) # 0 BY <1>6 DEF n
  <2> QED BY <1>6, <2>1, FlattenBySteps
<1> DEFINE b(k) == before \o SubSeq(words, 1, k)
<1>8. /\ b(0) = before /\ b(n) = before \o words
      /\ \A k \in 0..n - 1 : Sequence(b(k)) /\ b(k + 1) = Append(b(k), words[k + 1])
  <2>1. b(0) = before /\ b(n) = before \o words BY PrefixGrows, NothingAdded DEF n
  <2>2. ASSUME NEW k \in 0..n - 1 PROVE Sequence(b(k)) /\ b(k + 1) = Append(b(k), words[k + 1])
    <3> DEFINE p == SubSeq(words, 1, k)
               e == words[k + 1]
    <3>1. k \in Nat /\ k < n BY <1>1
    <3>2. Sequence(p) /\ SubSeq(words, 1, k + 1) = Append(p, e) BY <1>1, <3>1, PrefixGrows DEF n
    <3> HIDE DEF p, e
    <3>3. Sequence(before \o p) BY <3>2, JoinFacts
    <3>4. Sequence(<<e>>) BY FewWords
    <3>5. (before \o p) \o <<e>> = before \o (p \o <<e>>) BY <3>2, <3>4, JoinAssociates
    <3>6. Append(p, e) = p \o <<e>> /\ Append(before \o p, e) = (before \o p) \o <<e>>
      BY <3>2, <3>3, AppendJoins
    <3>7. b(k + 1) = before \o Append(p, e) BY <3>2
    <3>8. b(k) = before \o p BY DEF p
    <3> HIDE DEF b
    <3> QED BY <3>3, <3>5, <3>6, <3>7, <3>8 DEF e
  <2> QED BY <2>1, <2>2
<1> HIDE DEF b
<1> DEFINE S == {k \in 0..n : k = 0 \/ Adds(f[k], before, b(k))}
<1>9. 0 \in S BY <1>1
<1>10. ASSUME NEW k \in Nat, k < n, k \in S PROVE k + 1 \in S
  <2> DEFINE i == k + 1
             e == words[i]
  <2>1. i \in 1..n /\ i \in 0..n /\ k \in 0..n - 1 /\ i - 1 = k BY <1>1, <1>10
  <2>2. Sequence(b(k)) /\ b(i) = Append(b(k), e) BY <1>8, <2>1
  <2> HIDE DEF i, e
  <2>3. quoted[i] = ShellQuote(e) /\ Sequence(e) BY <1>1, <1>3, <2>1 DEF e
  <2>4. Adds(quoted[i], b(k), b(i)) BY <2>2, <2>3, AddsQuoted
  <2>5. CASE k = 0
    <3>1. i = 1 BY <2>5 DEF i
    <3>2. f[1] = seqs[1] /\ seqs[1] = quoted[1] BY <1>5, <1>7, <2>1, <3>1
    <3>3. b(k) = before BY <1>8, <2>5
    <3>4. Adds(f[i], before, b(i)) BY <2>4, <3>1, <3>2, <3>3
    <3> QED BY <2>1, <3>4 DEF i
  <2>6. CASE k # 0
    <3>1. i # 1 BY <1>10, <2>6 DEF i
    <3>2. Adds(f[k], before, b(k)) BY <1>10, <2>6
    <3>3. f[i] = f[k] \o (<<" ">> \o quoted[i]) BY <1>5, <1>7, <2>1, <3>1
    <3>4. Adds(f[i], before, b(i)) BY <2>4, <3>2, <3>3, AddsBoth
    <3> QED BY <2>1, <3>4 DEF i
  <2> QED BY <2>5, <2>6
<1> HIDE DEF S
<1>11. \A k \in Nat : k < n /\ k \in S => k + 1 \in S BY <1>10
<1>12. \A k \in 0..n : k \in S BY <1>1, <1>9, <1>11, UpTo
<1>13. n \in S /\ n # 0 BY <1>1, <1>12 DEF n
<1>14. Adds(f[n], before, b(n)) BY <1>13 DEF S
<1> QED BY <1>4, <1>7, <1>8, <1>14 DEF quoted, n

\* The options that mosh takes a value with.
MoshTakes == MoshTakesArg \union {"-c"}

\* What mosh takes from position i on, when a and b are what it takes from the next
\* two positions.
Taken(args, i, a, b) ==
  IF i > Len(args) THEN <<>>
  ELSE IF args[i] = W("--") THEN TailOf(args, i)
  ELSE IF ~Dashed(args[i]) THEN <<args[i]>> \o a
  ELSE IF Takes(args[i], MoshTakes) THEN b ELSE a

\* MoshOperands is built so: the recursive function of its definition exists.
LEMMA OperandSteps ==
  ASSUME NEW args, Sequence(args)
  PROVE  \E f : /\ MoshOperands(args) = f[1]
                /\ \A i \in 1..Len(args) + 2 : f[i] = Taken(args, i, f[i + 1], f[i + 2])
<1> DEFINE L == Len(args)
           n == L + 2
           A == ToSet(args)
           V == Seq(A) \X Seq(A)
           next == [k \in 1..n |-> [p \in V |-> <<Taken(args, n + 1 - k, p[1], p[2]), p[1]>>]]
           Body(h) == [i \in 1..n |->
                         IF i > L THEN <<>>
                         ELSE IF args[i] = W("--") THEN TailOf(args, i)
                         ELSE IF ~Dashed(args[i]) THEN <<args[i]>> \o h[i + 1]
                         ELSE h[i + (IF Takes(args[i], MoshTakesArg \union {"-c"}) THEN 2 ELSE 1)]]
           h == CHOOSE x : x = Body(x)
<1>1. MoshOperands(args) = h[1] BY DEF MoshOperands
<1>2. args \in Seq(A) /\ L \in Nat /\ n \in Nat BY DEF Sequence
<1> HIDE DEF h, A
<1>3. ASSUME NEW i \in 1..n, NEW a \in Seq(A), NEW b \in Seq(A)
      PROVE  Taken(args, i, a, b) \in Seq(A)
  <2>1. <<>> \in Seq(A) OBVIOUS
  <2>2. CASE i > L BY <2>1, <2>2 DEF Taken
  <2>3. CASE ~(i > L)
    <3>1. i \in 1..L BY <1>2, <2>3
    <3>2. TailOf(args, i) \in Seq(A) BY <1>2, <3>1 DEF TailOf
    <3>3. <<args[i]>> \o a \in Seq(A) BY <1>2, <3>1
    <3> HIDE DEF L, n
    <3> QED BY <1>3, <2>3, <3>2, <3>3 DEF Taken, L
  <2> QED BY <2>2, <2>3
<1>4. next \in [1..n -> [V -> V]]
  <2>1. ASSUME NEW k \in 1..n, NEW p \in V
        PROVE  <<Taken(args, n + 1 - k, p[1], p[2]), p[1]>> \in V
    <3>1. p[1] \in Seq(A) /\ p[2] \in Seq(A) BY <2>1
    <3>2. n + 1 - k \in 1..n BY <1>2
    <3> QED BY <1>3, <3>1, <3>2
  <2> HIDE DEF V
  <2> QED BY <2>1
<1>5. \A k \in 1..n, p \in V : next[k][p] = <<Taken(args, n + 1 - k, p[1], p[2]), p[1]>>
  <2> DEFINE value(k, p) == <<Taken(args, n + 1 - k, p[1], p[2]), p[1]>>
  <2>1. next = [k \in 1..n |-> [p \in V |-> value(k, p)]] OBVIOUS
  <2> HIDE DEF next, V, value
  <2>2. \A k \in 1..n, p \in V : next[k][p] = value(k, p) BY <2>1
  <2> QED BY <2>2 DEF value
<1>6. <<<<>>, <<>>>> \in V
  <2>1. <<>> \in Seq(A) OBVIOUS
  <2> DEFINE S == Seq(A)
             none == <<>>
  <2> HIDE DEF S, none
  <2>2. none \in S BY <2>1 DEF S, none
  <2>3. <<none, none>> \in S \X S BY <2>2
  <2> QED BY <2>3 DEF S, none
<1> HIDE DEF next, n
<1>7. PICK g \in [0..n -> V] : Built(g, <<<<>>, <<>>>>, next, n)
  <2> DEFINE v == <<<<>>, <<>>>>
  <2> HIDE DEF V, v
  <2>1. v \in V BY <1>6 DEF v
  <2>2. \E g \in [0..n -> V] : Built(g, v, next, n) BY <1>2, <1>4, <2>1, Iterates
  <2> QED BY <2>2 DEF v
<1> HIDE DEF V
<1>8. \A k \in 1..n : /\ g[k][1] = Taken(args, n + 1 - k, g[k - 1][1], g[k - 1][2])
                      /\ g[k][2] = g[k - 1][1]
  <2> TAKE k \in 1..n
  <2>1. k - 1 \in 0..n BY <1>2
  <2>2. g[k - 1] \in V BY <1>7, <2>1
  <2>3. g[k] = next[k][g[k - 1]] BY <1>7 DEF Built
  <2>4. g[k] = <<Taken(args, n + 1 - k, g[k - 1][1], g[k - 1][2]), g[k - 1][1]>>
    BY <1>5, <2>2, <2>3
  <2> QED BY <2>4
<1> DEFINE f == [i \in 1..n + 2 |-> IF i <= n THEN g[n + 1 - i][1] ELSE <<>>]
<1>9. \A i \in 1..n : f[i] = Taken(args, i, f[i + 1], f[i + 2])
  <2>1. \A i \in 1..n + 2 : f[i] = IF i <= n THEN g[n + 1 - i][1] ELSE <<>> OBVIOUS
  <2> HIDE DEF f
  <2> TAKE i \in 1..n
  <2> DEFINE k == n + 1 - i
  <2>2. k \in 1..n /\ n + 1 - k = i /\ i <= n /\ i \in 1..n + 2 BY <1>2
  <2>3. f[i] = g[k][1] BY <2>1, <2>2
  <2>4. CASE i > L
    <3>1. \A a, b : Taken(args, i, a, b) = <<>> BY <2>4 DEF Taken
    <3> HIDE DEF k
    <3>2. g[k][1] = <<>> BY <1>8, <2>2, <3>1
    <3> QED BY <2>3, <3>1, <3>2
  <2>5. CASE ~(i > L)
    <3>1. /\ k - 1 \in 1..n /\ k - 1 = n + 1 - (i + 1) /\ i + 1 <= n /\ i + 1 \in 1..n + 2
          /\ k - 1 - 1 = n + 1 - (i + 2) /\ i + 2 <= n /\ i + 2 \in 1..n + 2
      BY <1>2, <2>2, <2>5 DEF n
    <3> HIDE DEF k
    <3>2. f[i + 1] = g[k - 1][1] BY <2>1, <3>1
    <3>3. f[i + 2] = g[k - 1 - 1][1] BY <2>1, <3>1
    <3> DEFINE j == k - 1
    <3>4. j \in 1..n BY <3>1
    <3> HIDE DEF j
    <3>5. g[j][2] = g[j - 1][1] BY <1>8, <3>4
    <3>6. f[i + 2] = g[k - 1][2] BY <3>3, <3>5 DEF j
    <3>7. g[k][1] = Taken(args, n + 1 - k, g[k - 1][1], g[k - 1][2]) BY <1>8, <2>2
    <3> QED BY <2>2, <2>3, <3>2, <3>6, <3>7
  <2> QED BY <2>4, <2>5
<1> HIDE DEF f
<1>10. \A i, a, b : Taken(args, i, a, b) =
          IF i > L THEN <<>>
          ELSE IF args[i] = W("--") THEN TailOf(args, i)
          ELSE IF ~Dashed(args[i]) THEN <<args[i]>> \o a
          ELSE IF Takes(args[i], MoshTakesArg \union {"-c"}) THEN b ELSE a
  BY DEF Taken, MoshTakes
<1>11. \E x : x = Body(x)
  <2> DEFINE x == [i \in 1..n |-> f[i]]
  <2>1. \A i \in 1..n : x[i] = f[i] OBVIOUS
  <2>2. x = [i \in 1..n |-> x[i]] OBVIOUS
  <2> HIDE DEF x
  <2>3. \A i \in 1..n : ~(i > L) => i + 1 \in 1..n /\ i + 2 \in 1..n BY <1>2 DEF n
  <2>4. \A i \in 1..n : x[i] =
          IF i > L THEN <<>>
          ELSE IF args[i] = W("--") THEN TailOf(args, i)
          ELSE IF ~Dashed(args[i]) THEN <<args[i]>> \o x[i + 1]
          ELSE x[i + (IF Takes(args[i], MoshTakesArg \union {"-c"}) THEN 2 ELSE 1)]
    <3> TAKE i \in 1..n
    <3> DEFINE c == Takes(args[i], MoshTakesArg \union {"-c"})
    <3>1. f[i] = IF i > L THEN <<>>
                 ELSE IF args[i] = W("--") THEN TailOf(args, i)
                 ELSE IF ~Dashed(args[i]) THEN <<args[i]>> \o f[i + 1]
                 ELSE IF c THEN f[i + 2] ELSE f[i + 1]
      <4> DEFINE a == f[i + 1]
                 b == f[i + 2]
      <4>1. f[i] = Taken(args, i, a, b) BY <1>9
      <4> HIDE DEF a, b
      <4>2. f[i] = IF i > L THEN <<>>
                   ELSE IF args[i] = W("--") THEN TailOf(args, i)
                   ELSE IF ~Dashed(args[i]) THEN <<args[i]>> \o a
                   ELSE IF c THEN b ELSE a
        BY <4>1 DEF Taken, MoshTakes
      <4> QED BY <4>2 DEF a, b
    <3> HIDE DEF c
    <3>2. ~(i > L) => x[i + 1] = f[i + 1] /\ x[i + 2] = f[i + 2] BY <2>1, <2>3
    <3>3. x[i] = f[i] BY <2>1
    <3>4. x[i + (IF c THEN 2 ELSE 1)] = IF c THEN x[i + 2] ELSE x[i + 1] OBVIOUS
    <3>5. x[i] = IF i > L THEN <<>>
                 ELSE IF args[i] = W("--") THEN TailOf(args, i)
                 ELSE IF ~Dashed(args[i]) THEN <<args[i]>> \o x[i + 1]
                 ELSE x[i + (IF c THEN 2 ELSE 1)]
      BY <3>1, <3>2, <3>3, <3>4
    <3> QED BY <3>5 DEF c
  <2>5. [i \in 1..n |-> x[i]] = Body(x) BY <2>4
  <2>6. x = Body(x) BY <2>2, <2>5
  <2> QED BY <2>6
<1>12. h = Body(h)
  <2> HIDE DEF Body
  <2> QED BY <1>11 DEF h
<1>13. \A i \in 1..n : h[i] =
          IF i > L THEN <<>>
          ELSE IF args[i] = W("--") THEN TailOf(args, i)
          ELSE IF ~Dashed(args[i]) THEN <<args[i]>> \o h[i + 1]
          ELSE h[i + (IF Takes(args[i], MoshTakesArg \union {"-c"}) THEN 2 ELSE 1)]
  BY <1>12
<1> HIDE DEF Body
<1>14. \A i \in 1..n : h[i] = Taken(args, i, h[i + 1], h[i + 2])
  <2> TAKE i \in 1..n
  <2> DEFINE c == Takes(args[i], MoshTakesArg \union {"-c"})
  <2>1. h[i] = IF i > L THEN <<>>
               ELSE IF args[i] = W("--") THEN TailOf(args, i)
               ELSE IF ~Dashed(args[i]) THEN <<args[i]>> \o h[i + 1]
               ELSE h[i + (IF c THEN 2 ELSE 1)]
    BY <1>13
  <2>2. Taken(args, i, h[i + 1], h[i + 2]) =
               IF i > L THEN <<>>
               ELSE IF args[i] = W("--") THEN TailOf(args, i)
               ELSE IF ~Dashed(args[i]) THEN <<args[i]>> \o h[i + 1]
               ELSE IF c THEN h[i + 2] ELSE h[i + 1]
    BY <1>10
  <2> HIDE DEF c
  <2>3. h[i + (IF c THEN 2 ELSE 1)] = IF c THEN h[i + 2] ELSE h[i + 1] OBVIOUS
  <2> QED BY <2>1, <2>2, <2>3
<1> QED BY <1>1, <1>14 DEF n, L

\* What stands behind "--" and two options that take nothing.
LEMMA OperandsAfter ==
  ASSUME NEW args, Sequence(args), Len(args) >= 3,
         Dashed(args[1]), args[1] # W("--"), ~Takes(args[1], MoshTakes),
         Dashed(args[2]), args[2] # W("--"), ~Takes(args[2], MoshTakes), args[3] = W("--")
  PROVE  MoshOperands(args) = TailOf(args, 3)
<1>1. PICK f : /\ MoshOperands(args) = f[1]
               /\ \A i \in 1..Len(args) + 2 : f[i] = Taken(args, i, f[i + 1], f[i + 2])
  BY OperandSteps
<1>2. Len(args) \in Nat BY DEF Sequence
<1>3. /\ 1 \in 1..Len(args) + 2 /\ 2 \in 1..Len(args) + 2 /\ 3 \in 1..Len(args) + 2
      /\ ~(1 > Len(args)) /\ ~(2 > Len(args)) /\ ~(3 > Len(args))
  BY <1>2
<1>4. f[1] = f[1 + 1]
  <2>1. \A a, b : Taken(args, 1, a, b) = a BY <1>3 DEF Taken
  <2> QED BY <1>1, <1>3, <2>1
<1>5. f[2] = f[2 + 1]
  <2>1. \A a, b : Taken(args, 2, a, b) = a BY <1>3 DEF Taken
  <2> QED BY <1>1, <1>3, <2>1
<1>6. f[3] = TailOf(args, 3)
  <2>1. \A a, b : Taken(args, 3, a, b) = TailOf(args, 3) BY <1>3 DEF Taken
  <2> QED BY <1>1, <1>3, <2>1
<1> QED BY <1>1, <1>4, <1>5, <1>6

\* The words mosh is given for itself, the text of --ssh among them.
MoshFlags(text) == <<W("--no-ssh-pty"), text>>
MoshLine(text, rest) == MoshFlags(text) \o rest

\* Where the words that follow the flags stand.
LEMMA FlagsBefore ==
  ASSUME NEW text, NEW rest, Sequence(rest)
  PROVE  LET line == MoshLine(text, rest)
         IN  /\ Sequence(line) /\ Len(line) = 2 + Len(rest) /\ Len(rest) \in Nat
             /\ line[1] = W("--no-ssh-pty") /\ line[2] = text
             /\ \A i \in 1..Len(rest), j \in Nat : j = 2 + i => line[j] = rest[i]
<1> DEFINE flags == MoshFlags(text)
           line  == flags \o rest
<1>1. /\ Sequence(flags) /\ Len(flags) = 2 /\ flags[1] = W("--no-ssh-pty") /\ flags[2] = text
  BY FewWords DEF MoshFlags
<1> HIDE DEF flags
<1>2. /\ Sequence(line) /\ Len(line) = Len(flags) + Len(rest) /\ Len(rest) \in Nat
      /\ \A i \in 1..Len(flags) : line[i] = flags[i]
      /\ \A i \in 1..Len(rest) : line[Len(flags) + i] = rest[i]
  <2>1. Sequence(flags) BY <1>1
  <2> QED BY <2>1, JoinFacts
<1> HIDE DEF line
<1>3. 1 \in 1..Len(flags) /\ 2 \in 1..Len(flags) BY <1>1
<1>4. /\ Sequence(line) /\ Len(line) = 2 + Len(rest) /\ Len(rest) \in Nat
      /\ line[1] = W("--no-ssh-pty") /\ line[2] = text
      /\ \A i \in 1..Len(rest), j \in Nat : j = 2 + i => line[j] = rest[i]
  BY <1>1, <1>2, <1>3
<1> QED BY <1>4 DEF line, flags, MoshLine

\* The first --ssh= of such a line is the second word.
LEMMA SSHFlagSecond ==
  ASSUME NEW text, text[1] = "--ssh=", NEW rest, Sequence(rest)
  PROVE  SelectInSeq(MoshLine(text, rest), LAMBDA word : word[1] = "--ssh=") = 2
<1> DEFINE args == MoshLine(text, rest)
           I == {i \in 1..Len(args) : args[i][1] = "--ssh="}
<1>2. /\ Len(args) = 2 + Len(rest) /\ Len(rest) \in Nat
      /\ args[1] = W("--no-ssh-pty") /\ args[2] = text
  BY FlagsBefore
<1>3. SelectInSeq(args, LAMBDA word : word[1] = "--ssh=") = IF I # {} THEN Min(I) ELSE 0
  BY DEF SelectInSeq
<1> HIDE DEF args
<1>4. args[1][1] # "--ssh="
  <2>1. W("--no-ssh-pty")[1] = "--no-ssh-pty" BY DEF W
  <2> QED BY <1>2, <2>1
<1>5. 2 \in I /\ \A i \in I : i \in Nat /\ 2 <= i
  <2>1. 2 \in I BY <1>2
  <2>2. \A i \in I : i # 1 BY <1>4
  <2>3. \A i \in I : i \in 1..Len(args) OBVIOUS
  <2> HIDE DEF I
  <2>4. \A i \in I : i \in Nat /\ 2 <= i BY <1>2, <2>2, <2>3
  <2> QED BY <2>1, <2>4
<1> HIDE DEF I
<1>6. Min(I) = 2
  <2>1. \E i \in I : \A j \in I : i <= j BY <1>5
  <2>2. Min(I) \in I /\ \A j \in I : Min(I) <= j BY <2>1 DEF Min
  <2> QED BY <1>5, <2>2
<1>7. I # {} BY <1>5
<1>8. SelectInSeq(args, LAMBDA word : word[1] = "--ssh=") = 2 BY <1>3, <1>6, <1>7
<1> QED BY <1>8 DEF args

\* What mosh-probe adds behind the text of --ssh.
ControlOption == <<" ", "-o", " ">> \o ControlPath

\* withMoshSSHControlPath of such a line.
LEMMA ControlPathAdded ==
  ASSUME NEW text, text[1] = "--ssh=", NEW rest, Sequence(rest)
  PROVE  WithMoshControlPath(MoshLine(text, rest)) = MoshLine(text \o ControlOption, rest)
<1> DEFINE args == MoshLine(text, rest)
           x    == text \o ControlOption
           more == MoshLine(x, rest)
           new  == [args EXCEPT ![2] = x]
<1>3. /\ Sequence(args) /\ Len(args) = 2 + Len(rest) /\ Len(rest) \in Nat
      /\ args[1] = W("--no-ssh-pty") /\ args[2] = text
      /\ \A i \in 1..Len(rest), j \in Nat : j = 2 + i => args[j] = rest[i]
  BY FlagsBefore
<1>4. /\ Sequence(more) /\ Len(more) = 2 + Len(rest)
      /\ more[1] = W("--no-ssh-pty") /\ more[2] = x
      /\ \A i \in 1..Len(rest), j \in Nat : j = 2 + i => more[j] = rest[i]
  <2> HIDE DEF x
  <2> QED BY FlagsBefore
<1> DEFINE first == SelectInSeq(args, LAMBDA word : word[1] = "--ssh=")
<1>5. first = 2 BY SSHFlagSecond
<1>6. WithMoshControlPath(args) = IF first = 0 THEN <<<<"--ssh=", "ssh">> \o ControlOption>> \o args
                                  ELSE [args EXCEPT ![first] = @ \o ControlOption]
  BY DEF WithMoshControlPath, ControlOption
<1> HIDE DEF args, more, first
<1>7. WithMoshControlPath(args) = new BY <1>3, <1>5, <1>6
<1> HIDE DEF x
<1>8. Sequence(new) /\ Len(new) = Len(args)
  <2> DEFINE A == ToSet(args)
             T == A \union {x}
  <2>1. args \in Seq(A) BY <1>3 DEF Sequence
  <2>2. A \subseteq T /\ x \in T OBVIOUS
  <2> HIDE DEF A, T
  <2>3. args \in Seq(T) BY <2>1, <2>2
  <2> DEFINE n == Len(args)
  <2>5. n \in Nat /\ args \in [1..n -> T] BY <2>3
  <2>6. new \in [1..n -> T] BY <2>2, <2>5
  <2> HIDE DEF n, new
  <2>7. new \in Seq(T) /\ Len(new) = n BY <2>5, <2>6
  <2>4. new \in Seq(T) /\ Len(new) = Len(args) BY <2>7 DEF n
  <2> HIDE DEF new
  <2> QED BY <2>4, AnySequence
<1>9. DOMAIN args = 1..Len(args) BY <1>3 DEF Sequence
<1>10. new[2] = x /\ \A i \in 1..Len(args) : i # 2 => new[i] = args[i] BY <1>3, <1>9
<1> HIDE DEF new
<1>11. \A i \in 1..Len(args) : new[i] = more[i]
  <2> TAKE i \in 1..Len(args)
  <2>1. CASE i = 1 BY <1>3, <1>4, <1>10, <2>1
  <2>2. CASE i = 2 BY <1>4, <1>10, <2>2
  <2>3. CASE i # 1 /\ i # 2
    <3> DEFINE j == i - 2
    <3>1. j \in 1..Len(rest) /\ i = 2 + j /\ i \in Nat BY <1>3, <2>3
    <3> HIDE DEF j
    <3> QED BY <1>3, <1>4, <1>10, <2>3, <3>1
  <2> QED BY <2>1, <2>2, <2>3
<1>12. new = more BY <1>3, <1>4, <1>8, <1>11, SameSequence
<1> QED BY <1>7, <1>12 DEF args, more, x

\* What a mosh session runs, and the words withRemoteEnvMosh makes of it.
TypedScript == IF Command = <<>> THEN <<>> ELSE <<W("sh"), W("-c"), Join(Command)>>
MoshWords == MoshCommand(TypedScript, request.agent)

\* The destination and the command that mosh is asked for.
LEMMA MoshWrappedIs ==
  ASSUME Fit, mode = "mosh"
  PROVE  MoshWrapped = <<W("--"), Host>> \o MoshWords
<1> DEFINE host == <<Host>>
           typed_ == TypedScript
<1>1. NativeArgs = host \o typed_ BY DEF NativeArgs, NativeArgsFor, TypedScript
<1>2. Sequence(host) /\ Len(host) = 1 /\ host[1] = Host BY FewWords
<1>3. Sequence(typed_)
  <2>1. Sequence(<<>>) BY FewWords
  <2>2. Sequence(<<W("sh"), W("-c"), Join(Command)>>)
    <3>1. <<W("sh"), W("-c"), Join(Command)>> \in Seq({W("sh"), W("-c"), Join(Command)}) OBVIOUS
    <3> QED BY <3>1, AnySequence
  <2> QED BY <2>1, <2>2 DEF TypedScript
<1> HIDE DEF host, typed_
<1> DEFINE args == host \o typed_
<1>4. /\ Sequence(args) /\ Len(args) = 1 + Len(typed_) /\ Len(typed_) \in Nat
      /\ args[1] = Host
  <2>1. /\ Sequence(args) /\ Len(args) = Len(host) + Len(typed_) /\ Len(typed_) \in Nat
        /\ \A i \in 1..Len(host) : args[i] = host[i]
    BY <1>2, <1>3, JoinFacts
  <2> HIDE DEF args
  <2>2. 1 \in 1..Len(host) BY <1>2
  <2> QED BY <1>2, <2>1, <2>2
<1>5. TailOf(args, 1) = typed_ BY <1>2, <1>3, Cut
<1> HIDE DEF args
<1>6. HostIndex(args, MoshTakesArg) = 1
  <2> DEFINE none == <<>>
  <2>1. Options(none, MoshTakesArg) /\ Len(none) = 0 /\ none \o args = args
    BY <1>4, NoOptions, NothingAdded
  <2> HIDE DEF none
  <2>2. args # <<>> BY <1>4
  <2>3. ~Dashed(args[1]) BY <1>4, FitFacts
  <2>4. HostIndex(none \o args, MoshTakesArg) = Len(none) + 1 BY <1>4, <2>1, <2>2, <2>3, HostAfterOptions
  <2> QED BY <2>1, <2>4
<1>7. HeadOf(args, 0) = <<>> BY <1>4 DEF HeadOf, Sequence
<1> DEFINE at   == HostIndex(NativeArgs, MoshTakesArg)
           head == HeadOf(NativeArgs, at - 1)
           pre  == IF head # <<>> /\ Last(head) = W("--") THEN Front(head) ELSE head
<1>8. MoshWrapped = (pre \o <<W("--"), NativeArgs[at]>>) \o MoshCommand(TailOf(NativeArgs, at), request.agent)
  BY DEF MoshWrapped
<1>9. at = 1 /\ NativeArgs = args BY <1>1, <1>6 DEF args
<1> HIDE DEF at
<1>10. pre = <<>>
  <2>1. head = <<>> BY <1>7, <1>9
  <2> HIDE DEF head
  <2> QED BY <2>1
<1> HIDE DEF pre
<1>11. MoshCommand(TailOf(NativeArgs, at), request.agent) = MoshWords
  BY <1>5, <1>9 DEF MoshWords, typed_
<1>12. NativeArgs[at] = Host BY <1>4, <1>9
<1> DEFINE two == <<W("--"), Host>>
<1>13. Sequence(two) BY FewWords
<1> HIDE DEF two
<1>14. <<>> \o two = two BY <1>13, NothingAdded
<1> QED BY <1>8, <1>10, <1>11, <1>12, <1>14 DEF two

\* The first element of two sequences is that of the first.
LEMMA JoinStarts ==
  ASSUME NEW a, NEW b, Sequence(a), Sequence(b), Len(a) # 0
  PROVE  (a \o b)[1] = a[1]
<1>1. Len(a) \in Nat /\ \A i \in 1..Len(a) : (a \o b)[i] = a[i] BY JoinFacts
<1>2. 1 \in 1..Len(a) BY <1>1
<1> QED BY <1>1, <1>2

\* Lists of words joined.
LEMMA WordsJoin == ASSUME NEW a, NEW b, WordList(a), WordList(b) PROVE WordList(a \o b)
<1> DEFINE w == a \o b
<1>1. Sequence(a) /\ Sequence(b) BY DEF WordList
<1>2. /\ Sequence(w) /\ Len(w) = Len(a) + Len(b) /\ Len(a) \in Nat /\ Len(b) \in Nat
      /\ \A i \in 1..Len(a) : w[i] = a[i]
      /\ \A i \in 1..Len(b) : w[Len(a) + i] = b[i]
  BY <1>1, JoinFacts
<1> HIDE DEF w
<1>3. ASSUME NEW i \in 1..Len(w) PROVE Sequence(w[i])
  <2>1. CASE i <= Len(a)
    <3>1. i \in 1..Len(a) BY <1>2, <2>1
    <3> QED BY <1>2, <3>1 DEF WordList
  <2>2. CASE ~(i <= Len(a))
    <3> DEFINE j == i - Len(a)
    <3>1. j \in 1..Len(b) /\ i = Len(a) + j BY <1>2, <2>2
    <3> HIDE DEF j
    <3> QED BY <1>2, <3>1 DEF WordList
  <2> QED BY <2>1, <2>2
<1>4. WordList(w) BY <1>2, <1>3 DEF WordList
<1> QED BY <1>4 DEF w

\* An option and its value are words.
LEMMA OptionWords ==
  ASSUME NEW flag, NEW value, Sequence(value)
  PROVE  WordList(Opt(flag, value)) /\ Len(Opt(flag, value)) = 2
<1>1. Sequence(W(flag)) BY FewWords DEF W
<1>2. /\ Sequence(Opt(flag, value)) /\ Len(Opt(flag, value)) = 2
      /\ Opt(flag, value)[1] = W(flag) /\ Opt(flag, value)[2] = value
  BY FewWords DEF Opt
<1>3. \A i \in 1..2 : i = 1 \/ i = 2 OBVIOUS
<1> QED BY <1>1, <1>2, <1>3 DEF WordList

\* So is nothing.
LEMMA NoWords == WordList(<<>>)
<1>1. Sequence(<<>>) /\ Len(<<>>) = 0 BY FewWords
<1>2. \A i : i \notin 1..0 OBVIOUS
<1> QED BY <1>1, <1>2 DEF WordList

\* The connection options are words, and there are some.
LEMMA ConnOptsWords == ASSUME Fit PROVE WordList(ConnOpts) /\ Len(ConnOpts) # 0
<1> DEFINE port == IF request.port = <<>> THEN <<>>
                   ELSE W(Itoa(CHOOSE n \in TCPPort(request.port) : TRUE))
           agent == Opt("-o", W(AgentWord))
           p == IfGiven("-p", port)
           i == IfGiven("-i", request.identity)
           F == IfGiven("-F", request.config)
<1>1. Sequence(port) BY FewWords DEF W
<1>2. Sequence(request.identity) /\ Sequence(request.config)
  <2>1. request.identity \in Seq(STRING) /\ request.config \in Seq(STRING)
    BY RequestAssumption DEF Fit
  <2> QED BY <2>1, AnySequence
<1>3. ConnOpts = agent \o ((p \o i) \o F) BY DEF ConnOpts, ConnectionFlags, AgentWord
<1>4. Sequence(W(AgentWord)) BY FewWords DEF W
<1> HIDE DEF port
<1>5. WordList(agent) /\ Len(agent) = 2 BY <1>4, OptionWords
<1>6. WordList(p) BY <1>1, NoWords, OptionWords DEF IfGiven
<1>7. WordList(i) BY <1>2, NoWords, OptionWords DEF IfGiven
<1>8. WordList(F) BY <1>2, NoWords, OptionWords DEF IfGiven
<1> HIDE DEF agent, p, i, F
<1>9. WordList(p \o i) BY <1>6, <1>7, WordsJoin
<1> DEFINE flags == (p \o i) \o F
<1>10. WordList(flags) BY <1>8, <1>9, WordsJoin
<1> HIDE DEF flags
<1>11. WordList(agent \o flags) BY <1>5, <1>10, WordsJoin
<1>12. Len(agent \o flags) = Len(agent) + Len(flags) /\ Len(flags) \in Nat
  <2>1. Sequence(agent) /\ Sequence(flags) BY <1>5, <1>10 DEF WordList
  <2> QED BY <2>1, JoinFacts
<1>13. Len(agent \o flags) # 0 BY <1>5, <1>12
<1> QED BY <1>3, <1>11, <1>13 DEF flags

\* The quoted options of the connection, the text of --ssh, and what follows it.
Quotes  == Join([i \in 1..Len(ConnOpts) |-> ShellQuote(ConnOpts[i])])
SSHFlag == <<"--ssh=", "ssh", " ", "-oForwardAgent=no", " ">> \o Quotes
MoshRest == <<W("--"), Host>> \o MoshWords

\* What follows the flags of a mosh line is a sequence.
LEMMA MoshWordsType == Sequence(MoshWords) /\ Sequence(MoshRest)
<1>1. Sequence(MoshWords)
  <2> DEFINE script == Exports \o (IF request.agent THEN ExportSocket ELSE <<>>)
             inner  == <<W("sh"), W("-c"), script \o InteractiveShell>>
             outer  == <<W("sh"), W("-c"), script \o ExecParameters, W("sh")>>
             three  == <<W("sh"), W("-c"), Join(Command)>>
  <2>1. inner \in Seq({W("sh"), W("-c"), script \o InteractiveShell}) OBVIOUS
  <2>2. outer \in Seq({W("sh"), W("-c"), script \o ExecParameters}) OBVIOUS
  <2>3. three \in Seq({W("sh"), W("-c"), Join(Command)}) OBVIOUS
  <2>4. MoshWords = IF TypedScript = <<>> THEN inner ELSE outer \o TypedScript
    BY DEF MoshWords, MoshCommand
  <2>5. Sequence(inner) /\ Sequence(outer) /\ Sequence(three) BY <2>1, <2>2, <2>3, AnySequence
  <2>6. TypedScript = <<>> \/ TypedScript = three BY DEF TypedScript
  <2> HIDE DEF inner, outer, three
  <2>7. Sequence(outer \o three) BY <2>5, JoinFacts
  <2> QED BY <2>4, <2>5, <2>6, <2>7
<1> DEFINE two == <<W("--"), Host>>
<1>2. Sequence(two) BY FewWords
<1>3. MoshRest = two \o MoshWords BY DEF MoshRest
<1> HIDE DEF two
<1> QED BY <1>1, <1>2, <1>3, JoinFacts

\* The line of a mosh session.
LEMMA MoshClientArgsAre ==
  ASSUME Fit, mode = "mosh"
  PROVE  MoshClientArgs = MoshLine(SSHFlag \o ControlOption, MoshRest)
<1>1. MoshClientArgs = WithMoshControlPath(MoshLine(SSHFlag, MoshRest))
  <2> DEFINE flags == <<W("--no-ssh-pty"), SSHFlag>>
  <2>1. MoshClientArgs = WithMoshControlPath(flags \o MoshWrapped)
    BY DEF MoshClientArgs, SSHFlag, Quotes
  <2>2. MoshWrapped = MoshRest BY MoshWrappedIs DEF MoshRest
  <2> QED BY <2>1, <2>2 DEF MoshLine, MoshFlags
<1>2. SSHFlag[1] = "--ssh="
  <2> DEFINE head == <<"--ssh=", "ssh", " ", "-oForwardAgent=no", " ">>
  <2>0. head \in Seq({"--ssh=", "ssh", " ", "-oForwardAgent=no"}) OBVIOUS
  <2>1. Len(head) = 5 /\ head[1] = "--ssh=" OBVIOUS
  <2>2. SSHFlag = head \o Quotes BY DEF SSHFlag
  <2> HIDE DEF head
  <2>3. Sequence(head) BY <2>0, AnySequence
  <2>4. Sequence(Quotes)
    <3>1. Adds(Quotes, <<>>, <<>> \o ConnOpts)
      <4>1. Sequence(<<>>) BY FewWords
      <4> QED BY <4>1, ConnOptsWords, AddsJoined DEF Quotes
    <3> QED BY <3>1 DEF Adds
  <2> DEFINE quotes == Quotes
  <2>5. Sequence(quotes) BY <2>4
  <2> HIDE DEF quotes
  <2>7. Len(head) # 0 BY <2>1
  <2>6. (head \o quotes)[1] = head[1] BY <2>3, <2>5, <2>7, JoinStarts
  <2> QED BY <2>1, <2>2, <2>6 DEF quotes
<1> QED BY <1>1, <1>2, MoshWordsType, ControlPathAdded

\* What follows the first element of two sequences.
LEMMA TailJoins ==
  ASSUME NEW u, NEW v, Sequence(u), Sequence(v), u # <<>>
  PROVE  Tail(u \o v) = Tail(u) \o v /\ Sequence(Tail(u))
<1> DEFINE A == ToSet(u)
           B == ToSet(v)
           T == A \union B
<1>1. u \in Seq(A) /\ v \in Seq(B) /\ A \subseteq T /\ B \subseteq T BY DEF Sequence
<1> HIDE DEF A, B, T
<1>2. u \in Seq(T) /\ v \in Seq(T) BY <1>1
<1>3. Tail(u) \in Seq(T) BY <1>2
<1>4. Tail(u \o v) = Tail(u) \o v BY <1>2
<1> QED BY <1>3, <1>4, AnySequence

\* A text of three atoms.
LEMMA LeadsThree ==
  ASSUME NEW s, NEW a, NEW b, NEW c
  PROVE  Leads(s, <<a, b, c>>, ReadAtom(ReadAtom(ReadAtom(s, a), b), c))
<1> DEFINE x == ReadAtom(s, a)
           y == ReadAtom(x, b)
           z == ReadAtom(y, c)
           f == [i \in 0..3 |-> IF i = 0 THEN s ELSE IF i = 1 THEN x ELSE IF i = 2 THEN y ELSE z]
           text == <<a, b, c>>
<1>1. f[0] = s /\ f[1] = x /\ f[2] = y /\ f[3] = z OBVIOUS
<1>2. Len(text) = 3 /\ text[1] = a /\ text[2] = b /\ text[3] = c OBVIOUS
<1>3. x = ReadAtom(s, a) /\ y = ReadAtom(x, b) /\ z = ReadAtom(y, c) OBVIOUS
<1> HIDE DEF f, text, x, y, z
<1>4. Follows(f, text)
  <2>1. \A i \in 1..3 : (i = 1 /\ i - 1 = 0) \/ (i = 2 /\ i - 1 = 1) \/ (i = 3 /\ i - 1 = 2) OBVIOUS
  <2>2. ASSUME NEW i \in 1..3 PROVE f[i] = ReadAtom(f[i - 1], text[i])
    BY <1>1, <1>2, <1>3, <2>1
  <2> QED BY <1>2, <2>2 DEF Follows
<1>5. Leads(s, text, z) BY <1>1, <1>2, <1>4 DEF Leads
<1> QED BY <1>5 DEF text, x, y, z

\* A plain atom begins a word.
LEMMA FreshBegins ==
  ASSUME NEW a, a \notin Special, NEW words
  PROVE  ReadAtom(Fresh(words), a) = At(FALSE, TRUE, W(a), words)
<1>1. Append(<<>>, a) = W(a) BY DEF W
<1>2. ReadAtom(At(FALSE, FALSE, <<>>, words), a) = At(FALSE, TRUE, Append(<<>>, a), words)
  BY PlainAtom
<1> QED BY <1>1, <1>2 DEF Fresh

\* A blank ends one.
LEMMA BlankEnds ==
  ASSUME NEW word, NEW words
  PROVE  ReadAtom(At(FALSE, TRUE, word, words), " ") = Fresh(Append(words, word))
BY DEF ReadAtom, At, Fresh

\* Two elements, one appended to the other.
LEMMA TailOfTwo == ASSUME NEW a, NEW b PROVE Append(<<a>>, b) = <<a, b>> /\ Append(<<>>, a) = <<a>>
<1> DEFINE x == <<a>>
<1>1. x \o <<b>> = <<a, b>> BY TwoWords
<1>2. Sequence(x) BY FewWords
<1>3. Append(<<>>, a) = <<a>> OBVIOUS
<1> HIDE DEF x
<1>4. x \o <<b>> = Append(x, b) BY <1>2, AppendJoins
<1> QED BY <1>1, <1>3, <1>4 DEF x

\* Three, and four.
LEMMA ThreeWords ==
  ASSUME NEW a, NEW b, NEW c, NEW d
  PROVE  /\ Sequence(<<a, b, c>>) /\ Sequence(<<a, b, c, d>>)
         /\ <<a, b, c>> \o <<d>> = <<a, b, c, d>>
<1> DEFINE x == <<a, b, c>>
           y == <<d>>
           z == <<a, b, c, d>>
<1>1. Sequence(x)
  <2>1. x \in Seq({a, b, c}) OBVIOUS
  <2> QED BY <2>1, AnySequence
<1>2. Sequence(z)
  <2>1. z \in Seq({a, b, c, d}) OBVIOUS
  <2> QED BY <2>1, AnySequence
<1>3. Len(x) = 3 /\ x[1] = a /\ x[2] = b /\ x[3] = c OBVIOUS
<1>4. Len(z) = 4 /\ z[1] = a /\ z[2] = b /\ z[3] = c /\ z[4] = d OBVIOUS
<1>5. Sequence(y) /\ Len(y) = 1 /\ y[1] = d BY FewWords
<1> HIDE DEF x, y, z
<1>6. /\ Sequence(x \o y) /\ Len(x \o y) = Len(x) + Len(y)
      /\ \A i \in 1..Len(x) : (x \o y)[i] = x[i]
      /\ \A i \in 1..Len(y) : (x \o y)[Len(x) + i] = y[i]
  <2>1. Sequence(x) /\ Sequence(y) BY <1>1, <1>5
  <2> QED BY <2>1, JoinFacts
<1>7. Len(x \o y) = Len(z) BY <1>3, <1>4, <1>5, <1>6
<1>8. (x \o y)[1] = a /\ (x \o y)[2] = b /\ (x \o y)[3] = c BY <1>3, <1>6
<1>9. (x \o y)[4] = d
  <2>1. 1 \in 1..Len(y) /\ Len(x) + 1 = 4 BY <1>3, <1>5
  <2> QED BY <1>5, <1>6, <2>1
<1> DEFINE u == x \o y
<1>10. Sequence(u) /\ Len(u) = Len(z) /\ u[1] = a /\ u[2] = b /\ u[3] = c /\ u[4] = d
  BY <1>6, <1>7, <1>8, <1>9
<1> HIDE DEF u
<1>11. \A i \in 1..Len(u) : u[i] = z[i]
  <2>1. \A i \in 1..4 : i = 1 \/ i = 2 \/ i = 3 \/ i = 4 OBVIOUS
  <2> QED BY <1>4, <1>10, <2>1
<1>12. u = z BY <1>2, <1>10, <1>11, SameSequence
<1> QED BY <1>1, <1>2, <1>12 DEF u, x, y, z

\* The words of --ssh.
BootOptions == (<<W("-oForwardAgent=no")>> \o ConnOpts) \o Opt("-o", ControlPath)

\* And those with mosh's own behind them.
BootstrapOptions == BootOptions \o MoshDiscovery

\* What --ssh says, with the control path that mosh-probe adds, is read as the options
\* of the connection.
LEMMA SSHFlagRead ==
  ASSUME Fit
  PROVE  ShellWords(Tail(SSHFlag \o ControlOption)) = <<W("ssh")>> \o BootOptions
<1> DEFINE begin == <<"ssh", " ", "-oForwardAgent=no">>
           blank == <<" ">>
           front == begin \o blank
           head  == <<"--ssh=", "ssh", " ", "-oForwardAgent=no", " ">>
           quotes == Quotes
           opt   == <<" ", "-o", " ">>
           path  == ControlPath
           conn  == ConnOpts
           no    == W("-oForwardAgent=no")
           two   == <<W("ssh"), no>>
           text  == ((front \o quotes) \o (opt \o path))
           after == Append(two \o conn, W("-o"))
           all   == Append(after, path)
<1>1. Sequence(two) BY FewWords
<1>2. WordList(conn) /\ Sequence(conn) /\ Len(conn) # 0 BY ConnOptsWords DEF WordList
<1>3. Sequence(begin)
  <2>1. begin \in Seq({"ssh", " ", "-oForwardAgent=no"}) OBVIOUS
  <2> QED BY <2>1, AnySequence
<1>4. Sequence(opt)
  <2>1. opt \in Seq({" ", "-o"}) OBVIOUS
  <2> QED BY <2>1, AnySequence
<1>5. Sequence(path) /\ Sequence(blank) BY FewWords DEF ControlPath
<1>6. Leads(Start, front, Fresh(two)) /\ Sequence(front)
  <2> DEFINE t == At(FALSE, TRUE, no, <<W("ssh")>>)
  <2>1. ReadAtom(ReadAtom(ReadAtom(Start, "ssh"), " "), "-oForwardAgent=no") = t
    <3>0. "ssh" \notin Special /\ "-oForwardAgent=no" \notin Special BY DEF Special
    <3>1. ReadAtom(Fresh(<<>>), "ssh") = At(FALSE, TRUE, W("ssh"), <<>>) BY <3>0, FreshBegins
    <3>2. ReadAtom(At(FALSE, TRUE, W("ssh"), <<>>), " ") = Fresh(Append(<<>>, W("ssh"))) BY BlankEnds
    <3>3. Append(<<>>, W("ssh")) = <<W("ssh")>> BY TailOfTwo
    <3>4. ReadAtom(Fresh(<<W("ssh")>>), "-oForwardAgent=no") = t BY <3>0, FreshBegins
    <3>5. Start = Fresh(<<>>) BY DEF Start, Fresh
    <3> HIDE DEF t
    <3> QED BY <3>1, <3>2, <3>3, <3>4, <3>5
  <2>2. ReadAtom(t, " ") = Fresh(two)
    <3>1. ReadAtom(At(FALSE, TRUE, no, <<W("ssh")>>), " ") = Fresh(Append(<<W("ssh")>>, no)) BY BlankEnds
    <3>2. Append(<<W("ssh")>>, no) = two BY TailOfTwo
    <3> QED BY <3>1, <3>2
  <2> HIDE DEF t, two
  <2>3. Leads(Start, begin, t) BY <2>1, LeadsThree
  <2> HIDE DEF begin
  <2>4. Leads(t, blank, Fresh(two)) BY <2>2, LeadsOne
  <2> HIDE DEF blank
  <2> QED BY <1>3, <1>5, <2>3, <2>4, LeadsJoin, JoinFacts
<1>7. Adds(quotes, two, two \o conn)
  <2> HIDE DEF two
  <2> QED BY <1>1, <1>2, AddsJoined DEF Quotes
<1>8. Sequence(two \o conn)
  <2> HIDE DEF two, conn
  <2> QED BY <1>1, <1>2, JoinFacts
<1>9. Sequence(after)
  <2> DEFINE w == two \o conn
  <2> HIDE DEF w
  <2>1. Sequence(w) BY <1>8 DEF w
  <2>2. Sequence(Append(w, W("-o"))) BY <2>1, AppendFacts
  <2> QED BY <2>2 DEF w
<1>10. Adds(path, after, all)
  <2>1. "ControlPath=" \notin Special /\ "ctl" \notin Special BY DEF Special
  <2> HIDE DEF after
  <2> QED BY <1>9, <2>1, AddsPlainTwo DEF ControlPath
<1>11. ASSUME NEW t, ReadAtom(t, " ") = Fresh(two \o conn) PROVE Leads(t, opt, Fresh(after))
  <2> DEFINE w == two \o conn
  <2> HIDE DEF w
  <2>0. "-o" \notin Special BY DEF Special
  <2>1. ReadAtom(Fresh(w), "-o") = At(FALSE, TRUE, W("-o"), w) BY <2>0, FreshBegins
  <2>2. ReadAtom(At(FALSE, TRUE, W("-o"), w), " ") = Fresh(Append(w, W("-o"))) BY BlankEnds
  <2>3. Leads(t, opt, ReadAtom(ReadAtom(ReadAtom(t, " "), "-o"), " ")) BY LeadsThree
  <2>4. ReadAtom(t, " ") = Fresh(w) BY <1>11 DEF w
  <2>5. Leads(t, opt, Fresh(Append(w, W("-o")))) BY <2>1, <2>2, <2>3, <2>4
  <2> QED BY <2>5 DEF w
<1> HIDE DEF front, quotes, opt, path, two, conn, after, all
<1>12. Adds(text, <<>>, all)
  <2>1. PICK t : Leads(Fresh(two), quotes, t) /\ ReadAtom(t, " ") = Fresh(two \o conn)
    BY <1>7 DEF Adds
  <2>2. PICK x : Leads(Fresh(after), path, x) /\ ReadAtom(x, " ") = Fresh(all) BY <1>10 DEF Adds
  <2>3. Sequence(quotes) BY <1>7 DEF Adds
  <2>4. Leads(Start, front \o quotes, t) /\ Sequence(front \o quotes)
    BY <1>6, <2>1, <2>3, LeadsJoin, JoinFacts
  <2>5. Leads(t, opt, Fresh(after)) BY <1>11, <2>1
  <2>6. Leads(t, opt \o path, x) /\ Sequence(opt \o path)
    BY <1>4, <1>5, <2>2, <2>5, LeadsJoin, JoinFacts
  <2> DEFINE u == front \o quotes
             v == opt \o path
  <2>7. Leads(Start, u, t) /\ Leads(t, v, x) /\ Sequence(u) /\ Sequence(v) BY <2>4, <2>6
  <2>8. text = u \o v OBVIOUS
  <2> HIDE DEF u, v, text
  <2>9. Leads(Start, u \o v, x) /\ Sequence(u \o v) BY <2>7, LeadsJoin, JoinFacts
  <2>10. Start = Fresh(<<>>) /\ Sequence(<<>>) BY FewWords DEF Start, Fresh
  <2> QED BY <2>2, <2>8, <2>9, <2>10 DEF Adds
<1>13. ShellWords(text) = all BY <1>12, AddsAll
<1>14. Tail(SSHFlag \o ControlOption) = text
  <2>1. Sequence(head)
    <3>1. head \in Seq({"--ssh=", "ssh", " ", "-oForwardAgent=no"}) OBVIOUS
    <3> QED BY <3>1, AnySequence
  <2>2. Tail(head) = front /\ head # <<>>
    <3> DEFINE four == <<"ssh", " ", "-oForwardAgent=no", " ">>
    <3>1. begin \o blank = four BY ThreeWords
    <3>2. Tail(head) = four
      <4>1. Len(Tail(head)) = 4 /\ Tail(head) \in Seq({"--ssh=", "ssh", " ", "-oForwardAgent=no"}) OBVIOUS
      <4>2. \A i \in 1..4 : Tail(head)[i] = four[i] OBVIOUS
      <4>3. Sequence(four) /\ Len(four) = 4 BY ThreeWords
      <4>4. Sequence(Tail(head)) BY <4>1, AnySequence
      <4> HIDE DEF head, four
      <4> QED BY <4>1, <4>2, <4>3, <4>4, SameSequence
    <3>3. head # <<>> OBVIOUS
    <3> QED BY <3>1, <3>2, <3>3 DEF front
  <2>3. SSHFlag = head \o quotes /\ ControlOption = opt \o path
    BY DEF SSHFlag, ControlOption, quotes, opt, path
  <2> HIDE DEF head
  <2>4. Sequence(quotes) BY <1>7 DEF Adds
  <2>5. Tail(head \o quotes) = front \o quotes BY <2>1, <2>2, <2>4, TailJoins
  <2> DEFINE u == head \o quotes
             v == opt \o path
  <2>6. Sequence(u) /\ Sequence(v) BY <1>4, <1>5, <2>1, <2>4, JoinFacts
  <2>7. u # <<>>
    <3>1. Len(u) = Len(head) + Len(quotes) /\ Len(head) \in Nat /\ Len(quotes) \in Nat
      BY <2>1, <2>4, JoinFacts
    <3>2. Len(head) # 0 BY <2>1, <2>2 DEF Sequence
    <3> HIDE DEF u
    <3>3. Len(u) # 0 BY <3>1, <3>2
    <3> QED BY <3>3
  <2> HIDE DEF v
  <2>8. Tail(u \o v) = Tail(u) \o v
    <3> HIDE DEF u
    <3> QED BY <2>6, <2>7, TailJoins
  <2> QED BY <2>3, <2>5, <2>8 DEF v
<1>15. all = <<W("ssh")>> \o BootOptions
  <2> DEFINE ssh == <<W("ssh")>>
             nos == <<no>>
             o == <<W("-o")>>
             p == <<path>>
             op == Opt("-o", path)
             w == two \o conn
             x == nos \o conn
  <2>1. Sequence(ssh) /\ Sequence(nos) /\ Sequence(o) /\ Sequence(p) BY FewWords
  <2>2. two = ssh \o nos /\ op = o \o p BY TwoWords DEF two, Opt
  <2>3. BootOptions = x \o op BY DEF BootOptions, conn, path
  <2>4. Sequence(op) BY FewWords DEF Opt
  <2>5. after = w \o o BY <1>8, AppendJoins DEF after
  <2>6. all = after \o p BY <1>9, AppendJoins DEF all, after
  <2> HIDE DEF ssh, nos, o, p, op, no
  <2>7. w = ssh \o x BY <1>2, <2>1, <2>2, JoinAssociates
  <2>8. Sequence(x) BY <1>2, <2>1, JoinFacts
  <2> HIDE DEF w, x
  <2>9. Sequence(w) BY <1>8 DEF w
  <2>10. (w \o o) \o p = w \o op
    <3>1. Sequence(w) /\ Sequence(o) /\ Sequence(p) BY <2>1, <2>9
    <3>2. (w \o o) \o p = w \o (o \o p) BY <3>1, JoinAssociates
    <3>3. op = o \o p BY <2>2
    <3> QED BY <3>2, <3>3
  <2>11. (ssh \o x) \o op = ssh \o (x \o op)
    <3>1. Sequence(ssh) /\ Sequence(x) /\ Sequence(op) BY <2>1, <2>4, <2>8
    <3> QED BY <3>1, JoinAssociates
  <2> QED BY <2>3, <2>5, <2>6, <2>7, <2>10, <2>11 DEF ssh
<1> QED BY <1>13, <1>14, <1>15

\* The text of --ssh.
LEMMA SSHFlagText ==
  ASSUME Fit
  PROVE  LET text == SSHFlag \o ControlOption
         IN  /\ text[1] = "--ssh=" /\ text # <<>> /\ Dashed(text) /\ text # W("--")
             /\ ~Takes(text, MoshTakes)
<1> DEFINE text == SSHFlag \o ControlOption
           head == <<"--ssh=", "ssh", " ", "-oForwardAgent=no", " ">>
           quotes == Quotes
           opt == <<" ", "-o", " ">>
           path == ControlPath
<1>1. Len(head) = 5 /\ head[1] = "--ssh=" /\ Sequence(head)
  <2>1. head \in Seq({"--ssh=", "ssh", " ", "-oForwardAgent=no"}) OBVIOUS
  <2>2. Len(head) = 5 /\ head[1] = "--ssh=" OBVIOUS
  <2> QED BY <2>1, <2>2, AnySequence
<1>2. Sequence(quotes)
  <2>1. Adds(Quotes, <<>>, <<>> \o ConnOpts)
    <3>1. Sequence(<<>>) BY FewWords
    <3> QED BY <3>1, ConnOptsWords, AddsJoined DEF Quotes
  <2> QED BY <2>1 DEF Adds
<1>3. Sequence(opt)
  <2>1. opt \in Seq({" ", "-o"}) OBVIOUS
  <2> QED BY <2>1, AnySequence
<1>4. Sequence(path) BY FewWords DEF ControlPath
<1> DEFINE flag == head \o quotes
           rest == opt \o path
<1>5. SSHFlag = flag /\ ControlOption = rest BY DEF SSHFlag, ControlOption
<1> HIDE DEF head, quotes, opt, path
<1>6. Sequence(flag) /\ Len(flag) = Len(head) + Len(quotes) /\ Len(quotes) \in Nat
  <2>1. Sequence(head) BY <1>1
  <2> QED BY <1>2, <2>1, JoinFacts
<1>7. Len(flag) # 0 BY <1>1, <1>6
<1>8. flag[1] = "--ssh="
  <2>1. Len(head) # 0 BY <1>1
  <2> QED BY <1>1, <1>2, <2>1, JoinStarts
<1>9. Sequence(rest) BY <1>3, <1>4, JoinFacts
<1> HIDE DEF flag, rest
<1>10. (flag \o rest)[1] = "--ssh=" BY <1>6, <1>7, <1>8, <1>9, JoinStarts
<1>11. Len(flag \o rest) # 0
  <2>1. Len(flag \o rest) = Len(flag) + Len(rest) /\ Len(flag) \in Nat /\ Len(rest) \in Nat
    BY <1>6, <1>9, JoinFacts
  <2> QED BY <1>7, <2>1
<1>12. text[1] = "--ssh=" /\ Len(text) # 0 BY <1>5, <1>10, <1>11
<1> HIDE DEF text
<1>13. text # <<>> BY <1>12
<1>14. "--ssh=" \in DashedAtoms BY DashAssumption
<1>15. Dashed(text) BY <1>12, <1>13, <1>14 DEF Dashed
<1>16. text # W("--") BY <1>12 DEF W
<1>17. ~Takes(text, MoshTakes) BY <1>12 DEF Takes, MoshTakes, MoshTakesArg
<1> QED BY <1>12, <1>13, <1>15, <1>16, <1>17 DEF text

\* What follows the -- of a mosh line.
LEMMA MoshLineCut ==
  ASSUME NEW text, NEW words, Sequence(words)
  PROVE  LET line == MoshLine(text, <<W("--"), Host>> \o words)
         IN  /\ line[3] = W("--") /\ Len(line) >= 3 /\ Sequence(line)
             /\ TailOf(line, 3) = <<Host>> \o words
<1> DEFINE flags  == MoshFlags(text)
           dashes == <<W("--")>>
           host   == <<Host>>
           two    == <<W("--"), Host>>
           rest   == two \o words
           line   == flags \o rest
           front  == flags \o dashes
           back   == host \o words
<1>1. Sequence(flags) /\ Len(flags) = 2 BY FewWords DEF MoshFlags
<1>2. Sequence(dashes) /\ Len(dashes) = 1 /\ dashes[1] = W("--") BY FewWords
<1>3. Sequence(host) /\ Sequence(two) BY FewWords
<1>4. two = dashes \o host BY TwoWords
<1> HIDE DEF flags, dashes, host, two
<1>5. rest = dashes \o back BY <1>2, <1>3, <1>4, JoinAssociates
<1>6. Sequence(back) BY <1>3, JoinFacts
<1> HIDE DEF back, rest
<1>7. line = front \o back
  <2>1. Sequence(flags) /\ Sequence(dashes) /\ Sequence(back) BY <1>1, <1>2, <1>6
  <2>2. (flags \o dashes) \o back = flags \o (dashes \o back) BY <2>1, JoinAssociates
  <2> QED BY <1>5, <2>2
<1>8. /\ Sequence(front) /\ Len(front) = Len(flags) + Len(dashes)
      /\ \A i \in 1..Len(dashes) : front[Len(flags) + i] = dashes[i]
  <2>1. Sequence(flags) /\ Sequence(dashes) BY <1>1, <1>2
  <2> QED BY <2>1, JoinFacts
<1>9. Len(front) = 3 BY <1>1, <1>2, <1>8
<1>10. front[3] = W("--")
  <2>1. 1 \in 1..Len(dashes) /\ Len(flags) + 1 = 3 BY <1>1, <1>2
  <2> QED BY <1>2, <1>8, <2>1
<1> HIDE DEF front, line
<1>11. /\ Sequence(front \o back) /\ Len(front \o back) = Len(front) + Len(back)
       /\ Len(back) \in Nat /\ \A i \in 1..Len(front) : (front \o back)[i] = front[i]
  <2>1. Sequence(front) BY <1>8
  <2> QED BY <1>6, <2>1, JoinFacts
<1>12. 3 \in 1..Len(front) BY <1>9
<1>13. Sequence(line) /\ Len(line) >= 3 /\ line[3] = W("--") BY <1>7, <1>9, <1>10, <1>11, <1>12
<1>14. TailOf(line, 3) = back
  <2>1. Sequence(front) BY <1>8
  <2>2. TailOf(front \o back, Len(front)) = back BY <1>6, <2>1, Cut
  <2> QED BY <1>7, <1>9, <2>2
<1> QED BY <1>13, <1>14 DEF line, back, host, flags, rest, two, MoshLine

\* What mosh takes for its operands, and the ssh it bootstraps with.
LEMMA BootstrapIs ==
  ASSUME Fit, mode = "mosh"
  PROVE  /\ MoshOperands(MoshClientArgs) = <<Host>> \o MoshWords
         /\ Bootstrap(MoshClientArgs) = BootstrapOptions \o <<Host, W("--"), W("mosh-server")>>
<1> DEFINE text == SSHFlag \o ControlOption
           args == MoshLine(text, MoshRest)
<1>1. MoshClientArgs = args BY MoshClientArgsAre
<1>2. text[1] = "--ssh=" /\ Dashed(text) /\ text # W("--") /\ ~Takes(text, MoshTakes)
  BY SSHFlagText
<1>3. Sequence(MoshWords) /\ Sequence(MoshRest) BY MoshWordsType
<1>4. ShellWords(Tail(text)) = <<W("ssh")>> \o BootOptions BY SSHFlagRead
<1> HIDE DEF text
<1>5. args[1] = W("--no-ssh-pty") /\ args[2] = text BY <1>3, FlagsBefore
<1>6. /\ args[3] = W("--") /\ Len(args) >= 3 /\ Sequence(args)
      /\ TailOf(args, 3) = <<Host>> \o MoshWords
  BY <1>3, MoshLineCut DEF MoshRest
<1>7. SelectInSeq(args, LAMBDA word : word[1] = "--ssh=") = 2 BY <1>2, <1>3, SSHFlagSecond
<1> HIDE DEF args
<1>8. Dashed(args[1]) /\ args[1] # W("--") /\ ~Takes(args[1], MoshTakes)
  <2> DEFINE w == W("--no-ssh-pty")
  <2>1. w[1] = "--no-ssh-pty" /\ w # <<>> BY DEF W
  <2>2. "--no-ssh-pty" \in DashedAtoms BY DashAssumption
  <2>3. w # W("--") BY DEF W
  <2> HIDE DEF w
  <2>4. Dashed(w) BY <2>1, <2>2 DEF Dashed
  <2>5. ~Takes(w, MoshTakes) BY <2>1 DEF Takes, MoshTakes, MoshTakesArg
  <2> QED BY <1>5, <2>3, <2>4, <2>5 DEF w
<1>9. MoshOperands(args) = <<Host>> \o MoshWords
  BY <1>2, <1>5, <1>6, <1>8, OperandsAfter
<1>10. MoshOperands(args)[1] = Host
  <2> DEFINE host == <<Host>>
  <2>0. Sequence(host) /\ Len(host) = 1 /\ host[1] = Host BY FewWords
  <2> HIDE DEF host
  <2>1. Sequence(host) /\ Len(host) # 0 /\ host[1] = Host BY <2>0
  <2>2. (host \o MoshWords)[1] = host[1] BY <1>3, <2>1, JoinStarts
  <2> QED BY <1>9, <2>1, <2>2 DEF host
<1>11. Tail(<<W("ssh")>> \o BootOptions) = BootOptions
  <2> DEFINE ssh == <<W("ssh")>>
             boot == BootOptions
  <2>1. Sequence(ssh) /\ ssh # <<>> /\ Tail(ssh) = <<>>
    <3>1. ASSUME NEW a PROVE <<a>> # <<>> /\ Tail(<<a>>) = <<>> OBVIOUS
    <3> QED BY <3>1, FewWords
  <2>2. Sequence(boot)
    <3> DEFINE no == <<W("-oForwardAgent=no")>>
               conn == ConnOpts
               opt == Opt("-o", ControlPath)
    <3>1. Sequence(no) /\ Sequence(opt) BY FewWords DEF Opt
    <3>2. Sequence(conn) BY ConnOptsWords DEF WordList
    <3>3. boot = (no \o conn) \o opt BY DEF BootOptions
    <3> HIDE DEF no, conn, opt
    <3>4. Sequence(no \o conn) BY <3>1, <3>2, JoinFacts
    <3>5. Sequence((no \o conn) \o opt) BY <3>1, <3>4, JoinFacts
    <3> QED BY <3>3, <3>5
  <2> HIDE DEF ssh, boot
  <2>3. Tail(ssh \o boot) = Tail(ssh) \o boot BY <2>1, <2>2, TailJoins
  <2>4. <<>> \o boot = boot BY <2>2, NothingAdded
  <2> QED BY <2>1, <2>3, <2>4 DEF ssh, boot
<1>12. Bootstrap(args) = BootstrapOptions \o <<Host, W("--"), W("mosh-server")>>
  <2> DEFINE at == SelectInSeq(args, LAMBDA word : word[1] = "--ssh=")
  <2>1. Bootstrap(args) = Tail(ShellWords(Tail(args[at]))) \o MoshDiscovery
                            \o <<MoshOperands(args)[1], W("--"), W("mosh-server")>>
    BY DEF Bootstrap
  <2>2. at = 2 BY <1>7
  <2> HIDE DEF at
  <2>3. Tail(ShellWords(Tail(args[at]))) = BootOptions BY <1>4, <1>5, <1>11, <2>2
  <2> QED BY <1>10, <2>1, <2>3 DEF BootstrapOptions
<1> QED BY <1>1, <1>9, <1>12

\* A "--" behind options gives nothing.
LEMMA GivenDashes ==
  ASSUME NEW w, Options(w, RealSSHTakesArg), NEW flag \in RealSSHTakesArg
  PROVE  GivenTo(w \o <<W("--")>>, flag) = GivenTo(w, flag)
<1> DEFINE dashes == <<W("--")>>
           u == w \o dashes
           n == Len(w)
<1>1. PICK P : Chain(w, P, RealSSHTakesArg) BY DEF Options
<1>2. Sequence(w) /\ Sequence(dashes) /\ Len(dashes) = 1 /\ dashes[1] = W("--")
  BY FewWords DEF Options
<1> HIDE DEF dashes
<1>3. /\ Len(u) = Len(w) + Len(dashes) /\ Len(w) \in Nat
      /\ \A i \in 1..Len(w) : u[i] = w[i]
      /\ \A i \in 1..Len(dashes) : u[Len(w) + i] = dashes[i]
  <2>1. Sequence(w) /\ Sequence(dashes) BY <1>2
  <2> QED BY <2>1, JoinFacts
<1>4. dashes # <<>> => ~IsOption(dashes[1]) BY <1>2 DEF IsOption
<1>5. Scanned(u, RealSSHTakesArg) = P \intersect (1..Len(u)) BY <1>1, <1>2, <1>4, ScanOfChain
<1> HIDE DEF u
<1>6. Len(u) = n + 1 /\ n \in Nat /\ (\A i \in 1..n : u[i] = w[i]) /\ u[n + 1] = W("--")
  <2>1. 1 \in 1..Len(dashes) BY <1>2
  <2> QED BY <1>2, <1>3, <2>1
<1>7. P \subseteq 1..n + 1 BY <1>1 DEF Chain
<1>8. W(flag) # W("--") BY DEF W, RealSSHTakesArg
<1>9. /\ \A i \in AtFlag(w, P, flag) : i + 1 \in 1..n
      /\ GivenTo(w, flag) = {w[i + 1] : i \in AtFlag(w, P, flag)}
  BY <1>1, <1>2, GivenByChain
<1> HIDE DEF n
<1>10. FlagAt(u, flag) = {i \in P : i <= n /\ u[i] = W(flag)}
  <2>1. FlagAt(u, flag) = {i \in P \intersect (1..n + 1) : u[i] = W(flag) /\ i < n + 1}
    BY <1>5, <1>6 DEF FlagAt
  <2>2. \A i \in P : (i \in 1..n + 1 /\ i < n + 1) <=> i <= n BY <1>6, <1>7
  <2> QED BY <2>1, <2>2
<1>11. FlagAt(u, flag) = AtFlag(w, P, flag)
  <2>1. \A i \in P : i <= n => u[i] = w[i] BY <1>6, <1>7
  <2> QED BY <1>10, <2>1 DEF AtFlag, n
<1>12. \A i \in AtFlag(w, P, flag) : u[i + 1] = w[i + 1] BY <1>6, <1>9
<1> QED BY <1>9, <1>11, <1>12 DEF GivenTo, u, dashes

\* What ssh reads of a line whose host is followed by "--" and a script.
LEMMA ReadsDashes ==
  ASSUME NEW w, Options(w, RealSSHTakesArg), NEW host, ~Dashed(host), NEW script
  PROVE  SSHReads(w \o <<host, W("--"), script>>)
           = [host |-> host, options |-> w \o <<W("--")>>, command |-> script]
<1> DEFINE dashes == <<W("--")>>
           rest == <<W("--"), script>>
           one  == <<host>>
           all  == <<host, W("--"), script>>
           args == w \o all
           n    == Len(w)
           front == w \o one
           last == <<script>>
<1>1. Sequence(w) /\ Sequence(one) /\ Len(one) = 1 /\ one[1] = host BY FewWords DEF Options
<1>2. Sequence(dashes) /\ Len(dashes) = 1 /\ Sequence(last) BY FewWords
<1>3. Sequence(rest) /\ Len(rest) = 2 /\ rest[1] = W("--") /\ rest # <<>> BY FewWords
<1>4. rest = dashes \o last BY TwoWords
<1>5. Sequence(all) /\ all # <<>> /\ all[1] = host
  <2>1. all \in Seq({host, W("--"), script}) OBVIOUS
  <2>2. all # <<>> /\ all[1] = host OBVIOUS
  <2> QED BY <2>1, <2>2, AnySequence
<1>6. all = one \o rest
  <2>1. Len(all) = 3 /\ all[1] = host /\ all[2] = W("--") /\ all[3] = script OBVIOUS
  <2>2. rest[1] = W("--") /\ rest[2] = script BY FewWords
  <2> HIDE DEF all, one, rest
  <2>3. /\ Sequence(one \o rest) /\ Len(one \o rest) = Len(one) + Len(rest)
        /\ \A i \in 1..Len(one) : (one \o rest)[i] = one[i]
        /\ \A i \in 1..Len(rest) : (one \o rest)[Len(one) + i] = rest[i]
    <3>1. Sequence(one) /\ Sequence(rest) BY <1>1, <1>3
    <3> QED BY <3>1, JoinFacts
  <2> DEFINE u == one \o rest
  <2>4. Sequence(u) /\ Len(u) = 3 BY <1>1, <1>3, <2>3
  <2>5. u[1] = host BY <1>1, <2>3
  <2>6. u[2] = W("--")
    <3>1. 1 \in 1..Len(rest) /\ Len(one) + 1 = 2 BY <1>1, <1>3
    <3> QED BY <2>2, <2>3, <3>1
  <2>7. u[3] = script
    <3>1. 2 \in 1..Len(rest) /\ Len(one) + 2 = 3 BY <1>1, <1>3
    <3> QED BY <2>2, <2>3, <3>1
  <2> HIDE DEF u
  <2>8. \A i \in 1..Len(all) : all[i] = u[i]
    <3>1. \A i \in 1..3 : i = 1 \/ i = 2 \/ i = 3 OBVIOUS
    <3> QED BY <2>1, <2>5, <2>6, <2>7, <3>1
  <2>9. all = u BY <1>5, <2>1, <2>4, <2>8, SameSequence
  <2> QED BY <2>9 DEF u
<1>7. HostIndex(args, RealSSHTakesArg) = n + 1
  <2> HIDE DEF all
  <2> QED BY <1>5, HostAfterOptions
<1> HIDE DEF one, all, rest
<1>8. args = front \o rest
  <2>1. Sequence(w) /\ Sequence(one) /\ Sequence(rest) BY <1>1, <1>3
  <2>2. (w \o one) \o rest = w \o (one \o rest) BY <2>1, JoinAssociates
  <2> QED BY <1>6, <2>2
<1>9. Sequence(front) /\ Len(front) = n + 1 /\ n \in Nat /\ front[n + 1] = host
  <2>1. /\ Sequence(front) /\ Len(front) = Len(w) + Len(one) /\ Len(w) \in Nat
        /\ \A i \in 1..Len(one) : front[Len(w) + i] = one[i]
    <3>1. Sequence(w) /\ Sequence(one) BY <1>1
    <3> QED BY <3>1, JoinFacts
  <2> HIDE DEF front
  <2>2. 1 \in 1..Len(one) BY <1>1
  <2> QED BY <1>1, <2>1, <2>2
<1>10. HeadOf(args, n) = w BY <1>1, <1>5, Cut
<1> HIDE DEF args
<1>11. TailOf(args, n + 1) = rest
  <2> HIDE DEF front
  <2>1. Sequence(front) /\ Sequence(rest) BY <1>3, <1>9
  <2>2. TailOf(front \o rest, Len(front)) = rest BY <2>1, Cut
  <2> QED BY <1>8, <1>9, <2>2
<1>12. args[n + 1] = host
  <2> HIDE DEF front
  <2>1. \A i \in 1..Len(front) : (front \o rest)[i] = front[i]
    <3>1. Sequence(front) /\ Sequence(rest) BY <1>3, <1>9
    <3> QED BY <3>1, JoinFacts
  <2>2. n + 1 \in 1..Len(front) BY <1>9
  <2> QED BY <1>8, <1>9, <2>1, <2>2
<1>13. HostIndex(rest, RealSSHTakesArg) = 2
  <2>1. Chain(<<>>, {1}, RealSSHTakesArg) BY FewWords DEF Chain
  <2> DEFINE e == <<>>
  <2>2. Sequence(e) /\ Chain(e, {1}, RealSSHTakesArg) BY <2>1, FewWords
  <2>3. e \o rest = rest BY <1>3, NothingAdded
  <2> HIDE DEF e
  <2>4. ~IsOption(rest[1]) BY <1>3 DEF IsOption
  <2>5. Scanned(e \o rest, RealSSHTakesArg) = {1} \intersect (1..Len(e \o rest))
    <3>1. Sequence(rest) /\ (rest # <<>> => ~IsOption(rest[1])) BY <1>3, <2>4
    <3> QED BY <2>2, <3>1, ScanOfChain
  <2>6. Scanned(rest, RealSSHTakesArg) = {1} BY <1>3, <2>3, <2>5
  <2> DEFINE stops == {i \in Scanned(rest, RealSSHTakesArg) : ~IsOption(rest[i])}
             stop == CHOOSE i \in stops : TRUE
  <2>7. stops = {1} BY <2>4, <2>6
  <2>8. HostIndex(rest, RealSSHTakesArg)
          = IF stops = {} \/ (rest[stop] = W("--") /\ stop = Len(rest)) THEN 0
            ELSE IF rest[stop] = W("--") THEN stop + 1 ELSE stop
    BY DEF HostIndex
  <2> HIDE DEF stops
  <2>9. stop = 1 BY <2>7
  <2> HIDE DEF stop
  <2> QED BY <1>3, <2>7, <2>8, <2>9
<1>14. HeadOf(rest, 1) = dashes /\ TailOf(rest, 1) = last
  <2> HIDE DEF dashes, last
  <2>1. Sequence(dashes) /\ Sequence(last) BY <1>2
  <2>2. HeadOf(dashes \o last, Len(dashes)) = dashes /\ TailOf(dashes \o last, Len(dashes)) = last
    BY <2>1, Cut
  <2> QED BY <1>2, <1>4, <2>2
<1>15. Join(last) = script
  <2>1. [i \in 1..Len(last) |-> IF i = 1 THEN last[i] ELSE <<" ">> \o last[i]] = <<script>>
    <3>1. Len(last) = 1 /\ last[1] = script BY FewWords
    <3> DEFINE x == [i \in 1..Len(last) |-> IF i = 1 THEN last[i] ELSE <<" ">> \o last[i]]
    <3> HIDE DEF last
    <3>2. DOMAIN x = 1..1 /\ x[1] = script BY <3>1
    <3>3. x = [i \in 1..1 |-> script] BY <3>1
    <3>4. <<script>> = [i \in 1..1 |-> script] OBVIOUS
    <3> QED BY <3>3, <3>4
  <2> QED BY <2>1, FlattenFew DEF Join
<1> HIDE DEF dashes, last, front
<1>16. SSHReads(args) = [host |-> args[n + 1], options |-> HeadOf(args, n) \o HeadOf(rest, 1),
                         command |-> Join(TailOf(rest, 1))]
  <2> DEFINE h == n + 1
             c == 2
  <2>1. h # 0 /\ h - 1 = n /\ c # 0 /\ c - 1 = 1 BY <1>9
  <2>2. /\ HostIndex(args, RealSSHTakesArg) = h /\ TailOf(args, h) = rest
        /\ HostIndex(rest, RealSSHTakesArg) = c
    BY <1>7, <1>11, <1>13 DEF args
  <2> HIDE DEF h, c, n
  <2>3. SSHReads(args) = [host |-> args[h], options |-> HeadOf(args, h - 1) \o HeadOf(rest, c - 1),
                          command |-> Join(TailOf(rest, c - 1))]
    BY <2>1, <2>2 DEF SSHReads
  <2>4. SSHReads(args) = [host |-> args[h], options |-> HeadOf(args, n) \o HeadOf(rest, 1),
                          command |-> Join(TailOf(rest, 1))]
    BY <2>1, <2>3
  <2> QED BY <2>4 DEF h
<1>17. SSHReads(args) = [host |-> host, options |-> w \o dashes, command |-> script]
  BY <1>10, <1>12, <1>14, <1>15, <1>16
<1> QED BY <1>17 DEF args, all, dashes

\* A prefix that was joined, and one that begins with another atom.
LEMMA PrefixOfJoin ==
  ASSUME NEW a, NEW b, Sequence(a), Sequence(b)
  PROVE  IsPrefix(a, a \o b) /\ TailOf(a \o b, Len(a)) = b
<1>1. SubSeq(a \o b, 1, Len(a)) = a /\ TailOf(a \o b, Len(a)) = b BY Cut DEF HeadOf
<1>2. SubSeq(a, 1, Len(a)) = a BY PrefixGrows
<1>3. Len(a) <= Len(a \o b) BY JoinFacts
<1> QED BY <1>1, <1>2, <1>3 DEF IsPrefix

\* A text that begins otherwise has no such prefix.
LEMMA OtherStart ==
  ASSUME NEW a, NEW t, Sequence(a), Sequence(t), Len(a) # 0, a[1] # t[1]
  PROVE  ~IsPrefix(a, t)
<1> SUFFICES ASSUME IsPrefix(a, t) PROVE FALSE OBVIOUS
<1>1. SubSeq(a, 1, Len(a)) = a /\ Len(a) \in Nat /\ Len(t) \in Nat BY PrefixGrows
<1>2. a = SubSeq(t, 1, Len(a)) /\ Len(a) <= Len(t) BY <1>1 DEF IsPrefix
<1> DEFINE n == Len(a)
<1>3. n \in 1..Len(t) BY <1>1, <1>2
<1>4. SubSeq(t, 1, n)[1] = t[1]
  <2> HIDE DEF n
  <2> QED BY <1>3 DEF Sequence
<1> QED BY <1>2, <1>4

\* The exports of a session, with the held socket among them or not.
Shared(socket) == Exports \o (IF socket THEN ExportSocket ELSE <<>>)

\* How the exports begin.
LEMMA SharedFacts ==
  /\ Sequence(Exports) /\ Len(Exports) = 2
  /\ Exports[1] = "export SLUSH SLUSH_TOKEN SLUSH_PORT BROWSER PATH;"
  /\ Sequence(ExportSocket) /\ Len(ExportSocket) >= 3
  /\ Shared(FALSE) = Exports
  /\ \A socket : Sequence(Shared(socket))
<1>1. /\ Sequence(Exports) /\ Len(Exports) = 2
      /\ Exports[1] = "export SLUSH SLUSH_TOKEN SLUSH_PORT BROWSER PATH;"
  BY FewWords DEF Exports
<1>2. Sequence(ExportSocket) /\ Len(ExportSocket) >= 3
  <2> DEFINE first == <<"export SSH_AUTH_SOCK=">>
             quote == ShellQuote(<<"held-socket">>)
             end   == <<";", " ">>
  <2>1. Sequence(first) /\ Len(first) = 1 BY FewWords
  <2>2. Sequence(quote)
    <3>1. Sequence(<<"held-socket">>) BY FewWords
    <3> QED BY <3>1, ShellQuoteType
  <2>3. Sequence(end) /\ Len(end) = 2 BY FewWords
  <2>4. ExportSocket = (first \o quote) \o end BY DEF ExportSocket
  <2> HIDE DEF first, quote, end
  <2>5. Sequence(first \o quote) /\ Len(first \o quote) = Len(first) + Len(quote) /\ Len(quote) \in Nat
    <3>1. Sequence(first) BY <2>1
    <3> QED BY <2>2, <3>1, JoinFacts
  <2> DEFINE f == first \o quote
  <2>6. Sequence(f) /\ Len(f) >= 1 BY <2>1, <2>5
  <2> HIDE DEF f
  <2>7. Sequence(f \o end) /\ Len(f \o end) = Len(f) + Len(end) /\ Len(f) \in Nat
    <3>1. Sequence(f) /\ Sequence(end) BY <2>3, <2>6
    <3> QED BY <3>1, JoinFacts
  <2>8. Len(f \o end) >= 3 BY <2>3, <2>6, <2>7
  <2> QED BY <2>4, <2>7, <2>8 DEF f
<1>3. Exports \o <<>> = Exports BY <1>1, NothingAdded
<1>4. Shared(FALSE) = Exports BY <1>3 DEF Shared
<1>5. ASSUME NEW socket PROVE Sequence(Shared(socket))
  <2>1. Sequence(Exports \o ExportSocket) BY <1>1, <1>2, JoinFacts
  <2> QED BY <1>1, <1>3, <2>1 DEF Shared
<1> QED BY <1>1, <1>2, <1>4, <1>5

\* What is left behind them.
LEMMA AfterShared ==
  ASSUME NEW x, Sequence(x), NEW socket
  PROVE  AfterExports(Shared(socket) \o x, socket) = x
<1> DEFINE a == Shared(socket)
<1>1. Sequence(a) BY SharedFacts
<1>2. AfterExports(a \o x, socket) = IF IsPrefix(a, a \o x) THEN TailOf(a \o x, Len(a)) ELSE a \o x
  BY DEF AfterExports, Shared
<1> HIDE DEF a
<1>3. IsPrefix(a, a \o x) /\ TailOf(a \o x, Len(a)) = x BY <1>1, PrefixOfJoin
<1> QED BY <1>2, <1>3 DEF a

\* How a typed command is handed to sh.
ShellCall == <<"sh", " ", "-c", " ">>

\* What a call of sh consists of.
LEMMA ShellCallFacts == Sequence(ShellCall) /\ Len(ShellCall) = 4 /\ ShellCall[1] = "sh"
<1>1. ShellCall \in Seq({"sh", " ", "-c"}) BY DEF ShellCall
<1>2. Len(ShellCall) = 4 /\ ShellCall[1] = "sh" BY DEF ShellCall
<1> QED BY <1>1, <1>2, AnySequence

\* A text that slush puts behind the exports, and one that needs none.
LEMMA ExportedRuns == ASSUME NEW x, Sequence(x) PROVE TextRuns(Exports \o x) = x
<1> DEFINE text == Exports \o x
           out == Exports
<1>1. AfterExports(text, FALSE) = x BY AfterShared, SharedFacts
<1>2. Sequence(text) /\ text[1] = out[1]
  <2>1. Sequence(out) /\ Len(out) = 2 BY SharedFacts
  <2>2. Len(out) # 0 BY <2>1
  <2> HIDE DEF out
  <2>3. Sequence(out \o x) BY <2>1, JoinFacts
  <2>4. (out \o x)[1] = out[1] BY <2>1, <2>2, JoinStarts
  <2> QED BY <2>3, <2>4 DEF out
<1>3. out[1] = "export SLUSH SLUSH_TOKEN SLUSH_PORT BROWSER PATH;" BY SharedFacts
<1> HIDE DEF text, out
<1>4. ShellCall[1] # text[1] BY <1>2, <1>3, ShellCallFacts
<1>5. Len(ShellCall) # 0 BY ShellCallFacts
<1>6. ~IsPrefix(ShellCall, text) BY <1>2, <1>4, <1>5, ShellCallFacts, OtherStart
<1>7. TextRuns(text) = IF IsPrefix(ShellCall, text) THEN WordsRun(ShellWords(text), FALSE)
                       ELSE AfterExports(text, FALSE)
  BY DEF TextRuns, ShellCall
<1> QED BY <1>1, <1>6, <1>7 DEF text

\* The script of a check is one quoted word, and runs as it stands.
LEMMA CheckFacts ==
  Sequence(CheckScript) /\ CheckScript[1] = "'" /\ TextRuns(CheckScript) = CheckScript
<1>1. Sequence(CheckScript)
  <2>1. ASSUME NEW a, NEW b, NEW c, NEW d PROVE Sequence(<<a, b, a, c, d>>)
    <3>1. <<a, b, a, c, d>> \in Seq({a, b, c, d}) OBVIOUS
    <3> QED BY <3>1, AnySequence
  <2> QED BY <2>1 DEF CheckScript
<1>2. CheckScript[1] = "'" BY DEF CheckScript
<1> DEFINE text == CheckScript
<1> HIDE DEF text
<1>3. ~IsPrefix(ShellCall, text)
  <2>1. ShellCall[1] # text[1] BY <1>2, ShellCallFacts DEF text
  <2>2. Len(ShellCall) # 0 /\ Sequence(text) BY <1>1, ShellCallFacts DEF text
  <2> QED BY <2>1, <2>2, ShellCallFacts, OtherStart
<1>4. ~IsPrefix(Shared(FALSE), text)
  <2>1. Shared(FALSE) = Exports BY SharedFacts
  <2> DEFINE out == Exports
  <2>2. out[1] = "export SLUSH SLUSH_TOKEN SLUSH_PORT BROWSER PATH;" BY SharedFacts
  <2>3. Sequence(out) /\ Len(out) = 2 BY SharedFacts
  <2> HIDE DEF out
  <2>4. out[1] # text[1] BY <1>2, <2>2 DEF text
  <2>5. Len(out) # 0 BY <2>3
  <2>6. Sequence(text) BY <1>1 DEF text
  <2>7. ~IsPrefix(out, text) BY <2>3, <2>4, <2>5, <2>6, OtherStart
  <2> QED BY <2>1, <2>7 DEF out
<1>5. TextRuns(text) = IF IsPrefix(ShellCall, text) THEN WordsRun(ShellWords(text), FALSE)
                       ELSE AfterExports(text, FALSE)
  BY DEF TextRuns, ShellCall
<1>6. AfterExports(text, FALSE)
        = IF IsPrefix(Shared(FALSE), text) THEN TailOf(text, Len(Shared(FALSE))) ELSE text
  BY DEF AfterExports, Shared
<1>7. TextRuns(text) = text BY <1>3, <1>4, <1>5, <1>6
<1> QED BY <1>1, <1>2, <1>7 DEF text

\* mosh's words for a command of three.
LEMMA CommandOfThree ==
  ASSUME NEW three, Sequence(three), Len(three) = 3, NEW socket
  PROVE  LET words == MoshCommand(three, socket)
         IN  /\ Sequence(words) /\ Len(words) = 7
             /\ words[1] = W("sh") /\ words[2] = W("-c")
             /\ words[3] = Shared(socket) \o ExecParameters /\ words[4] = W("sh")
             /\ words[5] = three[1] /\ words[6] = three[2] /\ words[7] = three[3]
<1> DEFINE script == Shared(socket) \o ExecParameters
           head   == <<W("sh"), W("-c"), script, W("sh")>>
           words  == head \o three
<1>1. Sequence(head)
  <2>1. head \in Seq({W("sh"), W("-c"), script}) OBVIOUS
  <2> QED BY <2>1, AnySequence
<1>2. Len(head) = 4 /\ head[1] = W("sh") /\ head[2] = W("-c") /\ head[3] = script /\ head[4] = W("sh")
  OBVIOUS
<1>5. MoshCommand(three, socket) = words
  <2>1. three # <<>> OBVIOUS
  <2> QED BY <2>1 DEF MoshCommand, Shared
<1> HIDE DEF head, script
<1>6. /\ Sequence(words) /\ Len(words) = Len(head) + Len(three)
      /\ \A i \in 1..Len(head) : words[i] = head[i]
      /\ \A i \in 1..Len(three) : words[Len(head) + i] = three[i]
  <2> DEFINE back == three
  <2>1. Sequence(back) OBVIOUS
  <2> HIDE DEF back
  <2>2. /\ Sequence(head \o back) /\ Len(head \o back) = Len(head) + Len(back)
        /\ \A i \in 1..Len(head) : (head \o back)[i] = head[i]
        /\ \A i \in 1..Len(back) : (head \o back)[Len(head) + i] = back[i]
    BY <1>1, <2>1, JoinFacts
  <2> QED BY <2>2 DEF back
<1> HIDE DEF words
<1>7. Len(words) = 7 BY <1>2, <1>6
<1>8. words[1] = W("sh") /\ words[2] = W("-c") /\ words[3] = script /\ words[4] = W("sh")
  BY <1>2, <1>6
<1>9. words[5] = three[1] /\ words[6] = three[2] /\ words[7] = three[3]
  <2>1. /\ 1 \in 1..Len(three) /\ 2 \in 1..Len(three) /\ 3 \in 1..Len(three)
        /\ Len(head) + 1 = 5 /\ Len(head) + 2 = 6 /\ Len(head) + 3 = 7
    BY <1>2
  <2> QED BY <1>6, <2>1
<1> QED BY <1>5, <1>6, <1>7, <1>8, <1>9 DEF script

\* The command that a session asks for.
AskedOf(r) == IF Tail(r.operands) = <<>> THEN InteractiveShell ELSE Join(Tail(r.operands))

\* The held socket is exported to a mosh session if the agent is.
LEMMA SocketShown ==
  ASSUME NEW x, Sequence(x), Len(x) = 1, NEW agent \in BOOLEAN
  PROVE  IsPrefix(Exports \o ExportSocket, Shared(agent) \o x) <=> agent
<1> DEFINE out  == Exports
           sock == ExportSocket
<1>1. Sequence(out) /\ Len(out) = 2 BY SharedFacts
<1>2. Sequence(sock) /\ Len(sock) >= 3 BY SharedFacts
<1>3. Shared(TRUE) = out \o sock BY DEF Shared
<1>4. Shared(FALSE) = out BY SharedFacts
<1> HIDE DEF out, sock
<1>5. Sequence(out \o sock) /\ Len(out \o sock) = Len(out) + Len(sock) /\ Len(sock) \in Nat
  <2>1. Sequence(out) /\ Sequence(sock) BY <1>1, <1>2
  <2> QED BY <2>1, JoinFacts
<1>6. Len(out \o x) = Len(out) + Len(x)
  <2>1. Sequence(out) /\ Sequence(x) BY <1>1
  <2> QED BY <2>1, JoinFacts
<1> DEFINE full == out \o sock
<1>7. Sequence(full) /\ Len(full) >= 5 /\ Len(full) \in Nat BY <1>1, <1>2, <1>5
<1> HIDE DEF full
<1>8. CASE agent
  <2>1. IsPrefix(full, full \o x) BY <1>7, PrefixOfJoin
  <2> QED BY <1>3, <1>8, <2>1 DEF full, out, sock
<1>9. CASE ~agent
  <2>1. Len(out \o x) = 3 BY <1>1, <1>6
  <2>2. ~IsPrefix(full, out \o x) BY <1>7, <2>1 DEF IsPrefix
  <2> QED BY <1>4, <1>9, <2>2 DEF full, out, sock
<1> QED BY <1>8, <1>9

\* What mosh-server runs.
LEMMA MoshWordsRead ==
  ASSUME Fit
  PROVE  /\ Sequence(MoshWords) /\ Len(MoshWords) >= 3
         /\ WordsRun(MoshWords, request.agent) = AskedOf(request)
         /\ IsPrefix(Exports \o ExportSocket, MoshWords[3]) <=> request.agent
<1> DEFINE agent == request.agent
           words == MoshWords
<1>1. agent \in BOOLEAN /\ Sequence(words) BY FitFacts, MoshWordsType
<1>2. Command = Tail(request.operands) BY DEF Command
<1>3. CASE Command = <<>>
  <2> DEFINE x == InteractiveShell
  <2>1. words = <<W("sh"), W("-c"), Shared(agent) \o x>>
    BY <1>3 DEF MoshWords, TypedScript, MoshCommand, Shared
  <2>2. Sequence(x) /\ Len(x) = 1 BY FewWords DEF InteractiveShell
  <2> DEFINE text == Shared(agent) \o x
  <2>3. Len(words) = 3 /\ words[3] = text BY <2>1
  <2> HIDE DEF agent, words, x
  <2>4. AfterExports(text, agent) = x BY <2>2, AfterShared
  <2>5. IsPrefix(Exports \o ExportSocket, text) <=> agent BY <1>1, <2>2, SocketShown
  <2> HIDE DEF text
  <2>6. WordsRun(words, agent) = x
    <3>1. AfterExports(words[3], agent) = x BY <2>3, <2>4
    <3> QED BY <2>3, <3>1 DEF WordsRun
  <2>7. AskedOf(request) = x BY <1>2, <1>3 DEF AskedOf, x
  <2>8. Len(words) >= 3 BY <2>3
  <2> QED BY <1>1, <2>3, <2>5, <2>6, <2>7, <2>8 DEF agent, words
<1>4. CASE Command # <<>>
  <2> DEFINE x == ExecParameters
             a == W("sh")
             b == W("-c")
             c == Join(Command)
             three == <<a, b, c>>
  <2>1. words = MoshCommand(three, agent) BY <1>4 DEF MoshWords, TypedScript
  <2>2. Sequence(x) /\ Len(x) = 1 BY FewWords DEF ExecParameters
  <2> DEFINE text == Shared(agent) \o x
  <2>9. Sequence(three) BY ThreeWords
  <2>10. Len(three) = 3 /\ three[3] = c OBVIOUS
  <2> HIDE DEF agent, words, three, c
  <2>3. Len(words) = 7 /\ words[3] = text /\ words[7] = c BY <2>1, <2>9, <2>10, CommandOfThree
  <2> HIDE DEF x
  <2>4. AfterExports(text, agent) = x BY <2>2, AfterShared
  <2>5. IsPrefix(Exports \o ExportSocket, text) <=> agent BY <1>1, <2>2, SocketShown
  <2> HIDE DEF text
  <2>6. WordsRun(words, agent) = c
    <3>1. AfterExports(words[3], agent) = ExecParameters BY <2>3, <2>4 DEF x
    <3>2. Len(words) # 3 BY <2>3
    <3> QED BY <2>3, <3>1, <3>2 DEF WordsRun
  <2>7. AskedOf(request) = c BY <1>2, <1>4 DEF AskedOf, c
  <2>8. Len(words) >= 3 BY <2>3
  <2> QED BY <1>1, <2>3, <2>5, <2>6, <2>7, <2>8 DEF agent, words
<1> QED BY <1>3, <1>4

\* "sh -c " begins two words.
LEMMA ShellCallRead == Leads(Start, ShellCall, Fresh(<<W("sh"), W("-c")>>))
<1> DEFINE one == <<W("sh")>>
           two == <<W("sh"), W("-c")>>
           begin == <<"sh", " ", "-c">>
           blank == <<" ">>
           t == At(FALSE, TRUE, W("-c"), one)
<1>1. ReadAtom(ReadAtom(ReadAtom(Start, "sh"), " "), "-c") = t
  <2>0. "sh" \notin Special /\ "-c" \notin Special BY DEF Special
  <2>1. ReadAtom(Fresh(<<>>), "sh") = At(FALSE, TRUE, W("sh"), <<>>) BY <2>0, FreshBegins
  <2>2. ReadAtom(At(FALSE, TRUE, W("sh"), <<>>), " ") = Fresh(Append(<<>>, W("sh"))) BY BlankEnds
  <2>3. Append(<<>>, W("sh")) = one BY TailOfTwo
  <2>4. ReadAtom(Fresh(one), "-c") = t BY <2>0, FreshBegins
  <2>5. Start = Fresh(<<>>) BY DEF Start, Fresh
  <2> HIDE DEF t
  <2> QED BY <2>1, <2>2, <2>3, <2>4, <2>5
<1>2. ReadAtom(t, " ") = Fresh(two)
  <2>1. ReadAtom(At(FALSE, TRUE, W("-c"), one), " ") = Fresh(Append(one, W("-c"))) BY BlankEnds
  <2>2. Append(one, W("-c")) = two BY TailOfTwo
  <2> QED BY <2>1, <2>2
<1> HIDE DEF t, two
<1>3. Leads(Start, begin, t) BY <1>1, LeadsThree
<1>4. Sequence(begin) /\ begin \o blank = ShellCall BY ThreeWords DEF ShellCall
<1>5. Sequence(blank) BY FewWords
<1> HIDE DEF begin
<1>6. Leads(t, blank, Fresh(two)) BY <1>2, LeadsOne
<1> HIDE DEF blank
<1>7. Leads(Start, begin \o blank, Fresh(two)) BY <1>3, <1>4, <1>5, <1>6, LeadsJoin
<1> QED BY <1>4, <1>7 DEF two

\* Four words that begin with the third of seven.
LEMMA WordsFromThird ==
  ASSUME NEW words, Sequence(words), Len(words) = 7, NEW front, Sequence(front), Len(front) = 2
  PROVE  LET rest == [i \in 1..4 |-> words[i + 3]]
             all  == Append(front, words[3]) \o rest
         IN  /\ Sequence(rest) /\ Len(rest) = 4
             /\ Len(all) = 7 /\ all[3] = words[3] /\ all[7] = words[7]
<1> DEFINE rest == [i \in 1..4 |-> words[i + 3]]
           three == Append(front, words[3])
           all == three \o rest
<1>1. Sequence(rest) /\ Len(rest) = 4 /\ rest[4] = words[7]
  <2>1. rest \in Seq({words[i] : i \in 1..7})
    <3>1. \A i \in 1..4 : i + 3 \in 1..7 OBVIOUS
    <3>2. rest \in [1..4 -> {words[i] : i \in 1..7}] BY <3>1
    <3> QED BY <3>2
  <2>2. Len(rest) = 4 /\ rest[4] = words[7] OBVIOUS
  <2> QED BY <2>1, <2>2, AnySequence
<1>2. Sequence(three) /\ Len(three) = Len(front) + 1 /\ three[Len(front) + 1] = words[3]
  BY AppendFacts
<1> HIDE DEF rest, three
<1>3. Len(three) = 3 /\ three[3] = words[3] BY <1>2
<1>4. /\ Len(all) = Len(three) + Len(rest)
      /\ \A i \in 1..Len(three) : all[i] = three[i]
      /\ \A i \in 1..Len(rest) : all[Len(three) + i] = rest[i]
  <2>1. Sequence(three) /\ Sequence(rest) BY <1>1, <1>2
  <2> QED BY <2>1, JoinFacts
<1> HIDE DEF all
<1>5. Len(all) = 7 BY <1>1, <1>3, <1>4
<1>6. all[3] = words[3]
  <2>1. 3 \in 1..Len(three) BY <1>3
  <2> QED BY <1>3, <1>4, <2>1
<1>7. all[7] = words[7]
  <2>1. 4 \in 1..Len(rest) /\ Len(three) + 4 = 7 BY <1>1, <1>3
  <2> QED BY <1>1, <1>4, <2>1
<1> QED BY <1>1, <1>5, <1>6, <1>7 DEF all, rest, three

\* A text that begins with "sh -c ".
LEMMA ShellCallWords ==
  ASSUME NEW u, NEW all, Adds(u, <<W("sh"), W("-c")>>, all)
  PROVE  ShellWords(ShellCall \o u) = all
<1> DEFINE two == <<W("sh"), W("-c")>>
           pre == ShellCall
<1>1. PICK t : Leads(Fresh(two), u, t) /\ ReadAtom(t, " ") = Fresh(all) BY DEF Adds
<1>2. Sequence(u) BY DEF Adds
<1>3. Leads(Start, pre, Fresh(two)) /\ Sequence(pre) BY ShellCallRead, ShellCallFacts
<1> HIDE DEF two, pre
<1>4. Leads(Start, pre \o u, t) /\ Sequence(pre \o u) BY <1>1, <1>2, <1>3, LeadsJoin, JoinFacts
<1> DEFINE text == pre \o u
<1>5. Leads(Start, text, t) /\ Sequence(text) BY <1>4
<1> HIDE DEF text
<1>6. ShellWords(text) = ReadAtom(t, " ").words BY <1>5, WordsRead
<1>7. Fresh(all).words = all BY DEF Fresh, At
<1>8. ShellWords(text) = all BY <1>1, <1>6, <1>7
<1> QED BY <1>8 DEF text, pre

\* What the shell makes of the wrapper of a mosh session.
LEMMA MoshWrapperRuns ==
  ASSUME NEW command, Sequence(command), mode = "mosh"
  PROVE  TextRuns(WrappedCommand(command)) = command
<1> DEFINE three   == <<W("sh"), W("-c"), command>>
           wrapped == MoshCommand(three, FALSE)
           third   == wrapped[3]
           quoted  == [i \in 1..Len(wrapped) - 3 |-> ShellQuote(wrapped[i + 3])]
           rest    == [i \in 1..4 |-> wrapped[i + 3]]
           two     == <<W("sh"), W("-c")>>
           before  == Append(two, third)
           all     == before \o rest
           blank   == <<" ">>
           q       == ShellQuote(third)
           text    == ((ShellCall \o q) \o blank) \o Join(quoted)
<1>1. WrappedCommand(command) = text BY DEF WrappedCommand, ShellCall
<1>2. Sequence(three) BY ThreeWords
<1>3. Len(three) = 3 /\ three[1] = W("sh") /\ three[2] = W("-c") /\ three[3] = command OBVIOUS
<1>4. Sequence(W("sh")) /\ Sequence(W("-c")) BY FewWords DEF W
<1>5. Sequence(two) /\ Len(two) = 2 BY FewWords
<1> HIDE DEF three
<1>6. /\ Sequence(wrapped) /\ Len(wrapped) = 7
      /\ wrapped[3] = Shared(FALSE) \o ExecParameters /\ wrapped[4] = W("sh")
      /\ wrapped[5] = W("sh") /\ wrapped[6] = W("-c") /\ wrapped[7] = command
  <2> DEFINE no == FALSE
  <2> HIDE DEF no
  <2>1. /\ Sequence(MoshCommand(three, no)) /\ Len(MoshCommand(three, no)) = 7
        /\ MoshCommand(three, no)[3] = Shared(no) \o ExecParameters
        /\ MoshCommand(three, no)[4] = W("sh") /\ MoshCommand(three, no)[5] = three[1]
        /\ MoshCommand(three, no)[6] = three[2] /\ MoshCommand(three, no)[7] = three[3]
    BY <1>2, <1>3, CommandOfThree
  <2> QED BY <1>3, <2>1 DEF no
<1> HIDE DEF wrapped, two
<1>7. Sequence(rest) /\ Len(rest) = 4 /\ Len(all) = 7 /\ all[3] = third /\ all[7] = command
  BY <1>5, <1>6, WordsFromThird
<1>8. Sequence(ExecParameters) BY FewWords DEF ExecParameters
<1>9. AfterExports(third, FALSE) = ExecParameters BY <1>6, <1>8, AfterShared
<1>10. Sequence(third)
  <2> DEFINE a == Shared(FALSE)
             b == ExecParameters
  <2>1. Sequence(a) /\ Sequence(b) BY <1>8, SharedFacts
  <2>2. third = a \o b BY <1>6
  <2> HIDE DEF a, b
  <2>3. Sequence(a \o b) BY <2>1, JoinFacts
  <2> QED BY <2>2, <2>3
<1>11. WordList(rest)
  <2>1. rest[1] = wrapped[4] /\ rest[2] = wrapped[5] /\ rest[3] = wrapped[6] /\ rest[4] = wrapped[7]
    OBVIOUS
  <2> HIDE DEF rest
  <2>2. Sequence(rest[1]) /\ Sequence(rest[2]) /\ Sequence(rest[3]) /\ Sequence(rest[4])
    BY <1>4, <1>6, <2>1
  <2>3. \A i \in 1..Len(rest) : i = 1 \/ i = 2 \/ i = 3 \/ i = 4 BY <1>7
  <2> QED BY <1>7, <2>2, <2>3 DEF WordList
<1>12. quoted = [i \in 1..Len(rest) |-> ShellQuote(rest[i])]
  <2>1. Len(wrapped) - 3 = 4 BY <1>6
  <2>2. Len(rest) = 4 BY <1>7
  <2>3. \A i \in 1..4 : rest[i] = wrapped[i + 3] OBVIOUS
  <2> HIDE DEF rest
  <2> QED BY <2>1, <2>2, <2>3
<1> HIDE DEF rest, third, all, quoted, q
<1>13. Sequence(before) BY <1>5, AppendFacts
<1>14. Adds(Join(quoted), before, all)
  <2>1. Len(rest) # 0 BY <1>7
  <2> HIDE DEF before
  <2>2. Adds(Join([i \in 1..Len(rest) |-> ShellQuote(rest[i])]), before, before \o rest)
    BY <1>11, <1>13, <2>1, AddsJoined
  <2> QED BY <1>12, <2>2 DEF all
<1>15. Adds(q, two, before) BY <1>5, <1>10, AddsQuoted DEF q
<1> HIDE DEF before
<1> DEFINE j == Join(quoted)
           u == q \o (blank \o j)
<1>16. Adds(u, two, all) BY <1>14, <1>15, AddsBoth
<1>17. text = ShellCall \o u
  <2> DEFINE s == ShellCall
  <2>1. Sequence(s) /\ Sequence(q) /\ Sequence(blank) /\ Sequence(j)
    BY <1>14, <1>15, ShellCallFacts, FewWords DEF Adds
  <2> HIDE DEF s, blank, j
  <2>2. (s \o q) \o blank = s \o (q \o blank) BY <2>1, JoinAssociates
  <2>3. Sequence(q \o blank) BY <2>1, JoinFacts
  <2> DEFINE qb == q \o blank
  <2>4. Sequence(qb) BY <2>3
  <2>5. (q \o blank) \o j = q \o (blank \o j) BY <2>1, JoinAssociates
  <2>6. text = (s \o qb) \o j BY <2>2 DEF s, j
  <2>7. qb \o j = u BY <2>5
  <2> HIDE DEF qb, text, u
  <2>8. (s \o qb) \o j = s \o (qb \o j)
    <3>1. Sequence(s) /\ Sequence(qb) /\ Sequence(j) BY <2>1, <2>4
    <3> QED BY <3>1, JoinAssociates
  <2> QED BY <2>6, <2>7, <2>8 DEF s
<1>18. Sequence(u) BY <1>16 DEF Adds
<1> HIDE DEF text, u
<1>19. ShellWords(text) = all BY <1>16, <1>17, ShellCallWords DEF two
<1>20. IsPrefix(ShellCall, text) BY <1>17, <1>18, ShellCallFacts, PrefixOfJoin
<1>21. TextRuns(text) = WordsRun(all, FALSE) BY <1>19, <1>20 DEF TextRuns, ShellCall
<1>22. WordsRun(all, FALSE) = command
  <2>1. AfterExports(all[3], FALSE) = ExecParameters BY <1>7, <1>9
  <2>2. Len(all) # 3 /\ Len(all) = 7 BY <1>7
  <2> QED BY <1>7, <2>1, <2>2 DEF WordsRun
<1> QED BY <1>1, <1>21, <1>22

\* What is checked runs, with the session's wrapper or without.
LEMMA CheckRuns ==
  ASSUME NEW script \in {CheckScript, WrappedCommand(CheckScript)}
  PROVE  Sequence(script) /\ TextRuns(script) = CheckScript
<1> DEFINE c == CheckScript
<1>1. Sequence(c) /\ TextRuns(c) = c BY CheckFacts
<1> HIDE DEF c
<1>2. Sequence(WrappedCommand(c)) BY <1>1, WrappedCommandType
<1>3. CASE mode = "mosh"
  <2>1. TextRuns(WrappedCommand(c)) = c BY <1>1, <1>3, MoshWrapperRuns
  <2> QED BY <1>1, <1>2, <2>1 DEF c
<1>4. CASE mode # "mosh"
  <2> DEFINE words == <<c>>
  <2>1. Len(words) = 1 /\ words[1] = c /\ words # <<>> BY FewWords
  <2>2. Join(words) = c
    <3> DEFINE x == [i \in 1..Len(words) |-> IF i = 1 THEN words[i] ELSE <<" ">> \o words[i]]
    <3>1. x = <<c>>
      <4> HIDE DEF words
      <4>1. x = [i \in 1..1 |-> c] BY <2>1
      <4>2. <<c>> = [i \in 1..1 |-> c] OBVIOUS
      <4> QED BY <4>1, <4>2
    <3> QED BY <3>1, FlattenFew DEF Join
  <2>3. WrappedCommand(c) = SSHCommand(words) BY <1>4 DEF WrappedCommand
  <2> HIDE DEF words
  <2>4. SSHCommand(words) = Exports \o c BY <2>1, <2>2 DEF SSHCommand
  <2>5. TextRuns(WrappedCommand(c)) = c BY <1>1, <2>3, <2>4, ExportedRuns
  <2> QED BY <1>1, <1>2, <2>5 DEF c
<1> QED BY <1>3, <1>4

\* The command of an ssh session.
LEMMA SSHCommandRuns ==
  ASSUME Fit PROVE TextRuns(SSHCommand(Command)) = AskedOf(request)
<1>1. WordList(Command) BY FitFacts
<1> DEFINE x == IF Command = <<>> THEN InteractiveShell ELSE Join(Command)
<1>2. Sequence(x)
  <2>1. Sequence(InteractiveShell) BY FewWords DEF InteractiveShell
  <2>2. Sequence(Join(Command)) BY <1>1, JoinType
  <2> QED BY <2>1, <2>2
<1>3. SSHCommand(Command) = Exports \o x BY DEF SSHCommand
<1>4. AskedOf(request) = x BY DEF AskedOf, Command
<1> HIDE DEF x
<1> QED BY <1>2, <1>3, <1>4, ExportedRuns

\* What the options of --ssh give.
LEMMA BootGives ==
  Gives(BootOptions, AskedPort, AskedIdentity, AskedConfig, {W(AgentWord)} \union {ControlPath}, {})
<1> DEFINE no == <<W("-oForwardAgent=no")>>
<1>1. Gives(no, {}, {}, {}, {}, {})
  <2> DEFINE f == "-oForwardAgent=no"
  <2>1. f \in DashedAtoms /\ f # "--" /\ f \notin RealSSHTakesArg
    BY DashAssumption DEF RealSSHTakesArg
  <2>2. {"-p", "-i", "-F", "-o", "-S"} \subseteq RealSSHTakesArg BY DEF RealSSHTakesArg
  <2> HIDE DEF f
  <2>3. Options(<<W(f)>>, RealSSHTakesArg) BY <2>1, OneFlag
  <2>4. \A flag \in RealSSHTakesArg : GivenTo(<<W(f)>>, flag) = {} BY <2>1, GivenFlag
  <2>5. /\ GivenTo(<<W(f)>>, "-p") = {} /\ GivenTo(<<W(f)>>, "-i") = {}
        /\ GivenTo(<<W(f)>>, "-F") = {} /\ GivenTo(<<W(f)>>, "-o") = {}
        /\ GivenTo(<<W(f)>>, "-S") = {}
    BY <2>2, <2>4
  <2>6. Gives(<<W(f)>>, {}, {}, {}, {}, {}) BY <2>3, <2>5 DEF Gives
  <2> QED BY <2>6 DEF f
<1> HIDE DEF no
<1>2. Gives(no \o ConnOpts, {} \union AskedPort, {} \union AskedIdentity, {} \union AskedConfig,
            {} \union {W(AgentWord)}, {} \union {})
  BY <1>1, GivesConnOpts, GivesJoin
<1>3. /\ {} \union AskedPort = AskedPort /\ {} \union AskedIdentity = AskedIdentity
      /\ {} \union AskedConfig = AskedConfig /\ {} \union {W(AgentWord)} = {W(AgentWord)}
      /\ {} \union {} = {}
  OBVIOUS
<1>4. Gives(no \o ConnOpts, AskedPort, AskedIdentity, AskedConfig, {W(AgentWord)}, {})
  BY <1>2, <1>3
<1>5. Gives((no \o ConnOpts) \o Opt("-o", ControlPath), AskedPort, AskedIdentity, AskedConfig,
            {W(AgentWord)} \union {ControlPath}, {})
  BY <1>4, GivesSetting
<1> QED BY <1>5 DEF BootOptions, no

\* What the options of mosh's own ssh give: another control path, which counts.
LEMMA BootstrapGives ==
  /\ Gives(BootstrapOptions, AskedPort, AskedIdentity, AskedConfig,
           {W(AgentWord)} \union {ControlPath} \union {W("ProxyCommand=mosh")}, {W("none")})
  /\ Sequence(MoshDiscovery)
<1> DEFINE n  == <<W("-n")>>
           S  == Opt("-S", W("none"))
           pc == Opt("-o", W("ProxyCommand=mosh"))
           o  == {W(AgentWord)} \union {ControlPath}
<1>1. Gives(n, {}, {}, {}, {}, {}) BY GivesNothing
<1>2. Gives(S, {}, {}, {}, {}, {W("none")}) BY GivesOption
<1>3. Gives(BootOptions, AskedPort, AskedIdentity, AskedConfig, o, {}) BY BootGives
<1>4. MoshDiscovery = (n \o S) \o pc BY DEF MoshDiscovery
<1> HIDE DEF n, S, o
<1>5. Gives(n \o S, {} \union {}, {} \union {}, {} \union {}, {} \union {}, {} \union {W("none")})
  BY <1>1, <1>2, GivesJoin
<1>6. {} \union {} = {} /\ {} \union {W("none")} = {W("none")} OBVIOUS
<1>7. Gives(n \o S, {}, {}, {}, {}, {W("none")}) BY <1>5, <1>6
<1>8. Gives((n \o S) \o pc, {}, {}, {}, {} \union {W("ProxyCommand=mosh")}, {W("none")})
  BY <1>7, GivesSetting
<1> HIDE DEF pc
<1>9. Gives(MoshDiscovery, {}, {}, {}, {} \union {W("ProxyCommand=mosh")}, {W("none")})
  BY <1>4, <1>8
<1>10. Gives(BootOptions \o MoshDiscovery, AskedPort \union {}, AskedIdentity \union {},
             AskedConfig \union {}, o \union ({} \union {W("ProxyCommand=mosh")}),
             {} \union {W("none")})
  BY <1>3, <1>9, GivesJoin
<1>11. /\ AskedPort \union {} = AskedPort /\ AskedIdentity \union {} = AskedIdentity
       /\ AskedConfig \union {} = AskedConfig
       /\ o \union ({} \union {W("ProxyCommand=mosh")}) = o \union {W("ProxyCommand=mosh")}
  OBVIOUS
<1>12. Gives(BootstrapOptions, AskedPort, AskedIdentity, AskedConfig,
             o \union {W("ProxyCommand=mosh")}, {W("none")})
  BY <1>6, <1>10, <1>11 DEF BootstrapOptions
<1>13. Sequence(MoshDiscovery) BY <1>9 DEF Gives, Options
<1> QED BY <1>12, <1>13 DEF o

\* ForwardAgent=no comes first.
LEMMA BootStarts ==
  Sequence(BootOptions) /\ Len(BootOptions) # 0 /\ BootOptions[1] = W("-oForwardAgent=no")
<1> DEFINE no == <<W("-oForwardAgent=no")>>
           conn == ConnOpts
           opt == Opt("-o", ControlPath)
<1>1. Sequence(no) /\ Len(no) = 1 /\ no[1] = W("-oForwardAgent=no") BY FewWords
<1>2. Sequence(opt) BY FewWords DEF Opt
<1>3. Sequence(conn) BY GivesConnOpts DEF Gives, Options
<1>4. BootOptions = (no \o conn) \o opt BY DEF BootOptions
<1> HIDE DEF no, conn, opt
<1>5. Sequence(no \o conn) /\ Len(no \o conn) = Len(no) + Len(conn) /\ Len(conn) \in Nat
  <2>1. Sequence(no) BY <1>1
  <2> QED BY <1>3, <2>1, JoinFacts
<1> DEFINE u == no \o conn
<1>6. Len(u) # 0 /\ Sequence(u) BY <1>1, <1>5
<1>7. u[1] = W("-oForwardAgent=no")
  <2>1. Len(no) # 0 BY <1>1
  <2> QED BY <1>1, <1>3, <2>1, JoinStarts
<1> HIDE DEF u
<1>8. Sequence(u \o opt) /\ Len(u \o opt) = Len(u) + Len(opt) /\ Len(u) \in Nat /\ Len(opt) \in Nat
  BY <1>2, <1>6, JoinFacts
<1>9. (u \o opt)[1] = u[1] BY <1>2, <1>6, JoinStarts
<1>10. Len(u \o opt) # 0 BY <1>6, <1>8
<1> QED BY <1>4, <1>7, <1>8, <1>9, <1>10 DEF u

\* A line that begins with -oForwardAgent=no forwards no agent.
LEMMA NoAgent ==
  ASSUME NEW w, Sequence(w), Len(w) # 0, w[1] = W("-oForwardAgent=no")
  PROVE  ~AgentIn(w)
<1> DEFINE I == {i \in 1..Len(w) : w[i][1] \in AgentWords}
           at == SelectInSeq(w, LAMBDA word : word[1] \in AgentWords)
<1>1. w[1][1] = "-oForwardAgent=no" BY DEF W
<1>2. Len(w) \in Nat BY DEF Sequence
<1>3. 1 \in I BY <1>1, <1>2 DEF AgentWords
<1>4. \A i \in I : i \in Nat /\ 1 <= i BY <1>2
<1>5. at = IF I # {} THEN Min(I) ELSE 0 BY DEF SelectInSeq
<1>6. AgentIn(w) = IF at = 0 THEN Configured ELSE w[at][1] \in {"-A", "ForwardAgent=yes"}
  BY DEF AgentIn, AgentWords
<1> HIDE DEF I, at
<1>7. Min(I) = 1
  <2>1. \E i \in I : \A j \in I : i <= j BY <1>3, <1>4
  <2>2. Min(I) \in I /\ \A j \in I : Min(I) <= j BY <2>1 DEF Min
  <2> QED BY <1>3, <1>4, <2>2
<1>8. at = 1 /\ at # 0 BY <1>3, <1>5, <1>7
<1>9. AgentIn(w) = (w[1][1] \in {"-A", "ForwardAgent=yes"}) BY <1>6, <1>8
<1>10. w[1][1] \notin {"-A", "ForwardAgent=yes"} BY <1>1
<1> QED BY <1>9, <1>10

\* What a mosh line says to the ssh that mosh starts, and to mosh-server.
MoshReads(r, args) ==
  LET read == SSHReads(Bootstrap(args))
  IN /\ read.host = r.operands[1] /\ read.command = <<"mosh-server">>
     /\ ControlPath \in GivenTo(read.options, "-o") /\ ~FindsControlPath(read.options)
     /\ GivenTo(read.options, "-p") = PortOf(r)
     /\ GivenTo(read.options, "-i") = GivenBy(r.identity)
     /\ GivenTo(read.options, "-F") = GivenBy(r.config)
     /\ ~AgentIn(read.options)
     /\ IsPrefix(Exports \o ExportSocket, MoshOperands(args)[4]) <=> r.agent
     /\ WordsRun(Tail(MoshOperands(args)), r.agent) = AskedOf(r)

\* Each line that slush gives mosh is read as was meant.
LEMMA MoshLineRead ==
  ASSUME Fit, mode = "mosh"
  PROVE  MoshReads(request, MoshClientArgs)
<1> DEFINE args == MoshClientArgs
           boot == BootstrapOptions
           dashes == <<W("--")>>
           opts == boot \o dashes
           server == W("mosh-server")
           words == MoshWords
           host == <<Host>>
<1>1. MoshOperands(args) = host \o words BY BootstrapIs
<1>2. Bootstrap(args) = boot \o <<Host, W("--"), server>> BY BootstrapIs
<1>3. Gives(boot, AskedPort, AskedIdentity, AskedConfig,
            {W(AgentWord)} \union {ControlPath} \union {W("ProxyCommand=mosh")}, {W("none")})
  BY BootstrapGives
<1>4. ~Dashed(Host) BY FitFacts
<1>5. SSHReads(Bootstrap(args)) = [host |-> Host, options |-> opts, command |-> server]
  <2>1. Options(boot, RealSSHTakesArg) BY <1>3 DEF Gives
  <2> HIDE DEF boot, server
  <2> QED BY <1>2, <1>4, <2>1, ReadsDashes
<1>6. /\ GivenTo(opts, "-o") = {W(AgentWord)} \union {ControlPath} \union {W("ProxyCommand=mosh")}
      /\ GivenTo(opts, "-S") = {W("none")}
      /\ GivenTo(opts, "-p") = AskedPort /\ GivenTo(opts, "-i") = AskedIdentity
      /\ GivenTo(opts, "-F") = AskedConfig
  <2>1. Options(boot, RealSSHTakesArg) BY <1>3 DEF Gives
  <2>2. {"-p", "-i", "-F", "-o", "-S"} \subseteq RealSSHTakesArg BY DEF RealSSHTakesArg
  <2> HIDE DEF boot
  <2>3. \A flag \in RealSSHTakesArg : GivenTo(boot \o <<W("--")>>, flag) = GivenTo(boot, flag)
    BY <2>1, GivenDashes
  <2> HIDE DEF dashes
  <2>4. \A flag \in RealSSHTakesArg : GivenTo(opts, flag) = GivenTo(boot, flag) BY <2>3 DEF dashes
  <2> HIDE DEF opts
  <2> QED BY <1>3, <2>2, <2>4 DEF Gives
<1>7. ~AgentIn(opts)
  <2>1. Sequence(boot) /\ Len(boot) # 0 /\ boot[1] = W("-oForwardAgent=no")
    <3> DEFINE own == BootOptions
               more == MoshDiscovery
    <3>1. Sequence(own) /\ Len(own) # 0 /\ own[1] = W("-oForwardAgent=no") BY BootStarts
    <3>2. Sequence(more) BY BootstrapGives
    <3>3. boot = own \o more BY DEF BootstrapOptions
    <3> HIDE DEF own, more, boot
    <3>4. Sequence(own \o more) /\ Len(own \o more) = Len(own) + Len(more)
          /\ Len(own) \in Nat /\ Len(more) \in Nat
      BY <3>1, <3>2, JoinFacts
    <3>5. (own \o more)[1] = own[1] BY <3>1, <3>2, JoinStarts
    <3> QED BY <3>1, <3>3, <3>4, <3>5
  <2>2. Sequence(dashes) BY FewWords
  <2> HIDE DEF boot, dashes
  <2>3. Sequence(boot \o dashes) /\ Len(boot \o dashes) = Len(boot) + Len(dashes)
        /\ Len(boot) \in Nat /\ Len(dashes) \in Nat
    BY <2>1, <2>2, JoinFacts
  <2>4. (boot \o dashes)[1] = boot[1] BY <2>1, <2>2, JoinStarts
  <2> HIDE DEF opts
  <2>5. Sequence(opts) /\ Len(opts) # 0 /\ opts[1] = W("-oForwardAgent=no")
    BY <2>1, <2>3, <2>4 DEF opts
  <2> QED BY <2>5, NoAgent
<1>8. server = <<"mosh-server">> BY DEF W
<1>9. /\ Sequence(words) /\ Len(words) >= 3
      /\ WordsRun(words, request.agent) = AskedOf(request)
      /\ IsPrefix(Exports \o ExportSocket, words[3]) <=> request.agent
  BY MoshWordsRead
<1>10. Sequence(host) /\ Len(host) = 1 /\ host # <<>> /\ Tail(host) = <<>>
  <2>1. ASSUME NEW a PROVE <<a>> # <<>> /\ Tail(<<a>>) = <<>> OBVIOUS
  <2> QED BY <2>1, FewWords
<1> HIDE DEF words, host
<1>11. Tail(host \o words) = words
  <2>1. Tail(host \o words) = Tail(host) \o words
    <3>1. Sequence(host) /\ Sequence(words) /\ host # <<>> BY <1>9, <1>10
    <3> QED BY <3>1, TailJoins
  <2>2. <<>> \o words = words BY <1>9, NothingAdded
  <2> QED BY <1>10, <2>1, <2>2
<1>12. (host \o words)[4] = words[3]
  <2>1. \A i \in 1..Len(words) : (host \o words)[Len(host) + i] = words[i]
    <3>1. Sequence(host) /\ Sequence(words) BY <1>9, <1>10
    <3> QED BY <3>1, JoinFacts
  <2> DEFINE hw == host \o words
  <2>2. \A i \in 1..Len(words) : hw[Len(host) + i] = words[i] BY <2>1
  <2>3. Len(words) \in Nat BY <1>9 DEF Sequence
  <2> HIDE DEF hw
  <2>4. 3 \in 1..Len(words) /\ Len(host) + 3 = 4 BY <1>9, <1>10, <2>3
  <2>5. hw[4] = words[3] BY <2>2, <2>4
  <2> QED BY <2>5 DEF hw
<1> HIDE DEF args, opts, server
<1> DEFINE ops == MoshOperands(args)
<1>13. Tail(ops) = words /\ ops[4] = words[3] BY <1>1, <1>11, <1>12
<1> HIDE DEF ops
<1>14. WordsRun(Tail(ops), request.agent) = AskedOf(request) BY <1>9, <1>13
<1>15. IsPrefix(Exports \o ExportSocket, ops[4]) <=> request.agent BY <1>9, <1>13
<1> DEFINE read == SSHReads(Bootstrap(args))
<1>16. read.host = Host /\ read.options = opts /\ read.command = <<"mosh-server">>
  BY <1>5, <1>8
<1> HIDE DEF read
<1>17. ControlPath \in GivenTo(read.options, "-o") /\ ~FindsControlPath(read.options)
  <2>1. ControlPath \in GivenTo(read.options, "-o") BY <1>6, <1>16
  <2>2. W("none") # W("ctl") BY DEF W
  <2>3. GivenTo(read.options, "-S") = {W("none")} BY <1>6, <1>16
  <2> HIDE DEF read
  <2>4. GivenTo(read.options, "-S") # {} /\ GivenTo(read.options, "-S") # {W("ctl")} BY <2>2, <2>3
  <2> QED BY <2>1, <2>4 DEF FindsControlPath
<1>18. /\ GivenTo(read.options, "-p") = PortOf(request)
       /\ GivenTo(read.options, "-i") = GivenBy(request.identity)
       /\ GivenTo(read.options, "-F") = GivenBy(request.config)
  BY <1>6, <1>16 DEF AskedPort, AskedIdentity, AskedConfig
<1>19. ~AgentIn(read.options) BY <1>7, <1>16
<1>20. read.host = request.operands[1] BY <1>16 DEF Host
<1>21. MoshReads(request, args)
  BY <1>14, <1>15, <1>16, <1>17, <1>18, <1>19, <1>20 DEF MoshReads, read, ops
<1> QED BY <1>21 DEF args

\* The last word of a line.
LEMMA LastWord ==
  ASSUME NEW w, Sequence(w), NEW a, NEW b
  PROVE  Last(w \o <<a>>) = a /\ Last(w \o <<b, a>>) = a
<1> DEFINE one == <<a>>
           two == <<b, a>>
<1>1. Sequence(one) /\ Len(one) = 1 /\ one[1] = a BY FewWords
<1>2. Sequence(two) /\ Len(two) = 2 /\ two[2] = a BY FewWords
<1> HIDE DEF one, two
<1>3. Sequence(one) /\ Sequence(two) BY <1>1, <1>2
<1>4. /\ Len(w \o one) = Len(w) + Len(one) /\ Len(w \o two) = Len(w) + Len(two)
      /\ \A i \in 1..Len(one) : (w \o one)[Len(w) + i] = one[i]
      /\ \A i \in 1..Len(two) : (w \o two)[Len(w) + i] = two[i]
  BY <1>3, JoinFacts
<1>5. 1 \in 1..Len(one) /\ 2 \in 1..Len(two) BY <1>1, <1>2
<1>6. Last(w \o one) = a BY <1>1, <1>4, <1>5 DEF Last
<1>7. Last(w \o two) = a BY <1>2, <1>4, <1>5 DEF Last
<1> QED BY <1>6, <1>7 DEF one, two

\* What an ssh client and a check give to the remote shell.
LEMMA ClientScript ==
  ASSUME Fit, mode # "mosh", NEW terminal \in BOOLEAN
  PROVE  Last(SSHClientArgs(terminal)) = SSHCommand(Command)
<1> DEFINE cp   == Opt("-o", ControlPath)
           tty  == IF Command = <<>> /\ terminal THEN <<W("-t")>> ELSE <<>>
           host == <<Host>>
           cmd  == SSHCommand(Command)
           conn == ConnOpts
<1>1. SSHClientArgs(terminal) = ((cp \o tty) \o (conn \o host)) \o <<cmd>>
  BY HostCut DEF SSHClientArgs
<1>2. Sequence(cp) /\ Sequence(host) BY FewWords DEF Opt
<1>3. Sequence(tty) BY FewWords
<1>4. Sequence(conn) BY ConnOptsForSlush DEF Options
<1> HIDE DEF cp, tty, host, cmd, conn
<1>5. Sequence(cp \o tty) /\ Sequence(conn \o host) BY <1>2, <1>3, <1>4, JoinFacts
<1> DEFINE a == cp \o tty
           b == conn \o host
<1>6. Sequence(a) /\ Sequence(b) BY <1>5
<1> HIDE DEF a, b
<1>7. Sequence(a \o b) BY <1>6, JoinFacts
<1>8. Last((a \o b) \o <<cmd>>) = cmd BY <1>7, LastWord
<1> QED BY <1>1, <1>8 DEF a, b, cmd

\* The last word of a probe is its script.
LEMMA ProbeScript ==
  ASSUME NEW script
  PROVE  Last(SSHExecArgs(NoMaster \o Held \o ConnOpts, script)) = script
<1> DEFINE held  == NoMaster \o Held
           conn  == ConnOpts
           extra == held \o conn
           batch == Opt("-o", W("BatchMode=yes"))
           time  == Opt("-o", W("ConnectTimeout=10"))
           w     == (extra \o batch) \o time
<1>1. Sequence(held) BY GivesHeld DEF Silent
<1>2. Sequence(conn) BY ConnOptsForSlush DEF Options
<1>3. Sequence(batch) /\ Sequence(time) BY FewWords DEF Opt
<1>4. SSHExecArgs(extra, script) = w \o <<SessionHost, script>> BY DEF SSHExecArgs
<1> HIDE DEF held, conn, batch, time
<1>5. Sequence(extra) BY <1>1, <1>2, JoinFacts
<1> HIDE DEF extra
<1>6. Sequence(extra \o batch) BY <1>3, <1>5, JoinFacts
<1> DEFINE eb == extra \o batch
<1>7. Sequence(eb) BY <1>6
<1> HIDE DEF eb
<1>8. Sequence(eb \o time) BY <1>3, <1>7, JoinFacts
<1>9. Sequence(w) BY <1>8 DEF eb
<1> HIDE DEF w
<1>10. Last(w \o <<SessionHost, script>>) = script BY <1>9, LastWord
<1> QED BY <1>4, <1>10 DEF extra, held, conn

-----------------------------------------------------------------------------
\* What a check's text runs: the exports, and then the script of the check.
CheckReached(text) ==
  IsPrefix(Exports, text) /\ TextRuns(TailOf(text, Len(Exports))) = CheckScript

\* What the client's step has run, in a session and in a validation.
ReachInv ==
  /\ run.program = "mosh" =>
       run.by = "client" /\ request.verb = "session" /\ MoshReads(request, run.args)
  /\ run.by = "client" =>
       /\ run.program \in {"ssh", "mosh"}
       /\ run.program = "ssh" /\ request.verb = "session" =>
            TextRuns(Last(run.args)) = AskedOf(request)
       /\ request.verb = "validate" => CheckReached(Last(run.args))

\* No step disturbs it.
LEMMA ReachNext == ASSUME LineInv, ReachInv, Next PROVE ReachInv'
<1>0. step \notin Unstarted => Fit BY DEF LineInv, Fit
<1>1. ASSUME run' = run, request' = request PROVE ReachInv' BY <1>1 DEF ReachInv
<1>2. ASSUME request' = request, NEW by, by # "client", NEW args, NEW held,
             run' = [by |-> by, program |-> "ssh", args |-> args, held |-> held]
      PROVE  ReachInv'
  <2>1. run'.program = "ssh" /\ run'.by = by BY <1>2
  <2> QED BY <1>2, <2>1 DEF ReachInv
<1>3. CASE RunClient
  <2>0. /\ step = "client" /\ Fit /\ request' = request /\ request.verb = "session"
    BY <1>0, <1>3 DEF RunClient, Unstarted, Execute
  <2>1. CASE mode = "mosh"
    <3>1. run' = [by |-> step, program |-> "mosh", args |-> MoshClientArgs, held |-> master = "up"]
      BY <1>3, <2>1 DEF RunClient, Execute
    <3>2. MoshReads(request, MoshClientArgs) BY <2>0, <2>1, MoshLineRead
    <3>3. run'.by = "client" /\ run'.program = "mosh" /\ run'.args = MoshClientArgs BY <2>0, <3>1
    <3>4. MoshReads(request', run'.args) BY <2>0, <3>2, <3>3
    <3> QED BY <2>0, <3>3, <3>4 DEF ReachInv
  <2>2. CASE mode # "mosh"
    <3>1. PICK terminal \in BOOLEAN :
            run' = [by |-> step, program |-> "ssh", args |-> SSHClientArgs(terminal),
                    held |-> master = "up"]
      BY <1>3, <2>2 DEF RunClient, Execute
    <3>2. Last(SSHClientArgs(terminal)) = SSHCommand(Command) BY <2>0, <2>2, ClientScript
    <3>3. TextRuns(SSHCommand(Command)) = AskedOf(request) BY <2>0, SSHCommandRuns
    <3>4. run'.program = "ssh" /\ run'.args = SSHClientArgs(terminal) BY <3>1
    <3>5. TextRuns(Last(run'.args)) = AskedOf(request') BY <2>0, <3>2, <3>3, <3>4
    <3> QED BY <2>0, <3>4, <3>5 DEF ReachInv
  <2> QED BY <2>1, <2>2
<1>4. CASE Probe
  <2>0. step = "client" /\ request' = request /\ request.verb = "validate"
    BY <1>4 DEF Probe, Execute
  <2>1. PICK script \in {CheckScript, WrappedCommand(CheckScript)} :
          run' = [by |-> step, program |-> "ssh",
                  args |-> SSHExecArgs(NoMaster \o Held \o ConnOpts, Exports \o script),
                  held |-> master = "up"]
    BY <1>4 DEF Probe, Execute
  <2> DEFINE text == Exports \o script
             out == Exports
  <2>2. Sequence(script) /\ TextRuns(script) = CheckScript BY CheckRuns
  <2>3. Sequence(out) BY SharedFacts
  <2> HIDE DEF out
  <2>4. IsPrefix(out, out \o script) /\ TailOf(out \o script, Len(out)) = script
    BY <2>2, <2>3, PrefixOfJoin
  <2>5. CheckReached(text) BY <2>2, <2>4 DEF CheckReached, out
  <2> HIDE DEF text
  <2>6. Last(SSHExecArgs(NoMaster \o Held \o ConnOpts, text)) = text BY ProbeScript
  <2>7. run'.program = "ssh" /\ run'.args = SSHExecArgs(NoMaster \o Held \o ConnOpts, text)
    BY <2>1 DEF text
  <2>8. CheckReached(Last(run'.args)) BY <2>5, <2>6, <2>7
  <2> QED BY <2>0, <2>7, <2>8 DEF ReachInv
<1>5. CASE ReadOptions \/ OptionsFail \/ NoLocalMosh \/ MasterDies \/ Complete
  BY <1>1, <1>5 DEF ReadOptions, OptionsFail, NoLocalMosh, MasterDies, Complete, commandVars
<1>6. CASE Install
  BY <1>2, <1>6 DEF Install, Execute
<1>7. CASE StartMaster
  BY <1>2, <1>7 DEF StartMaster, Execute
<1>8. CASE CheckMaster
  BY <1>2, <1>8 DEF CheckMaster, Execute
<1>9. CASE ForwardClipboard
  BY <1>2, <1>9 DEF ForwardClipboard, Execute
<1>10. CASE CheckRemoteAgent
  BY <1>2, <1>10 DEF CheckRemoteAgent, Execute
<1>11. CASE ProvisionOverMaster
  BY <1>2, <1>11 DEF ProvisionOverMaster, Execute
<1>12. CASE ProvisionDirectly
  BY <1>2, <1>12 DEF ProvisionDirectly, Execute
<1>13. CASE DetectTransport
  BY <1>2, <1>13 DEF DetectTransport, Execute
<1>14. CASE StopTunnel
  BY <1>2, <1>14 DEF StopTunnel, Execute
<1> QED BY <1>3, <1>4, <1>5, <1>6, <1>7, <1>8, <1>9, <1>10, <1>11, <1>12, <1>13, <1>14 DEF Next

\* It holds throughout.
LEMMA AlwaysReachInv == Spec => [](LineInv /\ ReachInv)
<1>1. Init => ReachInv
  <2>1. Init => run = NoRun BY DEF Init
  <2>2. NoRun.by = "none" /\ NoRun.program = "" BY DEF NoRun
  <2> QED BY <2>1, <2>2 DEF ReachInv
<1>2. LineInv /\ ReachInv /\ [Next]_<<commandVars, completionVars>> => ReachInv'
  <2>1. UNCHANGED <<commandVars, completionVars>> => UNCHANGED commandVars OBVIOUS
  <2>2. UNCHANGED commandVars => run' = run /\ request' = request BY DEF commandVars
  <2>3. ReachInv /\ run' = run /\ request' = request => ReachInv' BY DEF ReachInv
  <2> QED BY <2>1, <2>2, <2>3, ReachNext
<1> QED BY <1>1, <1>2, AlwaysLineInv, PTL DEF Spec

\* The user's command reaches the remote shell as typed in either transport, past
\* every layer of quoting, and a check of validate runs its own script, within the
\* session's wrapper when it asks for it (sshClientArgs, moshClientArgs,
\* remote.ShellQuote, wrappedCommand).
THEOREM ReachesShell == Spec => []CommandReachesShell
<1>1. ASSUME LineInv, ReachInv PROVE CommandReachesShell
  <2>1. ASSUME run.by = "client", run.program = "ssh"
        PROVE  Read.command = Last(run.args)
    <3>1. ReadsFor(request, run.by, run.args) BY <1>1, <2>1 DEF LineInv
    <3>2. Read = SSHReads(run.args) BY <2>1 DEF Read, SSHArgs
    <3>3. run.by \notin Bare BY <2>1 DEF Bare
    <3> QED BY <3>1, <3>2, <3>3 DEF ReadsFor
  <2>2. AskedOf(request) = IF Command = <<>> THEN InteractiveShell ELSE Join(Command)
    BY DEF AskedOf, Command
  <2>3. ASSUME run.by = "client", request.verb = "session"
        PROVE  (IF run.program = "ssh" THEN TextRuns(Read.command)
                  ELSE WordsRun(Tail(MoshOperands(run.args)), request.agent)) = AskedOf(request)
    <3>1. CASE run.program = "ssh" BY <1>1, <2>1, <2>3, <3>1 DEF ReachInv
    <3>2. CASE run.program = "mosh"
      <4>1. MoshReads(request, run.args) BY <1>1, <3>2 DEF ReachInv
      <4>2. WordsRun(Tail(MoshOperands(run.args)), request.agent) = AskedOf(request)
        BY <4>1 DEF MoshReads
      <4> QED BY <3>2, <4>2
    <3> QED BY <1>1, <2>3, <3>1, <3>2 DEF ReachInv
  <2>4. ASSUME run.by = "client", request.verb = "validate" PROVE CheckReached(Read.command)
    <3>1. run.program = "ssh" BY <1>1, <2>4 DEF ReachInv
    <3> QED BY <1>1, <2>1, <2>4, <3>1 DEF ReachInv
  <2> QED BY <2>2, <2>3, <2>4 DEF CommandReachesShell, CheckReached
<1> QED BY <1>1, AlwaysReachInv, PTL

\* The ssh that mosh bootstraps with takes the user's host, port, identity and
\* configuration out of the one word of --ssh, quotes included. It is given the
\* session's control path there, but mosh's -S none overrides it, so that it opens a
\* connection of its own: that one never forwards the agent, and with -A the mosh
\* session gets the held socket instead (moshClientArgs, withMoshSSHControlPath).
THEOREM MoshConnects == Spec => []MoshConnectsAlike
<1>1. ASSUME LineInv, ReachInv PROVE MoshConnectsAlike
  <2> SUFFICES ASSUME run.program = "mosh"
               PROVE  /\ Read.host = Host /\ Read.command = <<"mosh-server">>
                      /\ ControlPath \in GivenTo(Read.options, "-o")
                      /\ ~FindsControlPath(Read.options)
                      /\ GoesWhereAsked /\ ~AgentIn(Read.options)
                      /\ IsPrefix(Exports \o ExportSocket, MoshOperands(run.args)[4]) <=> request.agent
    BY DEF MoshConnectsAlike
  <2>1. MoshReads(request, run.args) /\ run.by = "client" BY <1>1 DEF ReachInv
  <2>2. Read = SSHReads(Bootstrap(run.args)) BY DEF Read, SSHArgs
  <2>3. /\ Read.host = request.operands[1] /\ Read.command = <<"mosh-server">>
        /\ ControlPath \in GivenTo(Read.options, "-o") /\ ~FindsControlPath(Read.options)
        /\ GivenTo(Read.options, "-p") = PortOf(request)
        /\ GivenTo(Read.options, "-i") = GivenBy(request.identity)
        /\ GivenTo(Read.options, "-F") = GivenBy(request.config)
        /\ ~AgentIn(Read.options)
    BY <2>1, <2>2 DEF MoshReads
  <2>4. IsPrefix(Exports \o ExportSocket, MoshOperands(run.args)[4]) <=> request.agent
    BY <2>1 DEF MoshReads
  <2>5. {TCPPort(port) : port \in PortOf(request)}
          = IF request.port = <<>> THEN {} ELSE {TCPPort(request.port)}
    BY <1>1, <2>1, PortsKept DEF LineInv
  <2>6. GoesWhereAsked BY <2>3, <2>5 DEF GoesWhereAsked, GivenBy
  <2> QED BY <2>3, <2>4, <2>6 DEF Host
<1> QED BY <1>1, AlwaysReachInv, PTL
================================================================================
