---------------------------- MODULE ProcessRunProofs ----------------------------
(***************************************************************************)
(* The invariants of ProcessRun, for any set of signals and any capacity   *)
(* of the channel.                                                         *)
(***************************************************************************)
EXTENDS ProcessRun, TLAPS, SequenceTheorems

\* What Run holds where it is: without a terminal the foreground group is never
\* touched, and the deferred calls undo what was done before them.
HeldByRun ==
  /\ ~tty => foreground = outer
  /\ pc \in {"start", "foreground", "failed", "returned"} => foreground = outer
  /\ pc \in {"foreground", "restore"} => tty
  /\ pc \in {"start", "foreground", "forward", "restore", "failed", "returned"} => ~notify
  /\ pc \in {"start", "foreground", "forward"} => forwarder = "none"
  /\ pc = "start" => client = "none"
  /\ pc \in {"stop", "restore", "returned"} => client = "reaped"
  /\ pc = "failed" => client \in {"none", "reaped"}

IInv == TypeOK /\ HeldByRun

-----------------------------------------------------------------------------
\* The channel keeps its type when a signal is handed to it, or dropped.
LEMMA NotifiedType ==
  ASSUME NEW sig \in Forwarded, ch \in Seq(Forwarded), Len(ch) <= ChanSize, Notified(sig)
  PROVE  ch' \in Seq(Forwarded) /\ Len(ch') <= ChanSize
<1>1. CASE Len(ch) < ChanSize
  <2>1. Append(ch, sig) \in Seq(Forwarded) /\ Len(Append(ch, sig)) = Len(ch) + 1
    BY AppendProperties
  <2>2. Len(ch) \in Nat BY LenProperties
  <2> QED BY <1>1, <2>1, <2>2, ChanAssumption DEF Notified
<1>2. CASE ~(Len(ch) < ChanSize) BY <1>2 DEF Notified
<1> QED BY <1>1, <1>2

\* What the client is given is a signal that is forwarded.
LEMMA GiveType ==
  ASSUME NEW sig \in Forwarded, given \subseteq Forwarded, Give(sig)
  PROVE  given' \subseteq Forwarded
  BY DEF Give

\* The first state.
LEMMA InitIInv == Init => IInv
<1> SUFFICES ASSUME Init PROVE IInv OBVIOUS
<1>1. <<>> \in Seq(Forwarded) /\ Len(<<>>) = 0 BY EmptySeq
<1>2. ch \in Seq(Forwarded) /\ Len(ch) <= ChanSize BY <1>1, ChanAssumption DEF Init
<1>3. TypeOK BY <1>2 DEF Init, TypeOK
<1>4. HeldByRun BY DEF Init, HeldByRun
<1> QED BY <1>3, <1>4 DEF IInv

\* The main goroutine.
LEMMA MainStep == ASSUME IInv, Main PROVE IInv'
<1> USE DEF IInv, TypeOK, HeldByRun, terminalVars, signalVars
<1>1. CASE StartFails BY <1>1 DEF StartFails
<1>2. CASE Start BY <1>2 DEF Start
<1>3. CASE SetForeground BY <1>3 DEF SetForeground, ClientGroup
<1>4. CASE ForegroundFails BY <1>4 DEF ForegroundFails
<1>5. CASE ForwardSignals BY <1>5 DEF ForwardSignals
<1>6. CASE Wait BY <1>6 DEF Wait
<1>7. CASE StopForwarding BY <1>7 DEF StopForwarding
<1>8. CASE Restore BY <1>8 DEF Restore
<1> QED BY <1>1, <1>2, <1>3, <1>4, <1>5, <1>6, <1>7, <1>8 DEF Main

\* The forwarding goroutine.
LEMMA ForwarderStep == ASSUME IInv, Forwarder PROVE IInv'
<1> USE DEF IInv, TypeOK, HeldByRun, terminalVars
<1>1. CASE Receive
  <2>1. Head(ch) \in Forwarded /\ Tail(ch) \in Seq(Forwarded) /\ Len(Tail(ch)) = Len(ch) - 1
        /\ Len(ch) \in Nat
    BY <1>1, HeadTailProperties, LenProperties DEF Receive
  <2>2. Len(Tail(ch)) <= ChanSize BY <2>1, ChanAssumption
  <2> QED BY <1>1, <2>1, <2>2, SignalAssumption DEF Receive
<1>2. CASE Forward BY <1>2, GiveType DEF Forward
<1>3. CASE Leave BY <1>3 DEF Leave
<1> QED BY <1>1, <1>2, <1>3 DEF Forwarder

\* A signal, or the end of the client.
LEMMA OutsideStep ==
  ASSUME IInv, ClientExits \/ \E sig \in Forwarded : SignalSent(sig) \/ SignalTyped(sig)
  PROVE  IInv'
<1> USE DEF IInv, TypeOK, HeldByRun, terminalVars, signalVars
<1>1. CASE ClientExits BY <1>1 DEF ClientExits
<1>2. ASSUME NEW sig \in Forwarded, SignalSent(sig) PROVE IInv'
  <2>1. ch' \in Seq(Forwarded) /\ Len(ch') <= ChanSize BY <1>2, NotifiedType DEF SignalSent
  <2> QED BY <1>2, <2>1 DEF SignalSent
<1>3. ASSUME NEW sig \in Forwarded, SignalTyped(sig) PROVE IInv'
  <2>1. ch' \in Seq(Forwarded) /\ Len(ch') <= ChanSize BY <1>3, NotifiedType DEF SignalTyped
  <2>2. given' \subseteq Forwarded BY <1>3, GiveType DEF SignalTyped
  <2> QED BY <1>3, <2>1, <2>2 DEF SignalTyped
<1> QED BY <1>1, <1>2, <1>3

\* IInv is inductive.
LEMMA NextIInv == IInv /\ [Next]_vars => IInv'
<1> SUFFICES ASSUME IInv, [Next]_vars PROVE IInv' OBVIOUS
<1>1. CASE UNCHANGED vars
  BY <1>1 DEF vars, terminalVars, signalVars, IInv, TypeOK, HeldByRun
<1>2. CASE Next BY <1>2, MainStep, ForwarderStep, OutsideStep DEF Next
<1> QED BY <1>1, <1>2

\* The invariant holds in every run of a client (process.Run).
THEOREM AlwaysIInv == Spec => []IInv
<1> QED BY InitIInv, NextIInv, PTL DEF Spec

-----------------------------------------------------------------------------
\* What Run shares with its forwarding goroutine and the terminal is well-typed: the
\* channel never holds more than its capacity (process.Run, forwardSignals).
THEOREM TypeCorrect == Spec => []TypeOK
<1> QED BY AlwaysIInv, PTL DEF IInv

\* On every path that returns, Run leaves no child, no signal handler and the
\* terminal's foreground group as it found it (process.Run).
THEOREM LeavesNothing == Spec => []RunLeavesNothing
<1>1. IInv => RunLeavesNothing BY DEF IInv, HeldByRun, RunLeavesNothing
<1> QED BY <1>1, AlwaysIInv, PTL
=============================================================================
