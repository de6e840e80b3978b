------------------------ MODULE SessionLifecycleProofs ------------------------
(***************************************************************************)
(* The safety properties of SessionLifecycle, and that it implements       *)
(* ResourceScope, for every set of ports and every number of attempts.     *)
(*                                                                         *)
(* None of the properties is inductive: each is about a few control        *)
(* locations and depends on what every earlier location established.       *)
(* IInv says, location by location, which resources exist, so that the     *)
(* properties are read off it at the locations they speak of.              *)
(***************************************************************************)
EXTENDS SessionLifecycle, TLAPS

BeforeMaster == {"start", "lookup", "mkdir", "startMaster"}
BeforeBind   == BeforeMaster \union {"waitReady", "forward", "relisten"}
Bound        == Working \union {"agent", "provision", "probe", "lookupClient"}
AfterReap    == {"rmdir", "stopServer", "return", "exited"}

\* The listener is open from StartServer to Stop, on the port Server.port.
ListenerInv ==
  /\ pc \in {"start", "return", "exited", "killed"} => listener = NoPort
  /\ pc \notin {"start", "return", "exited", "killed"} =>
       listener \in Ports /\ port = listener

\* The control directory lives from MkdirTemp to RemoveAll.
DirInv ==
  /\ pc \in {"start", "lookup", "mkdir", "stopServer", "return", "exited"} => ~dir
  /\ pc \in (Setup \ {"start", "lookup", "mkdir"}) \union Working
            \union {"exitMaster", "kill", "reap", "rmdir"} => dir

\* The master exists between StartMaster and Kill, and its exit status is in
\* one place: not yet sent, in the channel, or received.
MasterInv ==
  /\ pc \in BeforeMaster => master = "none"
  /\ pc \in {"reap"} \union AfterReap => ~MasterAlive
  /\ pc = "reap" => master = "dead"
  /\ pc \in {"waitReady", "forward", "relisten", "exitMaster", "kill"} => master # "none"
  /\ MasterAlive => dir
  /\ MasterAlive => waiter = "waiting"
  /\ master = "none" <=> waiter = "none"
  /\ waitCh => waiter = "done"
  /\ waited => waiter = "done"
  /\ pc \in AfterReap => waiter # "waiting" /\ ~waitCh
  /\ ~(waitCh /\ waited)

\* The remote forward exists from ForwardOk to the end of the master.
ForwardInv ==
  /\ forward # NoPort => master = "ready"
  /\ forward # NoPort /\ pc \notin Ended => listener = forward /\ advertised = forward
  /\ pc \in BeforeBind => forward = NoPort
  /\ pc \in Bound => /\ advertised # NoPort /\ advertised = port
                     /\ master = "ready" => forward = advertised
  /\ pc \in Bound => master # "connecting" /\ master # "none"
  /\ pc \in BeforeBind => attempt < MaxAttempts

\* The client runs only under runClient, and it and the checks of validate on a
\* settled transport.
ClientInv ==
  /\ client = "running" => pc \in {"started", "client", "killed"}
  /\ notify => pc = "client"
  /\ pc \in {"lookupClient", "runClient", "started", "client"} =>
       job = "session" /\ transport # "auto"
  /\ pc = "checks" => job = "validate" /\ transport # "auto"

IInv == TypeOK /\ ListenerInv /\ DirInv /\ MasterInv /\ ForwardInv /\ ClientInv

\* The first state.
LEMMA InitIInv == Init => IInv
<1> SUFFICES ASSUME Init PROVE IInv
  OBVIOUS
<1> USE PortsAssumption, AttemptsAssumption
<1> USE DEF Init, MasterAlive, BeforeMaster, BeforeBind, Bound, AfterReap, Setup,
            Working, Cleanup, Ended
<1>1. TypeOK
  <2>1. /\ dir \in BOOLEAN /\ waitCh \in BOOLEAN /\ waited \in BOOLEAN
        /\ notify \in BOOLEAN /\ agent \in BOOLEAN /\ localMosh \in BOOLEAN
    OBVIOUS
  <2>2. attempt \in 0..MaxAttempts
    OBVIOUS
  <2>3. /\ job \in {"session", "validate"} /\ transport \in {"ssh", "mosh", "auto"}
        /\ pc \in Setup /\ master = "none" /\ waiter = "none" /\ client = "none"
    OBVIOUS
  <2>4. listener = NoPort /\ port = NoPort /\ forward = NoPort /\ advertised = NoPort
    OBVIOUS
  <2> QED
    BY <2>1, <2>2, <2>3, <2>4 DEF TypeOK
<1>2. ListenerInv /\ DirInv
  BY DEF ListenerInv, DirInv
<1>3. MasterInv
  BY DEF MasterInv
<1>4. ForwardInv
  BY DEF ForwardInv
<1>5. ClientInv
  BY DEF ClientInv
<1> QED
  BY <1>1, <1>2, <1>3, <1>4, <1>5 DEF IInv

\* Every step keeps the invariant.
LEMMA StepIInv == IInv /\ [Next]_vars => IInv'
<1> SUFFICES ASSUME IInv, [Next]_vars PROVE IInv'
  OBVIOUS
<1> USE PortsAssumption, AttemptsAssumption
<1> USE DEF IInv, TypeOK, ListenerInv, DirInv, MasterInv, ForwardInv, ClientInv,
           MasterAlive, BeforeMaster, BeforeBind, Bound, AfterReap, Setup, Working,
           Cleanup, Ended, Goto, MasterGone, AfterOpen,
           optionVars, serverVars, tunnelVars, clientVars
<1>1. CASE StartServer
  BY <1>1 DEF StartServer
<1>2. CASE Lookup
  BY <1>2 DEF Lookup
<1>3. CASE MkdirTemp
  <2>1. TypeOK'
    <3>1. dir' \in BOOLEAN /\ pc' \in Setup \union Cleanup
      BY <1>3 DEF MkdirTemp
    <3>2. UNCHANGED <<job, transport, agent, localMosh, listener, port, master, waiter,
                      waitCh, waited, forward, attempt, advertised, client, notify>>
      BY <1>3 DEF MkdirTemp
    <3> QED
      BY <3>1, <3>2
  <2>2. ListenerInv'
    BY <1>3 DEF MkdirTemp
  <2>3. DirInv'
    BY <1>3 DEF MkdirTemp
  <2>4. MasterInv'
    BY <1>3 DEF MkdirTemp
  <2>5. ForwardInv'
    BY <1>3 DEF MkdirTemp
  <2>6. ClientInv'
    BY <1>3 DEF MkdirTemp
  <2> QED
    BY <2>1, <2>2, <2>3, <2>4, <2>5, <2>6
<1>4. CASE StartMaster
  BY <1>4 DEF StartMaster
<1>5. CASE MasterExitNoted
  <2>1. TypeOK'
    <3>1. pc' \in Cleanup /\ waitCh' \in BOOLEAN /\ waited' \in BOOLEAN
      BY <1>5 DEF MasterExitNoted
    <3>2. UNCHANGED <<job, transport, agent, localMosh, listener, port, dir, master,
                      waiter, forward, attempt, advertised, client, notify>>
      BY <1>5 DEF MasterExitNoted
    <3> QED
      BY <3>1, <3>2 DEF TypeOK
  <2>2. ListenerInv'
    BY <1>5 DEF MasterExitNoted
  <2>3. DirInv'
    BY <1>5 DEF MasterExitNoted
  <2>4. MasterInv'
    BY <1>5 DEF MasterExitNoted
  <2>5. ForwardInv'
    BY <1>5 DEF MasterExitNoted
  <2>6. ClientInv'
    BY <1>5 DEF MasterExitNoted
  <2> QED
    BY <2>1, <2>2, <2>3, <2>4, <2>5, <2>6
<1>6. CASE MasterIsReady
  BY <1>6 DEF MasterIsReady
<1>7. CASE ReadyTimeout
  BY <1>7 DEF ReadyTimeout
<1>8. CASE ForwardOk
  BY <1>8 DEF ForwardOk
<1>9. CASE ForwardBusy
  BY <1>9 DEF ForwardBusy
<1>10. CASE ForwardFails
  BY <1>10 DEF ForwardFails
<1>11. CASE Relisten
  BY <1>11 DEF Relisten
<1>12. CASE RelistenFails
  BY <1>12 DEF RelistenFails
<1>13. CASE CheckAgent
  BY <1>13 DEF CheckAgent
<1>14. CASE Provision
  BY <1>14 DEF Provision
<1>15. CASE ProbeTransport
  BY <1>15 DEF ProbeTransport
<1>16. CASE LookupClient
  BY <1>16 DEF LookupClient
<1>17. CASE StartClient
  BY <1>17 DEF StartClient
<1>18. CASE ForegroundFails
  BY <1>18 DEF ForegroundFails
<1>19. CASE ForwardSignals
  BY <1>19 DEF ForwardSignals
<1>20. CASE ClientReturns
  <2>1. TypeOK'
    <3>1. pc' \in Cleanup /\ notify' \in BOOLEAN
      BY <1>20 DEF ClientReturns
    <3>2. UNCHANGED <<job, transport, agent, localMosh, listener, port, dir, master,
                      waiter, waitCh, waited, forward, attempt, advertised, client>>
      BY <1>20 DEF ClientReturns
    <3> QED
      BY <3>1, <3>2 DEF TypeOK
  <2>2. ListenerInv'
    BY <1>20 DEF ClientReturns
  <2>3. DirInv'
    BY <1>20 DEF ClientReturns
  <2>4. MasterInv'
    BY <1>20 DEF ClientReturns
  <2>5. ForwardInv'
    BY <1>20 DEF ClientReturns
  <2>6. ClientInv'
    BY <1>20 DEF ClientReturns
  <2> QED
    BY <2>1, <2>2, <2>3, <2>4, <2>5, <2>6
<1>21. CASE ChecksEnd
  BY <1>21 DEF ChecksEnd
<1>22. CASE ExitMaster
  BY <1>22 DEF ExitMaster
<1>23. CASE Kill
  BY <1>23 DEF Kill
<1>24. CASE Reap
  <2>1. TypeOK'
    <3>1. pc' \in Cleanup /\ waited' \in BOOLEAN /\ waitCh' \in BOOLEAN
      BY <1>24 DEF Reap
    <3>2. UNCHANGED <<job, transport, agent, localMosh, listener, port, dir, master,
                      waiter, forward, attempt, advertised, client, notify>>
      BY <1>24 DEF Reap
    <3> QED
      BY <3>1, <3>2 DEF TypeOK
  <2>2. ListenerInv'
    BY <1>24 DEF Reap
  <2>3. DirInv'
    BY <1>24 DEF Reap
  <2>4. MasterInv'
    BY <1>24 DEF Reap
  <2>5. ForwardInv'
    BY <1>24 DEF Reap
  <2>6. ClientInv'
    BY <1>24 DEF Reap
  <2> QED
    BY <2>1, <2>2, <2>3, <2>4, <2>5, <2>6
<1>25. CASE RemoveAll
  <2>1. TypeOK'
    <3>1. pc' \in Cleanup /\ dir' \in BOOLEAN
      BY <1>25 DEF RemoveAll
    <3>2. UNCHANGED <<job, transport, agent, localMosh, listener, port, master, waiter,
                      waitCh, waited, forward, attempt, advertised, client, notify>>
      BY <1>25 DEF RemoveAll
    <3> QED
      BY <3>1, <3>2 DEF TypeOK
  <2>2. ListenerInv'
    BY <1>25 DEF RemoveAll
  <2>3. DirInv'
    BY <1>25 DEF RemoveAll
  <2>4. MasterInv'
    BY <1>25 DEF RemoveAll
  <2>5. ForwardInv'
    BY <1>25 DEF RemoveAll
  <2>6. ClientInv'
    BY <1>25 DEF RemoveAll
  <2> QED
    BY <2>1, <2>2, <2>3, <2>4, <2>5, <2>6
<1>26. CASE StopServer
  BY <1>26 DEF StopServer
<1>27. CASE Exit
  BY <1>27 DEF Exit
<1>28. CASE WaiterSends
  BY <1>28 DEF WaiterSends
<1>29. CASE MasterConnects
  BY <1>29 DEF MasterConnects
<1>30. CASE MasterDies
  BY <1>30 DEF MasterDies
<1>31. CASE ClientEnds
  BY <1>31 DEF ClientEnds
<1>32. CASE Killed
  <2>1. TypeOK'
    <3>1. pc' \in Ended /\ listener' = NoPort /\ notify' \in BOOLEAN
      BY <1>32 DEF Killed
    <3>2. UNCHANGED <<job, transport, agent, localMosh, port, dir, master, waiter,
                      waitCh, waited, forward, attempt, advertised, client>>
      BY <1>32 DEF Killed
    <3> QED
      BY <3>1, <3>2
  <2>2. ListenerInv'
    BY <1>32 DEF Killed
  <2>3. DirInv'
    BY <1>32 DEF Killed
  <2>4. MasterInv'
    BY <1>32 DEF Killed
  <2>5. ForwardInv'
    BY <1>32 DEF Killed
  <2>6. ClientInv'
    BY <1>32 DEF Killed
  <2> QED
    BY <2>1, <2>2, <2>3, <2>4, <2>5, <2>6
<1>33. CASE UNCHANGED vars
  BY <1>33 DEF vars
<1>34. QED
  BY <1>1, <1>2, <1>3, <1>4, <1>5, <1>6, <1>7, <1>8, <1>9, <1>10, <1>11, <1>12, <1>13, <1>14, <1>15, <1>16, <1>17, <1>18, <1>19, <1>20, <1>21, <1>22, <1>23, <1>24, <1>25, <1>26, <1>27, <1>28, <1>29, <1>30, <1>31, <1>32, <1>33 DEF Next, Main, Environment

\* The invariant holds in every behaviour of a session.
LEMMA Inductive == Spec => []IInv
  BY InitIInv, StepIInv, PTL DEF Spec

-----------------------------------------------------------------------------
\* The process and what it holds are always well-typed (type invariant of the
\* main goroutine, the waiting goroutine, the master and the client).
THEOREM TypeCorrect == Spec => []TypeOK
<1>1. IInv => TypeOK
  BY DEF IInv
<1> QED
  BY <1>1, Inductive, PTL

\* The forwarded remote port, the advertised port and the listener agree, for
\* any number of busy ports and attempts (bindClipboardForward, Relisten).
THEOREM PortsAgree == Spec => []PortAgreement
<1>1. IInv => PortAgreement
  BY PortsAssumption DEF IInv, TypeOK, ListenerInv, ForwardInv, PortAgreement, Bound,
     Working, Ended
<1> QED
  BY <1>1, Inductive, PTL

\* A process that ends by itself has given everything up, by whichever error
\* path it left (the deferred calls of Run, establishSession, Close).
THEOREM ExitIsClean == Spec => []CleanExit
<1>1. IInv => CleanExit
  BY DEF IInv, TypeOK, ListenerInv, DirInv, MasterInv, ForwardInv, ClientInv, CleanExit,
     AfterReap, MasterAlive
<1> QED
  BY <1>1, Inductive, PTL

\* The client and the checks of validate only run on an established session (Open,
\* runClient, validate.Run).
THEOREM ClientHasSession == Spec => []ClientNeedsSession
<1>1. IInv => ClientNeedsSession
  BY PortsAssumption DEF IInv, TypeOK, ListenerInv, DirInv, ForwardInv, ClientInv,
     ClientNeedsSession, Bound, Working, Setup
<1> QED
  BY <1>1, Inductive, PTL

-----------------------------------------------------------------------------
(* The refinement.                                                         *)

\* Which resources are held, one by one, and in which phase.
HeldMembership ==
  /\ Held \subseteq Resources
  /\ "server" \in Held <=> listener # NoPort
  /\ "dir" \in Held <=> dir
  /\ "master" \in Held <=> master \in {"connecting", "ready"}
  /\ "forward" \in Held <=> forward # NoPort
  /\ "client" \in Held <=> client = "running"

PhaseByLocation ==
  /\ pc \in Setup \union Working => Phase = "acquiring"
  /\ pc \in Cleanup => Phase = "releasing"
  /\ pc = "exited" => Phase = "over"
  /\ pc = "killed" => Phase = "crashed"

\* What is held and the phase, by the location.
LEMMA MappingNow == HeldMembership /\ PhaseByLocation
  BY DEF HeldMembership, Held, Resources, MasterAlive, PhaseByLocation, Phase,
         Setup, Working, Cleanup

\* And of the next one.
LEMMA MappingNext == HeldMembership' /\ PhaseByLocation'
  BY DEF HeldMembership, Held, Resources, MasterAlive, PhaseByLocation, Phase,
         Setup, Working, Cleanup

\* What is held is read off these variables alone.
LEMMA HeldUnchanged ==
  ASSUME UNCHANGED <<listener, dir, master, forward, client>>
  PROVE  Held' = Held
  BY DEF Held, MasterAlive

\* What each resource needs.
LEMMA NeedsOf ==
  /\ ResourceNeeds["server"] = {}
  /\ ResourceNeeds["dir"] = {}
  /\ ResourceNeeds["master"] = {"dir"}
  /\ ResourceNeeds["forward"] = {"master", "server"}
  /\ ResourceNeeds["client"] = {"dir", "server"}
  BY DEF ResourceNeeds, Resources

\* A step that only moves the main goroutine on, within a phase or from
\* setting up to cleaning up.
LEMMA MoveRefines ==
  ASSUME Held' = Held,
         \/ pc \in Setup \union Working /\ pc' \in Setup \union Working
         \/ pc \in Setup \union Working /\ pc' \in Cleanup
         \/ pc \in Cleanup /\ pc' \in Cleanup
         \/ UNCHANGED pc
  PROVE  [Scope!ScopeNext]_(Scope!scopeVars)
<1>1. \/ Phase' = Phase
      \/ Phase = "acquiring" /\ Phase' = "releasing"
  <2>1. CASE UNCHANGED pc
    BY <2>1 DEF Phase
  <2> QED
    BY <2>1, MappingNow, MappingNext DEF PhaseByLocation
<1>2. CASE Phase' = Phase
  BY <1>2 DEF Scope!scopeVars
<1>3. CASE Phase = "acquiring" /\ Phase' = "releasing"
  BY <1>3 DEF Scope!ScopeNext, Scope!StopAcquiring
<1> QED
  BY <1>1, <1>2, <1>3

\* A step that sets one resource up.
LEMMA AcquireRefines ==
  ASSUME NEW r \in Resources,
         pc \in Setup \union Working, pc' \in Setup \union Working,
         r \notin Held, ResourceNeeds[r] \subseteq Held,
         Held' = Held \union {r}
  PROVE  Scope!ScopeNext
<1>1. Phase = "acquiring" /\ Phase' = "acquiring"
  BY MappingNow, MappingNext DEF PhaseByLocation
<1>2. Scope!Acquire(r)
  BY <1>1 DEF Scope!Acquire
<1> QED
  BY <1>2 DEF Scope!ScopeNext

\* A step that gives some resources up, or loses them, and keeps the phase.
LEMMA ReleaseRefines ==
  ASSUME NEW R, R \subseteq Held,
         Phase' = Phase,
         \/ \A r \in Held \ R : ResourceNeeds[r] \cap R = {}
         \/ Phase = "crashed",
         Held' = Held \ R
  PROVE  [Scope!ScopeNext]_(Scope!scopeVars)
<1>1. CASE R = {}
  BY <1>1 DEF Scope!scopeVars
<1>2. CASE R # {} /\ Phase = "crashed"
  <2>1. Scope!Decay(R)
    BY <1>2 DEF Scope!Decay
  <2> QED
    BY <2>1 DEF Scope!ScopeNext
<1>3. CASE R # {} /\ Phase # "crashed"
  <2>1. Scope!Release(R)
    BY <1>3 DEF Scope!Release
  <2> QED
    BY <2>1 DEF Scope!ScopeNext
<1> QED
  BY <1>1, <1>2, <1>3

\* The end of a master, from wherever, takes its forward along.
LEMMA MasterGoneRefines ==
  ASSUME MasterGone, UNCHANGED <<listener, dir, client>>, Phase' = Phase
  PROVE  [Scope!ScopeNext]_(Scope!scopeVars)
<1> DEFINE R == Held \cap {"master", "forward"}
<1>1. Held' = Held \ R
  BY MappingNow, MappingNext DEF MasterGone, HeldMembership, Resources
<1>2. \A r \in Held \ R : ResourceNeeds[r] \cap R = {}
  BY MappingNow, NeedsOf DEF HeldMembership, Resources
<1> QED
  BY <1>1, <1>2, ReleaseRefines

\* Every step of the process is a step of the abstract specification.
LEMMA StepRefines ==
  ASSUME IInv, [Next]_vars
  PROVE  [Scope!ScopeNext]_(Scope!scopeVars)
<1> USE PortsAssumption, MappingNow, MappingNext
<1> USE DEF Goto, Setup, Working, Cleanup,
           optionVars, serverVars, tunnelVars, clientVars
<1>1. CASE StartServer
  <2>1. Held = {}
    BY <1>1 DEF StartServer, IInv, ListenerInv, DirInv, MasterInv, ForwardInv, ClientInv,
       BeforeMaster, BeforeBind, HeldMembership, Resources
  <2>2. CASE pc' = "lookup"
    <3>1. Held' = Held \union {"server"}
      BY <1>1, <2>2, <2>1 DEF StartServer, HeldMembership, Resources
    <3> QED
      BY <1>1, <2>1, <2>2, <3>1, NeedsOf, AcquireRefines DEF StartServer, Resources
  <2>3. CASE pc' = "exited"
    <3>1. Held' = Held
      BY <1>1, <2>3, HeldUnchanged DEF StartServer
    <3>2. Scope!Finish
      BY <1>1, <2>1, <2>3, <3>1 DEF StartServer, Scope!Finish, PhaseByLocation
    <3> QED
      BY <3>2 DEF Scope!ScopeNext
  <2> QED
    BY <1>1, <2>2, <2>3 DEF StartServer
<1>2. CASE MkdirTemp
  <2>1. CASE pc' = "startMaster"
    <3>1. /\ UNCHANGED <<listener, master, forward, client>>
          /\ dir' = TRUE /\ ~dir
      BY <1>2, <2>1 DEF MkdirTemp, IInv, DirInv, serverVars, clientVars
    <3>2. "dir" \notin Held /\ Held' = Held \union {"dir"}
      BY <3>1 DEF HeldMembership, Resources
    <3> QED
      BY <1>2, <2>1, <3>2, NeedsOf, AcquireRefines DEF MkdirTemp, Resources
  <2>2. CASE pc' = "stopServer"
    BY <1>2, <2>2, HeldUnchanged, MoveRefines DEF MkdirTemp
  <2> QED
    BY <1>2, <2>1, <2>2 DEF MkdirTemp
<1>3. CASE StartMaster
  <2>1. CASE pc' = "waitReady"
    <3>1. "master" \notin Held /\ "dir" \in Held /\ Held' = Held \union {"master"}
      BY <1>3, <2>1 DEF StartMaster, IInv, DirInv, MasterInv, BeforeMaster,
         HeldMembership, Resources
    <3> QED
      BY <1>3, <2>1, <3>1, NeedsOf, AcquireRefines DEF StartMaster, Resources
  <2>2. CASE pc' = "rmdir"
    BY <1>3, <2>2, HeldUnchanged, MoveRefines DEF StartMaster
  <2> QED
    BY <1>3, <2>1, <2>2 DEF StartMaster
<1>4. CASE ForwardOk
  <2>1. "forward" \notin Held /\ "master" \in Held /\ "server" \in Held
    BY <1>4 DEF ForwardOk, IInv, ListenerInv, ForwardInv, BeforeBind, HeldMembership
  <2>2. Held' = Held \union {"forward"}
    BY <1>4, <2>1 DEF ForwardOk, IInv, ListenerInv, HeldMembership, Resources
  <2> QED
    BY <1>4, <2>1, <2>2, NeedsOf, AcquireRefines DEF ForwardOk, Resources
<1>5. CASE Relisten
  <2>1. Held' = Held
    <3>1. listener # NoPort /\ listener' # NoPort
      BY <1>5 DEF Relisten, IInv, ListenerInv
    <3>2. UNCHANGED <<dir, master, forward, client>>
      BY <1>5 DEF Relisten
    <3> QED
      BY <3>1, <3>2 DEF Held, MasterAlive
  <2> QED
    BY <1>5, <2>1, MoveRefines DEF Relisten
<1>6. CASE StartClient
  <2>1. CASE pc' = "started"
    <3>1. "client" \notin Held /\ "dir" \in Held /\ "server" \in Held
      BY <1>6 DEF StartClient, IInv, ListenerInv, DirInv, ClientInv, HeldMembership
    <3>2. Held' = Held \union {"client"}
      BY <1>6, <2>1, <3>1 DEF StartClient, HeldMembership, Resources
    <3> QED
      BY <1>6, <2>1, <3>1, <3>2, NeedsOf, AcquireRefines DEF StartClient, Resources
  <2>2. CASE pc' = "exitMaster"
    BY <1>6, <2>2, HeldUnchanged, MoveRefines DEF StartClient
  <2> QED
    BY <1>6, <2>1, <2>2 DEF StartClient
<1>7. CASE ForegroundFails \/ ClientEnds
  <2> DEFINE R == Held \cap {"client"}
  <2>1. Held' = Held \ R
    BY <1>7 DEF ForegroundFails, ClientEnds, HeldMembership, Resources
  <2>2. \A r \in Held \ R : ResourceNeeds[r] \cap R = {}
    BY NeedsOf DEF HeldMembership, Resources
  <2>3. Phase' = Phase
    BY <1>7 DEF ForegroundFails, ClientEnds, Phase
  <2> QED
    BY <2>1, <2>2, <2>3, ReleaseRefines
<1>8. CASE ExitMaster \/ Kill
  <2>1. Phase' = Phase
    BY <1>8 DEF ExitMaster, Kill, PhaseByLocation
  <2>2. CASE MasterGone
    BY <1>8, <2>1, <2>2, MasterGoneRefines DEF ExitMaster, Kill
  <2>3. CASE ~MasterGone
    BY <1>8, <2>3, HeldUnchanged, MoveRefines DEF ExitMaster, Kill
  <2> QED
    BY <2>2, <2>3
<1>9. CASE MasterDies
  <2>1. Phase' = Phase
    BY <1>9 DEF MasterDies, Phase
  <2> QED
    BY <1>9, <2>1, MasterGoneRefines DEF MasterDies
<1>10. CASE RemoveAll
  <2> DEFINE R == Held \cap {"dir"}
  <2>1. Held' = Held \ R
    BY <1>10 DEF RemoveAll, HeldMembership, Resources
  <2>2. "master" \notin Held /\ "client" \notin Held /\ "forward" \notin Held
    BY <1>10 DEF RemoveAll, IInv, MasterInv, ForwardInv, ClientInv, AfterReap,
       MasterAlive, HeldMembership
  <2>3. \A r \in Held \ R : ResourceNeeds[r] \cap R = {}
    BY <2>2, NeedsOf DEF HeldMembership, Resources
  <2>4. Phase' = Phase
    BY <1>10 DEF RemoveAll, PhaseByLocation
  <2> QED
    BY <2>1, <2>3, <2>4, ReleaseRefines
<1>11. CASE StopServer
  <2> DEFINE R == Held \cap {"server"}
  <2>1. Held' = Held \ R
    BY <1>11 DEF StopServer, HeldMembership, Resources
  <2>2. "master" \notin Held /\ "client" \notin Held /\ "forward" \notin Held
    BY <1>11 DEF StopServer, IInv, MasterInv, ForwardInv, ClientInv, AfterReap,
       MasterAlive, HeldMembership
  <2>3. \A r \in Held \ R : ResourceNeeds[r] \cap R = {}
    BY <2>2, NeedsOf DEF HeldMembership, Resources
  <2>4. Phase' = Phase
    BY <1>11 DEF StopServer, PhaseByLocation
  <2> QED
    BY <2>1, <2>3, <2>4, ReleaseRefines
<1>12. CASE Exit
  <2>1. Held = {}
    BY <1>12 DEF Exit, IInv, ListenerInv, DirInv, MasterInv, ForwardInv, ClientInv,
       AfterReap, MasterAlive, HeldMembership, Resources
  <2>2. Held' = Held
    BY <1>12, HeldUnchanged DEF Exit
  <2>3. Scope!Finish
    BY <1>12, <2>1, <2>2 DEF Exit, Scope!Finish, PhaseByLocation
  <2> QED
    BY <2>3 DEF Scope!ScopeNext
<1>13. CASE Killed
  <2>1. Held' = Held \ {"server"}
    BY <1>13 DEF Killed, HeldMembership, Resources
  <2>2. Phase \in {"acquiring", "releasing"} /\ Phase' = "crashed"
    BY <1>13 DEF Killed, IInv, TypeOK, Ended, PhaseByLocation
  <2>3. Scope!Crash
    BY <2>1, <2>2 DEF Scope!Crash
  <2> QED
    BY <2>3 DEF Scope!ScopeNext
<1>14. CASE MasterConnects
  <2>1. Held' = Held
    <3>1. MasterAlive /\ MasterAlive' /\ UNCHANGED <<listener, dir, forward, client>>
      BY <1>14 DEF MasterConnects, MasterAlive
    <3> QED
      BY <3>1 DEF Held
  <2> QED
    BY <1>14, <2>1, MoveRefines DEF MasterConnects
<1>15. CASE Lookup
  BY <1>15, HeldUnchanged, MoveRefines DEF Lookup
<1>16. CASE MasterExitNoted
  BY <1>16, HeldUnchanged, MoveRefines DEF MasterExitNoted
<1>17. CASE MasterIsReady
  BY <1>17, HeldUnchanged, MoveRefines DEF MasterIsReady
<1>18. CASE ReadyTimeout
  BY <1>18, HeldUnchanged, MoveRefines DEF ReadyTimeout
<1>19. CASE ForwardBusy
  BY <1>19, HeldUnchanged, MoveRefines DEF ForwardBusy
<1>20. CASE ForwardFails
  BY <1>20, HeldUnchanged, MoveRefines DEF ForwardFails
<1>21. CASE RelistenFails
  BY <1>21, HeldUnchanged, MoveRefines DEF RelistenFails
<1>22. CASE CheckAgent
  BY <1>22, HeldUnchanged, MoveRefines DEF CheckAgent
<1>23. CASE Provision
  BY <1>23, HeldUnchanged, MoveRefines DEF Provision, AfterOpen
<1>24. CASE ProbeTransport
  BY <1>24, HeldUnchanged, MoveRefines DEF ProbeTransport
<1>25. CASE LookupClient
  BY <1>25, HeldUnchanged, MoveRefines DEF LookupClient
<1>26. CASE ForwardSignals
  BY <1>26, HeldUnchanged, MoveRefines DEF ForwardSignals
<1>27. CASE ClientReturns
  BY <1>27, HeldUnchanged, MoveRefines DEF ClientReturns
<1>28. CASE ChecksEnd
  BY <1>28, HeldUnchanged, MoveRefines DEF ChecksEnd
<1>29. CASE Reap
  BY <1>29, HeldUnchanged, MoveRefines DEF Reap
<1>30. CASE WaiterSends
  BY <1>30, HeldUnchanged, MoveRefines DEF WaiterSends
<1>31. CASE UNCHANGED vars
  BY <1>31, HeldUnchanged, MoveRefines DEF vars
<1> QED
  BY <1>1, <1>2, <1>3, <1>4, <1>5, <1>6, <1>7, <1>8, <1>9, <1>10, <1>11, <1>12, <1>13, <1>14, <1>15, <1>16, <1>17, <1>18, <1>19, <1>20, <1>21, <1>22, <1>23, <1>24, <1>25, <1>26, <1>27, <1>28, <1>29, <1>30, <1>31
  DEF Next, Main, Environment

\* slush implements ResourceScope: whatever fails and whenever it is killed,
\* what it holds is set up and given up in an order that leaves no resource
\* without the ones it needs (establishSession, Stop, Close, Run).
THEOREM ScopeIsRefined == Spec => OrderedScope
<1>1. Init => Scope!ScopeInit
  BY PortsAssumption DEF Init, Scope!ScopeInit, Held, Phase, Resources, MasterAlive, Cleanup
<1>2. IInv /\ [Next]_vars => [Scope!ScopeNext]_(Scope!scopeVars)
  BY StepRefines
<1> QED
  BY <1>1, <1>2, Inductive, PTL DEF Spec, OrderedScope, Scope!ScopeSpec
=============================================================================
