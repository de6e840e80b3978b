----------------------------- MODULE ProvisionProofs -----------------------------
(***************************************************************************)
(* The invariants of Provision for any number of sessions: what VERSION    *)
(* says and what a success means, as long as no installation is disturbed. *)
(***************************************************************************)
EXTENDS Provision, TLAPS

\* The commands of a script are those of its task.
TaskPlaces ==
  \A r \in Scripts :
    /\ script[r] \in {"writeEnv", "report"} => r[2] = "env"
    /\ script[r] \in {"openShim", "copyShim", "writeVersion"} => r[2] = "install"

\* Only a session that has begun has scripts; when one has published its
\* credentials, those of a session that has begun are there.
Begun ==
  /\ \A r \in Scripts : script[r] # "none" => stage[r[1]] # "idle"
  /\ \A r \in Scripts :
       r[2] = "env" /\ script[r] \in {"report", "done"} =>
         slushEnv \in Session /\ stage[slushEnv] # "idle"
  /\ \A s \in Session :
       stage[s] \in {"install", "ok"} => slushEnv \in Session /\ stage[slushEnv] # "idle"

\* Without a disturbance only the first attempt installs, and its session waits for
\* it.
InstallsConnected ==
  ~disturbed =>
    \A r \in Scripts :
      r[2] = "install" /\ script[r] \notin {"none", "done"} => r[3] = "mux" /\ Connected(r)

\* Of sessions of one version, each that is told of it or has installed it, finds
\* it marked.
VersionMarked ==
  OneVersion =>
    \A s \in Session :
      /\ reported[s] = VersionOf[s] => version = VersionOf[s]
      /\ \A r \in Scripts :
           r[1] = s /\ r[2] = "install" /\ script[r] = "done" => version = VersionOf[s]
      /\ stage[s] = "ok" => version = VersionOf[s]

\* Whenever the version is marked, or is about to be, the shim is whole, unless a
\* copy is in progress; that copy will make it so.
ShimWhole ==
  OneVersion /\ ~disturbed =>
    \A s \in Session :
      /\ \A r \in Scripts : script[r] # "copyShim"
      /\ version = VersionOf[s] \/ \E r \in Scripts : script[r] = "writeVersion"
      => shim = VersionOf[s]

IInv ==
  /\ TypeOK
  /\ TaskPlaces
  /\ Begun
  /\ InstallsConnected
  /\ VersionMarked
  /\ ShimWhole

-----------------------------------------------------------------------------
(* The first state.                                                        *)

\* The first state.
LEMMA InitIInv == Init => IInv
<1> SUFFICES ASSUME Init PROVE IInv OBVIOUS
<1> USE VersionAssumption, MarkerAssumption DEF Init
<1>1. TypeOK BY DEF TypeOK, Places, Tasks, Attempts, Versions
<1>2. TaskPlaces BY DEF TaskPlaces
<1>3. Begun BY DEF Begun
<1>4. InstallsConnected BY DEF InstallsConnected
<1>5. VersionMarked BY DEF VersionMarked
<1>6. ShimWhole BY DEF ShimWhole
<1> QED BY <1>1, <1>2, <1>3, <1>4, <1>5, <1>6 DEF IInv

-----------------------------------------------------------------------------
(* What steps do to the scripts: a session starts one of its own, and a    *)
(* script goes on.                                                         *)

\* A script is named by its session, its task and its attempt.
LEMMA ScriptParts ==
  ASSUME NEW r \in Scripts
  PROVE  r[1] \in Session /\ r[2] \in Tasks /\ r[3] \in Attempts /\ r = <<r[1], r[2], r[3]>>
  BY DEF Scripts

\* A script is a session's, of a task and an attempt.
LEMMA ScriptOf ==
  ASSUME NEW s \in Session, NEW t \in Tasks, NEW a \in Attempts
  PROVE  <<s, t, a>> \in Scripts
  BY DEF Scripts

\* The current script of a session is one of its own.
LEMMA CurrentIsScript ==
  ASSUME TypeOK, NEW s \in Session, stage[s] \in Tasks
  PROVE  /\ Current(s) \in Scripts
         /\ Current(s)[1] = s /\ Current(s)[2] = stage[s] /\ Current(s)[3] = attempt[s]
  BY DEF TypeOK, Current, Scripts

\* Type correctness of every step.
LEMMA TypeStep == TypeOK /\ [Next]_vars => TypeOK'
<1> SUFFICES ASSUME TypeOK, [Next]_vars PROVE TypeOK' OBVIOUS
<1> USE DEF TypeOK, Places, Tasks, Attempts
<1>1. CASE UNCHANGED vars BY <1>1 DEF vars, localVars, remoteVars
<1>2. ASSUME NEW s \in Session, StartProvision(s) PROVE TypeOK'
  BY <1>2, ScriptOf DEF StartProvision, remoteVars
<1>3. ASSUME NEW s \in Session, EnvWritten(s) PROVE TypeOK'
  BY <1>3 DEF EnvWritten, BeginInstall, Return, remoteVars
<1>4. ASSUME NEW s \in Session, Installed(s) PROVE TypeOK'
  BY <1>4 DEF Installed, Return, remoteVars
<1>5. ASSUME NEW s \in Session, AttemptFails(s) PROVE TypeOK'
  BY <1>5 DEF AttemptFails, Return, remoteVars
<1>6. ASSUME NEW s \in Session, Killed(s) PROVE TypeOK'
  BY <1>6 DEF Killed, Return, remoteVars
<1>7. ASSUME NEW r \in Scripts, Script(r) PROVE TypeOK'
  <2>1. VersionOf[r[1]] \in Versions /\ r[1] \in Session BY ScriptParts DEF Versions
  <2>2. CASE Begin(r) BY <2>2 DEF Begin, Advance, localVars, remoteVars
  <2>3. CASE CommandFails(r) BY <2>3 DEF CommandFails, Advance, localVars, remoteVars
  <2>4. CASE WriteEnv(r) BY <2>1, <2>4 DEF WriteEnv, Advance, localVars
  <2>5. CASE Report(r) BY <2>1, <2>5 DEF Report, Advance, remoteVars
  <2>6. CASE OpenShim(r) BY <2>6 DEF OpenShim, Advance, localVars
  <2>7. CASE CopyShim(r) BY <2>1, <2>7 DEF CopyShim, Advance, localVars
  <2>8. CASE WriteVersion(r) BY <2>1, <2>8 DEF WriteVersion, Advance, localVars
  <2> QED BY <1>7, <2>2, <2>3, <2>4, <2>5, <2>6, <2>7, <2>8 DEF Script
<1> QED BY <1>1, <1>2, <1>3, <1>4, <1>5, <1>6, <1>7 DEF Next, Local

-----------------------------------------------------------------------------
(* A step of a session.                                                    *)

SessionStep(s) ==
  StartProvision(s) \/ EnvWritten(s) \/ Installed(s) \/ AttemptFails(s) \/ Killed(s)

\* A session puts a script of its own where it begins, and touches nothing remote.
LEMMA SessionFrame ==
  ASSUME TypeOK, NEW s \in Session, SessionStep(s)
  PROVE  /\ UNCHANGED remoteVars
         /\ \A u \in Session \ {s} :
              stage'[u] = stage[u] /\ attempt'[u] = attempt[u] /\ reported'[u] = reported[u]
         /\ \A r \in Scripts :
              \/ script'[r] = script[r]
              \/ /\ r[1] = s /\ script'[r] = "pending" /\ r[2] = stage'[s]
                 /\ r[2] = "install" => stage[s] = "env" \/ disturbed'
         /\ stage'[s] # "idle"
         /\ disturbed => disturbed'
         /\ reported'[s] \in {reported[s], Missing}
<1> USE DEF TypeOK, Tasks, Attempts, Scripts
<1>1. CASE StartProvision(s) BY <1>1 DEF StartProvision
<1>2. CASE EnvWritten(s) BY <1>2 DEF EnvWritten, BeginInstall, Return
<1>3. CASE Installed(s) BY <1>3 DEF Installed, Return
<1>4. CASE AttemptFails(s)
  <2>0. /\ stage[s] \in Tasks /\ reported' = [reported EXCEPT ![s] = Missing]
        /\ UNCHANGED remoteVars /\ disturbed' = (disturbed \/ stage[s] = "install")
    BY <1>4 DEF AttemptFails
  <2>1. CASE attempt[s] = "mux"
    <3>1. /\ stage' = stage /\ attempt' = [attempt EXCEPT ![s] = "direct"]
          /\ script' = [script EXCEPT ![<<s, stage[s], "direct">>] = "pending"]
      BY <1>4, <2>1 DEF AttemptFails
    <3>2. ASSUME NEW r \in Scripts, script'[r] # script[r]
          PROVE  r[1] = s /\ r[2] = stage[s] /\ script'[r] = "pending"
      <4> DEFINE d == <<s, stage[s], "direct">>
      <4>1. script' = [script EXCEPT ![d] = "pending"] BY <3>1
      <4>2. d[1] = s /\ d[2] = stage[s] OBVIOUS
      <4> HIDE DEF d
      <4> QED BY <3>2, <4>1, <4>2
    <3>3. stage[s] \in {"env", "install"} BY <2>0
    <3> QED BY <2>0, <3>1, <3>2, <3>3
  <2>2. CASE attempt[s] # "mux"
    <3>1. /\ stage' = [stage EXCEPT ![s] = "error"] /\ attempt' = [attempt EXCEPT ![s] = "mux"]
          /\ script' = script
      BY <1>4, <2>2 DEF AttemptFails, Return
    <3> QED BY <2>0, <3>1
  <2> QED BY <2>1, <2>2
<1>5. CASE Killed(s) BY <1>5 DEF Killed, Return
<1> QED BY <1>1, <1>2, <1>3, <1>4, <1>5 DEF SessionStep

\* A session's step puts no script at another task's command.
LEMMA SessionTaskPlaces ==
  ASSUME TypeOK, TaskPlaces, NEW s \in Session, SessionStep(s) PROVE TaskPlaces'
  BY SessionFrame DEF TaskPlaces

\* What a session needs for its next stage.
LEMMA SessionAdvances ==
  ASSUME TypeOK, NEW s \in Session, SessionStep(s)
  PROVE  /\ stage'[s] = "install" =>
              \/ stage[s] = "install"
              \/ stage[s] = "env" /\ Succeeds(s)
         /\ stage'[s] = "ok" =>
              \/ stage[s] = "env" /\ Succeeds(s) /\ reported[s] = VersionOf[s]
              \/ stage[s] = "install" /\ Succeeds(s)
<1> USE DEF TypeOK, Tasks, Attempts
<1>1. CASE StartProvision(s) BY <1>1 DEF StartProvision
<1>2. CASE EnvWritten(s) BY <1>2 DEF EnvWritten, BeginInstall, Return
<1>3. CASE Installed(s) BY <1>3 DEF Installed, Return
<1>4. CASE AttemptFails(s) BY <1>4 DEF AttemptFails, Return
<1>5. CASE Killed(s) BY <1>5 DEF Killed, Return
<1> QED BY <1>1, <1>2, <1>3, <1>4, <1>5 DEF SessionStep

\* A session's step starts scripts of its own only.
LEMMA SessionBegun ==
  ASSUME TypeOK, Begun, NEW s \in Session, SessionStep(s) PROVE Begun'
<1> DEFINE There == slushEnv \in Session /\ stage[slushEnv] # "idle"
<1>1. There => There' BY SessionFrame DEF remoteVars
<1>2. \A r \in Scripts : script'[r] # "none" => stage'[r[1]] # "idle"
  BY SessionFrame, ScriptParts DEF Begun
<1>3. \A r \in Scripts : r[2] = "env" /\ script'[r] \in {"report", "done"} => There'
  BY <1>1, SessionFrame DEF Begun
<1>4. ASSUME NEW u \in Session, stage'[u] \in {"install", "ok"} PROVE There'
  <2>1. CASE u # s BY <1>1, <1>4, <2>1, SessionFrame DEF Begun
  <2>2. CASE u = s /\ stage[s] = "install" BY <1>1, <2>2 DEF Begun
  <2>3. CASE u = s /\ stage[s] = "env" /\ Succeeds(s)
    <3>1. Current(s) \in Scripts /\ Current(s)[2] = "env" /\ script[Current(s)] = "done"
      BY <2>3, CurrentIsScript DEF Succeeds, Tasks
    <3> QED BY <1>1, <3>1 DEF Begun
  <2> QED BY <1>4, <2>1, <2>2, <2>3, SessionAdvances
<1> QED BY <1>2, <1>3, <1>4 DEF Begun

\* A second attempt to install comes after a disturbance, and a session that leaves
\* its installation undisturbed leaves it done.
LEMMA SessionInstalls ==
  ASSUME TypeOK, InstallsConnected, NEW s \in Session, SessionStep(s) PROVE InstallsConnected'
<1> SUFFICES ASSUME ~disturbed', NEW r \in Scripts, r[2] = "install",
                    script'[r] \notin {"none", "done"}
             PROVE  r[3] = "mux" /\ r = Current(r[1])'
  BY DEF InstallsConnected, Connected
<1> USE DEF TypeOK, Tasks, Attempts
<1>0. ~disturbed /\ r[1] \in Session /\ r = <<r[1], r[2], r[3]>> BY SessionFrame, ScriptParts
<1>1. script[r] \notin {"none", "done"} => r[3] = "mux" /\ r = <<r[1], stage[r[1]], attempt[r[1]]>>
  BY <1>0 DEF InstallsConnected, Connected, Current
<1>2. CASE r[1] # s BY <1>0, <1>1, <1>2, SessionFrame DEF Current
<1>3. CASE r[1] = s /\ StartProvision(s)
  <2>1. script'[r] = script[r] BY <1>0, <1>3 DEF StartProvision, Scripts
  <2> QED BY <1>0, <1>1, <1>3, <2>1 DEF StartProvision
<1>4. CASE r[1] = s /\ EnvWritten(s)
  <2>1. stage[s] = "env" BY <1>4 DEF EnvWritten
  <2>2. script[r] \in {"none", "done"} BY <1>0, <1>1, <1>4, <2>1
  <2>3. script'[r] # script[r] BY <2>2
  <2>4. BeginInstall(s) BY <1>4, <2>3 DEF EnvWritten
  <2>5. r = <<s, "install", "mux">> BY <1>0, <1>4, <2>3, <2>4 DEF BeginInstall, Scripts
  <2> QED BY <1>4, <2>4, <2>5 DEF BeginInstall, Current
<1>5. CASE r[1] = s /\ Installed(s)
  <2>1. script' = script /\ script[Current(s)] = "done" /\ stage[s] = "install"
    BY <1>5 DEF Installed, Succeeds
  <2>2. r = Current(s) BY <1>0, <1>1, <1>5, <2>1 DEF Current
  <2> QED BY <2>1, <2>2
<1>6. CASE r[1] = s /\ (AttemptFails(s) \/ Killed(s))
  <2>1. stage[s] = "env" BY <1>6 DEF AttemptFails, Killed
  <2>2. script[r] \in {"none", "done"} BY <1>0, <1>1, <1>6, <2>1
  <2>3. script'[r] = script[r] BY <1>0, <1>6, <2>1 DEF AttemptFails, Killed, Scripts
  <2> QED BY <2>2, <2>3
<1> QED BY <1>2, <1>3, <1>4, <1>5, <1>6 DEF SessionStep

\* A session succeeds when it was told of its version or its script has marked it.
LEMMA SessionMarked ==
  ASSUME TypeOK, VersionMarked, NEW s \in Session, SessionStep(s) PROVE VersionMarked'
<1> SUFFICES ASSUME OneVersion, NEW u \in Session
             PROVE  /\ reported'[u] = VersionOf[u] => version' = VersionOf[u]
                    /\ \A r \in Scripts :
                         r[1] = u /\ r[2] = "install" /\ script'[r] = "done"
                           => version' = VersionOf[u]
                    /\ stage'[u] = "ok" => version' = VersionOf[u]
  BY DEF VersionMarked, OneVersion
<1>0. version' = version BY SessionFrame DEF remoteVars
<1>1. reported'[u] = VersionOf[u] => version' = VersionOf[u]
  BY <1>0, SessionFrame, VersionAssumption DEF VersionMarked
<1>2. \A r \in Scripts :
        r[1] = u /\ r[2] = "install" /\ script'[r] = "done" => version' = VersionOf[u]
  BY <1>0, SessionFrame DEF VersionMarked
<1>3. ASSUME stage'[u] = "ok" PROVE version' = VersionOf[u]
  <2>1. CASE u # s BY <1>0, <1>3, <2>1, SessionFrame DEF VersionMarked
  <2>2. CASE u = s /\ reported[s] = VersionOf[s] BY <1>0, <2>2 DEF VersionMarked
  <2>3. CASE u = s /\ stage[s] = "install" /\ Succeeds(s)
    BY <1>0, <2>3, CurrentIsScript DEF VersionMarked, Succeeds, Tasks
  <2> QED BY <1>3, <2>1, <2>2, <2>3, SessionAdvances
<1> QED BY <1>1, <1>2, <1>3

\* No copy is overwritten: the session of a script that copies is connected to it.
LEMMA SessionWhole ==
  ASSUME TypeOK, TaskPlaces, InstallsConnected, ShimWhole, NEW s \in Session, SessionStep(s)
  PROVE  ShimWhole'
<1> SUFFICES ASSUME OneVersion, ~disturbed', NEW u \in Session,
                    \A r \in Scripts : script'[r] # "copyShim",
                    version' = VersionOf[u] \/ \E r \in Scripts : script'[r] = "writeVersion"
             PROVE  shim' = VersionOf[u]
  BY DEF ShimWhole, OneVersion
<1>0. ~disturbed BY SessionFrame
<1>1. ASSUME NEW r \in Scripts, script[r] = "copyShim" PROVE FALSE
  <2>1. script'[r] = "pending" /\ r[1] = s BY <1>1, SessionFrame
  <2>2. r[2] = "install" BY <1>1 DEF TaskPlaces
  <2>3. stage[s] = "env" BY <2>1, <2>2, <1>1, SessionFrame
  <2>4. r = <<s, stage[s], attempt[s]>>
    BY <1>0, <1>1, <2>1, <2>2 DEF InstallsConnected, Connected, Current
  <2> QED BY <2>2, <2>3, <2>4
<1> QED BY <1>0, <1>1, SessionFrame DEF ShimWhole, remoteVars

-----------------------------------------------------------------------------
(* A step of a script.                                                     *)

\* A script stays among the commands of its task.
LEMMA ScriptTaskPlaces ==
  ASSUME TypeOK, TaskPlaces, NEW r \in Scripts, Script(r) PROVE TaskPlaces'
<1>0. r[2] \in {"env", "install"} BY ScriptParts DEF Tasks
<1> USE DEF TypeOK, TaskPlaces, Advance
<1>1. CASE Begin(r) BY <1>0, <1>1 DEF Begin
<1>2. CASE CommandFails(r) BY <1>2 DEF CommandFails
<1>3. CASE WriteEnv(r) BY <1>3 DEF WriteEnv
<1>4. CASE Report(r) BY <1>4 DEF Report
<1>5. CASE OpenShim(r) BY <1>5 DEF OpenShim
<1>6. CASE CopyShim(r) BY <1>6 DEF CopyShim
<1>7. CASE WriteVersion(r) BY <1>7 DEF WriteVersion
<1> QED BY <1>1, <1>2, <1>3, <1>4, <1>5, <1>6, <1>7 DEF Script

\* A script that goes on leaves the credentials of one that has begun.
LEMMA ScriptBegun ==
  ASSUME TypeOK, TaskPlaces, Begun, NEW r \in Scripts, Script(r) PROVE Begun'
<1>0. r[1] \in Session /\ r[2] \in {"env", "install"} /\ stage[r[1]] # "idle"
  BY ScriptParts DEF Tasks, Begun, Script, Begin, CommandFails, WriteEnv, Report, OpenShim,
                     CopyShim, WriteVersion, Advance, Running
<1> USE DEF TypeOK, Begun, Advance, localVars, remoteVars
<1>1. CASE Begin(r) BY <1>0, <1>1 DEF Begin
<1>2. CASE CommandFails(r) BY <1>0, <1>2 DEF CommandFails
<1>3. CASE WriteEnv(r) BY <1>0, <1>3 DEF WriteEnv
<1>4. CASE Report(r) BY <1>0, <1>4 DEF Report
<1>5. CASE OpenShim(r) BY <1>0, <1>5 DEF OpenShim
<1>6. CASE CopyShim(r) BY <1>0, <1>6 DEF CopyShim
<1>7. CASE WriteVersion(r)
  <2>1. r[2] = "install" BY <1>7 DEF WriteVersion, TaskPlaces
  <2> QED BY <1>0, <1>7, <2>1 DEF WriteVersion
<1> QED BY <1>1, <1>2, <1>3, <1>4, <1>5, <1>6, <1>7 DEF Script

\* No script changes who is connected to it.
LEMMA ScriptInstalls ==
  ASSUME TypeOK, InstallsConnected, NEW r \in Scripts, Script(r) PROVE InstallsConnected'
<1> SUFFICES ASSUME ~disturbed', NEW q \in Scripts, q[2] = "install",
                    script'[q] \notin {"none", "done"}
             PROVE  q[3] = "mux" /\ Connected(q)'
  BY DEF InstallsConnected
<1>1. UNCHANGED <<stage, attempt>> /\ ~disturbed /\ script[r] \notin {"none", "done"}
      /\ script' = [script EXCEPT ![r] = script'[r]]
  BY DEF TypeOK, Script, Begin, CommandFails, WriteEnv, Report, OpenShim, CopyShim,
         WriteVersion, Advance, localVars, Running
<1>2. q # r => script'[q] = script[q] BY <1>1 DEF TypeOK
<1>3. q[3] = "mux" /\ Connected(q) BY <1>1, <1>2 DEF InstallsConnected
<1> QED BY <1>1, <1>3 DEF Connected, Current

\* VERSION is only ever changed to the version all sessions are of.
LEMMA ScriptMarked ==
  ASSUME TypeOK, TaskPlaces, VersionMarked, NEW r \in Scripts, Script(r) PROVE VersionMarked'
<1> SUFFICES ASSUME OneVersion
             PROVE  \A s \in Session :
                      /\ reported'[s] = VersionOf[s] => version' = VersionOf[s]
                      /\ \A q \in Scripts :
                           q[1] = s /\ q[2] = "install" /\ script'[q] = "done"
                             => version' = VersionOf[s]
                      /\ stage'[s] = "ok" => version' = VersionOf[s]
  BY DEF VersionMarked, OneVersion
<1>0. r[1] \in Session BY ScriptParts
<1> USE DEF TypeOK, VersionMarked, Advance, localVars, remoteVars
<1>1. CASE Begin(r) BY <1>1 DEF Begin
<1>2. CASE CommandFails(r) BY <1>2 DEF CommandFails
<1>3. CASE WriteEnv(r) BY <1>3 DEF WriteEnv
<1>4. CASE Report(r)
  <2>1. r[2] = "env" BY <1>4 DEF Report, TaskPlaces
  <2> QED BY <1>0, <1>4, <2>1 DEF Report
<1>5. CASE OpenShim(r) BY <1>5 DEF OpenShim
<1>6. CASE CopyShim(r) BY <1>6 DEF CopyShim
<1>7. CASE WriteVersion(r) BY <1>0, <1>7 DEF WriteVersion, OneVersion
<1> QED BY <1>1, <1>2, <1>3, <1>4, <1>5, <1>6, <1>7 DEF Script

\* The one that copies is connected and in its first attempt, so it copies all.
LEMMA ScriptWhole ==
  ASSUME TypeOK, TaskPlaces, InstallsConnected, ShimWhole, NEW r \in Scripts, Script(r)
  PROVE  ShimWhole'
<1> SUFFICES ASSUME OneVersion, ~disturbed', NEW u \in Session,
                    \A q \in Scripts : script'[q] # "copyShim",
                    version' = VersionOf[u] \/ \E q \in Scripts : script'[q] = "writeVersion"
             PROVE  shim' = VersionOf[u]
  BY DEF ShimWhole, OneVersion
<1>0. r[1] \in Session /\ r[2] \in {"env", "install"} /\ r[3] \in {"mux", "direct"}
  BY ScriptParts DEF Tasks, Attempts
<1> USE DEF TypeOK, ShimWhole, Advance, localVars, remoteVars
<1>1. CASE Begin(r) BY <1>1 DEF Begin
<1>2. CASE CommandFails(r)
  <2>1. r[2] = "env" BY <1>0, <1>2 DEF CommandFails
  <2>2. script[r] # "copyShim" BY <2>1 DEF TaskPlaces
  <2> QED BY <1>2, <2>2 DEF CommandFails
<1>3. CASE WriteEnv(r) BY <1>3 DEF WriteEnv
<1>4. CASE Report(r) BY <1>4 DEF Report
<1>5. CASE OpenShim(r) BY <1>5 DEF OpenShim
<1>6. CASE CopyShim(r)
  <2>1. r[2] = "install" /\ script[r] = "copyShim" /\ ~disturbed
    BY <1>6 DEF CopyShim, TaskPlaces
  <2>2. r[3] = "mux" /\ Connected(r) BY <2>1 DEF InstallsConnected
  <2>3. shim' = VersionOf[r[1]] BY <1>6, <2>2 DEF CopyShim
  <2> QED BY <1>0, <2>3 DEF OneVersion
<1>7. CASE WriteVersion(r)
  <2>1. \A q \in Scripts : script[q] # "copyShim" BY <1>7 DEF WriteVersion
  <2>2. script[r] = "writeVersion" /\ ~disturbed /\ shim' = shim BY <1>7 DEF WriteVersion
  <2> QED BY <2>1, <2>2
<1> QED BY <1>1, <1>2, <1>3, <1>4, <1>5, <1>6, <1>7 DEF Script

-----------------------------------------------------------------------------
\* IInv is inductive.
LEMMA NextIInv == IInv /\ [Next]_vars => IInv'
<1> SUFFICES ASSUME IInv, [Next]_vars PROVE IInv' OBVIOUS
<1> USE DEF IInv
<1>0. TypeOK' BY TypeStep
<1>1. CASE UNCHANGED vars
  <2> USE <1>1 DEF vars, localVars, remoteVars
  <2>1. TaskPlaces' BY DEF TaskPlaces
  <2>2. Begun' BY DEF Begun
  <2>3. InstallsConnected' BY DEF InstallsConnected, Connected, Current
  <2>4. VersionMarked' BY DEF VersionMarked, OneVersion
  <2>5. ShimWhole' BY DEF ShimWhole, OneVersion
  <2> QED BY <1>0, <2>1, <2>2, <2>3, <2>4, <2>5
<1>2. CASE \E s \in Session : SessionStep(s)
  BY <1>0, <1>2, SessionTaskPlaces, SessionBegun, SessionInstalls, SessionMarked, SessionWhole
<1>3. CASE \E r \in Scripts : Script(r)
  BY <1>0, <1>3, ScriptTaskPlaces, ScriptBegun, ScriptInstalls, ScriptMarked, ScriptWhole
<1> QED BY <1>1, <1>2, <1>3 DEF Next, Local, SessionStep

\* The invariant holds however sessions and scripts interleave (provision.go).
THEOREM AlwaysIInv == Spec => []IInv
<1> QED BY InitIInv, NextIInv, PTL DEF Spec

-----------------------------------------------------------------------------
\* The sessions, their scripts and the remote directory are well-typed, for any
\* number of sessions and any versions (provision.go).
THEOREM TypeCorrect == Spec => []TypeOK
<1> QED BY AlwaysIInv, PTL DEF IInv

\* Sessions of one version that nothing disturbs keep VERSION true of the shim
\* beside it, however their scripts interleave (installShims).
THEOREM VersionIsTrue == Spec => []UndisturbedVersionIsTrue
<1>1. IInv => UndisturbedVersionIsTrue
  BY DEF IInv, ShimWhole, UndisturbedVersionIsTrue
<1> QED BY <1>1, AlwaysIInv, PTL

\* A session of several that succeeds has its shim, its version and, alone, its
\* credentials installed (Provision, writeSessionEnv).
THEOREM SuccessInstalls == Spec => []UndisturbedSuccessInstalls
<1>1. IInv => UndisturbedSuccessInstalls
  <2> SUFFICES ASSUME IInv, OneVersion, ~disturbed, NEW s \in Session, stage[s] = "ok",
                      \A r \in Scripts : ~Running(r)
               PROVE  /\ version = VersionOf[s] /\ shim = VersionOf[s]
                      /\ (\A t \in Session \ {s} : stage[t] = "idle") => slushEnv = s
    BY DEF UndisturbedSuccessInstalls
  <2>1. version = VersionOf[s] BY DEF IInv, VersionMarked
  <2>2. \A r \in Scripts : script[r] # "copyShim" BY DEF Running
  <2>3. shim = VersionOf[s] BY <2>1, <2>2 DEF IInv, ShimWhole
  <2>4. slushEnv \in Session /\ stage[slushEnv] # "idle" BY DEF IInv, Begun
  <2> QED BY <2>1, <2>3, <2>4
<1> QED BY <1>1, AlwaysIInv, PTL
=============================================================================
