-------------------------------- MODULE Provision --------------------------------
(***************************************************************************)
(* Provisioning the remote host (internal/remote/provision.go): what slush *)
(* sessions do to the directory that all sessions of a remote account      *)
(* share, ${XDG_CACHE_HOME:-$HOME/.cache}/slush.                           *)
(*                                                                         *)
(* A session runs two remote scripts: one publishes its credentials and    *)
(* reports the installed version; if that is not its own, the other        *)
(* installs the shim, which it reads from the stdin of ssh, and marks the  *)
(* version.  Each script gets two attempts, over the held master and then  *)
(* over a connection of its own.  A script whose ssh ends goes on, with an *)
(* end of file where it reads; so scripts of several attempts and of       *)
(* several sessions may run at once.                                       *)
(***************************************************************************)
EXTENDS Naturals

CONSTANTS
  Session,    \* slush processes that provision the same account
  VersionOf,  \* the version of each of them: the constant Version
  Stale,      \* an older version that may be installed
  Missing,    \* no file
  Partial     \* a shim that was cut short

ASSUME VersionAssumption ==
  \A s \in Session : VersionOf[s] \notin {Stale, Missing, Partial}
ASSUME MarkerAssumption ==
  Stale # Missing /\ Stale # Partial /\ Missing # Partial

Attempts == {"mux", "direct"}
Tasks    == {"env", "install"}
Scripts  == Session \X Tasks \X Attempts

VARIABLES
  stage,      \* what each session is doing
  attempt,    \* over the master, or directly
  unread,     \* the reader of installShims still holds the shim
  reported,   \* the version the current script of task "env" printed
  script,     \* where each remote script is
  python,     \* the remote host has python3
  slushEnv,   \* whose credentials slush-env holds
  shim,       \* the version of bin/slush-shim
  version,    \* what VERSION says
  disturbed   \* history: an installation failed or was abandoned

localVars  == <<stage, attempt, unread, reported>>
remoteVars == <<python, slushEnv, shim, version>>
vars == <<localVars, script, remoteVars, disturbed>>

Versions == {VersionOf[s] : s \in Session} \union {Stale}

Current(s)   == <<s, stage[s], attempt[s]>>
Connected(r) == r = Current(r[1])
Running(r)   == script[r] \notin {"none", "done", "failed"}

Init ==
  /\ stage = [s \in Session |-> "idle"]
  /\ attempt = [s \in Session |-> "mux"]
  /\ unread = [s \in Session |-> TRUE]
  /\ reported = [s \in Session |-> Missing]
  /\ script = [r \in Scripts |-> "none"]
  /\ python \in BOOLEAN
  /\ slushEnv = Missing
  /\ version \in Versions \union {Missing}
  /\ shim = version
  /\ disturbed = FALSE

-----------------------------------------------------------------------------
(* The session: Provision, runProvisionExec, SSHExec.                      *)

StartProvision(s) ==
  /\ stage[s] = "idle"
  /\ stage' = [stage EXCEPT ![s] = "env"]
  /\ script' = [script EXCEPT ![<<s, "env", "mux">>] = "pending"]
  /\ UNCHANGED <<attempt, unread, reported, remoteVars, disturbed>>

Succeeds(s) == script[Current(s)] = "done"

\* Provision returns, or its process is gone; its local variables are too.
Return(s, how) ==
  /\ stage' = [stage EXCEPT ![s] = how]
  /\ attempt' = [attempt EXCEPT ![s] = "mux"]

\* installShims, whose ssh is sent the shim.
BeginInstall(s) ==
  /\ stage' = [stage EXCEPT ![s] = "install"]
  /\ attempt' = [attempt EXCEPT ![s] = "mux"]
  /\ script' = [script EXCEPT ![<<s, "install", "mux">>] = "pending"]

\* writeSessionEnv returns: without python3 that is an error, with the own
\* version installed the rest is skipped, otherwise installShims begins.
KeepsWhatIsThere(s) ==
  /\ stage[s] = "env" /\ Succeeds(s)
  /\ IF python /\ reported[s] = Missing
     THEN BeginInstall(s)
     ELSE Return(s, IF python THEN "ok" ELSE "error") /\ UNCHANGED script
  /\ reported' = [reported EXCEPT ![s] = Missing]
  /\ UNCHANGED <<unread, remoteVars, disturbed>>
EnvWritten(s) ==
  /\ stage[s] = "env" /\ Succeeds(s)
  /\ IF python /\ reported[s] # VersionOf[s]
     THEN BeginInstall(s)
     ELSE Return(s, IF python THEN "ok" ELSE "error") /\ UNCHANGED script
  /\ reported' = [reported EXCEPT ![s] = Missing]
  /\ UNCHANGED <<unread, remoteVars, disturbed>>

Installed(s) ==
  /\ stage[s] = "install" /\ Succeeds(s)
  /\ Return(s, "ok")
  /\ UNCHANGED <<unread, reported, script, remoteVars, disturbed>>

\* The connection is refused or lost, the script fails, or provisionTimeout
\* passes.  The direct attempt is given the same reader: what the first ssh
\* was sent is gone from it, which is everything unless that ssh ended before
\* os/exec had copied the shim.
AttemptFails(s) ==
  /\ stage[s] \in Tasks
  /\ disturbed' = (disturbed \/ stage[s] = "install")
  /\ IF attempt[s] = "mux"
     THEN /\ attempt' = [attempt EXCEPT ![s] = "direct"]
          /\ script' = [script EXCEPT ![<<s, stage[s], "direct">>] = "pending"]
          /\ \E left \in BOOLEAN :
               /\ IF left THEN stage[s] = "env" \/ script[Current(s)] = "pending"
                          ELSE stage[s] = "install"
               /\ unread' = [unread EXCEPT ![s] = left]
          /\ UNCHANGED stage
     ELSE Return(s, "error") /\ UNCHANGED <<unread, script>>
  /\ reported' = [reported EXCEPT ![s] = Missing]
  /\ UNCHANGED remoteVars

\* slush is killed, and its ssh loses the pipes it reads and writes.
Killed(s) ==
  /\ stage[s] \in Tasks
  /\ disturbed' = (disturbed \/ stage[s] = "install")
  /\ Return(s, "error")
  /\ reported' = [reported EXCEPT ![s] = Missing]
  /\ UNCHANGED <<unread, script, remoteVars>>

-----------------------------------------------------------------------------
(* The remote scripts, command by command; any command may fail, and then  *)
(* the script exits.                                                       *)

Advance(r, from, to) ==
  /\ script[r] = from
  /\ script' = [script EXCEPT ![r] = to]

\* sshd runs the script while the connection is there.
Begin(r) ==
  /\ Connected(r)
  /\ Advance(r, "pending", IF r[2] = "env" THEN "writeEnv" ELSE "openShim")
  /\ UNCHANGED <<localVars, remoteVars, disturbed>>

CommandFails(r) ==
  /\ Running(r) /\ script[r] # "pending"
  /\ Advance(r, script[r], "failed")
  /\ disturbed' = (disturbed \/ r[2] = "install")
  /\ UNCHANGED <<localVars, remoteVars>>

WriteEnv(r) ==
  /\ Advance(r, "writeEnv", "report")
  /\ slushEnv' = r[1]
  /\ UNCHANGED <<localVars, python, shim, version, disturbed>>

\* What a script prints after its ssh has ended is lost.
ReportWrongFile(r) ==
  /\ Advance(r, "report", "done")
  /\ reported' = IF Connected(r) THEN [reported EXCEPT ![r[1]] = slushEnv] ELSE reported
  /\ UNCHANGED <<stage, attempt, unread, remoteVars, disturbed>>
Report(r) ==
  /\ Advance(r, "report", "done")
  /\ reported' = IF Connected(r) THEN [reported EXCEPT ![r[1]] = version] ELSE reported
  /\ UNCHANGED <<stage, attempt, unread, remoteVars, disturbed>>

\* cat > slush-shim: the shell truncates the file, cat copies stdin to its end.
OpenShim(r) ==
  /\ Advance(r, "openShim", "copyShim")
  /\ shim' = Missing
  /\ UNCHANGED <<localVars, python, slushEnv, version, disturbed>>

StdinMissing(r) ==
  /\ Advance(r, "copyShim", "writeVersion")
  /\ shim' = Missing
  /\ UNCHANGED <<localVars, python, slushEnv, version, disturbed>>
CopyShim(r) ==
  /\ Advance(r, "copyShim", "writeVersion")
  /\ shim' \in IF r[3] = "direct" /\ ~unread[r[1]] THEN {Missing}
               ELSE IF Connected(r) THEN {VersionOf[r[1]]}
               ELSE {Missing, Partial, VersionOf[r[1]]}
  /\ UNCHANGED <<localVars, python, slushEnv, version, disturbed>>

\* After the links and the startup files, whose text is part of the script.
WriteVersion(r) ==
  /\ Advance(r, "writeVersion", "done")
  /\ version' = VersionOf[r[1]]
  /\ UNCHANGED <<localVars, python, slushEnv, shim, disturbed>>

Script(r) ==
  \/ Begin(r) \/ CommandFails(r)
  \/ WriteEnv(r) \/ Report(r)
  \/ OpenShim(r) \/ CopyShim(r) \/ WriteVersion(r)

Local(s) == EnvWritten(s) \/ Installed(s) \/ AttemptFails(s)

Next ==
  \/ \E s \in Session : StartProvision(s) \/ Local(s) \/ Killed(s)
  \/ \E r \in Scripts : Script(r)

Spec == Init /\ [][Next]_vars

-----------------------------------------------------------------------------
Places ==
  {"none", "pending", "writeEnv", "report", "openShim", "copyShim",
   "writeVersion", "done", "failed"}

\* Type invariant of the sessions, their scripts and the remote directory.
TypeOK ==
  /\ stage \in [Session -> Tasks \union {"idle", "ok", "error"}]
  /\ attempt \in [Session -> Attempts]
  /\ unread \in [Session -> BOOLEAN]
  /\ reported \in [Session -> Versions \union {Missing}]
  /\ script \in [Scripts -> Places]
  /\ python \in BOOLEAN
  /\ slushEnv \in Session \union {Missing}
  /\ shim \in Versions \union {Missing, Partial}
  /\ version \in Versions \union {Missing}
  /\ disturbed \in BOOLEAN

OneVersion == \A s, t \in Session : VersionOf[s] = VersionOf[t]

\* As long as no installation fails and all sessions are of one version, a current
\* VERSION is true of the shim, also while other sessions install theirs; only
\* a copy in progress may leave the file short for a moment (installShims marks
\* the version last).
UndisturbedVersionIsTrue ==
  OneVersion /\ ~disturbed =>
    \A s \in Session :
      /\ version = VersionOf[s]
      /\ \A r \in Scripts : script[r] # "copyShim"
      => shim = VersionOf[s]

\* Provision that returns without an error has installed its own version over
\* whatever was there ("recover from a stale installation version"), once no
\* script runs; and where no other session has begun, slush-env is its own
\* (Provision, writeSessionEnv).
UndisturbedSuccessInstalls ==
  OneVersion /\ ~disturbed =>
    \A s \in Session :
      stage[s] = "ok" /\ (\A r \in Scripts : ~Running(r)) =>
        /\ version = VersionOf[s] /\ shim = VersionOf[s]
        /\ (\A t \in Session \ {s} : stage[t] = "idle") => slushEnv = s

\* The claim that VERSION identifies the installed shim: once no script runs,
\* a current VERSION is that of the shim.
VersionIdentifiesShim ==
  \A s \in Session :
    version = VersionOf[s] /\ (\A r \in Scripts : ~Running(r)) => shim = version
=============================================================================
