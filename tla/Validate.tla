-------------------------------- MODULE Validate --------------------------------
(***************************************************************************)
(* slush validate (internal/validate/validate.go) among the other sessions *)
(* of the account.  The validation is one of the sessions; after its       *)
(* set-up it runs checks in order, some of them by programs on the remote  *)
(* host (probes) and some as a client of its own server (protocol.Copy and *)
(* protocol.Paste).                                                        *)
(***************************************************************************)
EXTENDS RemoteAccount

CONSTANTS
  Validator,  \* the session that validates
  Probe,      \* the wrapper its checks run
  ProbePath,  \* PATH of a probe
  ForwardAgent, \* -A
  Transport   \* "ssh" or "mosh"

ASSUME ValidatorAssumption ==
  Validator \in Session /\ Probe \in Program /\ ProbePath \in Seq(STRING)

VARIABLES
  check,    \* the check that is next, or "setup" or "over"
  passed,   \* how many lines ok were told
  failed,   \* how many lines FAIL
  status,   \* the exit status: "none", "zero" or "nonzero"
  direct,   \* the remote host can be reached without the lost master
  quiet,    \* history: nobody and nothing interfered
  carried   \* history: what the forward has carried for the checks

validateVars == <<check, passed, failed, status, direct, quiet, carried>>
vars == <<accountVars, validateVars>>

Others == Program \ {Probe}

Init ==
  /\ AccountInit
  /\ check = "setup" /\ passed = 0 /\ failed = 0 /\ status = "none"
  /\ direct = FALSE
  /\ quiet = TRUE /\ carried = {}

-----------------------------------------------------------------------------
Up == phase[Validator] = "ready"

\* ok, skip and fail, and on to the next check.
Told(verdicts, next) ==
  /\ passed' = passed + Quantify(DOMAIN verdicts, LAMBDA i : verdicts[i])
  /\ failed' = failed + Quantify(DOMAIN verdicts, LAMBDA i : ~verdicts[i])
  /\ check' = next
Tell(good, next) == Told(<<good>>, next)

\* A check that is good on the host as it is may still end with an error of its
\* own: of the probe's ssh, of a tool of the desktop, of a deadline.
Verdict(good, next) ==
  \E err \in BOOLEAN : Tell(good /\ ~err, next) /\ quiet' = (quiet /\ ~err)

\* A probe that finds no master connects itself.
Reached == Up \/ direct

\* The listener, ssh or session.Open, which may fail with the forward in place (the
\* forwarded agent) or with the host provisioned (which transport to take).
SetupFails ==
  /\ check = "setup" /\ phase[Validator] \in {"idle", "open", "ready", "lost"}
  /\ Tell(FALSE, "over")
  /\ status' = "nonzero"
  /\ quiet' = FALSE
  /\ UNCHANGED <<accountVars, direct, carried>>

SetupDone ==
  /\ check = "setup" /\ phase[Validator] \in {"ready", "lost"}
  /\ Told(<<TRUE, TRUE>>, "agent")
  /\ UNCHANGED <<accountVars, status, direct, quiet, carried>>

CheckAgent ==
  /\ check = "agent"
  /\ IF ForwardAgent
       THEN Verdict(Reached, "shims")
       ELSE check' = "shims" /\ UNCHANGED <<passed, failed, quiet>>
  /\ UNCHANGED <<accountVars, status, direct, carried>>

\* Provision marks the version beside an empty shim, too.
CheckShims ==
  /\ check = "shims"
  /\ Verdict(Reached /\ shim # "missing", "transport")
  /\ UNCHANGED <<accountVars, status, direct, carried>>

\* Anything that listens answers the dial.  Without python3 the script ends with
\* an error, so that the check fails before it looks for a reason to be skipped.
CheckTransport ==
  /\ check = "transport"
  /\ Verdict(Reached /\ python /\ owner[port[Validator]] # None, "session env")
  /\ UNCHANGED <<accountVars, status, direct, carried>>

\* The exports, and with ssh that pbcopy is found in the wrapper directory.
CheckSessionEnv ==
  /\ check = "session env"
  /\ \/ /\ Told(IF ~Reached THEN <<FALSE>>
                ELSE IF Transport = "mosh" THEN <<TRUE>> ELSE <<TRUE, shim # "missing">>, "copy")
        /\ UNCHANGED quiet
     \/ /\ \/ Told(<<FALSE>>, "copy")
           \/ Transport # "mosh" /\ Told(<<TRUE, FALSE>>, "copy")
        /\ quiet' = FALSE
  /\ UNCHANGED <<accountVars, status, direct, carried>>

\* The remote shell finds pbcopy or pbpaste: the wrapper, or the native tool.
ProbeProgramBare(data) ==
  IF Reached /\ shim = "good" /\ python THEN Launched(None, {}, ProbePath, data)
  ELSE [Idle EXCEPT !.stage = "done", !.data = "", !.outcome = <<"failed", None>>]
ProbeProgram(data) ==
  IF Reached /\ shim = "good" /\ python
    THEN Launched(Validator, {"token", "port"}, ProbePath, data)
  ELSE [Idle EXCEPT !.stage = "done", !.data = "", !.outcome =
    <<CASE ~Reached         -> "failed"
        [] shim = "empty"   -> "nothing"
        [] shim = "good"    -> "failed"
        [] shim = "missing" -> IF ToSet(ProbePath) \cap NativeDirs = {} THEN "failed" ELSE "native",
      None>>]

StartProbe(data, next) ==
  /\ prog' = [prog EXCEPT ![Probe] = ProbeProgram(data)]
  /\ check' = next
  /\ UNCHANGED <<phase, port, owner, slushEnv, newest, shim, python, desktop,
                 passed, failed, status, direct, quiet, carried>>

ForgetProbe ==
  /\ prog' = [prog EXCEPT ![Probe] = Idle]
  /\ UNCHANGED <<phase, port, owner, slushEnv, newest, shim, python, desktop>>
ProbeFailed == prog[Probe].outcome[1] \in {"failed", "refused", "error"}

CopyRemotely == check = "copy" /\ StartProbe("out", "copying")

\* An error of the probe or of protocol.Paste, or the comparison.
JudgeCopy ==
  /\ check = "copying" /\ prog[Probe].stage = "done"
  /\ Verdict(~ProbeFailed /\ desktop[Validator] = "out", "paste")
  /\ ForgetProbe
  /\ UNCHANGED <<status, direct, carried>>

\* protocol.Copy; its error ends the check without a pbpaste, though the desktop
\* may have changed.
CopyLocallyReturns ==
  /\ check = "paste"
  /\ LET copied == [desktop EXCEPT ![Validator] = "in"]
     IN \/ /\ desktop' = copied
           /\ check' = "start paste"
           /\ UNCHANGED <<passed, failed, quiet>>
        \/ /\ desktop' \in {desktop, copied}
           /\ Tell(FALSE, "report")
           /\ quiet' = FALSE
  /\ UNCHANGED <<phase, port, owner, slushEnv, newest, shim, python, prog, status, direct, carried>>
CopyLocally ==
  /\ check = "paste"
  /\ LET copied == [desktop EXCEPT ![Validator] = "in"]
     IN \/ /\ desktop' = copied
           /\ check' = "start paste"
           /\ UNCHANGED <<passed, failed, quiet>>
        \/ /\ desktop' \in {desktop, copied}
           /\ Tell(FALSE, "open")
           /\ quiet' = FALSE
  /\ UNCHANGED <<phase, port, owner, slushEnv, newest, shim, python, prog, status, direct, carried>>

PasteRemotely == check = "start paste" /\ StartProbe("paste", "pasting")

JudgePasteByStatus ==
  /\ check = "pasting" /\ prog[Probe].stage = "done"
  /\ Verdict(~ProbeFailed, "open")
  /\ ForgetProbe
  /\ UNCHANGED <<status, direct, carried>>
JudgePaste ==
  /\ check = "pasting" /\ prog[Probe].stage = "done"
  /\ Verdict(prog[Probe].data = "in" /\ ~ProbeFailed, "open")
  /\ ForgetProbe
  /\ UNCHANGED <<status, direct, carried>>

CheckOpen ==
  /\ check = "open"
  /\ Verdict(Reached /\ shim = "good" /\ python, "report")
  /\ UNCHANGED <<accountVars, status, direct, carried>>

\* The error of the last probe is ignored.
Report ==
  /\ check = "report"
  /\ Tell(TRUE, "over")
  /\ status' = IF failed = 0 THEN "zero" ELSE "nonzero"
  /\ UNCHANGED <<accountVars, direct, quiet, carried>>

ValidateStep ==
  \/ SetupFails \/ SetupDone \/ CheckAgent \/ CheckShims \/ CheckTransport \/ CheckSessionEnv
  \/ CopyRemotely \/ JudgeCopy \/ CopyLocally \/ PasteRemotely \/ JudgePaste
  \/ CheckOpen \/ Report

-----------------------------------------------------------------------------
(* What goes on beside the validation.                                     *)

ProbeStep ==
  /\ ProgramStep(Probe)
  /\ carried' = IF prog'[Probe].outcome = <<"performed", Validator>>
                  THEN carried \union {prog'[Probe].data} ELSE carried
  /\ quiet' = (quiet /\ prog'[Probe].outcome[1] # "error")
  /\ UNCHANGED <<check, passed, failed, status, direct>>

\* The session of the validation is closed when the checks are over; it is
\* disturbed when its desktop is changed, its master dies or it is not provisioned.
AccountStep ==
  /\ \/ \E s \in Session \ {Validator} : SessionStep(s)
     \/ \E q \in Others : Launch(q) \/ ProgramStep(q)
     \/ SessionStep(Validator) /\ (phase'[Validator] \in {"closed", "failed"} <=> check = "over")
     \/ UserCopies(Validator)
  /\ quiet' = (quiet /\ desktop'[Validator] = desktop[Validator]
                     /\ phase'[Validator] # "lost"
                     /\ (phase[Validator] \in {"open", "publishing"} /\ phase'[Validator] = "ready"
                           => newest' = Validator))
  /\ direct' \in IF phase[Validator] # phase'[Validator] /\ phase'[Validator] = "lost"
                   THEN BOOLEAN ELSE {direct}
  /\ UNCHANGED <<check, passed, failed, status, carried>>

Next == ValidateStep \/ ProbeStep \/ AccountStep

Spec == Init /\ [][Next]_vars

-----------------------------------------------------------------------------
\* Type invariant of the account and of a validation.
TypeOK ==
  /\ direct \in BOOLEAN
  /\ phase \in [Session -> {"idle", "open", "publishing", "ready", "lost", "closed", "failed"}]
  /\ port \in [Session -> Port \union {None}]
  /\ owner \in [Port -> Session \union {None}]
  /\ \A p \in Port : owner[p] # None => port[owner[p]] = p
  /\ slushEnv.token \in Session \union {None} /\ slushEnv.port \in Port \union {None}
  /\ newest \in Session \union {None}
  /\ shim \in {"missing", "good", "empty"} /\ python \in BOOLEAN
  /\ \A q \in Program :
       /\ prog[q].stage \in {"idle", "load", "connect", "fallback", "done"}
       /\ prog[q].stage = "connect" =>
            prog[q].token \in Session /\ prog[q].port \in Port \union {DefaultPort}
  /\ passed \in Nat /\ failed \in Nat
  /\ status \in {"none", "zero", "nonzero"}

\* A validation that reports success has carried a value in each direction, over
\* the forward of its own session.
PassedMeansCarried == status = "zero" => carried = {"out", "in"}

\* A validation of a host that is set up right passes, whatever other sessions
\* of the account do meanwhile: unless it is disturbed (see AccountStep), or the
\* set-up, an ssh, a tool or a deadline of its own ends with an error, it does not
\* fail.
QuietRunPasses ==
  status = "nonzero" =>
    ~quiet \/ ~python \/ shim # "good"

\* The exit status tells of a failed check, and after a set-up that succeeds no
\* check is left out: none when the master is lost on the way, either.
StatusTellsChecks ==
  status # "none" =>
    /\ status = "nonzero" <=> failed > 0
    /\ passed > 0 => passed + failed >= IF ForwardAgent THEN 10 ELSE 9
=============================================================================
