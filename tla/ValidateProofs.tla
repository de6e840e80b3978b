----------------------------- MODULE ValidateProofs -----------------------------
(***************************************************************************)
(* Which desktop a program of an account reaches, for any sessions, ports, *)
(* programs and values of PATH, with a validation among the sessions:      *)
(* OwnDesktopOnly, OpenSessionServes and NewestSessionServes.              *)
(*                                                                         *)
(* What the validation says can be relied on: TypeOK, StatusTellsChecks,   *)
(* PassedMeansCarried and QuietRunPasses; and a wrapper that was handed    *)
(* its request does not hand it over, if all linked wrappers are one.      *)
(* Each of these has an invariant of its own, inductive relative to Knows  *)
(* and Serves.                                                             *)
(***************************************************************************)
EXTENDS Validate, FiniteSetTheorems, WellFoundedInduction, TLAPS

Fields == {"stage", "by", "env", "token", "port", "dir", "path", "handed", "data",
           "readAt", "outcome"}

\* The session whose token the program is to present.
Source(r) == IF "token" \in r.env THEN r.by ELSE r.readAt

\* A program that has not looked for credentials yet holds the token it inherited,
\* one that is about to connect that of its source; only a session passes one on.
ProgramKnows(r) ==
  /\ DOMAIN r = Fields
  /\ r.stage = "load" => r.token = IF "token" \in r.env THEN r.by ELSE None
  /\ r.stage = "connect" => r.token = Source(r)
  /\ r.stage # "idle" /\ r.stage # "done" /\ "token" \in r.env => r.by # None

\* The file holds no other token than that of the session that wrote it last.
Knows ==
  /\ slushEnv.token \in {None, newest}
  /\ shim \in {"missing", "good", "empty"}
  /\ prog = [q \in Program |-> prog[q]]
  /\ \A q \in Program : ProgramKnows(prog[q])

-----------------------------------------------------------------------------
(* What the steps put in prog.                                             *)

\* A program that has not begun knows nothing that could be wrong.
LEMMA IdleKnows == ProgramKnows(Idle)
  BY DEF ProgramKnows, Fields, Idle

\* A program that has ended has nothing left to know.
LEMMA EndedKnows == ASSUME NEW d, NEW o PROVE ProgramKnows(Ended(d, o))
  BY DEF ProgramKnows, Fields, Ended, Idle

\* A program that is launched, by a session or outside of every session, holds
\* the token it inherits.
LEMMA LaunchedKnows ==
  ASSUME NEW by, NEW env, NEW path, NEW data, "token" \in env => by # None
  PROVE  /\ ProgramKnows(Launched(by, env, path, data))
         /\ Launched(by, env, path, data).stage = "load"
         /\ Launched(by, env, path, data).env = env
         /\ Launched(by, env, path, data).by = by
<1> DEFINE l == Launched(by, env, path, data)
<1>1. /\ l.stage = "load" /\ l.env = env /\ l.by = by
      /\ l.token = IF "token" \in env THEN by ELSE None
  BY DEF Launched, Idle
<1>2. DOMAIN l = Fields BY DEF Fields, Launched, Idle
<1> HIDE DEF l
<1>3. ProgramKnows(l) BY <1>1, <1>2 DEF ProgramKnows
<1> QED BY <1>1, <1>3 DEF l

\* A change of prog at one program that leaves the file alone keeps Knows when the
\* new program knows what it must.
LEMMA OneProgram ==
  ASSUME Knows, NEW q \in Program, NEW r, ProgramKnows(r),
         prog' = [prog EXCEPT ![q] = r], UNCHANGED <<slushEnv, newest, shim>>
  PROVE  Knows'
  BY DEF Knows

\* Nothing changes for Knows.
LEMMA Undisturbed ==
  ASSUME Knows, UNCHANGED <<prog, slushEnv, newest, shim>>
  PROVE  Knows'
  BY DEF Knows

-----------------------------------------------------------------------------
\* The first state.
LEMMA KnowsInit == Init => Knows
  BY IdleKnows DEF Init, AccountInit, Knows

\* A step of a session changes the file only to truncate it or to put in the token
\* of the session that is the newest from then on.
LEMMA KnowsSession == ASSUME Knows, NEW s \in Session, SessionStep(s) PROVE Knows'
<1>1. CASE EndPublish(s)
  <2>1. slushEnv'.token = newest' BY <1>1 DEF EndPublish
  <2>2. shim' \in {"missing", "good", "empty"} BY <1>1 DEF EndPublish, Knows
  <2>3. prog' = prog BY <1>1 DEF EndPublish
  <2> QED BY <2>1, <2>2, <2>3 DEF Knows
<1>2. CASE BeginPublish(s)
  <2>1. slushEnv'.token = None BY <1>2 DEF BeginPublish
  <2>2. UNCHANGED <<prog, shim>> BY <1>2 DEF BeginPublish
  <2> QED BY <2>1, <2>2 DEF Knows
<1>3. CASE Open(s) \/ PublishFails(s) \/ Abort(s) \/ MasterDies(s) \/ Close(s)
  BY <1>3, Undisturbed DEF Open, PublishFails, Abort, MasterDies, Close
<1> QED BY <1>1, <1>2, <1>3 DEF SessionStep

\* Loading takes the token of the file only when none was inherited; a wrapper that
\* begins again has what it began with.
LEMMA KnowsProgram == ASSUME Knows, NEW q \in Program, ProgramStep(q) PROVE Knows'
<1> DEFINE r == prog[q]
<1>0. ProgramKnows(r) BY DEF Knows
<1>1. CASE Load(q)
  <2> DEFINE found == Credentials(q)
             n == [r EXCEPT !.token = found.token,
                            !.port = IF found.port = None THEN DefaultPort ELSE found.port,
                            !.readAt = IF r.token = None /\ found.token # None
                                         THEN newest ELSE None,
                            !.stage = IF found.token = None THEN "fallback" ELSE "connect"]
  <2>1. prog' = [prog EXCEPT ![q] = n] /\ UNCHANGED <<slushEnv, newest, shim>>
    BY <1>1 DEF Load, Knows
  <2>2. r.stage = "load" BY <1>1 DEF Load
  <2>3. found.token = IF r.token # None THEN r.token ELSE slushEnv.token BY DEF Credentials
  <2>4. ProgramKnows(n)
    <3> HIDE DEF found
    <3>1. DOMAIN n = Fields /\ n.env = r.env /\ n.by = r.by /\ n.token = found.token
          /\ n.readAt = (IF r.token = None /\ found.token # None THEN newest ELSE None)
          /\ n.stage = (IF found.token = None THEN "fallback" ELSE "connect")
      BY <1>0 DEF ProgramKnows, Fields
    <3>2. slushEnv.token \in {None, newest} BY DEF Knows
    <3> QED BY <1>0, <2>2, <2>3, <3>1, <3>2 DEF ProgramKnows, Source
  <2> HIDE DEF n
  <2> QED BY <2>1, <2>4, OneProgram
<1>2. CASE Unreachable(q)
  <2> DEFINE n == [r EXCEPT !.stage = "fallback"]
  <2>1. prog' = [prog EXCEPT ![q] = n] /\ UNCHANGED <<slushEnv, newest, shim>>
    BY <1>2 DEF Unreachable, Knows
  <2>2. ProgramKnows(n) BY <1>0, <1>2 DEF ProgramKnows, Fields, Unreachable
  <2> HIDE DEF n
  <2> QED BY <2>1, <2>2, OneProgram
<1>3. CASE Exchange(q)
  <2>1. PICK d, o : prog' = [prog EXCEPT ![q] = Ended(d, o)]
    BY <1>3 DEF Exchange, Finish
  <2>2. UNCHANGED <<slushEnv, newest, shim>> BY <1>3 DEF Exchange
  <2> QED BY <2>1, <2>2, EndedKnows, OneProgram
<1>4. CASE Fallback(q)
  <2>1. UNCHANGED <<slushEnv, newest, shim>> BY <1>4 DEF Fallback
  <2>2. CASE \E d, o : prog' = [prog EXCEPT ![q] = Ended(d, o)]
    BY <2>1, <2>2, EndedKnows, OneProgram
  <2>3. CASE prog' = [prog EXCEPT ![q] = HandedOver(q)]
    <3> DEFINE l == Launched(r.by, r.env, r.path, r.data)
               n == [l EXCEPT !.dir = r.path[Tool(q)], !.handed = TRUE]
    <3>1. "token" \in r.env => r.by # None BY <1>0, <1>4 DEF ProgramKnows, Fallback
    <3>2. ProgramKnows(l) BY <3>1, LaunchedKnows
    <3> HIDE DEF l
    <3>3. ProgramKnows(n) BY <3>2 DEF ProgramKnows, Fields, Source
    <3> HIDE DEF n
    <3>4. prog' = [prog EXCEPT ![q] = n] BY <2>3 DEF n, l, HandedOver
    <3> QED BY <2>1, <3>3, <3>4, OneProgram
  <2> QED BY <1>4, <2>2, <2>3 DEF Fallback, Finish
<1> QED BY <1>1, <1>2, <1>3, <1>4 DEF ProgramStep

\* What the validation starts is launched by its own session, or has ended.
LEMMA ProbeKnows == ASSUME NEW data PROVE ProgramKnows(ProbeProgram(data))
<1>1. CASE Reached /\ shim = "good" /\ python
  BY <1>1, LaunchedKnows, ValidatorAssumption, PortAssumption DEF ProbeProgram
<1>2. CASE ~(Reached /\ shim = "good" /\ python)
  BY <1>2 DEF ProbeProgram, ProgramKnows, Fields, Idle
<1> QED BY <1>1, <1>2

\* The checks start and forget the probe, and leave the file alone.
LEMMA KnowsValidate == ASSUME Knows, ValidateStep PROVE Knows'
<1> USE ValidatorAssumption
<1>1. CASE CopyRemotely \/ PasteRemotely
  <2>1. PICK data, next : StartProbe(data, next) BY <1>1 DEF CopyRemotely, PasteRemotely
  <2>2. prog' = [prog EXCEPT ![Probe] = ProbeProgram(data)]
        /\ UNCHANGED <<slushEnv, newest, shim>>
    BY <2>1 DEF StartProbe
  <2> QED BY <2>2, ProbeKnows, OneProgram
<1>2. CASE JudgeCopy \/ JudgePaste
  <2>1. ForgetProbe BY <1>2 DEF JudgeCopy, JudgePaste
  <2> QED BY <2>1, IdleKnows, OneProgram DEF ForgetProbe
<1>3. CASE CopyLocally BY <1>3, Undisturbed DEF CopyLocally
<1>4. CASE SetupFails \/ SetupDone \/ CheckAgent \/ CheckShims \/ CheckTransport
           \/ CheckSessionEnv \/ CheckOpen \/ Report
  <2>1. UNCHANGED accountVars
    BY <1>4 DEF SetupFails, SetupDone, CheckAgent, CheckShims, CheckTransport,
                CheckSessionEnv, CheckOpen, Report
  <2> QED BY <2>1, Undisturbed DEF accountVars
<1> QED BY <1>1, <1>2, <1>3, <1>4 DEF ValidateStep

\* Knows is inductive.
LEMMA KnowsNext == Knows /\ [Next]_vars => Knows'
<1> SUFFICES ASSUME Knows, [Next]_vars PROVE Knows' OBVIOUS
<1>1. CASE UNCHANGED vars BY <1>1, Undisturbed DEF vars, accountVars
<1>2. CASE ValidateStep BY <1>2, KnowsValidate
<1>3. CASE ProbeStep BY <1>3, KnowsProgram, ValidatorAssumption DEF ProbeStep
<1>4. CASE AccountStep
  <2>1. CASE \E s \in Session : SessionStep(s) BY <2>1, KnowsSession
  <2>2. CASE \E q \in Others : ProgramStep(q) BY <2>2, KnowsProgram DEF Others
  <2>3. CASE \E q \in Others : Launch(q)
    <3>1. PICK q \in Program : Launch(q) BY <2>3 DEF Others
    <3>2. PICK by, env, path :
            /\ by = None <=> env = {}
            /\ prog' = [prog EXCEPT ![q] = Launched(by, env, path, "program")]
      BY <3>1 DEF Launch
    <3>3. UNCHANGED <<slushEnv, newest, shim>> BY <3>1 DEF Launch
    <3> QED BY <3>2, <3>3, LaunchedKnows, OneProgram
  <2>4. CASE UserCopies(Validator) BY <2>4, Undisturbed DEF UserCopies
  <2> QED BY <1>4, <2>1, <2>2, <2>3, <2>4, ValidatorAssumption DEF AccountStep
<1> QED BY <1>1, <1>2, <1>3, <1>4 DEF Next

\* The file never holds a token that its last writer did not put there, and every
\* program that is under way holds the token of its source.
THEOREM ProgramsHoldTheirToken == Spec => []Knows
<1> QED BY KnowsInit, KnowsNext, PTL DEF Spec

-----------------------------------------------------------------------------
(* Who is up holds its port, and who has both variables of a session, or   *)
(* read both in the file, reaches it.                                      *)

\* A session that is up listens on the port it was given, and on that port it
\* stays for good.
PortsHeld ==
  /\ phase \in [Session -> {"idle", "open", "publishing", "ready", "lost", "closed", "failed"}]
  /\ port \in [Session -> Port \union {None}]
  /\ owner \in [Port -> Session \union {None}]
  /\ \A s \in Session :
       /\ phase[s] # "idle" => port[s] \in Port
       /\ phase[s] \in {"open", "publishing", "ready"} => owner[port[s]] = s

\* The probe runs only while its check waits for it, and no probe is started
\* before the validation has been up.
ProbeInTurn ==
  /\ check \notin {"copying", "pasting"} => prog[Probe].stage = "idle"
  /\ direct => phase[Validator] \in {"lost", "closed"}

Inherits(r) == r.stage \notin {"idle", "done"} /\ r.env = {"token", "port"}

\* A program with the environment of a session holds its token and its port until
\* it gives up, and it gives up only when that session is gone.
ProgramServed(r) ==
  Inherits(r) =>
    /\ r.by \in Session /\ phase[r.by] \in {"ready", "lost", "closed"}
    /\ r.stage \in {"load", "connect"} => r.token = r.by /\ r.port = port[r.by]
    /\ r.stage = "fallback" => phase[r.by] # "ready"

\* A program of no session's environment has the port that belongs to the token it
\* read, and gives up when it read none or that session is gone.
FileServed(r) ==
  r.env = {} =>
    /\ r.stage = "load" => r.port = None
    /\ r.stage = "connect" => r.readAt # None
    /\ r.stage \in {"connect", "fallback"} /\ r.readAt # None =>
         /\ r.readAt \in Session /\ phase[r.readAt] \in {"ready", "lost", "closed"}
         /\ r.stage = "connect" => r.port = port[r.readAt]
         /\ r.stage = "fallback" => phase[r.readAt] # "ready"

Served(r) == ProgramServed(r) /\ FileServed(r)

\* Token and port in the file belong together.
FileTrue ==
  /\ newest # None => newest \in Session /\ phase[newest] \in {"ready", "lost", "closed"}
  /\ slushEnv.token # None => newest # None /\ slushEnv.port = port[newest]

Serves ==
  /\ PortsHeld
  /\ FileTrue
  /\ ProbeInTurn
  /\ \A q \in Program : Served(prog[q])

\* The first state.
LEMMA ServesInit == Init => Serves
<1> SUFFICES ASSUME Init PROVE Serves OBVIOUS
<1> USE PortAssumption, ValidatorAssumption
<1>1. PortsHeld BY DEF Init, AccountInit, PortsHeld
<1>2. \A q \in Program : prog[q].stage = "idle" BY DEF Init, AccountInit, Idle
<1>3. ProbeInTurn /\ FileTrue BY <1>2 DEF Init, AccountInit, ProbeInTurn, FileTrue
<1> QED BY <1>1, <1>2, <1>3 DEF Serves, Served, ProgramServed, FileServed, Inherits

\* A session that comes takes a port where nobody listens, one that goes gives up
\* its own port only; neither is ever up again.
LEMMA SessionPorts ==
  ASSUME PortsHeld, NEW s \in Session, SessionStep(s)
  PROVE  /\ PortsHeld'
         /\ \A t \in Session : phase[t] # "idle" => port'[t] = port[t]
         /\ \A t \in Session : phase[t] \in {"ready", "lost", "closed"} =>
              /\ phase'[t] \in {"ready", "lost", "closed"}
              /\ phase'[t] = "ready" => phase[t] = "ready"
         /\ \A t \in Session : phase[t] \in {"lost", "closed"} => phase'[t] \in {"lost", "closed"}
<1> USE PortAssumption DEF PortsHeld
<1>1. CASE Open(s) BY <1>1 DEF Open
<1>2. CASE BeginPublish(s) \/ EndPublish(s) \/ PublishFails(s)
  BY <1>2 DEF BeginPublish, EndPublish, PublishFails
<1>3. CASE MasterDies(s) BY <1>3 DEF MasterDies, Released
<1>4. CASE Close(s) BY <1>4 DEF Close, Released
<1>5. CASE Abort(s) BY <1>5 DEF Abort, Released
<1> QED BY <1>1, <1>2, <1>3, <1>4, <1>5 DEF SessionStep

\* What a session does takes nothing from the programs of another.
LEMMA SessionServes ==
  ASSUME Serves, NEW s \in Session, SessionStep(s) \/ UNCHANGED <<phase, port, owner>>,
         prog' = prog, NEW q \in Program
  PROVE  Served(prog[q])'
<1>1. ProgramServed(prog[q]) /\ FileServed(prog[q]) /\ PortsHeld BY DEF Serves, Served
<1>2. CASE UNCHANGED <<phase, port, owner>>
  BY <1>1, <1>2 DEF Served, ProgramServed, FileServed, Inherits
<1>3. CASE SessionStep(s)
  <2>1. ProgramServed(prog[q])' BY <1>1, <1>3, SessionPorts DEF ProgramServed, Inherits
  <2>2. FileServed(prog[q])' BY <1>1, <1>3, SessionPorts DEF FileServed
  <2> QED BY <2>1, <2>2 DEF Served
<1> QED BY <1>2, <1>3

\* A session puts its own token and port in the file, and is up by then.
LEMMA SessionFile ==
  ASSUME Knows, PortsHeld, FileTrue, NEW s \in Session, SessionStep(s) PROVE FileTrue'
<1> USE PortAssumption
<1>1. CASE EndPublish(s)
  <2>1. newest' = s /\ slushEnv'.port = port[s] /\ port' = port /\ phase'[s] = "ready"
    BY <1>1 DEF EndPublish, PortsHeld
  <2> QED BY <2>1 DEF FileTrue
<1>2. CASE BeginPublish(s)
  <2>1. newest' = newest /\ slushEnv'.token = None BY <1>2 DEF BeginPublish
  <2> QED BY <1>2, <2>1, SessionPorts DEF FileTrue
<1>3. CASE Open(s) \/ PublishFails(s) \/ Abort(s) \/ MasterDies(s) \/ Close(s)
  <2>1. UNCHANGED <<newest, slushEnv>> BY <1>3 DEF Open, PublishFails, Abort, MasterDies, Close
  <2> QED BY <2>1, SessionPorts DEF FileTrue
<1> QED BY <1>1, <1>2, <1>3 DEF SessionStep

\* A launched program has what it inherits.
LEMMA LaunchedServed ==
  ASSUME NEW by, NEW env, NEW path, NEW data,
         env # {} => by \in Session /\ phase[by] \in {"ready", "lost", "closed"}
  PROVE  Served(Launched(by, env, path, data))
<1> DEFINE l == Launched(by, env, path, data)
<1>1. /\ l.stage = "load" /\ l.env = env /\ l.by = by
      /\ l.token = IF "token" \in env THEN by ELSE None
      /\ l.port = IF "port" \in env THEN port[by] ELSE None
  BY DEF Launched, Idle
<1> HIDE DEF l
<1>2. Inherits(l) => "token" \in env /\ "port" \in env /\ env # {}
  BY <1>1 DEF Inherits
<1>3. ASSUME Inherits(l)
      PROVE  /\ l.by \in Session /\ phase[l.by] \in {"ready", "lost", "closed"}
             /\ l.token = l.by /\ l.port = port[l.by]
  BY <1>1, <1>2, <1>3
<1>4. ProgramServed(l) BY <1>1, <1>3 DEF ProgramServed
<1>5. FileServed(l) BY <1>1 DEF FileServed
<1> QED BY <1>4, <1>5 DEF l, Served

\* A program that is to end, or has not begun, needs nothing.
LEMMA RestServed ==
  ASSUME NEW r, r.stage \in {"idle", "done"} PROVE Served(r)
  BY DEF Served, ProgramServed, FileServed, Inherits

\* A change of one program.
LEMMA OneServed ==
  ASSUME Knows, Serves, NEW p \in Program, NEW r, prog' = [prog EXCEPT ![p] = r],
         Served(r), UNCHANGED <<phase, port, owner>>, NEW q \in Program
  PROVE  Served(prog[q])'
<1>1. prog'[q] = IF q = p THEN r ELSE prog[q] BY DEF Knows
<1>2. Served(prog'[q]) BY <1>1 DEF Serves
<1> QED BY <1>2 DEF Served, ProgramServed, FileServed, Inherits

\* With both of its variables a program looks nowhere else, and only a port that
\* nobody listens on makes it give up.
LEMMA ProgramServes ==
  ASSUME Knows, Serves, NEW p \in Program, ProgramStep(p), NEW q \in Program
  PROVE  Served(prog[q])'
<1> DEFINE r == prog[p]
<1>0. /\ ProgramKnows(r) /\ DOMAIN r = Fields
      /\ ProgramServed(r) /\ FileServed(r) /\ PortsHeld /\ FileTrue
  BY DEF Knows, Serves, Served, ProgramKnows
<1>u. UNCHANGED <<phase, port, owner>>
  BY DEF ProgramStep, Load, Unreachable, Exchange, Fallback
<1>1. CASE Load(p)
  <2> DEFINE found == Credentials(p)
             n == [r EXCEPT !.token = found.token,
                            !.port = IF found.port = None THEN DefaultPort ELSE found.port,
                            !.readAt = IF r.token = None /\ found.token # None
                                         THEN newest ELSE None,
                            !.stage = IF found.token = None THEN "fallback" ELSE "connect"]
  <2>1. prog' = [prog EXCEPT ![p] = n] BY <1>1 DEF Load, Knows
  <2>2. r.stage = "load" BY <1>1 DEF Load
  <2>3. Inherits(r) => found.token = r.by /\ found.port = port[r.by] /\ found.token # None
                       /\ found.port # None
    BY <1>0, <2>2, PortAssumption DEF Credentials, ProgramServed, PortsHeld, Inherits
  <2>4. r.env = {} => r.token = None /\ found.token = slushEnv.token
                      /\ (slushEnv.token # None => found.port = port[newest] /\ found.port # None)
    BY <1>0, <2>2, PortAssumption
    DEF Credentials, ProgramKnows, FileServed, FileTrue, PortsHeld
  <2>5. Served(n)
    <3> HIDE DEF found
    <3>1. n.env = r.env /\ n.by = r.by /\ n.token = found.token
          /\ n.port = (IF found.port = None THEN DefaultPort ELSE found.port)
          /\ n.readAt = (IF r.token = None /\ found.token # None THEN newest ELSE None)
          /\ n.stage = (IF found.token = None THEN "fallback" ELSE "connect")
      BY <1>0 DEF Fields
    <3> HIDE DEF n
    <3>2. ProgramServed(n) BY <1>0, <2>2, <2>3, <3>1 DEF ProgramServed, Inherits
    <3>3. FileServed(n) BY <1>0, <2>4, <3>1 DEF FileServed, FileTrue
    <3> QED BY <3>2, <3>3 DEF Served
  <2> HIDE DEF n
  <2> QED BY <1>u, <2>1, <2>5, OneServed
<1>2. CASE Unreachable(p)
  <2> DEFINE n == [r EXCEPT !.stage = "fallback"]
  <2>1. prog' = [prog EXCEPT ![p] = n] BY <1>2 DEF Unreachable, Knows
  <2>2. n.env = r.env /\ n.by = r.by /\ n.stage = "fallback" /\ n.readAt = r.readAt
    BY <1>0 DEF Fields
  <2>3. r.stage = "connect" /\ (r.port \in Port => owner[r.port] = None)
    BY <1>2 DEF Unreachable, Connected
  <2> HIDE DEF n
  <2>4. ProgramServed(n)
    BY <1>0, <2>2, <2>3, PortAssumption DEF ProgramServed, Inherits, PortsHeld
  <2>5. FileServed(n)
    BY <1>0, <2>2, <2>3, PortAssumption DEF FileServed, PortsHeld
  <2>6. Served(n) BY <2>4, <2>5 DEF Served
  <2> QED BY <1>u, <2>1, <2>6, OneServed
<1>3. CASE Exchange(p)
  <2>1. PICK d, o : prog' = [prog EXCEPT ![p] = Ended(d, o)]
    BY <1>3 DEF Exchange, Finish
  <2>2. Ended(d, o).stage = "done" BY DEF Ended, Idle
  <2>3. Served(Ended(d, o)) BY <2>2, RestServed
  <2> QED BY <1>u, <2>1, <2>3, OneServed
<1>4. CASE Fallback(p)
  <2>1. CASE \E o : Finish(p, o)
    <3>1. PICK o : Finish(p, o) BY <2>1
    <3> DEFINE n == Ended("", o)
    <3>2. prog' = [prog EXCEPT ![p] = n] BY <3>1 DEF Finish
    <3>3. n.stage = "done" BY DEF Ended, Idle
    <3> HIDE DEF n
    <3>4. Served(n) BY <3>3, RestServed
    <3> QED BY <1>u, <3>2, <3>4, OneServed
  <2>2. CASE prog' = [prog EXCEPT ![p] = HandedOver(p)]
    <3> DEFINE n == HandedOver(p)
    <3>1. /\ n.stage = "load" /\ n.env = r.env /\ n.by = r.by
          /\ n.token = IF "token" \in r.env THEN r.by ELSE None
          /\ n.port = IF "port" \in r.env THEN port[r.by] ELSE None
      BY DEF HandedOver, Launched, Idle
    <3>2. r.stage = "fallback" BY <1>4 DEF Fallback
    <3> HIDE DEF n
    <3>3. ProgramServed(n) /\ FileServed(n)
      BY <1>0, <3>1, <3>2 DEF ProgramServed, FileServed, Inherits
    <3>5. Served(n) BY <3>3 DEF Served
    <3>4. prog' = [prog EXCEPT ![p] = n] BY <2>2 DEF n
    <3> QED BY <1>u, <3>4, <3>5, OneServed
  <2> QED BY <1>4, <2>1, <2>2 DEF Fallback
<1> QED BY <1>1, <1>2, <1>3, <1>4 DEF ProgramStep

\* What the validation does: its probe is launched by its own session, while that
\* is up or after it has been.
LEMMA ValidateServes == ASSUME Knows, Serves, ValidateStep PROVE Serves'
<1> USE ValidatorAssumption, PortAssumption
<1>0. PortsHeld /\ ProbeInTurn /\ FileTrue BY DEF Serves
<1>1. CASE CopyRemotely \/ PasteRemotely
  <2>1. PICK data, next : StartProbe(data, next) /\ next \in {"copying", "pasting"}
    BY <1>1 DEF CopyRemotely, PasteRemotely
  <2>2. /\ prog' = [prog EXCEPT ![Probe] = ProbeProgram(data)] /\ check' = next
        /\ UNCHANGED <<phase, port, owner, direct, slushEnv, newest>>
    BY <2>1 DEF StartProbe
  <2>3. PortsHeld' /\ ProbeInTurn' /\ FileTrue'
    BY <1>0, <2>1, <2>2 DEF PortsHeld, ProbeInTurn, FileTrue
  <2>4. Served(ProbeProgram(data))
    <3>1. CASE Reached /\ shim = "good" /\ python
      <4>1. phase[Validator] \in {"ready", "lost", "closed"}
        BY <1>0, <3>1 DEF Reached, Up, ProbeInTurn
      <4>2. Served(Launched(Validator, {"token", "port"}, ProbePath, data))
        BY <4>1, LaunchedServed
      <4> QED BY <3>1, <4>2 DEF ProbeProgram
    <3>2. CASE ~(Reached /\ shim = "good" /\ python)
      <4>1. ProbeProgram(data).stage = "done" BY <3>2 DEF ProbeProgram, Idle
      <4> QED BY <4>1, RestServed
    <3> QED BY <3>1, <3>2
  <2>5. \A q \in Program : Served(prog[q])' BY <2>2, <2>4, OneServed
  <2> QED BY <2>3, <2>5 DEF Serves
<1>2. CASE JudgeCopy \/ JudgePaste
  <2>1. ForgetProbe /\ UNCHANGED direct BY <1>2 DEF JudgeCopy, JudgePaste
  <2>2. prog' = [prog EXCEPT ![Probe] = Idle]
        /\ UNCHANGED <<phase, port, owner, slushEnv, newest>>
    BY <2>1 DEF ForgetProbe
  <2>3. Idle.stage = "idle" BY DEF Idle
  <2>4. Served(Idle) BY <2>3, RestServed
  <2>5. \A q \in Program : Served(prog[q])' BY <2>2, <2>4, OneServed
  <2>6. prog'[Probe].stage = "idle" BY <2>2, <2>3 DEF Knows
  <2>7. PortsHeld' /\ ProbeInTurn' /\ FileTrue'
    BY <1>0, <2>1, <2>2, <2>6 DEF PortsHeld, ProbeInTurn, FileTrue
  <2> QED BY <2>5, <2>7 DEF Serves
<1>3. CASE CopyLocally \/ SetupFails \/ SetupDone \/ CheckAgent \/ CheckShims
           \/ CheckTransport \/ CheckSessionEnv \/ CheckOpen \/ Report
  <2>1. UNCHANGED <<prog, phase, port, owner, direct, slushEnv, newest>>
        /\ check \notin {"copying", "pasting"}
    BY <1>3 DEF CopyLocally, SetupFails, SetupDone, CheckAgent, CheckShims, CheckTransport,
                CheckSessionEnv, CheckOpen, Report, accountVars
  <2>2. \A q \in Program : Served(prog[q])'
    BY <2>1 DEF Serves, Served, ProgramServed, FileServed, Inherits
  <2>3. PortsHeld' /\ ProbeInTurn' /\ FileTrue'
    BY <1>0, <2>1 DEF PortsHeld, ProbeInTurn, FileTrue
  <2> QED BY <2>2, <2>3 DEF Serves
<1> QED BY <1>1, <1>2, <1>3 DEF ValidateStep

\* What the probe does.
LEMMA ProbeServes == ASSUME Knows, Serves, ProbeStep PROVE Serves'
<1> USE ValidatorAssumption
<1>1. ProgramStep(Probe) /\ UNCHANGED <<check, direct>> BY DEF ProbeStep
<1>2. UNCHANGED <<phase, port, owner, slushEnv, newest>>
  BY <1>1 DEF ProgramStep, Load, Unreachable, Exchange, Fallback
<1>3. prog[Probe].stage # "idle"
  BY <1>1 DEF ProgramStep, Load, Unreachable, Exchange, Fallback
<1>4. \A q \in Program : Served(prog[q])' BY <1>1, ProgramServes
<1>5. PortsHeld' /\ ProbeInTurn' /\ FileTrue'
  BY <1>1, <1>2, <1>3 DEF Serves, PortsHeld, ProbeInTurn, FileTrue
<1> QED BY <1>4, <1>5 DEF Serves

\* What the account does beside the validation.
LEMMA AccountServes == ASSUME Knows, Serves, AccountStep PROVE Serves'
<1> USE ValidatorAssumption
<1>0. PortsHeld /\ ProbeInTurn /\ FileTrue /\ check' = check BY DEF Serves, AccountStep
<1>1. CASE \E s \in Session : SessionStep(s)
  <2>1. PICK s \in Session : SessionStep(s) BY <1>1
  <2>2. prog' = prog
    BY <2>1 DEF SessionStep, Open, BeginPublish, EndPublish, PublishFails, Abort, MasterDies, Close
  <2>3. PortsHeld' /\ (phase[Validator] \in {"lost", "closed"} =>
                        phase'[Validator] \in {"lost", "closed"})
    BY <1>0, <2>1, SessionPorts
  <2>4. direct' => direct \/ phase'[Validator] = "lost" BY DEF AccountStep
  <2>5. ProbeInTurn' BY <1>0, <2>2, <2>3, <2>4 DEF ProbeInTurn
  <2>6. \A q \in Program : Served(prog[q])' BY <2>1, <2>2, SessionServes
  <2>7. FileTrue' BY <1>0, <2>1, SessionFile
  <2> QED BY <2>3, <2>5, <2>6, <2>7 DEF Serves
<1>2. CASE \E p \in Others : Launch(p) \/ ProgramStep(p)
  <2>1. PICK p \in Program : p # Probe /\ (Launch(p) \/ ProgramStep(p)) BY <1>2 DEF Others
  <2>2. UNCHANGED <<phase, port, owner, slushEnv, newest>>
    BY <2>1 DEF Launch, ProgramStep, Load, Unreachable, Exchange, Fallback
  <2>3. prog'[Probe] = prog[Probe]
    BY <2>1 DEF Launch, ProgramStep, Load, Unreachable, Exchange, Fallback, Finish, Knows
  <2>4. direct' = direct BY <2>2 DEF AccountStep
  <2>5. PortsHeld' /\ ProbeInTurn' /\ FileTrue'
    BY <1>0, <2>2, <2>3, <2>4 DEF PortsHeld, ProbeInTurn, FileTrue
  <2>6. CASE Launch(p)
    <3>1. PICK by, env, path :
            /\ env # {} => by \in Session /\ phase[by] \in {"ready", "lost", "closed"}
            /\ prog' = [prog EXCEPT ![p] = Launched(by, env, path, "program")]
      BY <2>6 DEF Launch
    <3>2. Served(Launched(by, env, path, "program")) BY <3>1, LaunchedServed
    <3>3. \A q \in Program : Served(prog[q])' BY <2>2, <3>1, <3>2, OneServed
    <3> QED BY <2>5, <3>3 DEF Serves
  <2>7. CASE ProgramStep(p)
    <3>1. \A q \in Program : Served(prog[q])' BY <2>7, ProgramServes
    <3> QED BY <2>5, <3>1 DEF Serves
  <2> QED BY <2>1, <2>6, <2>7
<1>3. CASE UserCopies(Validator)
  <2>1. UNCHANGED <<phase, port, owner, prog, slushEnv, newest>> BY <1>3 DEF UserCopies
  <2>2. direct' = direct BY <2>1 DEF AccountStep
  <2>3. \A q \in Program : Served(prog[q])'
    BY <2>1 DEF Serves, Served, ProgramServed, FileServed, Inherits
  <2>4. PortsHeld' /\ ProbeInTurn' /\ FileTrue'
    BY <1>0, <2>1, <2>2 DEF PortsHeld, ProbeInTurn, FileTrue
  <2> QED BY <2>3, <2>4 DEF Serves
<1> QED BY <1>1, <1>2, <1>3 DEF AccountStep

\* Serves is inductive relative to Knows.
LEMMA ServesNext == Knows /\ Serves /\ [Next]_vars => Serves'
<1> SUFFICES ASSUME Knows, Serves, [Next]_vars PROVE Serves' OBVIOUS
<1>1. CASE UNCHANGED vars
  <2>1. UNCHANGED <<phase, port, owner, prog, check, direct, slushEnv, newest>>
    BY <1>1 DEF vars, accountVars, validateVars
  <2> QED BY <2>1 DEF Serves, PortsHeld, ProbeInTurn, FileTrue, Served, ProgramServed, FileServed,
                 Inherits
<1>2. CASE Next BY <1>2, ValidateServes, ProbeServes, AccountServes DEF Next
<1> QED BY <1>1, <1>2

\* Sessions that are up hold their ports, and programs with the environment of one
\* hold its credentials.
THEOREM SessionsHoldTheirPorts == Spec => []Serves
<1> QED BY KnowsInit, KnowsNext, ServesInit, ServesNext, PTL DEF Spec

\* Only a step of its own ends a program: a probe is started only when none is
\* under way.
LEMMA EndsItself ==
  ASSUME Knows, Serves, Next, NEW q \in Program, Ends(q) PROVE ProgramStep(q)
<1> USE ValidatorAssumption
<1>0. prog'[q] # prog[q] BY DEF Ends
<1>1. CASE CopyRemotely \/ PasteRemotely
  <2>1. PICK data, next : StartProbe(data, next) BY <1>1 DEF CopyRemotely, PasteRemotely
  <2>2. check \notin {"copying", "pasting"} BY <1>1 DEF CopyRemotely, PasteRemotely
  <2>3. prog[Probe].stage = "idle" BY <2>2 DEF Serves, ProbeInTurn
  <2>4. q # Probe => prog'[q] = prog[q] BY <2>1 DEF StartProbe, Knows
  <2> QED BY <2>3, <2>4 DEF Ends
<1>2. CASE JudgeCopy \/ JudgePaste
  <2>1. prog' = [prog EXCEPT ![Probe] = Idle]
    BY <1>2 DEF JudgeCopy, JudgePaste, ForgetProbe
  <2>2. Idle.stage # "done" BY DEF Idle
  <2>3. prog'[q] = IF q = Probe THEN Idle ELSE prog[q] BY <2>1 DEF Knows
  <2> QED BY <2>2, <2>3 DEF Ends
<1>3. CASE CopyLocally \/ SetupFails \/ SetupDone \/ CheckAgent \/ CheckShims
           \/ CheckTransport \/ CheckSessionEnv \/ CheckOpen \/ Report
  BY <1>0, <1>3 DEF CopyLocally, SetupFails, SetupDone, CheckAgent, CheckShims,
                    CheckTransport, CheckSessionEnv, CheckOpen, Report, accountVars
<1>4. CASE \E p \in Program : ProgramStep(p)
  <2>1. PICK p \in Program : ProgramStep(p) BY <1>4
  <2>2. p # q => prog'[q] = prog[q]
    BY <2>1 DEF ProgramStep, Load, Unreachable, Exchange, Fallback, Finish, Knows
  <2> QED BY <1>0, <2>1, <2>2
<1>5. CASE \E s \in Session : SessionStep(s)
  BY <1>0, <1>5 DEF SessionStep, Open, BeginPublish, EndPublish, PublishFails, Abort, MasterDies, Close
<1>6. CASE \E p \in Others : Launch(p)
  <2>1. PICK p \in Program : Launch(p) BY <1>6 DEF Others
  <2>2. prog[p].stage = "idle" /\ (q # p => prog'[q] = prog[q]) BY <2>1 DEF Launch, Knows
  <2> QED BY <2>2 DEF Ends
<1>7. CASE UserCopies(Validator) BY <1>0, <1>7 DEF UserCopies
<1> QED BY <1>1, <1>2, <1>3, <1>4, <1>5, <1>6, <1>7
        DEF Next, ValidateStep, ProbeStep, AccountStep, Others

\* A program that ends has been at a server, or had given up.
LEMMA EndsThere ==
  ASSUME Knows, NEW q \in Program, ProgramStep(q), Ends(q)
  PROVE  \/ Exchange(q) /\ prog[q].stage = "connect"
         \/ Fallback(q) /\ prog[q].stage = "fallback"
<1>0. DOMAIN prog[q] = Fields /\ prog'[q].stage = "done" BY DEF Knows, ProgramKnows, Ends
<1>1. ~Load(q) BY <1>0 DEF Load, Knows, Fields
<1>2. ~Unreachable(q) BY <1>0 DEF Unreachable, Knows, Fields
<1> QED BY <1>1, <1>2 DEF ProgramStep, Exchange, Fallback

\* What the outcome of a program says.
LEMMA EndedOutcome ==
  ASSUME Knows, NEW q \in Program, NEW d, NEW o, prog' = [prog EXCEPT ![q] = Ended(d, o)]
  PROVE  prog'[q].outcome = o
<1> DEFINE n == Ended(d, o)
<1>1. n.outcome = o BY DEF Ended, Idle
<1> HIDE DEF n
<1>2. prog'[q] = n BY DEF Knows, n
<1> QED BY <1>1, <1>2

\* A server accepts the request of a program with its token.
LEMMA AcceptedBy ==
  ASSUME Knows, NEW q \in Program, Exchange(q), NEW s, owner[prog[q].port] = s,
         prog[q].token = s
  PROVE  prog'[q].outcome \in Accepted \X {s}
<1>1. PICK d, o : /\ prog' = [prog EXCEPT ![q] = Ended(d, o)]
                  /\ o = <<"performed", s>> \/ o = <<"error", s>>
  BY DEF Exchange, Authorized, Finish
<1>2. prog'[q].outcome = o BY <1>1, EndedOutcome
<1>3. o \in Accepted \X {s} BY <1>1 DEF Accepted
<1> QED BY <1>2, <1>3

\* Only the server whose token a program has accepts its request.
LEMMA AcceptedOnly ==
  ASSUME Knows, NEW q \in Program, Exchange(q), owner[prog[q].port] # prog[q].token
  PROVE  prog'[q].outcome[1] = "refused"
<1> DEFINE s == owner[prog[q].port]
<1>1. prog' = [prog EXCEPT ![q] = Ended("", <<"refused", s>>)]
  BY DEF Exchange, Authorized, Finish
<1>2. \A t : <<"refused", t>>[1] = "refused" OBVIOUS
<1> HIDE DEF s
<1>3. prog'[q].outcome = <<"refused", s>> BY <1>1, EndedOutcome
<1> QED BY <1>2, <1>3

OwnDesktop(q) ==
  Ends(q) /\ prog'[q].outcome[1] \in Accepted => prog'[q].outcome[2] = Source(prog[q])

\* The server accepts a request whose token is its own, and that is the token of
\* the program's source; no other end is a request accepted.
LEMMA StepOwnDesktop ==
  ASSUME Knows, Serves, Next, NEW q \in Program PROVE OwnDesktop(q)
<1> DEFINE r == prog[q]
           s == owner[r.port]
<1> SUFFICES ASSUME Ends(q), prog'[q].outcome[1] \in Accepted
             PROVE  prog'[q].outcome[2] = Source(r)
  BY DEF OwnDesktop
<1>1. ProgramStep(q) BY EndsItself
<1>2. CASE Exchange(q) /\ r.stage = "connect"
  <2>1. CASE r.token = s
    <3>1. prog'[q].outcome \in Accepted \X {s} BY <1>2, <2>1, AcceptedBy
    <3>2. s = Source(r) BY <1>2, <2>1 DEF Knows, ProgramKnows
    <3> HIDE DEF s
    <3>3. prog'[q].outcome[2] = s BY <3>1
    <3> QED BY <3>2, <3>3
  <2>2. CASE r.token # s
    <3>1. prog'[q].outcome[1] = "refused" BY <1>2, <2>2, AcceptedOnly
    <3> QED BY <3>1 DEF Accepted
  <2> QED BY <2>1, <2>2
<1>3. CASE Fallback(q)
  <2>1. ASSUME NEW k \in {"failed", "native"}, Finish(q, <<k, None>>)
        PROVE  FALSE
    <3>1. prog'[q].outcome = <<k, None>> BY <2>1, EndedOutcome DEF Finish
    <3>2. <<k, None>>[1] = k OBVIOUS
    <3> QED BY <3>1, <3>2 DEF Accepted
  <2>2. CASE prog' = [prog EXCEPT ![q] = HandedOver(q)]
    <3> DEFINE n == HandedOver(q)
    <3>1. n.stage = "load" BY DEF HandedOver, Launched, Idle
    <3> HIDE DEF n
    <3>2. prog' = [prog EXCEPT ![q] = n] BY <2>2 DEF n
    <3> QED BY <3>1, <3>2 DEF Knows, Ends
  <2>3. CASE Tool(q) = 0 BY <1>3, <2>1, <2>3 DEF Fallback
  <2>4. CASE Tool(q) # 0 /\ r.path[Tool(q)] \notin WrapperDirs BY <1>3, <2>1, <2>4 DEF Fallback
  <2>5. CASE Tool(q) # 0 /\ r.path[Tool(q)] \in WrapperDirs BY <1>3, <2>2, <2>5 DEF Fallback
  <2> QED BY <2>3, <2>4, <2>5
<1> QED BY <1>1, <1>2, <1>3, EndsThere

\* However sessions, their ports and the shared file come and go, a wrapper's
\* request is accepted at the desktop of the session whose token it inherited or
\* read, and on no other (load_token_port in shim.py, authorize in server.go).
THEOREM OwnDesktopHolds == Spec => OwnDesktopOnly
<1>1. Knows /\ Serves /\ [Next]_vars =>
        [\A q \in Program :
           /\ Ends(q)
           /\ prog'[q].outcome[1] \in Accepted
           => prog'[q].outcome[2] =
                IF "token" \in prog[q].env THEN prog[q].by ELSE prog[q].readAt]_accountVars
  BY StepOwnDesktop DEF OwnDesktop, Source, vars
<1> QED BY <1>1, ProgramsHoldTheirToken, SessionsHoldTheirPorts, PTL DEF Spec, OwnDesktopOnly

OpenServes(q) ==
  /\ Ends(q)
  /\ prog[q].env = {"token", "port"} /\ phase[prog[q].by] = "ready"
  => prog'[q].outcome \in Accepted \X {prog[q].by}

\* A program that connects at the port of a session that is up with its token is
\* served by it; it does not give up.
LEMMA StepOpenServes ==
  ASSUME Knows, Serves, Next, NEW q \in Program PROVE OpenServes(q)
<1> DEFINE r == prog[q]
<1> SUFFICES ASSUME Ends(q), r.env = {"token", "port"}, phase[r.by] = "ready"
             PROVE  prog'[q].outcome \in Accepted \X {r.by}
  BY DEF OpenServes
<1>1. Inherits(r) /\ ProgramServed(r) /\ PortsHeld
  BY DEF Serves, Served, Ends, Inherits
<1>2. Exchange(q) /\ r.stage = "connect" BY <1>1, EndsItself, EndsThere DEF ProgramServed
<1>3. r.by \in Session /\ r.token = r.by /\ r.port = port[r.by]
  BY <1>1, <1>2 DEF ProgramServed
<1>4. owner[r.port] = r.by BY <1>1, <1>3 DEF PortsHeld
<1> QED BY <1>2, <1>3, <1>4, AcceptedBy

\* Whatever other sessions do to the shared file and to the ports, a wrapper that
\* has the environment of a session is served by that session while it is up, or
\* has its error from it
\* (load_token_port and find_fallback in shim.py, bindClipboardForward in tunnel.go).
THEOREM OpenSessionServesHolds == Spec => OpenSessionServes
<1>1. Knows /\ Serves /\ [Next]_vars =>
        [\A q \in Program :
           /\ Ends(q)
           /\ prog[q].env = {"token", "port"} /\ phase[prog[q].by] = "ready"
           => prog'[q].outcome \in Accepted \X {prog[q].by}]_accountVars
  BY StepOpenServes DEF OpenServes, vars
<1> QED BY <1>1, ProgramsHoldTheirToken, SessionsHoldTheirPorts, PTL DEF Spec, OpenSessionServes

NewestServes(q) ==
  /\ Ends(q)
  /\ prog[q].env = {} /\ prog[q].readAt = newest
  /\ newest # None /\ phase[newest] = "ready"
  => prog'[q].outcome \in Accepted \X {newest}

\* A program that read the file of the session that is still the newest has its
\* token and its port, which were written together.
LEMMA StepNewestServes ==
  ASSUME Knows, Serves, Next, NEW q \in Program PROVE NewestServes(q)
<1> DEFINE r == prog[q]
<1> SUFFICES ASSUME Ends(q), r.env = {}, r.readAt = newest, newest # None,
                    phase[newest] = "ready"
             PROVE  prog'[q].outcome \in Accepted \X {newest}
  BY DEF NewestServes
<1>1. FileServed(r) /\ ProgramKnows(r) /\ PortsHeld
  BY DEF Knows, Serves, Served
<1>2. Exchange(q) /\ r.stage = "connect" BY <1>1, EndsItself, EndsThere DEF FileServed
<1>3. newest \in Session /\ r.token = newest /\ r.port = port[newest]
  BY <1>1, <1>2 DEF FileServed, ProgramKnows, Source
<1>4. owner[r.port] = newest BY <1>1, <1>3 DEF PortsHeld
<1> QED BY <1>2, <1>3, <1>4, AcceptedBy

\* A wrapper outside of every session is served by the session that last wrote
\* slush-env while that is up, or has its error from it (writeSessionEnv in provision.go, load_token_port in
\* shim.py).
THEOREM NewestSessionServesHolds == Spec => NewestSessionServes
<1>1. Knows /\ Serves /\ [Next]_vars =>
        [\A q \in Program :
           /\ Ends(q)
           /\ prog[q].env = {} /\ prog[q].readAt = newest
           /\ newest # None /\ phase[newest] = "ready"
           => prog'[q].outcome \in Accepted \X {newest}]_accountVars
  BY StepNewestServes DEF NewestServes, vars
<1> QED BY <1>1, ProgramsHoldTheirToken, SessionsHoldTheirPorts, PTL
    DEF Spec, NewestSessionServes

-----------------------------------------------------------------------------
(* The validation.                                                         *)

Stages == {"idle", "load", "connect", "fallback", "done"}
Phases == {"idle", "open", "publishing", "ready", "lost", "closed", "failed"}

Active(r) == r.stage \notin {"idle", "done"}

\* A program inherits something only from a session; where it connects it has a
\* token, and a port that may be the default.  A request is handed over only to a
\* directory that links to a shim and holds none.
ProgramTyped(r) ==
  /\ r.stage \in Stages
  /\ r.path \in Seq(STRING)
  /\ Active(r) /\ r.env # {} => r.by \in Session
  /\ r.stage = "load" => r.token \in Session \union {None} /\ r.port \in Port \union {None}
  /\ r.stage = "connect" => r.token \in Session /\ r.port \in Port \union {DefaultPort}
  /\ r.handed => r.dir \in WrapperDirs \ ShimDirs

\* The file is what a session wrote or truncated; a port belongs to one session.
AccountTyped ==
  /\ slushEnv.token \in Session \union {None} /\ slushEnv.port \in Port \union {None}
  /\ python \in BOOLEAN /\ direct \in BOOLEAN
  /\ desktop = [s \in Session |-> desktop[s]]
  /\ \A s \in Session : phase[s] = "idle" => port[s] = None
  /\ \A p \in Port : owner[p] # None => port[owner[p]] = p
  /\ \A q \in Program : ProgramTyped(prog[q])

-----------------------------------------------------------------------------
(* The checks, in their order, and what has been told before each.         *)

Checks == {"setup", "agent", "shims", "transport", "session env", "copy", "copying", "paste",
           "start paste", "pasting", "open", "report", "over"}

\* The agent's line is told only with -A.
AgentLine == IF ForwardAgent THEN 1 ELSE 0

\* n lines are enough before check k.
Enough(k, n) ==
  /\ k = "agent" => n >= 2
  /\ k = "shims" => n >= 2 + AgentLine
  /\ k = "transport" => n >= 3 + AgentLine
  /\ k = "session env" => n >= 4 + AgentLine
  /\ k \in {"copy", "copying"} => n >= 5 + AgentLine
  /\ k \in {"paste", "start paste", "pasting"} => n >= 6 + AgentLine
  /\ k = "open" => n >= 7 + AgentLine
  /\ k = "report" => n >= 8 + AgentLine
  /\ k = "over" => n >= 9 + AgentLine

\* Every check tells its line before the next, and only the last one sets status.
Counted ==
  /\ passed \in Nat /\ failed \in Nat
  /\ check \in Checks
  /\ status \in {"none", "zero", "nonzero"}
  /\ status # "none" <=> check = "over"
  /\ check = "setup" => passed = 0 /\ failed = 0
  /\ passed > 0 \/ check \notin {"setup", "over"} => Enough(check, passed + failed)
  /\ check = "over" => (status = "nonzero" <=> failed > 0)

-----------------------------------------------------------------------------
(* What the probe and the other programs carry.                            *)

Early == {"setup", "agent", "shims", "transport", "session env", "copy"}

\* The session of the validation has served the probe.
ServedProbe == prog[Probe].outcome = <<"performed", Validator>>

\* The probe has ended with an error of its request.
ErredProbe == prog[Probe].stage = "done" /\ prog[Probe].outcome[1] = "error"

\* What the forward of the session has carried for a probe that has ended.
Delivered(r) ==
  IF r.stage = "done" /\ r.outcome = <<"performed", Validator>> THEN {r.data} ELSE {}

\* Only the probe copies "out"; a probe under way is the session's own.
Asking ==
  /\ \A q \in Others : Active(prog[q]) => prog[q].data = "program"
  /\ Active(prog[Probe]) =>
       /\ prog[Probe].env = {"token", "port"} /\ prog[Probe].by = Validator
       /\ prog[Probe].data = IF check = "copying" THEN "out" ELSE "paste"
       /\ ~ServedProbe

\* Each value that arrived at its end was carried by the forward: "out" on the
\* desktop, unless the copy ended with an error, "in" at the probe.
Carrying ==
  /\ check \in Early => carried = {} /\ desktop[Validator] # "out"
  /\ check = "copying" =>
       /\ carried = Delivered(prog[Probe]) /\ carried \subseteq {"out"}
       /\ desktop[Validator] = "out" => carried = {"out"} \/ ErredProbe
  /\ check \in {"paste", "start paste"} /\ failed = 0 => carried = {"out"}
  /\ check = "pasting" =>
       /\ failed = 0 => carried = {"out"} \union Delivered(prog[Probe])
       /\ prog[Probe].stage = "done" /\ prog[Probe].data = "in" =>
            Delivered(prog[Probe]) = {"in"}
  /\ check \in {"open", "report"} /\ failed = 0 => carried = {"out", "in"}
  /\ check = "over" /\ status = "zero" => carried = {"out", "in"}

-----------------------------------------------------------------------------
(* A run that nobody disturbs on a host that is set up right.              *)

Calm ==
  /\ check \notin {"setup", "over"} => phase[Validator] \in {"ready", "lost"}
  /\ check = "setup" => phase[Validator] \notin {"closed", "failed"}
  /\ check = "over" /\ quiet => phase[Validator] \in {"ready", "lost", "closed"}
  /\ phase[Validator] = "lost" => ~quiet
  /\ quiet /\ python /\ phase[Validator] \in {"ready", "lost", "closed"} => shim # "missing"

Undefeated ==
  quiet /\ python /\ shim = "good" =>
    /\ failed = 0
    /\ check = "copying" =>
         /\ prog[Probe].stage # "idle"
         /\ prog[Probe].stage = "done" => ServedProbe /\ desktop[Validator] = "out"
    /\ check \in {"start paste", "pasting"} => desktop[Validator] = "in"
    /\ check = "pasting" =>
         /\ prog[Probe].stage # "idle"
         /\ prog[Probe].stage = "done" => ServedProbe /\ prog[Probe].data = "in"

VInv == AccountTyped /\ Counted /\ Asking /\ Carrying /\ Calm /\ Undefeated

-----------------------------------------------------------------------------
(* Programs.                                                               *)

\* The least of some numbers is one of them.
LEMMA LeastIsThere ==
  ASSUME NEW S \in SUBSET Nat, S # {}
  PROVE  Min(S) \in S
<1>1. PICK n \in S : \A i \in S : ~(<<i, n>> \in OpToRel(<, Nat))
  BY NatLessThanWellFounded, WFMin
<1>2. \A i \in S : ~(i < n) BY <1>1 DEF OpToRel
<1>3. \A i \in S : n <= i BY <1>2
<1>4. \E x \in S : \A y \in S : x <= y BY <1>3
<1> QED BY <1>4, Zenon DEF Min

\* What find_fallback returns, whatever PATH is and wherever it was started.
LEMMA ToolFound ==
  ASSUME NEW q \in Program, prog[q].path \in Seq(STRING), Tool(q) # 0
  PROVE  LET d == prog[q].path[Tool(q)]
         IN  /\ d \notin ShimDirs
             /\ \/ d \in NativeDirs
                \/ d \in WrapperDirs /\ ShimOf[d] # ShimOf[prog[q].dir]
<1> DEFINE path == prog[q].path
           Fits(d) == /\ d # prog[q].dir /\ d \notin ShimDirs
                      /\ \/ d \in NativeDirs
                         \/ d \in WrapperDirs /\ ShimOf[d] # ShimOf[prog[q].dir]
           I == {i \in 1..Len(path) : Fits(path[i])}
<1>1. I \in SUBSET Nat OBVIOUS
<1>2. Tool(q) = IF I # {} THEN Min(I) ELSE 0 BY DEF Tool, SelectInSeq
<1>3. Tool(q) \in I BY <1>1, <1>2, LeastIsThere
<1> QED BY <1>3

\* The fields of a program that has ended.
LEMMA EndedFields ==
  ASSUME NEW d, NEW o
  PROVE  /\ Ended(d, o).stage = "done" /\ Ended(d, o).data = d /\ Ended(d, o).outcome = o
         /\ Ended(d, o).path = <<>> /\ ~Ended(d, o).handed
  BY DEF Ended, Idle

\* The fields of a program that is started.
LEMMA LaunchedFields ==
  ASSUME NEW by, NEW env, NEW path, NEW data
  PROVE  LET l == Launched(by, env, path, data)
         IN  /\ l.stage = "load" /\ l.by = by /\ l.env = env /\ l.path = path /\ l.data = data
             /\ l.token = IF "token" \in env THEN by ELSE None
             /\ l.port = IF "port" \in env THEN port[by] ELSE None
             /\ l.outcome = <<"none", None>> /\ ~l.handed
  BY DEF Launched, Idle

\* A program goes on with what it began with, begins again as another wrapper, ends
\* with nothing done, or is served by the session whose token it holds or has its
\* error from it.
Same(n, r) ==
  /\ n.by = r.by /\ n.env = r.env /\ n.path = r.path
  /\ n.data = r.data /\ n.outcome = r.outcome /\ n.dir = r.dir /\ n.handed = r.handed

GoesOn(q) ==
  LET r == prog[q] n == prog'[q]
  IN  /\ Same(n, r) /\ UNCHANGED desktop
      /\ \/ /\ r.stage = "load"
            /\ n.token = Credentials(q).token
            /\ n.port = IF Credentials(q).port = None THEN DefaultPort ELSE Credentials(q).port
            /\ n.stage = IF n.token = None THEN "fallback" ELSE "connect"
         \/ r.stage = "connect" /\ n.stage = "fallback"

BeginsAgain(q) ==
  LET r == prog[q] n == prog'[q]
  IN  /\ r.stage = "fallback" /\ UNCHANGED desktop
      /\ n.stage = "load" /\ n.by = r.by /\ n.env = r.env /\ n.path = r.path /\ n.data = r.data
      /\ n.outcome = <<"none", None>>
      /\ n.token = IF "token" \in r.env THEN r.by ELSE None
      /\ n.port = IF "port" \in r.env THEN port[r.by] ELSE None
      /\ n.dir \in WrapperDirs \ ShimDirs
      /\ ShimOf[n.dir] # ShimOf[r.dir]

Over(n) == n.stage = "done" /\ n.path = <<>> /\ ~n.handed

GivesUp(q) ==
  /\ Over(prog'[q]) /\ prog'[q].data = ""
  /\ prog'[q].outcome[1] \notin Accepted
  /\ UNCHANGED desktop

\* At the server of the session whose token the program holds.
IsAt(q, s) ==
  LET r == prog[q]
  IN  r.stage = "connect" /\ r.port \in Port /\ owner[r.port] = s /\ s # None /\ r.token = s

ServedBy(q, s) ==
  LET r == prog[q] n == prog'[q]
  IN  /\ IsAt(q, s)
      /\ Over(n) /\ n.outcome = <<"performed", s>>
      /\ IF r.data = "paste"
           THEN n.data = desktop[s] /\ UNCHANGED desktop
           ELSE n.data = r.data /\ desktop' = [desktop EXCEPT ![s] = r.data]

ErrsAt(q, s) ==
  LET r == prog[q] n == prog'[q]
  IN  /\ IsAt(q, s)
      /\ Over(n) /\ n.data = "" /\ n.outcome = <<"error", s>>
      /\ \/ UNCHANGED desktop
         \/ r.data # "paste" /\ desktop' = [desktop EXCEPT ![s] = r.data]

Moves(q) ==
  /\ Active(prog[q])
  /\ \A p \in Program \ {q} : prog'[p] = prog[p]
  /\ UNCHANGED <<phase, port, owner, slushEnv, newest, shim, python>>
  /\ \/ GoesOn(q)
     \/ BeginsAgain(q)
     \/ GivesUp(q)
     \/ \E s : ServedBy(q, s)
     \/ \E s : ErrsAt(q, s)

\* What a step of a program does to it.
LEMMA ProgramMoves ==
  ASSUME Knows, NEW q \in Program, ProgramTyped(prog[q]), ProgramStep(q)
  PROVE  Moves(q)
<1> DEFINE r == prog[q]
<1>0. DOMAIN r = Fields BY DEF Knows, ProgramKnows
<1>u. UNCHANGED <<phase, port, owner, slushEnv, newest, shim, python>>
  BY DEF ProgramStep, Load, Unreachable, Exchange, Fallback
<1>1. CASE Load(q)
  <2> DEFINE found == Credentials(q)
             n == [r EXCEPT !.token = found.token,
                            !.port = IF found.port = None THEN DefaultPort ELSE found.port,
                            !.readAt = IF r.token = None /\ found.token # None
                                         THEN newest ELSE None,
                            !.stage = IF found.token = None THEN "fallback" ELSE "connect"]
  <2>1. prog' = [prog EXCEPT ![q] = n] /\ UNCHANGED desktop /\ r.stage = "load"
    BY <1>1 DEF Load, Knows
  <2> HIDE DEF found
  <2>2. Same(n, r) /\ n.token = found.token
        /\ n.port = (IF found.port = None THEN DefaultPort ELSE found.port)
        /\ n.stage = (IF found.token = None THEN "fallback" ELSE "connect")
    BY <1>0 DEF Fields, Same
  <2> HIDE DEF n
  <2>3. prog'[q] = n /\ \A p \in Program \ {q} : prog'[p] = prog[p] BY <2>1 DEF Knows
  <2>4. GoesOn(q) BY <2>1, <2>2, <2>3 DEF GoesOn, found
  <2> QED BY <1>u, <2>1, <2>3, <2>4 DEF Moves, Active
<1>2. CASE Unreachable(q)
  <2> DEFINE n == [r EXCEPT !.stage = "fallback"]
  <2>1. prog' = [prog EXCEPT ![q] = n] /\ UNCHANGED desktop /\ r.stage = "connect"
    BY <1>2 DEF Unreachable, Knows
  <2>2. Same(n, r) /\ n.stage = "fallback" BY <1>0 DEF Fields, Same
  <2> HIDE DEF n
  <2>3. prog'[q] = n /\ \A p \in Program \ {q} : prog'[p] = prog[p] BY <2>1 DEF Knows
  <2>4. GoesOn(q) BY <2>1, <2>2, <2>3 DEF GoesOn
  <2> QED BY <1>u, <2>1, <2>3, <2>4 DEF Moves, Active
<1>f. ASSUME NEW d, NEW o, prog' = [prog EXCEPT ![q] = Ended(d, o)]
      PROVE  /\ Over(prog'[q]) /\ prog'[q].data = d /\ prog'[q].outcome = o
             /\ \A p \in Program \ {q} : prog'[p] = prog[p]
  <2> DEFINE n == Ended(d, o)
  <2>1. Over(n) /\ n.data = d /\ n.outcome = o BY EndedFields DEF Over
  <2> HIDE DEF n
  <2>2. prog'[q] = n /\ \A p \in Program \ {q} : prog'[p] = prog[p] BY <1>f DEF Knows, n
  <2> QED BY <2>1, <2>2
<1>3. CASE Exchange(q)
  <2> DEFINE s == owner[r.port]
             d == IF r.data = "paste" THEN desktop[s] ELSE r.data
             after == IF r.data = "paste" THEN desktop ELSE [desktop EXCEPT ![s] = r.data]
  <2>1. r.stage = "connect" /\ r.port \in Port /\ s # None BY <1>3 DEF Exchange, Connected
  <2>2. CASE /\ r.token = s
             /\ prog' = [prog EXCEPT ![q] = Ended(d, <<"performed", s>>)]
             /\ desktop' = after
    <3>1. ServedBy(q, s) BY <1>f, <2>1, <2>2 DEF ServedBy, IsAt
    <3> QED BY <1>f, <1>u, <2>1, <2>2, <3>1 DEF Moves, Active
  <2>3. CASE /\ r.token = s
             /\ prog' = [prog EXCEPT ![q] = Ended("", <<"error", s>>)]
             /\ desktop' \in {desktop, after}
    <3>1. ErrsAt(q, s) BY <1>f, <2>1, <2>3 DEF ErrsAt, IsAt
    <3> QED BY <1>f, <1>u, <2>1, <2>3, <3>1 DEF Moves, Active
  <2>4. CASE prog' = [prog EXCEPT ![q] = Ended("", <<"refused", s>>)] /\ UNCHANGED desktop
    <3>1. /\ Over(prog'[q]) /\ prog'[q].data = "" /\ prog'[q].outcome = <<"refused", s>>
          /\ \A p \in Program \ {q} : prog'[p] = prog[p]
      BY <1>f, <2>4
    <3>2. \A t : <<"refused", t>>[1] \notin Accepted BY DEF Accepted
    <3> HIDE DEF s
    <3>3. prog'[q].outcome[1] \notin Accepted BY <3>1, <3>2
    <3>4. GivesUp(q) BY <2>4, <3>1, <3>3 DEF GivesUp
    <3> QED BY <1>u, <2>1, <3>1, <3>4 DEF Moves, Active
  <2> QED BY <1>3, <2>2, <2>3, <2>4 DEF Exchange, Authorized, Finish, Knows
<1>4. CASE Fallback(q)
  <2>1. r.stage = "fallback" /\ UNCHANGED desktop BY <1>4 DEF Fallback
  <2>2. ASSUME NEW k \in {"failed", "native"}, Finish(q, <<k, None>>)
        PROVE  Moves(q)
    <3>1. prog' = [prog EXCEPT ![q] = Ended("", <<k, None>>)] BY <2>2 DEF Finish
    <3>2. <<k, None>>[1] \notin Accepted BY DEF Accepted
    <3>3. GivesUp(q) BY <1>f, <2>1, <3>1, <3>2 DEF GivesUp
    <3> QED BY <1>f, <1>u, <2>1, <3>1, <3>3 DEF Moves, Active
  <2>3. CASE /\ Tool(q) # 0 /\ r.path[Tool(q)] \in WrapperDirs
             /\ prog' = [prog EXCEPT ![q] = HandedOver(q)]
    <3> DEFINE n == HandedOver(q)
    <3>1. /\ n.stage = "load" /\ n.by = r.by /\ n.env = r.env /\ n.path = r.path
          /\ n.data = r.data /\ n.outcome = <<"none", None>>
          /\ n.token = IF "token" \in r.env THEN r.by ELSE None
          /\ n.port = IF "port" \in r.env THEN port[r.by] ELSE None
          /\ n.dir = r.path[Tool(q)]
      BY DEF HandedOver, Launched, Idle
    <3>2. /\ n.dir \in WrapperDirs \ ShimDirs
          /\ ShimOf[n.dir] # ShimOf[r.dir]
      <4> DEFINE e == r.path[Tool(q)]
      <4>1. e \notin ShimDirs /\ (e \in NativeDirs \/ ShimOf[e] # ShimOf[r.dir])
        BY <2>3, ToolFound DEF ProgramTyped
      <4>2. e \in WrapperDirs /\ e \notin NativeDirs BY <2>3, DirAssumption
      <4>3. n.dir = e BY <3>1
      <4> HIDE DEF e, n
      <4> QED BY <4>1, <4>2, <4>3
    <3> HIDE DEF n
    <3>3. prog'[q] = n /\ \A p \in Program \ {q} : prog'[p] = prog[p] BY <2>3 DEF Knows, n
    <3>4. BeginsAgain(q) BY <2>1, <3>1, <3>2, <3>3 DEF BeginsAgain
    <3> QED BY <1>u, <2>1, <3>3, <3>4 DEF Moves, Active
  <2>4. CASE Tool(q) = 0 BY <1>4, <2>2, <2>4 DEF Fallback
  <2>5. CASE Tool(q) # 0 /\ r.path[Tool(q)] \notin WrapperDirs BY <1>4, <2>2, <2>5 DEF Fallback
  <2>6. CASE Tool(q) # 0 /\ r.path[Tool(q)] \in WrapperDirs BY <1>4, <2>3, <2>6 DEF Fallback
  <2> QED BY <2>4, <2>5, <2>6
<1> QED BY <1>1, <1>2, <1>3, <1>4 DEF ProgramStep

-----------------------------------------------------------------------------
(* Types.                                                                  *)

\* The first state.
LEMMA TypedInit == Init => AccountTyped
<1> SUFFICES ASSUME Init PROVE AccountTyped OBVIOUS
<1> USE DEF Init, AccountInit
<1>1. Idle.stage = "idle" /\ Idle.path = <<>> /\ ~Idle.handed BY DEF Idle
<1>2. <<>> \in Seq(STRING) OBVIOUS
<1>3. \A q \in Program : ProgramTyped(prog[q]) BY <1>1, <1>2 DEF ProgramTyped, Active, Stages
<1>4. desktop = [s \in Session |-> desktop[s]] OBVIOUS
<1> QED BY <1>3, <1>4 DEF AccountTyped

\* A program that a session starts is well-typed.
LEMMA LaunchedTyped ==
  ASSUME PortsHeld, NEW by, NEW env, NEW path \in Seq(STRING), NEW data, env # {} => by \in Session
  PROVE  ProgramTyped(Launched(by, env, path, data))
<1> DEFINE l == Launched(by, env, path, data)
<1>1. /\ l.stage = "load" /\ l.by = by /\ l.env = env /\ l.path = path /\ ~l.handed
      /\ l.token = IF "token" \in env THEN by ELSE None
      /\ l.port = IF "port" \in env THEN port[by] ELSE None
  BY LaunchedFields
<1> HIDE DEF l
<1>2. "token" \in env \/ "port" \in env => env # {} OBVIOUS
<1>3. ProgramTyped(l) BY <1>1, <1>2 DEF ProgramTyped, PortsHeld, Stages
<1> QED BY <1>3 DEF l

\* A program that goes on stays so.
LEMMA MovesTyped ==
  ASSUME AccountTyped, Knows, Serves, NEW q \in Program, Moves(q), direct' \in BOOLEAN
  PROVE  AccountTyped'
<1> DEFINE r == prog[q]
           n == prog'[q]
<1>0. ProgramTyped(r) /\ FileTrue /\ PortsHeld /\ <<>> \in Seq(STRING)
  BY DEF AccountTyped, Serves
<1>1. ProgramTyped(n)
  <2>1. CASE GoesOn(q)
    <3>1. /\ n.path = r.path /\ n.by = r.by /\ n.env = r.env /\ Active(r)
          /\ n.handed = r.handed /\ n.dir = r.dir
      BY <2>1 DEF GoesOn, Same, Moves
    <3>2. CASE r.stage = "load"
      <4>1. /\ Credentials(q).token \in Session \union {None}
            /\ Credentials(q).port \in Port \union {None}
        BY <1>0, <3>2 DEF Credentials, ProgramTyped, AccountTyped
      <4>2. /\ n.token = Credentials(q).token
            /\ n.port = IF Credentials(q).port = None THEN DefaultPort ELSE Credentials(q).port
            /\ n.stage = IF n.token = None THEN "fallback" ELSE "connect"
        BY <2>1, <3>2 DEF GoesOn
      <4> HIDE DEF n
      <4> QED BY <1>0, <3>1, <4>1, <4>2 DEF ProgramTyped, Stages
    <3>3. CASE r.stage = "connect"
      <4>1. n.stage = "fallback" BY <2>1, <3>3 DEF GoesOn
      <4> QED BY <1>0, <3>1, <4>1 DEF ProgramTyped, Stages
    <3> QED BY <2>1, <3>2, <3>3 DEF GoesOn
  <2>2. CASE GivesUp(q)
    BY <1>0, <2>2 DEF GivesUp, Over, ProgramTyped, Stages, Active
  <2>3. ASSUME NEW s, ServedBy(q, s) \/ ErrsAt(q, s) PROVE ProgramTyped(n)
    BY <1>0, <2>3 DEF ServedBy, ErrsAt, Over, ProgramTyped, Stages, Active
  <2>4. CASE BeginsAgain(q)
    <3>1. /\ n.stage = "load" /\ n.by = r.by /\ n.env = r.env /\ n.path = r.path
          /\ n.token = IF "token" \in r.env THEN r.by ELSE None
          /\ n.port = IF "port" \in r.env THEN port[r.by] ELSE None
          /\ n.dir \in WrapperDirs \ ShimDirs
      BY <2>4 DEF BeginsAgain
    <3>2. r.path \in Seq(STRING) /\ (r.env # {} => r.by \in Session)
      BY <1>0 DEF ProgramTyped, Moves
    <3> HIDE DEF n
    <3>3. "token" \in r.env \/ "port" \in r.env => r.env # {} OBVIOUS
    <3> QED BY <1>0, <3>1, <3>2, <3>3 DEF ProgramTyped, PortsHeld, Stages
  <2> QED BY <2>1, <2>2, <2>3, <2>4 DEF Moves
<1>2. \A p \in Program : ProgramTyped(prog[p])'
  <2>1. \A p \in Program : ProgramTyped(prog'[p]) BY <1>1 DEF Moves, AccountTyped
  <2> QED BY <2>1 DEF ProgramTyped
<1>3. (desktop = [s \in Session |-> desktop[s]])'
  <2>1. ASSUME NEW s, ServedBy(q, s) \/ ErrsAt(q, s)
        PROVE  (desktop = [t \in Session |-> desktop[t]])'
    BY <2>1 DEF ServedBy, ErrsAt, AccountTyped
  <2> QED BY <2>1 DEF Moves, GoesOn, BeginsAgain, GivesUp, AccountTyped
<1>4. UNCHANGED <<phase, port, owner, slushEnv, newest, shim, python>> BY DEF Moves
<1> QED BY <1>2, <1>3, <1>4 DEF AccountTyped

\* What goes on beside the validation is the step of a session, of another program
\* or of a user, and does not touch the probe.
LEMMA AccountCases ==
  ASSUME Knows, AccountTyped, AccountStep
  PROVE  /\ prog'[Probe] = prog[Probe]
         /\ \/ \E s \in Session : SessionStep(s)
            \/ \E q \in Others : Launch(q)
            \/ \E q \in Others : Moves(q)
            \/ UserCopies(Validator)
<1> USE ValidatorAssumption
<1>1. CASE \E s \in Session : SessionStep(s)
  <2>1. prog' = prog
    BY <1>1 DEF SessionStep, Open, BeginPublish, EndPublish, PublishFails, Abort, MasterDies, Close
  <2> QED BY <1>1, <2>1
<1>2. CASE \E q \in Others : Launch(q) BY <1>2 DEF Launch, Knows, Others
<1>3. CASE \E q \in Others : ProgramStep(q)
  <2>1. PICK q \in Others : ProgramStep(q) BY <1>3
  <2>2. q \in Program /\ q # Probe BY DEF Others
  <2>3. Moves(q) BY <2>1, <2>2, ProgramMoves DEF AccountTyped
  <2> QED BY <2>2, <2>3 DEF Moves
<1>4. CASE UserCopies(Validator) BY <1>4 DEF UserCopies
<1> QED BY <1>1, <1>2, <1>3, <1>4 DEF AccountStep

\* A session's steps leave the account well-typed.
LEMMA SessionTyped ==
  ASSUME AccountTyped, PortsHeld, NEW s \in Session, SessionStep(s), direct' \in BOOLEAN
  PROVE  AccountTyped'
<1> USE PortAssumption
<1>1. UNCHANGED <<prog, desktop, python>>
  BY DEF SessionStep, Open, BeginPublish, EndPublish, PublishFails, Abort, MasterDies, Close
<1>2. \A q \in Program : ProgramTyped(prog[q])' BY <1>1 DEF AccountTyped, ProgramTyped
<1>3. slushEnv'.token \in Session \union {None} /\ slushEnv'.port \in Port \union {None}
  BY DEF AccountTyped, PortsHeld, SessionStep, Open, BeginPublish, EndPublish, PublishFails,
         Abort, MasterDies, Close
<1>4. \A p \in Port : owner'[p] # None => port'[owner'[p]] = p
  <2>1. CASE Open(s)
    <3>1. PICK p \in Port : /\ owner[p] = None /\ port' = [port EXCEPT ![s] = p]
                            /\ owner' = [owner EXCEPT ![p] = s]
      BY <2>1 DEF Open
    <3>2. \A x \in Port : owner[x] # s BY <2>1 DEF Open, AccountTyped
    <3> QED BY <3>1, <3>2 DEF AccountTyped, PortsHeld
  <2>2. CASE Abort(s) \/ MasterDies(s) \/ Close(s)
    BY <2>2 DEF Abort, MasterDies, Close, Released, AccountTyped, PortsHeld
  <2>3. CASE BeginPublish(s) \/ EndPublish(s) \/ PublishFails(s)
    BY <2>3 DEF BeginPublish, EndPublish, PublishFails, AccountTyped
  <2> QED BY <2>1, <2>2, <2>3 DEF SessionStep
<1>5. \A t \in Session : phase'[t] = "idle" => port'[t] = None
  BY DEF SessionStep, Open, BeginPublish, EndPublish, PublishFails, Abort, MasterDies, Close,
         AccountTyped, PortsHeld
<1> QED BY <1>1, <1>2, <1>3, <1>4, <1>5 DEF AccountTyped

\* Changes of one program only.
LEMMA OneTyped ==
  ASSUME Knows, AccountTyped, NEW q \in Program, NEW r, ProgramTyped(r),
         prog' = [prog EXCEPT ![q] = r],
         UNCHANGED <<phase, port, owner, slushEnv, python, desktop, direct>>
  PROVE  AccountTyped'
<1>1. \A p \in Program : ProgramTyped(prog'[p]) BY DEF Knows, AccountTyped
<1>2. \A p \in Program : ProgramTyped(prog[p])' BY <1>1 DEF ProgramTyped
<1> QED BY <1>2 DEF AccountTyped

\* So is a program that does not run.
LEMMA IdleTyped == ProgramTyped(Idle) /\ Idle.stage = "idle"
<1>1. Idle.stage = "idle" /\ Idle.path = <<>> /\ ~Idle.handed BY DEF Idle
<1>2. <<>> \in Seq(STRING) OBVIOUS
<1> QED BY <1>1, <1>2 DEF ProgramTyped, Active, Stages

\* The probe is launched with all that the session has, or has ended already.
ProbeLaunched(data) ==
  LET n == ProbeProgram(data)
  IN  /\ Reached /\ shim = "good" /\ python
      /\ n.stage = "load" /\ n.by = Validator /\ n.env = {"token", "port"}
      /\ n.data = data /\ n.outcome = <<"none", None>>

ProbeMissed(data) ==
  LET n == ProbeProgram(data)
  IN  /\ ~(Reached /\ shim = "good" /\ python)
      /\ n.stage = "done" /\ n.data = "" /\ n.outcome[1] \notin Accepted
      /\ n.path = <<>> /\ ~n.handed

\* The fields of the probe when a check starts it.
LEMMA ProbeFields ==
  ASSUME Knows, NEW data
  PROVE  ProbeLaunched(data) \/ ProbeMissed(data)
<1>1. CASE Reached /\ shim = "good" /\ python
  BY <1>1, LaunchedFields DEF ProbeProgram, ProbeLaunched
<1>2. CASE ~(Reached /\ shim = "good" /\ python)
  <2>1. PICK o : /\ ProbeProgram(data) = [Idle EXCEPT !.stage = "done", !.data = "", !.outcome = o]
                 /\ o[1] \notin Accepted
    <3> DEFINE how == CASE ~Reached         -> "failed"
                        [] shim = "empty"   -> "nothing"
                        [] shim = "good"    -> "failed"
                        [] shim = "missing" ->
                             IF ToSet(ProbePath) \cap NativeDirs = {} THEN "failed" ELSE "native"
    <3>1. ProbeProgram(data) =
            [Idle EXCEPT !.stage = "done", !.data = "", !.outcome = <<how, None>>]
      BY <1>2 DEF ProbeProgram
    <3>2. how \notin Accepted
      <4>1. shim \in {"missing", "good", "empty"} BY DEF Knows
      <4>2. CASE ~Reached BY <4>2 DEF Accepted
      <4>3. CASE Reached /\ shim = "empty" BY <4>3 DEF Accepted
      <4>4. CASE Reached /\ shim = "good" BY <4>4 DEF Accepted
      <4>5. CASE Reached /\ shim = "missing" BY <4>5 DEF Accepted
      <4> QED BY <4>1, <4>2, <4>3, <4>4, <4>5
    <3> HIDE DEF how
    <3>3. <<how, None>>[1] \notin Accepted BY <3>2
    <3> QED BY <3>1, <3>3
  <2> DEFINE n == [Idle EXCEPT !.stage = "done", !.data = "", !.outcome = o]
  <2>2. n.stage = "done" /\ n.data = "" /\ n.outcome = o /\ n.path = <<>> /\ ~n.handed
    BY DEF Idle
  <2> HIDE DEF n
  <2>3. ProbeProgram(data) = n BY <2>1 DEF n
  <2> QED BY <1>2, <2>1, <2>2, <2>3 DEF ProbeMissed
<1> QED BY <1>1, <1>2

\* A probe that is started is well-typed.
LEMMA ProbeTyped ==
  ASSUME Knows, PortsHeld, NEW data
  PROVE  ProgramTyped(ProbeProgram(data))
<1> USE ValidatorAssumption
<1>1. CASE Reached /\ shim = "good" /\ python
  BY <1>1, LaunchedTyped DEF ProbeProgram
<1>2. CASE ProbeMissed(data)
  <2>1. <<>> \in Seq(STRING) OBVIOUS
  <2> QED BY <1>2, <2>1 DEF ProbeMissed, ProgramTyped, Active, Stages
<1> QED BY <1>1, <1>2, ProbeFields DEF ProbeLaunched

\* Every step keeps the account well-typed.
LEMMA TypedNext == Knows /\ Serves /\ AccountTyped /\ [Next]_vars => AccountTyped'
<1> SUFFICES ASSUME Knows, Serves, AccountTyped, [Next]_vars PROVE AccountTyped' OBVIOUS
<1> USE ValidatorAssumption
<1>0. PortsHeld /\ direct \in BOOLEAN BY DEF Serves, AccountTyped
<1>1. CASE CopyRemotely \/ PasteRemotely
  <2>1. PICK data, next : StartProbe(data, next) BY <1>1 DEF CopyRemotely, PasteRemotely
  <2> QED BY <1>0, <2>1, ProbeTyped, OneTyped DEF StartProbe
<1>2. CASE JudgeCopy \/ JudgePaste
  BY <1>2, IdleTyped, OneTyped DEF JudgeCopy, JudgePaste, ForgetProbe
<1>3. CASE CopyLocally
  BY <1>3 DEF CopyLocally, AccountTyped, ProgramTyped
<1>4. CASE SetupFails \/ SetupDone \/ CheckAgent \/ CheckShims \/ CheckTransport
           \/ CheckSessionEnv \/ CheckOpen \/ Report \/ UNCHANGED vars
  <2>1. UNCHANGED <<accountVars, direct>>
    BY <1>4 DEF SetupFails, SetupDone, CheckAgent, CheckShims, CheckTransport,
                CheckSessionEnv, CheckOpen, Report, vars, validateVars
  <2> QED BY <2>1 DEF accountVars, AccountTyped, ProgramTyped
<1>5. CASE ProbeStep
  <2>1. Moves(Probe) BY <1>5, ProgramMoves DEF ProbeStep, AccountTyped
  <2> QED BY <1>0, <1>5, <2>1, MovesTyped DEF ProbeStep
<1>6. CASE AccountStep
  <2>1. direct' \in BOOLEAN BY <1>0, <1>6 DEF AccountStep
  <2>2. ASSUME NEW q \in Others, Launch(q) PROVE AccountTyped'
    <3>1. PICK by, env, path :
            /\ env # {} => by \in Session
            /\ path \in Seq(STRING)
            /\ prog' = [prog EXCEPT ![q] = Launched(by, env, path, "program")]
      BY <2>2, DirAssumption DEF Launch
    <3>2. UNCHANGED <<phase, port, owner, slushEnv, python, desktop>> BY <2>2 DEF Launch
    <3>3. direct' = direct BY <1>6, <3>2 DEF AccountStep
    <3> QED BY <1>0, <3>1, <3>2, <3>3, LaunchedTyped, OneTyped DEF Others
  <2>3. CASE UserCopies(Validator) BY <2>1, <2>3 DEF UserCopies, AccountTyped, ProgramTyped
  <2> QED BY <1>0, <1>6, <2>1, <2>2, <2>3, AccountCases, SessionTyped, MovesTyped DEF Others
<1> QED BY <1>1, <1>2, <1>3, <1>4, <1>5, <1>6 DEF Next, ValidateStep

\* Where all linked wrappers are one, a wrapper that was handed its request finds no
\* other: a step from its fallback is its own, and does not begin again.
LEMMA HandedEnds ==
  ASSUME Knows, Serves, AccountTyped, [Next]_vars, OneLinkedShim, NEW q \in Program,
         prog[q].stage = "fallback", prog'[q].stage = "load"
  PROVE  ~prog[q].handed
<1> USE ValidatorAssumption
<1>1. CASE CopyRemotely \/ PasteRemotely
  <2>1. PICK data, next : StartProbe(data, next) BY <1>1 DEF CopyRemotely, PasteRemotely
  <2>2. prog[Probe].stage = "idle" BY <1>1 DEF CopyRemotely, PasteRemotely, Serves, ProbeInTurn
  <2> QED BY <2>1, <2>2 DEF StartProbe, Knows
<1>2. CASE JudgeCopy \/ JudgePaste
  BY <1>2 DEF JudgeCopy, JudgePaste, ForgetProbe, Knows
<1>3. CASE CopyLocally \/ SetupFails \/ SetupDone \/ CheckAgent \/ CheckShims \/ CheckTransport
           \/ CheckSessionEnv \/ CheckOpen \/ Report \/ UNCHANGED vars
  BY <1>3 DEF CopyLocally, SetupFails, SetupDone, CheckAgent, CheckShims, CheckTransport,
              CheckSessionEnv, CheckOpen, Report, vars, accountVars
<1>4. ASSUME NEW p \in Program, Moves(p) PROVE ~prog[q].handed
  <2>1. p = q BY <1>4 DEF Moves
  <2>2. BeginsAgain(q)
    BY <1>4, <2>1 DEF Moves, GoesOn, GivesUp, ServedBy, ErrsAt, IsAt, Over
  <2>3. prog'[q].dir \in WrapperDirs \ ShimDirs /\ ShimOf[prog'[q].dir] # ShimOf[prog[q].dir]
    BY <2>2 DEF BeginsAgain
  <2>4. prog[q].handed => prog[q].dir \in WrapperDirs \ ShimDirs
    BY DEF AccountTyped, ProgramTyped
  <2> QED BY <2>3, <2>4 DEF OneLinkedShim
<1>5. CASE ProbeStep
  BY <1>4, <1>5, ProgramMoves DEF ProbeStep, AccountTyped
<1>6. CASE AccountStep
  <2>1. ASSUME NEW p \in Others, Launch(p) PROVE ~prog[q].handed
    BY <2>1 DEF Launch, Knows, Others
  <2>2. CASE UserCopies(Validator) \/ \E s \in Session : SessionStep(s)
    BY <2>2 DEF UserCopies, SessionStep, Open, BeginPublish, EndPublish, PublishFails,
                Abort, MasterDies, Close
  <2> QED BY <1>4, <1>6, <2>1, <2>2, AccountCases DEF Others
<1> QED BY <1>1, <1>2, <1>3, <1>5, <1>6 DEF Next, ValidateStep

-----------------------------------------------------------------------------
(* The lines told.                                                         *)

\* A line told is counted once.
LEMMA TellCounts ==
  ASSUME NEW b \in BOOLEAN, NEW next, Told(<<b>>, next), passed \in Nat, failed \in Nat
  PROVE  /\ passed' = passed + IF b THEN 1 ELSE 0
         /\ failed' = failed + IF b THEN 0 ELSE 1
         /\ check' = next
<1>1. {i \in DOMAIN <<b>> : <<b>>[i]} = IF b THEN {1} ELSE {} OBVIOUS
<1>2. {i \in DOMAIN <<b>> : ~<<b>>[i]} = IF b THEN {} ELSE {1} OBVIOUS
<1>3. Cardinality({1}) = 1 /\ Cardinality({}) = 0 BY FS_Singleton, FS_EmptySet
<1> QED BY <1>1, <1>2, <1>3 DEF Told, Quantify

\* Two lines told at once, the first of them ok.
LEMMA TellTwo ==
  ASSUME NEW b \in BOOLEAN, NEW next, Told(<<TRUE, b>>, next), passed \in Nat, failed \in Nat
  PROVE  /\ passed' = passed + IF b THEN 2 ELSE 1
         /\ failed' = failed + IF b THEN 0 ELSE 1
         /\ check' = next
<1> DEFINE two == <<TRUE, b>>
<1>0. DOMAIN two = {1, 2} /\ two[1] = TRUE /\ two[2] = b OBVIOUS
<1> HIDE DEF two
<1>1. {i \in DOMAIN two : two[i]} = IF b THEN {1, 2} ELSE {1}
  <2>1. CASE b BY <1>0, <2>1
  <2>2. CASE ~b BY <1>0, <2>2
  <2> QED BY <2>1, <2>2
<1>2. {i \in DOMAIN two : ~two[i]} = IF b THEN {} ELSE {2}
  <2>1. CASE b BY <1>0, <2>1
  <2>2. CASE ~b BY <1>0, <2>2
  <2> QED BY <2>1, <2>2
<1>3. /\ Cardinality({1}) = 1 /\ Cardinality({2}) = 1 /\ Cardinality({}) = 0
      /\ IsFiniteSet({1})
  BY FS_Singleton, FS_EmptySet
<1>4. Cardinality({1, 2}) = 2
  <2>1. Cardinality({1} \cup {2}) = IF 2 \in {1} THEN Cardinality({1}) ELSE Cardinality({1}) + 1
    BY <1>3, FS_AddElement
  <2>2. {1} \cup {2} = {1, 2} /\ 2 \notin {1} OBVIOUS
  <2> QED BY <1>3, <2>1, <2>2
<1> QED BY <1>1, <1>2, <1>3, <1>4 DEF Told, Quantify, two

\* A check whose line is known.
LEMMA TellFixed ==
  ASSUME NEW next, passed \in Nat, failed \in Nat
  PROVE  /\ Told(<<FALSE>>, next) =>
              passed' = passed /\ failed' = failed + 1 /\ check' = next
         /\ Told(<<TRUE>>, next) =>
              passed' = passed + 1 /\ failed' = failed /\ check' = next
         /\ Told(<<TRUE, TRUE>>, next) =>
              passed' = passed + 2 /\ failed' = failed /\ check' = next
<1>1. ASSUME Told(<<FALSE>>, next)
      PROVE  passed' = passed /\ failed' = failed + 1 /\ check' = next
  <2>1. \E b \in BOOLEAN : ~b /\ Told(<<b>>, next)
    <3> WITNESS FALSE \in BOOLEAN
    <3> QED BY <1>1
  <2>2. PICK b \in BOOLEAN : ~b /\ Told(<<b>>, next) BY <2>1
  <2> QED BY <2>2, TellCounts
<1>2. ASSUME Told(<<TRUE>>, next)
      PROVE  passed' = passed + 1 /\ failed' = failed /\ check' = next
  <2>1. \E b \in BOOLEAN : b /\ Told(<<b>>, next)
    <3> WITNESS TRUE \in BOOLEAN
    <3> QED BY <1>2
  <2>2. \E b \in BOOLEAN :
          /\ b
          /\ passed' = passed + IF b THEN 1 ELSE 0
          /\ failed' = failed + IF b THEN 0 ELSE 1
          /\ check' = next
    BY <2>1, TellCounts, Zenon
  <2> QED BY <2>2
<1>3. ASSUME Told(<<TRUE, TRUE>>, next)
      PROVE  passed' = passed + 2 /\ failed' = failed /\ check' = next
  <2>1. \E b \in BOOLEAN : b /\ Told(<<TRUE, b>>, next)
    <3> WITNESS TRUE \in BOOLEAN
    <3> QED BY <1>3
  <2>2. \E b \in BOOLEAN :
          /\ b
          /\ passed' = passed + IF b THEN 2 ELSE 1
          /\ failed' = failed + IF b THEN 0 ELSE 1
          /\ check' = next
    BY <2>1, TellTwo, Zenon
  <2> QED BY <2>2
<1> QED BY <1>1, <1>2, <1>3

\* The agent has one line, or none.
LEMMA AgentLineType == AgentLine = 0 \/ AgentLine = 1
BY DEF AgentLine

\* A check that tells a line and goes on to the next.
LEMMA CheckCounts ==
  ASSUME Counted, check \notin {"setup", "over"}, NEW good \in BOOLEAN, NEW next,
         Tell(good, next), next \in Checks, next \notin {"setup", "over"}, status' = status,
         \A n \in Nat : Enough(check, n) => Enough(next, n + 1)
  PROVE  Counted'
<1>1. /\ passed' = passed + IF good THEN 1 ELSE 0
      /\ failed' = failed + IF good THEN 0 ELSE 1
      /\ check' = next
  BY TellCounts DEF Tell, Counted
<1>2. /\ passed' \in Nat /\ failed' \in Nat /\ passed' + failed' = (passed + failed) + 1
      /\ passed + failed \in Nat
  BY <1>1 DEF Counted
<1>3. Enough(check, passed + failed) BY DEF Counted
<1>4. Enough(next, passed' + failed') BY <1>2, <1>3
<1> QED BY <1>1, <1>2, <1>4 DEF Counted, Enough

\* So does one that may end with an error of its own.
LEMMA VerdictCounts ==
  ASSUME Counted, check \notin {"setup", "over"}, NEW good \in BOOLEAN, NEW next,
         Verdict(good, next), next \in Checks, next \notin {"setup", "over"}, status' = status,
         \A n \in Nat : Enough(check, n) => Enough(next, n + 1)
  PROVE  Counted'
<1>1. PICK err \in BOOLEAN : Tell(good /\ ~err, next) BY DEF Verdict
<1>2. PICK fine \in BOOLEAN : Tell(fine, next) BY <1>1
<1> QED BY <1>2, CheckCounts

\* A step that tells nothing.
LEMMA SilentCounts ==
  ASSUME Counted, UNCHANGED <<passed, failed, status>>, check' \in Checks,
         \/ check' = check
         \/ /\ check \notin {"setup", "over"} /\ check' \notin {"setup", "over"}
            /\ \A n \in Nat : Enough(check, n) => Enough(check', n)
  PROVE  Counted'
<1>1. passed + failed \in Nat BY DEF Counted
<1> QED BY <1>1 DEF Counted, Enough

\* The wrapper's environment has one line or, with the second ok or not, two.
LEMMA EnvLines ==
  ASSUME CheckSessionEnv
  PROVE  \/ \E good \in BOOLEAN : Told(<<TRUE, good>>, "copy")
         \/ \E good \in BOOLEAN : Told(<<good>>, "copy")
<1>1. ASSUME Told(<<FALSE>>, "copy") PROVE \E good \in BOOLEAN : Told(<<good>>, "copy")
  <2> WITNESS FALSE \in BOOLEAN
  <2> QED BY <1>1
<1>2. ASSUME Told(<<TRUE>>, "copy") PROVE \E good \in BOOLEAN : Told(<<good>>, "copy")
  <2> WITNESS TRUE \in BOOLEAN
  <2> QED BY <1>2
<1>3. ASSUME Told(<<TRUE, FALSE>>, "copy")
      PROVE  \E good \in BOOLEAN : Told(<<TRUE, good>>, "copy")
  <2> WITNESS FALSE \in BOOLEAN
  <2> QED BY <1>3
<1>4. CASE Reached /\ Transport # "mosh" /\ Told(<<TRUE, shim # "missing">>, "copy")
  <2>1. PICK good \in BOOLEAN : Told(<<TRUE, good>>, "copy") BY <1>4
  <2> QED BY <2>1
<1> QED BY <1>1, <1>2, <1>3, <1>4 DEF CheckSessionEnv

\* Every step keeps the counts.
LEMMA CountedNext == Counted /\ [Next]_vars => Counted'
<1> SUFFICES ASSUME Counted, [Next]_vars PROVE Counted' OBVIOUS
<1> USE AgentLineType
<1>0. passed \in Nat /\ failed \in Nat BY DEF Counted
<1>1. CASE SetupFails
  <2>1. passed' = passed /\ failed' = failed + 1 /\ check' = "over" /\ status' = "nonzero"
    BY <1>0, <1>1, TellFixed DEF SetupFails, Tell
  <2>2. passed = 0 /\ failed = 0 BY <1>1 DEF SetupFails, Counted
  <2>3. passed' = 0 /\ failed' = 1 BY <2>1, <2>2
  <2>4. check' \in Checks BY <2>1 DEF Checks
  <2> QED BY <2>1, <2>3, <2>4 DEF Counted
<1>2. CASE SetupDone
  <2>1. passed' = passed + 2 /\ failed' = failed /\ check' = "agent" /\ status' = status
    BY <1>0, <1>2, TellFixed DEF SetupDone
  <2>2. passed = 0 /\ failed = 0 /\ status = "none" BY <1>2 DEF SetupDone, Counted
  <2>3. Enough("agent", 2) BY DEF Enough
  <2>4. passed' = 2 /\ failed' = 0 BY <2>1, <2>2
  <2>5. check' \in Checks /\ Enough("agent", passed' + failed') BY <2>1, <2>3, <2>4 DEF Checks
  <2> QED BY <2>1, <2>2, <2>4, <2>5 DEF Counted
<1>3. CASE CheckAgent
  <2>1. CASE ForwardAgent
    <3>1. PICK good \in BOOLEAN : Verdict(good, "shims")
      BY <1>3, <2>1 DEF CheckAgent, Reached
    <3>2. check = "agent" /\ status' = status BY <1>3 DEF CheckAgent
    <3>3. \A n \in Nat : Enough("agent", n) => Enough("shims", n + 1) BY DEF Enough
    <3> QED BY <3>1, <3>2, <3>3, VerdictCounts DEF Checks
  <2>2. CASE ~ForwardAgent
    <3>1. check = "agent" /\ check' = "shims" /\ UNCHANGED <<passed, failed, status>>
      BY <1>3, <2>2 DEF CheckAgent
    <3>2. \A n \in Nat : Enough("agent", n) => Enough("shims", n)
      BY <2>2 DEF Enough, AgentLine
    <3> QED BY <3>1, <3>2, SilentCounts DEF Checks
  <2> QED BY <2>1, <2>2
<1>4. CASE CheckShims
  <2>1. PICK good \in BOOLEAN : Verdict(good, "transport") BY <1>4 DEF CheckShims
  <2>2. check = "shims" /\ status' = status BY <1>4 DEF CheckShims
  <2>3. \A n \in Nat : Enough("shims", n) => Enough("transport", n + 1) BY DEF Enough
  <2> QED BY <2>1, <2>2, <2>3, VerdictCounts DEF Checks
<1>5. CASE CheckTransport
  <2>1. PICK good \in BOOLEAN : Verdict(good, "session env") BY <1>5 DEF CheckTransport
  <2>2. check = "transport" /\ status' = status BY <1>5 DEF CheckTransport
  <2>3. \A n \in Nat : Enough("transport", n) => Enough("session env", n + 1) BY DEF Enough
  <2> QED BY <2>1, <2>2, <2>3, VerdictCounts DEF Checks
<1>7. CASE JudgeCopy
  <2>1. PICK good \in BOOLEAN : Verdict(good, "paste") BY <1>7 DEF JudgeCopy
  <2>2. check = "copying" /\ status' = status BY <1>7 DEF JudgeCopy
  <2>3. \A n \in Nat : Enough("copying", n) => Enough("paste", n + 1) BY DEF Enough
  <2> QED BY <2>1, <2>2, <2>3, VerdictCounts DEF Checks
<1>8. CASE JudgePaste
  <2>1. PICK good \in BOOLEAN : Verdict(good, "open") BY <1>8 DEF JudgePaste
  <2>2. check = "pasting" /\ status' = status BY <1>8 DEF JudgePaste
  <2>3. \A n \in Nat : Enough("pasting", n) => Enough("open", n + 1) BY DEF Enough
  <2> QED BY <2>1, <2>2, <2>3, VerdictCounts DEF Checks
<1>9. CASE CheckOpen
  <2>1. PICK good \in BOOLEAN : Verdict(good, "report") BY <1>9 DEF CheckOpen
  <2>2. check = "open" /\ status' = status BY <1>9 DEF CheckOpen
  <2>3. \A n \in Nat : Enough("open", n) => Enough("report", n + 1) BY DEF Enough
  <2> QED BY <2>1, <2>2, <2>3, VerdictCounts DEF Checks
<1>6. CASE CheckSessionEnv
  <2>1. check = "session env" /\ status' = status BY <1>6 DEF CheckSessionEnv
  <2>2. \A n, m \in Nat : Enough("session env", n) /\ m >= n + 1 => Enough("copy", m)
    BY DEF Enough
  <2>3. ASSUME NEW good \in BOOLEAN, Told(<<TRUE, good>>, "copy") PROVE Counted'
    <3>2. /\ passed' = passed + IF good THEN 2 ELSE 1
          /\ failed' = failed + IF good THEN 0 ELSE 1
          /\ check' = "copy"
      BY <1>0, <2>3, TellTwo
    <3>3. /\ passed' \in Nat /\ failed' \in Nat /\ passed' + failed' >= (passed + failed) + 1
          /\ passed + failed \in Nat /\ passed' + failed' \in Nat
      <4>1. CASE good BY <1>0, <3>2, <4>1
      <4>2. CASE ~good BY <1>0, <3>2, <4>2
      <4> QED BY <4>1, <4>2
    <3>4. Enough("session env", passed + failed) BY <2>1 DEF Counted
    <3>5. Enough("copy", passed' + failed') BY <2>2, <3>3, <3>4
    <3> QED BY <2>1, <3>2, <3>3, <3>5 DEF Counted, Checks
  <2>4. ASSUME NEW good \in BOOLEAN, Told(<<good>>, "copy") PROVE Counted'
    <3>1. Tell(good, "copy") BY <2>4 DEF Tell
    <3>2. \A n \in Nat : Enough("session env", n) => Enough("copy", n + 1) BY DEF Enough
    <3> QED BY <2>1, <3>1, <3>2, CheckCounts DEF Checks
  <2>5. \/ \E good \in BOOLEAN : Told(<<TRUE, good>>, "copy")
        \/ \E good \in BOOLEAN : Told(<<good>>, "copy")
    BY <1>6, EnvLines
  <2> QED BY <2>3, <2>4, <2>5
<1>10. CASE Report
  <2>1. passed' = passed + 1 /\ failed' = failed /\ check' = "over"
    BY <1>0, <1>10, TellFixed DEF Report, Tell
  <2>2. status' = (IF failed = 0 THEN "zero" ELSE "nonzero") BY <1>10 DEF Report
  <2>3. Enough("report", passed + failed) BY <1>10 DEF Report, Counted
  <2>4. Enough("over", (passed + failed) + 1) BY <1>0, <2>3 DEF Enough
  <2>5. passed' \in Nat /\ failed' \in Nat /\ passed' + failed' = (passed + failed) + 1
    BY <1>0, <2>1
  <2>6. status' \in {"zero", "nonzero"} /\ (status' = "nonzero" <=> failed' > 0)
    BY <1>0, <2>1, <2>2
  <2> QED BY <2>1, <2>4, <2>5, <2>6 DEF Counted, Checks
<1>13. CASE CopyLocally /\ Tell(FALSE, "open")
  <2>1. PICK good \in BOOLEAN : Tell(good, "open")
    <3> SUFFICES \E good \in BOOLEAN : Tell(good, "open") OBVIOUS
    <3> WITNESS FALSE \in BOOLEAN
    <3> QED BY <1>13
  <2>2. check = "paste" /\ status' = status BY <1>13 DEF CopyLocally
  <2>3. \A n \in Nat : Enough("paste", n) => Enough("open", n + 1) BY DEF Enough
  <2> QED BY <2>1, <2>2, <2>3, CheckCounts DEF Checks
<1>11. CASE CopyRemotely \/ PasteRemotely \/ (CopyLocally /\ ~Tell(FALSE, "open"))
  <2>1. UNCHANGED <<passed, failed, status>>
    BY <1>11 DEF CopyRemotely, PasteRemotely, CopyLocally, StartProbe
  <2>2. \/ check = "copy" /\ check' = "copying"
        \/ check = "start paste" /\ check' = "pasting"
        \/ check = "paste" /\ check' = "start paste"
    BY <1>11 DEF CopyRemotely, PasteRemotely, CopyLocally, StartProbe
  <2>3. \A n \in Nat : Enough(check, n) => Enough(check', n) BY <2>2 DEF Enough
  <2>4. check \notin {"setup", "over"} /\ check' \notin {"setup", "over"} /\ check' \in Checks
    BY <2>2 DEF Checks
  <2> QED BY <2>1, <2>3, <2>4, SilentCounts
<1>12. CASE ProbeStep \/ AccountStep \/ UNCHANGED vars
  BY <1>12 DEF ProbeStep, AccountStep, vars, validateVars, Counted, Enough
<1> QED BY <1>1, <1>2, <1>3, <1>4, <1>5, <1>6, <1>7, <1>8, <1>9, <1>10, <1>11, <1>12, <1>13
    DEF Next, ValidateStep

\* The first state.
LEMMA CountedInit == Init => Counted
BY DEF Init, Counted, Checks

-----------------------------------------------------------------------------
(* What the programs ask for.                                              *)

\* The first state.
LEMMA AskingInit == Init => Asking
<1>1. Idle.stage = "idle" BY DEF Idle
<1> QED BY <1>1, ValidatorAssumption DEF Init, AccountInit, Asking, Active, Others

\* Every step keeps what the programs ask for.
LEMMA AskingNext == Knows /\ Serves /\ AccountTyped /\ Asking /\ [Next]_vars => Asking'
<1> SUFFICES ASSUME Knows, Serves, AccountTyped, Asking, [Next]_vars PROVE Asking' OBVIOUS
<1> USE ValidatorAssumption
<1>0. Probe \notin Others /\ \A q \in Others : q \in Program BY DEF Others
<1>1. CASE CopyRemotely \/ PasteRemotely
  <2>1. PICK data, next :
          /\ StartProbe(data, next)
          /\ \/ data = "out" /\ next = "copying"
             \/ data = "paste" /\ next = "pasting"
    BY <1>1 DEF CopyRemotely, PasteRemotely
  <2>2. prog'[Probe] = ProbeProgram(data) /\ \A q \in Others : prog'[q] = prog[q]
    BY <1>0, <2>1 DEF StartProbe, Knows
  <2>3. check' = next BY <2>1 DEF StartProbe
  <2>4. <<"none", None>> # <<"performed", Validator>> OBVIOUS
  <2>5. \A q \in Others : Active(prog'[q]) => prog'[q].data = "program"
    BY <2>2 DEF Asking, Active
  <2>6. Active(prog'[Probe]) =>
          /\ prog'[Probe].env = {"token", "port"} /\ prog'[Probe].by = Validator
          /\ prog'[Probe].data = data /\ prog'[Probe].outcome = <<"none", None>>
    <3> DEFINE n == ProbeProgram(data)
    <3>1. n.stage = "done" \/ /\ n.env = {"token", "port"} /\ n.by = Validator
                              /\ n.data = data /\ n.outcome = <<"none", None>>
      BY ProbeFields DEF ProbeLaunched, ProbeMissed
    <3> HIDE DEF n
    <3>2. prog'[Probe] = n BY <2>2 DEF n
    <3> QED BY <3>1, <3>2 DEF Active
  <2>7. data = IF check' = "copying" THEN "out" ELSE "paste" BY <2>1, <2>3
  <2> QED BY <2>4, <2>5, <2>6, <2>7 DEF Asking, Active, ServedProbe
<1>2. CASE JudgeCopy \/ JudgePaste
  <2>1. prog'[Probe] = Idle /\ \A q \in Others : prog'[q] = prog[q]
    BY <1>0, <1>2 DEF JudgeCopy, JudgePaste, ForgetProbe, Knows
  <2> QED BY <2>1, IdleTyped DEF Asking, Active
<1>3. CASE CopyLocally \/ SetupFails \/ SetupDone \/ CheckAgent \/ CheckShims \/ CheckTransport
           \/ CheckSessionEnv \/ CheckOpen \/ Report
  <2>1. prog' = prog /\ check \notin {"copying", "pasting"}
    BY <1>3 DEF CopyLocally, SetupFails, SetupDone, CheckAgent, CheckShims, CheckTransport,
                CheckSessionEnv, CheckOpen, Report, accountVars
  <2>2. prog[Probe].stage = "idle" BY <2>1 DEF Serves, ProbeInTurn
  <2> QED BY <2>1, <2>2 DEF Asking, Active
<1>4. ASSUME NEW p \in Program, Moves(p), check' = check PROVE Asking'
  <2>1. Active(prog'[p]) =>
          /\ Active(prog[p])
          /\ prog'[p].by = prog[p].by /\ prog'[p].env = prog[p].env /\ prog'[p].data = prog[p].data
          /\ prog'[p].outcome \in {prog[p].outcome, <<"none", None>>}
    BY <1>4 DEF Moves, GoesOn, BeginsAgain, GivesUp, ServedBy, ErrsAt, Over, Active, Same
  <2>2. \A q \in Program \ {p} : prog'[q] = prog[q] BY <1>4 DEF Moves
  <2>3. <<"none", None>> # <<"performed", Validator>> OBVIOUS
  <2> QED BY <1>0, <1>4, <2>1, <2>2, <2>3 DEF Asking, ServedProbe, Active
<1>5. CASE ProbeStep
  BY <1>4, <1>5, ProgramMoves DEF ProbeStep, AccountTyped
<1>6. CASE AccountStep
  <2>0. check' = check /\ prog'[Probe] = prog[Probe] BY <1>6, AccountCases DEF AccountStep
  <2>1. ASSUME NEW q \in Others, Launch(q) PROVE Asking'
    <3>1. PICK by, env, path : prog' = [prog EXCEPT ![q] = Launched(by, env, path, "program")]
      BY <2>1 DEF Launch
    <3> DEFINE n == Launched(by, env, path, "program")
    <3>2. n.data = "program" BY LaunchedFields
    <3> HIDE DEF n
    <3>3. prog'[q] = n /\ \A p \in Program \ {q} : prog'[p] = prog[p]
      BY <1>0, <3>1 DEF Knows, n
    <3> QED BY <1>0, <2>0, <3>2, <3>3 DEF Asking, ServedProbe, Active
  <2>2. CASE UserCopies(Validator) \/ \E s \in Session : SessionStep(s)
    <3>1. prog' = prog
      BY <2>2 DEF UserCopies, SessionStep, Open, BeginPublish, EndPublish, PublishFails,
                  Abort, MasterDies, Close
    <3> QED BY <2>0, <3>1 DEF Asking, ServedProbe, Active
  <2> QED BY <1>0, <1>4, <1>6, <2>0, <2>1, <2>2, AccountCases
<1>7. CASE UNCHANGED vars
  BY <1>7 DEF vars, accountVars, validateVars, Asking, ServedProbe, Active
<1> QED BY <1>1, <1>2, <1>3, <1>5, <1>6, <1>7 DEF Next, ValidateStep

-----------------------------------------------------------------------------
(* What was carried.                                                       *)

\* A check that failed is not forgotten.
LEMMA TellKeeps ==
  ASSUME Counted, NEW good \in BOOLEAN, NEW next, Tell(good, next)
  PROVE  /\ failed' = 0 => failed = 0 /\ good
         /\ good => failed' = failed
         /\ check' = next
<1>1. /\ passed' = passed + IF good THEN 1 ELSE 0
      /\ failed' = failed + IF good THEN 0 ELSE 1
      /\ check' = next
  BY TellCounts DEF Tell, Counted
<1>2. CASE good BY <1>1, <1>2 DEF Counted
<1>3. CASE ~good BY <1>1, <1>3 DEF Counted
<1> QED BY <1>2, <1>3

\* Nor is one with an error of its own, which a quiet run does not have.
LEMMA VerdictKeeps ==
  ASSUME Counted, NEW good \in BOOLEAN, NEW next, Verdict(good, next)
  PROVE  /\ failed' = 0 => failed = 0 /\ good
         /\ good /\ quiet' => failed' = failed
         /\ quiet' => quiet
         /\ check' = next
<1>1. PICK err \in BOOLEAN : Tell(good /\ ~err, next) /\ quiet' = (quiet /\ ~err) BY DEF Verdict
<1>2. PICK fine \in BOOLEAN : Tell(fine, next) /\ (fine <=> good /\ ~err) BY <1>1
<1>3. /\ failed' = 0 => failed = 0 /\ fine
      /\ fine => failed' = failed
      /\ check' = next
  BY <1>2, TellKeeps
<1> QED BY <1>1, <1>2, <1>3

\* What the forward has carried for a program.
LEMMA DeliveredFacts ==
  ASSUME NEW r
  PROVE  /\ r.stage # "done" => Delivered(r) = {}
         /\ r.outcome[1] \notin Accepted \/ r.outcome[1] = "error" => Delivered(r) = {}
         /\ r.stage = "done" /\ r.outcome = <<"performed", Validator>> => Delivered(r) = {r.data}
<1>1. r.outcome = <<"performed", Validator>> => r.outcome[1] = "performed" OBVIOUS
<1> QED BY <1>1 DEF Delivered, Accepted

\* A probe that its session serves was asked to copy or to paste by the check that
\* waits for it.
LEMMA ProbeServed ==
  ASSUME Knows, Serves, Asking, AccountTyped, Moves(Probe), NEW s, ServedBy(Probe, s)
  PROVE  /\ s = Validator
         /\ check \in {"copying", "pasting"}
         /\ prog'[Probe].stage = "done" /\ prog'[Probe].outcome = <<"performed", Validator>>
         /\ check = "copying" => prog'[Probe].data = "out" /\ desktop'[Validator] = "out"
         /\ check = "pasting" => prog'[Probe].data = desktop[Validator] /\ UNCHANGED desktop
<1> USE ValidatorAssumption
<1> DEFINE r == prog[Probe]
<1>1. Active(r) /\ r.stage = "connect" BY DEF Moves, ServedBy, IsAt
<1>2. r.env = {"token", "port"} /\ r.by = Validator
      /\ r.data = (IF check = "copying" THEN "out" ELSE "paste")
  BY <1>1 DEF Asking
<1>3. r.token = Validator
  <2>1. "token" \in r.env BY <1>2
  <2> QED BY <1>1, <1>2, <2>1 DEF Knows, ProgramKnows, Source
<1>4. s = Validator BY <1>3 DEF ServedBy, IsAt
<1>5. check \in {"copying", "pasting"} BY <1>1 DEF Active, Serves, ProbeInTurn
<1>6. CASE check = "copying"
  BY <1>2, <1>4, <1>6 DEF ServedBy, Over, AccountTyped
<1>7. CASE check = "pasting"
  BY <1>2, <1>4, <1>7 DEF ServedBy, Over
<1> QED BY <1>4, <1>5, <1>6, <1>7 DEF ServedBy, Over

\* Nobody but the probe puts "out" on the desktop of the validation.
LEMMA OutIsTheProbes ==
  ASSUME Knows, Serves, AccountTyped, Asking, AccountStep, desktop'[Validator] = "out"
  PROVE  desktop[Validator] = "out"
<1> USE ValidatorAssumption
<1>1. CASE \E q \in Others : Moves(q)
  <2>1. PICK q \in Others : Moves(q) BY <1>1
  <2>2. prog[q].data = "program" BY <2>1 DEF Moves, Asking
  <2>3. ASSUME NEW s, ServedBy(q, s) \/ ErrsAt(q, s) PROVE desktop[Validator] = "out"
    BY <2>2, <2>3 DEF ServedBy, ErrsAt, AccountTyped
  <2> QED BY <2>1, <2>3 DEF Moves, GoesOn, BeginsAgain, GivesUp
<1>2. CASE UserCopies(Validator)
  BY <1>2 DEF UserCopies, AccountTyped
<1>3. CASE (\E q \in Others : Launch(q)) \/ \E s \in Session : SessionStep(s)
  BY <1>3 DEF Launch, SessionStep, Open, BeginPublish, EndPublish, PublishFails, Abort, MasterDies,
              Close
<1> QED BY <1>1, <1>2, <1>3, AccountCases

\* The first state.
LEMMA CarryingInit == Init => Carrying
  BY ValidatorAssumption DEF Init, AccountInit, Carrying, Early

\* Every step keeps what was carried.
LEMMA CarryingNext ==
  Knows /\ Serves /\ AccountTyped /\ Counted /\ Asking /\ Carrying /\ [Next]_vars => Carrying'
<1> SUFFICES ASSUME Knows, Serves, AccountTyped, Counted, Asking, Carrying, [Next]_vars
             PROVE  Carrying'
  OBVIOUS
<1> USE ValidatorAssumption
<1>1. CASE CopyRemotely
  <2>1. StartProbe("out", "copying") /\ check = "copy" BY <1>1 DEF CopyRemotely
  <2>2. carried = {} /\ desktop[Validator] # "out" BY <2>1 DEF Carrying, Early
  <2>3. prog'[Probe] = ProbeProgram("out") BY <2>1 DEF StartProbe, Knows
  <2>4. Delivered(ProbeProgram("out")) = {}
    BY ProbeFields, DeliveredFacts DEF ProbeLaunched, ProbeMissed
  <2>5. UNCHANGED <<carried, desktop>> /\ check' = "copying" BY <2>1 DEF StartProbe
  <2> QED BY <2>2, <2>3, <2>4, <2>5 DEF Carrying, Early, Delivered
<1>2. CASE PasteRemotely
  <2>1. StartProbe("paste", "pasting") /\ check = "start paste" BY <1>2 DEF PasteRemotely
  <2>2. failed = 0 => carried = {"out"} BY <2>1 DEF Carrying
  <2>3. prog'[Probe] = ProbeProgram("paste") BY <2>1 DEF StartProbe, Knows
  <2>4. Delivered(ProbeProgram("paste")) = {} /\ ~(/\ ProbeProgram("paste").stage = "done"
                                                   /\ ProbeProgram("paste").data = "in")
    BY ProbeFields, DeliveredFacts DEF ProbeLaunched, ProbeMissed
  <2>5. UNCHANGED <<carried, failed>> /\ check' = "pasting" BY <2>1 DEF StartProbe
  <2> QED BY <2>2, <2>3, <2>4, <2>5 DEF Carrying, Early, Delivered
<1>3. CASE JudgeCopy
  <2>1. PICK good \in BOOLEAN :
          Verdict(good, "paste") /\ (good => ~ProbeFailed /\ desktop[Validator] = "out")
    BY <1>3 DEF JudgeCopy
  <2>2. check' = "paste" /\ (failed' = 0 => desktop[Validator] = "out" /\ ~ErredProbe)
    BY <2>1, VerdictKeeps DEF ProbeFailed, ErredProbe
  <2>3. check = "copying" /\ carried' = carried BY <1>3 DEF JudgeCopy
  <2> QED BY <2>2, <2>3 DEF Carrying, Early
<1>4. CASE JudgePaste
  <2>1. PICK good \in BOOLEAN : Verdict(good, "open") /\ (good => prog[Probe].data = "in")
    BY <1>4 DEF JudgePaste
  <2>2. check' = "open" /\ (failed' = 0 => failed = 0 /\ prog[Probe].data = "in")
    BY <2>1, VerdictKeeps
  <2>3. check = "pasting" /\ carried' = carried /\ prog[Probe].stage = "done"
    BY <1>4 DEF JudgePaste
  <2>4. failed' = 0 => carried = {"out"} \union {"in"} BY <2>2, <2>3 DEF Carrying
  <2>5. {"out"} \union {"in"} = {"out", "in"} OBVIOUS
  <2> QED BY <2>2, <2>3, <2>4, <2>5 DEF Carrying, Early
<1>5. CASE CopyLocally
  <2>1. check = "paste" /\ carried' = carried BY <1>5 DEF CopyLocally
  <2>2. CASE check' = "start paste" /\ failed' = failed BY <2>1, <2>2 DEF Carrying, Early
  <2>3. CASE Tell(FALSE, "open")
    <3>1. check' = "open" /\ failed' # 0 BY <2>3, TellFixed DEF Tell, Counted
    <3> QED BY <2>1, <3>1 DEF Carrying, Early
  <2> QED BY <1>5, <2>2, <2>3 DEF CopyLocally
<1>6. CASE SetupFails
  <2>1. check' = "over" /\ status' = "nonzero" BY <1>6 DEF SetupFails, Tell, Told
  <2> QED BY <2>1 DEF Carrying, Early
<1>7. CASE SetupDone \/ CheckAgent \/ CheckShims \/ CheckTransport \/ CheckSessionEnv
  <2>1. check \in Early /\ UNCHANGED <<carried, desktop>>
    BY <1>7 DEF SetupDone, CheckAgent, CheckShims, CheckTransport, CheckSessionEnv,
                accountVars, Early
  <2>2. check' \in {"agent", "shims", "transport", "session env", "copy"}
    BY <1>7 DEF SetupDone, CheckAgent, CheckShims, CheckTransport, CheckSessionEnv, Verdict,
                Tell, Told
  <2> QED BY <2>1, <2>2 DEF Carrying, Early
<1>8. CASE CheckOpen
  <2>1. PICK good \in BOOLEAN : Verdict(good, "report") BY <1>8 DEF CheckOpen
  <2>2. check' = "report" /\ (failed' = 0 => failed = 0) BY <2>1, VerdictKeeps
  <2>3. check = "open" /\ carried' = carried BY <1>8 DEF CheckOpen
  <2> QED BY <2>2, <2>3 DEF Carrying, Early
<1>9. CASE Report
  <2>1. check = "report" /\ check' = "over" /\ carried' = carried
        /\ (status' = "zero" => failed = 0)
    BY <1>9 DEF Report, Tell, Told
  <2> QED BY <2>1 DEF Carrying, Early
<1>10. CASE ProbeStep
  <2>1. /\ UNCHANGED <<check, failed, status>>
        /\ Moves(Probe)
        /\ carried' = IF prog'[Probe].outcome = <<"performed", Validator>>
                        THEN carried \union {prog'[Probe].data} ELSE carried
    BY <1>10, ProgramMoves DEF ProbeStep, AccountTyped
  <2> DEFINE n == prog'[Probe]
  <2>2. Active(prog[Probe]) BY <2>1 DEF Moves
  <2>3. check \in {"copying", "pasting"} BY <2>2 DEF Active, Serves, ProbeInTurn
  <2>4. Delivered(prog[Probe]) = {} BY <2>2, DeliveredFacts DEF Active
  <2>5. CASE GoesOn(Probe)
    <3>1. n.stage # "done" /\ ~ServedProbe /\ n.outcome = prog[Probe].outcome
          /\ desktop' = desktop
      BY <2>2, <2>5 DEF GoesOn, Same, Asking
    <3>2. carried' = carried BY <2>1, <3>1 DEF ServedProbe
    <3>3. Delivered(n) = {} BY <3>1, DeliveredFacts
    <3> QED BY <2>1, <2>2, <2>3, <2>4, <3>1, <3>2, <3>3
            DEF Carrying, Early, Delivered, ErredProbe, Active
  <2>8. CASE BeginsAgain(Probe)
    <3>1. n.stage = "load" /\ n.outcome = <<"none", None>> /\ desktop' = desktop
      BY <2>8 DEF BeginsAgain
    <3>2. carried' = carried
      <4>1. <<"none", None>> # <<"performed", Validator>> OBVIOUS
      <4> QED BY <2>1, <3>1, <4>1
    <3>3. Delivered(n) = {} BY <3>1, DeliveredFacts
    <3> QED BY <2>1, <2>2, <2>3, <2>4, <3>1, <3>2, <3>3
            DEF Carrying, Early, Delivered, ErredProbe, Active
  <2>6. CASE GivesUp(Probe)
    <3>1. n.outcome[1] \notin Accepted /\ n.data = "" /\ desktop' = desktop
      BY <2>6 DEF GivesUp
    <3>2. n.outcome # <<"performed", Validator>>
      <4>1. n.outcome = <<"performed", Validator>> => n.outcome[1] = "performed" OBVIOUS
      <4> QED BY <3>1, <4>1 DEF Accepted
    <3>3. carried' = carried BY <2>1, <3>2
    <3>4. Delivered(n) = {} BY <3>1, DeliveredFacts
    <3> QED BY <2>1, <2>2, <2>3, <2>4, <3>1, <3>3, <3>4
            DEF Carrying, Early, Delivered, ErredProbe, Active
  <2>9. ASSUME NEW s, ErrsAt(Probe, s) PROVE Carrying'
    <3>1. n.stage = "done" /\ n.data = "" /\ n.outcome = <<"error", s>> BY <2>9 DEF ErrsAt, Over
    <3>2. n.outcome[1] = "error" /\ n.outcome # <<"performed", Validator>>
      <4>1. <<"error", s>>[1] = "error" /\ <<"error", s>> # <<"performed", Validator>> OBVIOUS
      <4> QED BY <3>1, <4>1
    <3>3. carried' = carried BY <2>1, <3>2
    <3>4. Delivered(n) = {} BY <3>2, DeliveredFacts
    <3>5. ErredProbe' BY <3>1, <3>2 DEF ErredProbe
    <3> QED BY <2>1, <2>3, <2>4, <3>1, <3>3, <3>4, <3>5 DEF Carrying, Early, Delivered
  <2>7. ASSUME NEW s, ServedBy(Probe, s) PROVE Carrying'
    <3>1. /\ n.stage = "done" /\ n.outcome = <<"performed", Validator>>
          /\ check = "copying" => n.data = "out" /\ desktop'[Validator] = "out"
          /\ check = "pasting" => n.data = desktop[Validator] /\ UNCHANGED desktop
      BY <2>1, <2>7, ProbeServed
    <3>2. carried' = carried \union {n.data} /\ Delivered(n) = {n.data}
      BY <2>1, <3>1, DeliveredFacts
    <3>3. CASE check = "copying"
      <4>1. carried = {} /\ n.data = "out" /\ check' = "copying"
        BY <2>1, <2>4, <3>1, <3>3 DEF Carrying
      <4>2. carried' = {"out"} /\ Delivered(n) = {"out"} BY <3>2, <4>1
      <4> QED BY <4>1, <4>2 DEF Carrying, Early, Delivered
    <3>4. CASE check = "pasting"
      <4>1. failed = 0 => carried = {"out"} BY <2>4, <3>4 DEF Carrying
      <4>2. failed = 0 => carried' = {"out"} \union Delivered(n) BY <3>2, <4>1
      <4>3. n.data = "in" => Delivered(n) = {"in"} BY <3>2
      <4>4. check' = "pasting" /\ failed' = failed BY <2>1, <3>4
      <4> QED BY <4>2, <4>3, <4>4 DEF Carrying, Early, Delivered
    <3> QED BY <2>3, <3>3, <3>4
  <2> QED BY <2>1, <2>5, <2>6, <2>7, <2>8, <2>9 DEF Moves
<1>11. CASE AccountStep
  <2>1. UNCHANGED <<check, failed, status, carried>> /\ prog'[Probe] = prog[Probe]
    BY <1>11, AccountCases DEF AccountStep
  <2>2. desktop'[Validator] = "out" => desktop[Validator] = "out" BY <1>11, OutIsTheProbes
  <2> QED BY <2>1, <2>2 DEF Carrying, Early, Delivered, ErredProbe
<1>12. CASE UNCHANGED vars
  BY <1>12 DEF vars, accountVars, validateVars, Carrying, Early, Delivered, ErredProbe
<1> QED BY <1>1, <1>2, <1>3, <1>4, <1>5, <1>6, <1>7, <1>8, <1>9, <1>10, <1>11, <1>12
    DEF Next, ValidateStep

-----------------------------------------------------------------------------
(* A run that nobody disturbs.                                             *)

\* The first state.
LEMMA CalmInit == Init => Calm
  BY ValidatorAssumption DEF Init, AccountInit, Calm

\* The checks leave the sessions alone.
LEMMA CalmValidate ==
  ASSUME Serves, Counted, Calm, ValidateStep PROVE Calm'
<1>1. UNCHANGED <<phase, shim, python>>
  BY DEF ValidateStep, SetupFails, SetupDone, CheckAgent, CheckShims, CheckTransport,
         CheckSessionEnv, CopyRemotely, JudgeCopy, CopyLocally, PasteRemotely, JudgePaste,
         CheckOpen, Report, StartProbe, ForgetProbe, accountVars
<1>2. quiet' => quiet
  BY DEF ValidateStep, SetupFails, SetupDone, CheckAgent, CheckShims, CheckTransport,
         CheckSessionEnv, CopyRemotely, JudgeCopy, CopyLocally, PasteRemotely, JudgePaste,
         CheckOpen, Report, StartProbe, ForgetProbe, Verdict
<1>3. CASE SetupFails
  <2>1. check' = "over" /\ ~quiet' BY <1>3 DEF SetupFails, Tell, Told
  <2> QED BY <1>1, <1>2, <2>1 DEF Calm
<1>4. CASE SetupDone
  <2>1. phase[Validator] \in {"ready", "lost"} /\ check' = "agent"
    BY <1>4 DEF SetupDone, Told
  <2> QED BY <1>1, <1>2, <2>1 DEF Calm
<1>5. CASE ~SetupFails /\ ~SetupDone
  <2>1. check \notin {"setup", "over"} /\ check' # "setup"
    BY <1>5 DEF ValidateStep, CheckAgent, CheckShims, CheckTransport, CheckSessionEnv,
                CopyRemotely, JudgeCopy, CopyLocally, PasteRemotely, JudgePaste, CheckOpen,
                Report, StartProbe, Verdict, Tell, Told
  <2> QED BY <1>1, <1>2, <2>1 DEF Calm
<1> QED BY <1>3, <1>4, <1>5

\* A session that is up stays up or is lost until the checks are over, and one that
\* was provisioned has a shim.
LEMMA CalmAccount ==
  ASSUME Serves, Knows, Calm, AccountTyped, AccountStep PROVE Calm'
<1> USE ValidatorAssumption
<1>0. PortsHeld /\ FileTrue /\ check' = check BY DEF Serves, AccountStep
<1>1. quiet' => /\ quiet /\ phase'[Validator] # "lost"
                /\ (phase[Validator] \in {"open", "publishing"} /\ phase'[Validator] = "ready"
                      => newest' = Validator)
  BY DEF AccountStep
<1>2. ASSUME NEW s \in Session, SessionStep(s), 
             s = Validator => (phase'[s] \in {"closed", "failed"} <=> check = "over")
      PROVE  Calm'
  <2>1. CASE s # Validator
    <3>1. phase'[Validator] = phase[Validator] /\ (shim # "missing" => shim' = shim)
          /\ python' = python
      BY <1>0, <1>2, <2>1 DEF SessionStep, Open, BeginPublish, EndPublish, PublishFails,
                              Abort, MasterDies, Close, PortsHeld
    <3>2. (shim # "missing" => shim' # "missing") BY <3>1
    <3> QED BY <1>0, <1>1, <3>1, <3>2 DEF Calm
  <2>2. CASE s = Validator
    <3>1. python' = python /\ (phase'[s] \in {"closed", "failed"} <=> check = "over")
      BY <1>2, <2>2 DEF SessionStep, Open, BeginPublish, EndPublish, PublishFails,
                        Abort, MasterDies, Close
    <3>2. CASE Open(s) \/ BeginPublish(s)
      <4>1. phase'[s] \in {"open", "publishing"} /\ phase[s] \in {"idle", "open"}
        BY <1>0, <3>2 DEF Open, BeginPublish, PortsHeld
      <4> QED BY <1>0, <1>1, <2>2, <3>1, <4>1 DEF Calm
    <3>3. CASE EndPublish(s)
      <4>1. phase'[s] = "ready" /\ phase[s] = "publishing" /\ (python => shim' # "missing")
        BY <1>0, <3>3 DEF EndPublish, PortsHeld
      <4> QED BY <1>0, <1>1, <2>2, <3>1, <4>1 DEF Calm
    <3>4. CASE PublishFails(s)
      <4>1. phase'[s] = "ready" /\ phase[s] \in {"open", "publishing"} /\ newest' = newest
        BY <1>0, <3>4 DEF PublishFails, PortsHeld
      <4>2. newest # Validator BY <1>0, <2>2, <4>1, PortAssumption DEF FileTrue
      <4>3. ~quiet' BY <1>1, <2>2, <4>1, <4>2
      <4> QED BY <1>0, <2>2, <3>1, <4>1, <4>3 DEF Calm
    <3>5. CASE MasterDies(s)
      <4>1. phase'[s] = "lost" /\ phase[s] = "ready" /\ shim' = shim
        BY <1>0, <3>5 DEF MasterDies, PortsHeld
      <4> QED BY <1>0, <1>1, <2>2, <3>1, <4>1 DEF Calm
    <3>6. CASE Close(s)
      <4>1. phase'[s] = "closed" /\ phase[s] \in {"ready", "lost"} /\ shim' = shim
        BY <1>0, <3>6 DEF Close, PortsHeld
      <4> QED BY <1>0, <1>1, <2>2, <3>1, <4>1 DEF Calm
    <3>7. CASE Abort(s)
      <4>1. phase'[s] = "failed" /\ phase[s] = "open" /\ shim' = shim
        BY <1>0, <3>7 DEF Abort, PortsHeld
      <4> QED BY <1>0, <1>1, <2>2, <3>1, <4>1 DEF Calm
    <3> QED BY <1>2, <3>2, <3>3, <3>4, <3>5, <3>6, <3>7 DEF SessionStep
  <2> QED BY <2>1, <2>2
<1>3. CASE UNCHANGED <<phase, shim, python>> BY <1>0, <1>1, <1>3 DEF Calm
<1>4. CASE \E q \in Others : Launch(q) \/ ProgramStep(q)
  <2>1. UNCHANGED <<phase, shim, python>>
    BY <1>4 DEF Launch, ProgramStep, Load, Unreachable, Exchange, Fallback
  <2> QED BY <1>3, <2>1
<1>5. CASE UserCopies(Validator)
  <2>1. UNCHANGED <<phase, shim, python>> BY <1>5 DEF UserCopies
  <2> QED BY <1>3, <2>1
<1> QED BY <1>2, <1>4, <1>5 DEF AccountStep

\* Every step keeps what an undisturbed run has of its session.
LEMMA CalmNext ==
  Knows /\ Serves /\ AccountTyped /\ Counted /\ Calm /\ [Next]_vars => Calm'
<1> SUFFICES ASSUME Knows, Serves, AccountTyped, Counted, Calm, [Next]_vars PROVE Calm'
  OBVIOUS
<1>1. CASE ProbeStep
  <2>1. UNCHANGED <<phase, shim, python, check>> /\ (quiet' => quiet)
    BY <1>1 DEF ProbeStep, ProgramStep, Load, Unreachable, Exchange, Fallback
  <2> QED BY <2>1 DEF Calm
<1>2. CASE UNCHANGED vars BY <1>2 DEF vars, accountVars, validateVars, Calm
<1> QED BY <1>1, <1>2, CalmValidate, CalmAccount DEF Next

-----------------------------------------------------------------------------
(* No check fails by itself.                                               *)

Right == quiet /\ python /\ shim = "good"

\* While a check of such a run is under way the session is up, and its port its own.
LEMMA RightIsUp ==
  ASSUME Serves, Calm, Right, check \notin {"setup", "over"}
  PROVE  Up /\ Reached /\ owner[port[Validator]] = Validator
  BY ValidatorAssumption DEF Calm, Right, Up, Reached, Serves, PortsHeld

\* A check that tells ok and starts nothing.
LEMMA FineCheck ==
  ASSUME Undefeated, Right, UNCHANGED desktop, failed' = failed, check # "paste",
         check' \notin {"copying", "start paste", "pasting"}
  PROVE  Undefeated'
  BY DEF Undefeated, Right

\* The first state.
LEMMA UndefeatedInit == Init => Undefeated
  BY DEF Init, Undefeated

\* In a run that nobody disturbs every check passes.
LEMMA UndefeatedValidate ==
  ASSUME Knows, Serves, AccountTyped, Counted, Calm, Undefeated, ValidateStep
  PROVE  Undefeated'
<1> USE ValidatorAssumption
<1>1. UNCHANGED <<shim, python>>
  BY DEF ValidateStep, SetupFails, SetupDone, CheckAgent, CheckShims, CheckTransport,
         CheckSessionEnv, CopyRemotely, JudgeCopy, CopyLocally, PasteRemotely, JudgePaste,
         CheckOpen, Report, StartProbe, ForgetProbe, accountVars
<1>q. quiet' => quiet
  BY DEF ValidateStep, SetupFails, SetupDone, CheckAgent, CheckShims, CheckTransport,
         CheckSessionEnv, CopyRemotely, JudgeCopy, CopyLocally, PasteRemotely, JudgePaste,
         CheckOpen, Report, StartProbe, ForgetProbe, Verdict
<1> SUFFICES ASSUME quiet', Right PROVE Undefeated' BY <1>1, <1>q DEF Undefeated, Right
<1>2. failed = 0 BY DEF Undefeated, Right
<1>3. check \notin {"setup", "over"} => Up /\ Reached /\ owner[port[Validator]] = Validator
  BY RightIsUp
<1>4. CASE SetupFails BY <1>4 DEF SetupFails
<1>5. CASE SetupDone
  <2>1. failed' = failed /\ check' = "agent" /\ UNCHANGED desktop /\ check # "paste"
    BY <1>5, TellFixed DEF SetupDone, Counted, accountVars
  <2> QED BY <2>1, FineCheck
<1>6. CASE CheckAgent
  <2>1. UNCHANGED desktop /\ check = "agent" BY <1>6 DEF CheckAgent, accountVars
  <2>2. CASE ForwardAgent
    <3>1. PICK good \in BOOLEAN : Verdict(good, "shims") /\ good
      BY <1>3, <1>6, <2>1, <2>2 DEF CheckAgent
    <3>2. failed' = failed /\ check' = "shims" BY <3>1, VerdictKeeps
    <3> QED BY <2>1, <3>2, FineCheck
  <2>3. CASE ~ForwardAgent
    <3>1. failed' = failed /\ check' = "shims" BY <1>6, <2>3 DEF CheckAgent
    <3> QED BY <2>1, <3>1, FineCheck
  <2> QED BY <2>2, <2>3
<1>7. CASE CheckShims
  <2>1. PICK good \in BOOLEAN : Verdict(good, "transport") /\ good
    BY <1>3, <1>7 DEF CheckShims, Right
  <2>2. UNCHANGED desktop /\ check = "shims" BY <1>7 DEF CheckShims, accountVars
  <2>3. failed' = failed /\ check' = "transport" BY <2>1, VerdictKeeps
  <2> QED BY <2>2, <2>3, FineCheck
<1>8. CASE CheckTransport
  <2>1. PICK good \in BOOLEAN : Verdict(good, "session env") /\ good
    BY <1>3, <1>8, PortAssumption DEF CheckTransport, Right
  <2>2. UNCHANGED desktop /\ check = "transport" BY <1>8 DEF CheckTransport, accountVars
  <2>3. failed' = failed /\ check' = "session env" BY <2>1, VerdictKeeps
  <2> QED BY <2>2, <2>3, FineCheck
<1>9. CASE CheckSessionEnv
  <2>1. UNCHANGED desktop /\ check = "session env" BY <1>9 DEF CheckSessionEnv, accountVars
  <2>2. Reached /\ shim # "missing" BY <1>3, <2>1 DEF Right
  <2>3. CASE Transport = "mosh"
    <3>1. Told(<<TRUE>>, "copy") BY <1>9, <2>2, <2>3 DEF CheckSessionEnv
    <3>2. failed' = failed /\ check' = "copy" BY <3>1, TellFixed DEF Counted
    <3> QED BY <2>1, <3>2, FineCheck
  <2>4. CASE Transport # "mosh"
    <3>1. PICK good \in BOOLEAN : Told(<<TRUE, good>>, "copy") /\ good
      BY <1>9, <2>2, <2>4 DEF CheckSessionEnv
    <3>2. /\ passed' = passed + IF good THEN 2 ELSE 1
          /\ failed' = failed + IF good THEN 0 ELSE 1
          /\ check' = "copy"
      BY <3>1, TellTwo DEF Counted
    <3>3. failed' = failed BY <3>1, <3>2 DEF Counted
    <3> QED BY <2>1, <3>2, <3>3, FineCheck
  <2> QED BY <2>3, <2>4
<1>10. CASE CopyRemotely \/ PasteRemotely
  <2>1. PICK data, next : StartProbe(data, next) /\ check \in {"copy", "start paste"}
                          /\ (next = "pasting" => check = "start paste")
                          /\ next \in {"copying", "pasting"}
    BY <1>10 DEF CopyRemotely, PasteRemotely
  <2>2. prog'[Probe] = ProbeProgram(data) BY <2>1 DEF StartProbe, Knows
  <2>3. ProbeProgram(data).stage = "load"
    BY <1>3, <2>1, ProbeFields DEF ProbeLaunched, ProbeMissed, Right
  <2>4. UNCHANGED <<failed, desktop>> /\ check' = next BY <2>1 DEF StartProbe
  <2> QED BY <2>1, <2>2, <2>3, <2>4 DEF Undefeated, Right
<1>11. CASE JudgeCopy
  <2>1. check = "copying" /\ prog[Probe].stage = "done" /\ UNCHANGED desktop
    BY <1>11 DEF JudgeCopy, ForgetProbe
  <2>2. ServedProbe /\ desktop[Validator] = "out" BY <2>1 DEF Undefeated, Right
  <2>3. ~ProbeFailed BY <2>2 DEF ServedProbe, ProbeFailed
  <2>4. PICK good \in BOOLEAN : Verdict(good, "paste") /\ good
    BY <1>3, <1>11, <2>1, <2>2, <2>3 DEF JudgeCopy
  <2>5. failed' = failed /\ check' = "paste" BY <2>4, VerdictKeeps
  <2> QED BY <2>1, <2>5, FineCheck
<1>12. CASE CopyLocally
  <2>1. check' = "start paste" /\ failed' = failed /\ desktop'[Validator] = "in"
    BY <1>12 DEF CopyLocally, AccountTyped
  <2> QED BY <1>2, <2>1 DEF Undefeated
<1>13. CASE JudgePaste
  <2>1. check = "pasting" /\ prog[Probe].stage = "done" /\ UNCHANGED desktop
    BY <1>13 DEF JudgePaste, ForgetProbe
  <2>2. ServedProbe /\ prog[Probe].data = "in" BY <2>1 DEF Undefeated, Right
  <2>3. ~ProbeFailed BY <2>2 DEF ServedProbe, ProbeFailed
  <2>4. PICK good \in BOOLEAN : Verdict(good, "open") /\ good
    BY <1>3, <1>13, <2>1, <2>2, <2>3 DEF JudgePaste
  <2>5. failed' = failed /\ check' = "open" BY <2>4, VerdictKeeps
  <2> QED BY <2>1, <2>5, FineCheck
<1>14. CASE CheckOpen
  <2>1. PICK good \in BOOLEAN : Verdict(good, "report") /\ good
    BY <1>3, <1>14 DEF CheckOpen, Right
  <2>2. UNCHANGED desktop /\ check = "open" BY <1>14 DEF CheckOpen, accountVars
  <2>3. failed' = failed /\ check' = "report" BY <2>1, VerdictKeeps
  <2> QED BY <2>2, <2>3, FineCheck
<1>15. CASE Report
  <2>1. failed' = failed /\ check' = "over" BY <1>15, TellFixed DEF Report, Tell, Counted
  <2>2. UNCHANGED desktop /\ check = "report" BY <1>15 DEF Report, accountVars
  <2> QED BY <2>1, <2>2, FineCheck
<1> QED BY <1>4, <1>5, <1>6, <1>7, <1>8, <1>9, <1>10, <1>11, <1>12, <1>13, <1>14, <1>15
    DEF ValidateStep

\* A probe of such a run is served by its session.
LEMMA UndefeatedProbe ==
  ASSUME Knows, Serves, AccountTyped, Asking, Calm, Undefeated, ProbeStep
  PROVE  Undefeated'
<1> USE ValidatorAssumption
<1>1. Moves(Probe) BY ProgramMoves DEF ProbeStep, AccountTyped
<1>2. UNCHANGED <<shim, python, check, failed>> /\ (quiet' => quiet) BY <1>1 DEF ProbeStep, Moves
<1> SUFFICES ASSUME Right, quiet' PROVE Undefeated' BY <1>2 DEF Undefeated, Right
<1> DEFINE n == prog'[Probe]
<1>3. Active(prog[Probe]) BY <1>1 DEF Moves
<1>4. check \in {"copying", "pasting"} BY <1>3 DEF Active, Serves, ProbeInTurn
<1>5. n.stage = "done" => n.outcome \in Accepted \X {Validator}
  <2>1. prog[Probe].env = {"token", "port"} /\ prog[Probe].by = Validator
    BY <1>3 DEF Asking
  <2>2. phase[Validator] = "ready" BY <1>4, RightIsUp DEF Up
  <2>3. Next /\ Probe \in Program BY DEF Next
  <2>4. OpenServes(Probe) BY <2>3, StepOpenServes
  <2> QED BY <1>3, <2>1, <2>2, <2>4 DEF OpenServes, Ends, Active
<1>6. CASE GoesOn(Probe)
  <2>1. n.stage \notin {"idle", "done"} /\ UNCHANGED desktop BY <1>6 DEF GoesOn
  <2> QED BY <1>2, <1>4, <2>1 DEF Undefeated, Right
<1>7. CASE GivesUp(Probe)
  <2>1. n.stage = "done" /\ n.outcome[1] \notin Accepted BY <1>7 DEF GivesUp, Over
  <2>2. n.outcome \in Accepted \X {Validator} => n.outcome[1] \in Accepted
    <3> HIDE DEF n
    <3> QED OBVIOUS
  <2> QED BY <1>5, <2>1, <2>2
<1>8. ASSUME NEW s, ServedBy(Probe, s) PROVE Undefeated'
  <2>1. /\ n.stage = "done" /\ n.outcome = <<"performed", Validator>>
        /\ check = "copying" => n.data = "out" /\ desktop'[Validator] = "out"
        /\ check = "pasting" => n.data = desktop[Validator] /\ UNCHANGED desktop
    BY <1>1, <1>8, ProbeServed
  <2> QED BY <1>2, <1>4, <2>1 DEF Undefeated, Right, ServedProbe
<1>9. CASE BeginsAgain(Probe)
  <2>1. n.stage \notin {"idle", "done"} /\ UNCHANGED desktop BY <1>9 DEF BeginsAgain
  <2> QED BY <1>2, <1>4, <2>1 DEF Undefeated, Right
<1>10. ASSUME NEW s, ErrsAt(Probe, s) PROVE FALSE
  <2>1. n.outcome = <<"error", s>> BY <1>10 DEF ErrsAt
  <2>2. <<"error", s>>[1] = "error" OBVIOUS
  <2>3. n.outcome[1] # "error" BY DEF ProbeStep
  <2> QED BY <2>1, <2>2, <2>3
<1> QED BY <1>1, <1>6, <1>7, <1>8, <1>9, <1>10 DEF Moves

\* Only a change of the desktop or of the session disturbs the run.
LEMMA UndefeatedAccount ==
  ASSUME Knows, Serves, AccountTyped, Counted, Calm, Undefeated, AccountStep
  PROVE  Undefeated'
<1> USE ValidatorAssumption
<1>1. /\ UNCHANGED <<check, failed>> /\ prog'[Probe] = prog[Probe]
      /\ quiet' => quiet /\ desktop'[Validator] = desktop[Validator]
  BY AccountCases DEF AccountStep
<1>2. python' = python /\ (shim # "missing" => shim' = shim)
  <2>1. CASE \E s \in Session : SessionStep(s)
    BY <2>1 DEF SessionStep, Open, BeginPublish, EndPublish, PublishFails, Abort, MasterDies, Close
  <2>2. CASE (\E q \in Others : Launch(q) \/ Moves(q)) \/ UserCopies(Validator)
    BY <2>2 DEF Launch, Moves, UserCopies
  <2> QED BY <2>1, <2>2, AccountCases
<1>3. CASE shim = "missing" /\ quiet /\ python
  <2>1. check \in {"setup"} BY <1>3 DEF Calm
  <2>2. failed = 0 BY <2>1 DEF Counted
  <2> QED BY <1>1, <2>1, <2>2 DEF Undefeated
<1>4. CASE Right BY <1>1, <1>2, <1>4 DEF Undefeated, Right, ServedProbe
<1>5. CASE ~(quiet /\ python) \/ (shim # "missing" /\ shim # "good")
  BY <1>1, <1>2, <1>5 DEF Undefeated
<1> QED BY <1>3, <1>4, <1>5 DEF Right

\* No step of an undisturbed run tells a failure.
LEMMA UndefeatedNext ==
  /\ Knows /\ Serves /\ AccountTyped /\ Counted /\ Asking /\ Calm /\ Undefeated
  /\ [Next]_vars
  => Undefeated'
<1>1. Undefeated /\ UNCHANGED vars => Undefeated'
  BY DEF vars, accountVars, validateVars, Undefeated, ServedProbe
<1> QED BY <1>1, UndefeatedValidate, UndefeatedProbe, UndefeatedAccount DEF Next

-----------------------------------------------------------------------------
(* The theorems.                                                           *)

\* The invariant of a validation holds, whatever the sessions and programs of the
\* account do.
THEOREM AlwaysVInv == Spec => [](Knows /\ Serves /\ VInv)
<1>1. Init => VInv
  BY TypedInit, CountedInit, AskingInit, CarryingInit, CalmInit, UndefeatedInit DEF VInv
<1>2. Knows /\ Serves /\ VInv /\ [Next]_vars => VInv'
  BY TypedNext, CountedNext, AskingNext, CarryingNext, CalmNext, UndefeatedNext DEF VInv
<1> QED BY <1>1, <1>2, ProgramsHoldTheirToken, SessionsHoldTheirPorts, PTL DEF Spec

\* Every variable keeps its type; a port never has two sessions.
THEOREM TypeCorrect == Spec => []TypeOK
<1>1. Knows /\ Serves /\ VInv => TypeOK
  BY DEF Knows, Serves, PortsHeld, FileTrue, VInv, AccountTyped, ProgramTyped, Stages,
         Counted, TypeOK
<1> QED BY <1>1, AlwaysVInv, PTL

\* A validation that exits with status zero has carried a value to the desktop and
\* one from it over its own session's forward, whatever else the account's sessions
\* and programs did (checkCopy and checkPaste in validate.go).
THEOREM PassedHasCarried == Spec => []PassedMeansCarried
<1>1. VInv => PassedMeansCarried BY DEF VInv, Counted, Carrying, PassedMeansCarried
<1> QED BY <1>1, AlwaysVInv, PTL

\* A validation that nobody disturbs, of a host with python3 and a shim that is
\* whole, does not exit with a failure (Run in validate.go).
THEOREM QuietPasses == Spec => []QuietRunPasses
<1>1. VInv => QuietRunPasses BY DEF VInv, Counted, Undefeated, QuietRunPasses, Knows
<1> QED BY <1>1, AlwaysVInv, PTL

\* The exit status is a failure exactly if a line FAIL was told, and no check is
\* left out after a set-up that succeeds (Run and report in validate.go).
THEOREM StatusIsTrue == Spec => []StatusTellsChecks
<1>1. ASSUME VInv, status # "none" PROVE status = "nonzero" <=> failed > 0
  BY <1>1 DEF VInv, Counted
<1>2. ASSUME VInv, status # "none", passed > 0
      PROVE  passed + failed >= IF ForwardAgent THEN 10 ELSE 9
  <2>1. Enough("over", passed + failed) BY <1>2 DEF VInv, Counted
  <2>2. passed + failed >= 9 + AgentLine BY <2>1 DEF Enough
  <2> QED BY <2>2 DEF AgentLine
<1>3. VInv => StatusTellsChecks BY <1>1, <1>2 DEF StatusTellsChecks
<1> QED BY <1>3, AlwaysVInv, PTL

\* If the directories that only link to a slush-shim all link to the same one, a
\* wrapper that was handed a request does not hand it over again, however PATH is
\* laid out and wherever the first wrapper was started from (find_fallback in
\* shim.py).
THEOREM NoWrapperLoops ==
  ASSUME OneLinkedShim
  PROVE  Spec => NoWrapperLoop
<1>1. Knows /\ Serves /\ VInv /\ [Next]_vars =>
        [\A q \in Program :
           prog[q].stage = "fallback" /\ prog'[q].stage = "load" => ~prog[q].handed]_accountVars
  BY HandedEnds DEF VInv
<1> QED BY <1>1, AlwaysVInv, PTL DEF Spec, NoWrapperLoop
=============================================================================
