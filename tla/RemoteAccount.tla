----------------------------- MODULE RemoteAccount -----------------------------
(***************************************************************************)
(* Several slush sessions and the programs of one remote account: which    *)
(* desktop a wrapper (pbcopy, open, ...) reaches when sessions come and    *)
(* go, ports are used again and programs outlive the session they began    *)
(* in.                                                                     *)
(*                                                                         *)
(* Each session has a desktop of its own, a token of its own (the session  *)
(* stands for it) and, while its master lives, a forward from a port of    *)
(* the remote host (bindClipboardForward in tunnel.go).  All of them write *)
(* one file slush-env (writeSessionEnv in provision.go).  A wrapper takes  *)
(* its credentials from its environment and that file (load_token_port in  *)
(* shim.py), makes one request, or becomes the native tool                 *)
(* (find_fallback).  How an exchange proceeds or is cut is                 *)
(* ClipboardExchange's subject; here it is one step.                       *)
(***************************************************************************)
EXTENDS Naturals, SequencesExt

CONSTANTS
  Session,      \* slush processes; also their tokens and their desktops
  Port,         \* ports of the remote host
  DefaultPort,  \* DEFAULT_PORT, where nobody listens
  Program,      \* runs of a wrapper
  Env,          \* what a program inherits of its session: "token", "port"
  Path,         \* values of PATH: sequences of directories
  WrapperDirs,  \* directories where the name leads to a slush-shim
  ShimDirs,     \* directories that hold a slush-shim themselves
  ShimOf,       \* the slush-shim the name leads to, of each of WrapperDirs
  NativeDirs,   \* directories that hold the native tool
  None          \* no session, no port, nothing

ASSUME PortAssumption == None \notin Port \union Session /\ DefaultPort \notin Port \union {None}
ASSUME EnvAssumption  == Env \subseteq SUBSET {"token", "port"}
ASSUME DirAssumption  ==
  /\ WrapperDirs \cap NativeDirs = {} /\ ShimOf \in [WrapperDirs -> STRING]
  /\ Path \subseteq Seq(STRING)

VARIABLES
  phase,     \* of each session: "idle", "open", "publishing", "ready", "lost", "closed", "failed"
  port,      \* the port each session was given
  owner,     \* of each port: the session whose forward listens there
  slushEnv,  \* the file: a token and a port, each None in a truncated file
  newest,    \* history: the session that wrote the file last
  shim,      \* bin/slush-shim: "missing", "good" or "empty"
  python,    \* the remote host has python3
  desktop,   \* the clipboard of each session's desktop
  prog       \* the programs

accountVars == <<phase, port, owner, slushEnv, newest, shim, python, desktop, prog>>

Idle == [stage |-> "idle", by |-> None, env |-> {}, token |-> None, port |-> None, dir |-> None,
         path |-> <<>>, handed |-> FALSE, data |-> None, readAt |-> None, outcome |-> <<"none", None>>]

AccountInit ==
  /\ phase = [s \in Session |-> "idle"]
  /\ port = [s \in Session |-> None]
  /\ owner = [p \in Port |-> None]
  /\ slushEnv = [token |-> None, port |-> None]
  /\ newest = None
  /\ shim \in {"missing", "good", "empty"}
  /\ python \in {shim # "missing", TRUE}
  /\ desktop = [s \in Session |-> "old"]
  /\ prog = [q \in Program |-> Idle]

-----------------------------------------------------------------------------
(* Sessions.                                                               *)

\* The busy ports are refused by the remote host, and another is tried.
OpenAnywhere(s) ==
  /\ phase[s] = "idle"
  /\ \E p \in Port :
       /\ port' = [port EXCEPT ![s] = p]
       /\ owner' = IF owner[p] = None THEN [owner EXCEPT ![p] = s] ELSE owner
  /\ phase' = [phase EXCEPT ![s] = "open"]
  /\ UNCHANGED <<slushEnv, newest, shim, python, desktop, prog>>
Open(s) ==
  /\ phase[s] = "idle"
  /\ \E p \in {x \in Port : owner[x] = None} :
       /\ port' = [port EXCEPT ![s] = p]
       /\ owner' = [owner EXCEPT ![p] = s]
  /\ phase' = [phase EXCEPT ![s] = "open"]
  /\ UNCHANGED <<slushEnv, newest, shim, python, desktop, prog>>

\* The shell truncates the file and printf writes it.
BeginPublish(s) ==
  /\ phase[s] = "open"
  /\ slushEnv' = [token |-> None, port |-> None]
  /\ phase' = [phase EXCEPT ![s] = "publishing"]
  /\ UNCHANGED <<port, owner, newest, shim, python, desktop, prog>>

\* The install script may leave an empty shim, see Provision.
EndPublishTokenOnly(s) ==
  /\ phase[s] = "publishing"
  /\ slushEnv' = [token |-> s, port |-> None]
  /\ newest' = s
  /\ phase' = [phase EXCEPT ![s] = "ready"]
  /\ UNCHANGED <<port, owner, shim, python, desktop, prog>>
EndPublish(s) ==
  /\ phase[s] = "publishing"
  /\ slushEnv' = [token |-> s, port |-> port[s]]
  /\ newest' = s
  /\ shim' \in IF shim = "missing" /\ python THEN {"good", "empty"} ELSE {shim}
  /\ phase' = [phase EXCEPT ![s] = "ready"]
  /\ UNCHANGED <<port, owner, python, desktop, prog>>

\* Provision fails, and the session goes on without it.
PublishFails(s) ==
  /\ phase[s] \in {"open", "publishing"}
  /\ phase' = [phase EXCEPT ![s] = "ready"]
  /\ UNCHANGED <<port, owner, slushEnv, newest, shim, python, desktop, prog>>

Released(s) == [owner EXCEPT ![port[s]] = IF @ = s THEN None ELSE @]

\* The set-up fails after the remote host took the forward.
Abort(s) ==
  /\ phase[s] = "open"
  /\ phase' = [phase EXCEPT ![s] = "failed"]
  /\ owner' = Released(s)
  /\ UNCHANGED <<port, slushEnv, newest, shim, python, desktop, prog>>

MasterDies(s) ==
  /\ phase[s] = "ready"
  /\ phase' = [phase EXCEPT ![s] = "lost"]
  /\ owner' = Released(s)
  /\ UNCHANGED <<port, slushEnv, newest, shim, python, desktop, prog>>

Close(s) ==
  /\ phase[s] \in {"ready", "lost"}
  /\ phase' = [phase EXCEPT ![s] = "closed"]
  /\ owner' = Released(s)
  /\ UNCHANGED <<port, slushEnv, newest, shim, python, desktop, prog>>

UserCopies(s) ==
  /\ phase[s] \in {"ready", "lost"} /\ desktop[s] # "user"
  /\ desktop' = [desktop EXCEPT ![s] = "user"]
  /\ UNCHANGED <<phase, port, owner, slushEnv, newest, shim, python, prog>>

-----------------------------------------------------------------------------
(* Programs: main of shim.py with its copy, the paste differs in data.     *)

WrapperIn(path) == SelectInSeq(path, LAMBDA d : d \in WrapperDirs)

\* by is the session whose environment the program inherits, or None; some of
\* the two variables may be missing.
Launched(by, env, path, data) ==
  [Idle EXCEPT !.stage = "load", !.by = by, !.env = env, !.path = path, !.data = data,
               !.dir = path[WrapperIn(path)],
               !.token = IF "token" \in env THEN by ELSE None,
               !.port  = IF "port" \in env THEN port[by] ELSE None]

Launch(q) ==
  /\ prog[q].stage = "idle" /\ shim = "good" /\ python
  /\ \E by \in {s \in Session : phase[s] \in {"ready", "lost", "closed"}} \union {None},
        env \in Env, path \in Path :
       /\ by = None <=> env = {}
       /\ prog' = [prog EXCEPT ![q] = Launched(by, env, path, "program")]
  /\ UNCHANGED <<phase, port, owner, slushEnv, newest, shim, python, desktop>>

\* load_token_port: the file fills in what the environment lacks.
Credentials(q) ==
  [token |-> IF prog[q].token # None THEN prog[q].token ELSE slushEnv.token,
   port  |-> IF prog[q].port # None THEN prog[q].port ELSE slushEnv.port]

LoadNoDefault(q) ==
  /\ prog[q].stage = "load"
  /\ LET found == Credentials(q)
     IN prog' = [prog EXCEPT ![q].token = found.token, ![q].port = found.port,
                             ![q].stage = IF found.token = None THEN "fallback" ELSE "connect"]
  /\ UNCHANGED <<phase, port, owner, slushEnv, newest, shim, python, desktop>>
Load(q) ==
  /\ prog[q].stage = "load"
  /\ LET found == Credentials(q)
     IN prog' = [prog EXCEPT ![q].token = found.token,
                             ![q].port = IF found.port = None THEN DefaultPort ELSE found.port,
                             ![q].readAt =
                               IF prog[q].token = None /\ found.token # None THEN newest ELSE None,
                             ![q].stage = IF found.token = None THEN "fallback" ELSE "connect"]
  /\ UNCHANGED <<phase, port, owner, slushEnv, newest, shim, python, desktop>>

AnyToken(q, s) == TRUE
Authorized(q, s) == prog[q].token = s

\* What is left of a program is what it has done.
Ended(data, outcome) == [Idle EXCEPT !.stage = "done", !.data = data, !.outcome = outcome]
Finish(q, outcome) == prog' = [prog EXCEPT ![q] = Ended("", outcome)]

Connected(q) == prog[q].port \in Port /\ owner[prog[q].port] # None

Unreachable(q) ==
  /\ prog[q].stage = "connect" /\ ~Connected(q)
  /\ prog' = [prog EXCEPT ![q].stage = "fallback"]
  /\ UNCHANGED <<phase, port, owner, slushEnv, newest, shim, python, desktop>>

\* do_copy and do_paste through the forward, at the server of the owner.  A request
\* that is accepted may still end with an error (the tool fails, or is too slow), a
\* copy with or without having changed the desktop.
Exchange(q) ==
  /\ prog[q].stage = "connect" /\ Connected(q)
  /\ LET s == owner[prog[q].port]
         after == IF prog[q].data = "paste" THEN desktop
                  ELSE [desktop EXCEPT ![s] = prog[q].data]
     IN \/ /\ Authorized(q, s)
           /\ desktop' = after
           /\ prog' = [prog EXCEPT ![q] =
                Ended(IF @.data = "paste" THEN desktop[s] ELSE @.data, <<"performed", s>>)]
        \/ /\ Authorized(q, s)
           /\ desktop' \in {desktop, after}
           /\ Finish(q, <<"error", s>>)
        \/ /\ ~Authorized(q, s)
           /\ Finish(q, <<"refused", s>>)
           /\ UNCHANGED desktop
  /\ UNCHANGED <<phase, port, owner, slushEnv, newest, shim, python>>

\* find_fallback: the place in PATH of the first directory that has the name, is not
\* the wrapper's own and holds no slush-shim, and where the name does not lead to
\* the wrapper's own shim; 0 without one.
ToolOutside(q) ==
  SelectInSeq(prog[q].path,
    LAMBDA d : d # prog[q].dir /\ d \notin ShimDirs /\ d \in NativeDirs \union WrapperDirs)
Tool(q) ==
  SelectInSeq(prog[q].path,
    LAMBDA d : /\ d # prog[q].dir /\ d \notin ShimDirs
               /\ \/ d \in NativeDirs
                  \/ d \in WrapperDirs /\ ShimOf[d] # ShimOf[prog[q].dir])

\* A wrapper of another shim begins again, with what its environment gave it.
HandedOver(q) ==
  [Launched(prog[q].by, prog[q].env, prog[q].path, prog[q].data) EXCEPT
     !.dir = prog[q].path[Tool(q)], !.handed = TRUE]

\* exec_fallback, run_copy_fallback
Fallback(q) ==
  /\ prog[q].stage = "fallback"
  /\ IF Tool(q) = 0 THEN Finish(q, <<"failed", None>>)
     ELSE IF prog[q].path[Tool(q)] \in WrapperDirs
       THEN prog' = [prog EXCEPT ![q] = HandedOver(q)]
       ELSE Finish(q, <<"native", None>>)
  /\ UNCHANGED <<phase, port, owner, slushEnv, newest, shim, python, desktop>>

ProgramStep(q) == Load(q) \/ Unreachable(q) \/ Exchange(q) \/ Fallback(q)

SessionStep(s) ==
  \/ Open(s) \/ BeginPublish(s) \/ EndPublish(s) \/ PublishFails(s)
  \/ Abort(s) \/ MasterDies(s) \/ Close(s)

-----------------------------------------------------------------------------
Ends(q) == prog[q].stage \notin {"idle", "done"} /\ prog'[q].stage = "done"

\* Accepted by a server: the clipboard is the server's to change from then on.
Accepted == {"performed", "error"}

\* A request is accepted by no other desktop than that of the session whose
\* token the program inherited or, if it inherited none, read in the file, also
\* when its port belongs to another session by now or comes from another.
OwnDesktopOnly ==
  [][\A q \in Program :
       /\ Ends(q)
       /\ prog'[q].outcome[1] \in Accepted
       => prog'[q].outcome[2] =
            IF "token" \in prog[q].env THEN prog[q].by ELSE prog[q].readAt]_accountVars

\* A program that ends while the session it began in is up has been served by
\* that session, or has had its error from it, whatever other sessions did to the
\* shared file and the ports.
OpenSessionServes ==
  [][\A q \in Program :
       /\ Ends(q)
       /\ prog[q].env = {"token", "port"} /\ phase[prog[q].by] = "ready"
       => prog'[q].outcome \in Accepted \X {prog[q].by}]_accountVars

\* A program that was started outside of every session and ends while the session
\* that last wrote the file is up has been served by that session, or has had its
\* error from it, unless it read the file before.
NewestSessionServes ==
  [][\A q \in Program :
       /\ Ends(q)
       /\ prog[q].env = {} /\ prog[q].readAt = newest
       /\ newest # None /\ phase[newest] = "ready"
       => prog'[q].outcome \in Accepted \X {newest}]_accountVars

\* A wrapper hands over to one of another shim at most once: with directories in
\* PATH that hold a slush-shim, and others that only link to one, no wrapper that
\* was handed a request passes it on to a wrapper again, so that they never take
\* turns.  It takes OneLinkedShim.
NoWrapperLoop ==
  [][\A q \in Program :
       prog[q].stage = "fallback" /\ prog'[q].stage = "load" => ~prog[q].handed]_accountVars

\* The directories that only link to a slush-shim all link to the same one.
OneLinkedShim ==
  \A d, e \in WrapperDirs \ ShimDirs : ShimOf[d] = ShimOf[e]
=============================================================================
