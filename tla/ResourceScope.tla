----------------------------- MODULE ResourceScope -----------------------------
(***************************************************************************)
(* What one slush process promises about the things it sets up: the local  *)
(* listener, the directory of the control socket, the ssh master, the      *)
(* reverse forward on the remote host and the terminal client.             *)
(*                                                                         *)
(* A resource is set up only when what it needs is there, and goes only    *)
(* when nothing that needs it is left; once the process has begun to clean *)
(* up it sets up nothing more; it ends by itself only when nothing is      *)
(* left.  A signal that kills it takes only what the kernel closes with    *)
(* the process.  This is the abstract specification SessionLifecycle       *)
(* implements; it stands for no code of its own.                           *)
(***************************************************************************)
EXTENDS FiniteSets

CONSTANTS
  Resource,  \* the things a process may hold
  Needs,     \* what each of them needs while it is there, a set for each
  Own        \* those that vanish with the process

VARIABLES phase, held

scopeVars == <<phase, held>>

ScopeInit == phase = "acquiring" /\ held = {}

Acquire(r) ==
  /\ phase = "acquiring"
  /\ r \notin held
  /\ Needs[r] \subseteq held
  /\ held' = held \union {r}
  /\ UNCHANGED phase

\* Resources go, because they are given up or because they are lost.
Release(R) ==
  /\ R \subseteq held /\ R # {}
  /\ \A r \in held \ R : Needs[r] \cap R = {}
  /\ held' = held \ R
  /\ UNCHANGED phase

\* After a crash nobody keeps what the survivors need.
Decay(R) ==
  /\ phase = "crashed"
  /\ R \subseteq held
  /\ held' = held \ R
  /\ UNCHANGED phase

StopAcquiring ==
  /\ phase = "acquiring"
  /\ phase' = "releasing"
  /\ UNCHANGED held

Finish ==
  /\ phase \in {"acquiring", "releasing"}
  /\ held = {}
  /\ phase' = "over"
  /\ UNCHANGED held

Crash ==
  /\ phase \in {"acquiring", "releasing"}
  /\ phase' = "crashed"
  /\ held' = held \ Own

ScopeNext ==
  \/ \E r \in Resource : Acquire(r)
  \/ \E R \in SUBSET held : Release(R) \/ Decay(R)
  \/ StopAcquiring \/ Finish \/ Crash

ScopeSpec == ScopeInit /\ [][ScopeNext]_scopeVars
=============================================================================
