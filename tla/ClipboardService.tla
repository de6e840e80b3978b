---------------------------- MODULE ClipboardService ----------------------------
(***************************************************************************)
(* What the clipboard service promises a program on the remote host that   *)
(* copies, pastes or opens a URL, however the exchange goes:               *)
(*   - the desktop performs each request at most once;                     *)
(*   - a request that succeeds has been performed, before it succeeded;    *)
(*   - a request handed to the native tool of the remote host is never     *)
(*     performed on the local desktop as well;                             *)
(*   - a request that fails may have been performed, or still be.          *)
(* This is the abstract specification ClipboardExchange implements; it     *)
(* stands for no code of its own.                                          *)
(***************************************************************************)
EXTENDS Sequences, Naturals

CONSTANTS
  Request,  \* the requests made
  Value,    \* clipboard contents a local user may set
  NotYet    \* not performed

VARIABLES
  verb,      \* what each request asks for
  content,   \* the data it carries
  exact,     \* those whose client checks that a pasted body is complete
  desktop,   \* the clipboard of the local desktop
  performed, \* NotYet, or what was done: the data, and whether it worked
  outcome,   \* "pending", then "ok", "error" or "native"
  output     \* what a paste printed

serviceVars == <<verb, content, exact, desktop, performed, outcome, output>>

ServiceInit ==
  /\ \A r \in Request : verb[r] \in {"COPY", "PASTE", "OPEN"}
  /\ desktop = <<>>
  /\ performed = [r \in Request |-> NotYet]
  /\ outcome = [r \in Request |-> "pending"]
  /\ output = [r \in Request |-> <<>>]

\* The desktop performs r, with or without success.
Perform(r) ==
  /\ performed[r] = NotYet /\ outcome[r] # "native"
  /\ \E ok \in BOOLEAN :
       \/ /\ verb[r] = "COPY"
          /\ desktop' \in IF ok THEN {content[r]} ELSE {desktop, content[r]}
          /\ performed' = [performed EXCEPT ![r] = [data |-> content[r], ok |-> ok]]
       \/ /\ verb[r] = "PASTE"
          /\ UNCHANGED desktop
          /\ performed' = [performed EXCEPT ![r] =
                             [data |-> IF ok THEN desktop ELSE <<>>, ok |-> ok]]
       \/ /\ verb[r] = "OPEN"
          /\ UNCHANGED desktop
          /\ performed' = [performed EXCEPT ![r] = [data |-> content[r], ok |-> ok]]
  /\ UNCHANGED <<verb, content, exact, outcome, output>>

Succeed(r) ==
  /\ outcome[r] = "pending"
  /\ performed[r] # NotYet /\ performed[r].ok
  /\ outcome' = [outcome EXCEPT ![r] = "ok"]
  /\ IF verb[r] = "PASTE"
     THEN \E n \in 0..Len(performed[r].data) :
            /\ r \in exact => n = Len(performed[r].data)
            /\ output' = [output EXCEPT ![r] = SubSeq(performed[r].data, 1, n)]
     ELSE UNCHANGED output
  /\ UNCHANGED <<verb, content, exact, desktop, performed>>

Fail(r) ==
  /\ outcome[r] = "pending"
  /\ outcome' = [outcome EXCEPT ![r] = "error"]
  /\ UNCHANGED <<verb, content, exact, desktop, performed, output>>

HandOver(r) ==
  /\ outcome[r] = "pending"
  /\ performed[r] = NotYet
  /\ outcome' = [outcome EXCEPT ![r] = "native"]
  /\ UNCHANGED <<verb, content, exact, desktop, performed, output>>

SetDesktop(v) ==
  /\ desktop' = v
  /\ UNCHANGED <<verb, content, exact, performed, outcome, output>>

ServiceNext ==
  \/ \E r \in Request : Perform(r) \/ Succeed(r) \/ Fail(r) \/ HandOver(r)
  \/ \E v \in Value : SetDesktop(v)

ServiceSpec == ServiceInit /\ [][ServiceNext]_serviceVars
=============================================================================
