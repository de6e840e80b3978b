----------------------------- MODULE HostCompletion -----------------------------
(***************************************************************************)
(* Completion of the host argument (internal/command/hosts.go): aliases    *)
(* from the ssh configuration and the files it includes, and hosts from    *)
(* known_hosts, without running ssh.                                       *)
(*                                                                         *)
(* readSSHConfig calls itself for every file an Include names.  A frame of *)
(* stack is one call: its depth in the stack is the parameter depth plus   *)
(* one, rest the lines it has not scanned, calls the files the current     *)
(* Include still has to read.                                              *)
(*                                                                         *)
(* A line is the sequence of its blank-separated fields with the comment   *)
(* gone (sshConfigFields); a field is a sequence of atoms, where "=" is an *)
(* atom of its own, keywords are lower case, and an unterminated quote is  *)
(* the atom "unterminated".  Paths are clean and absolute.                 *)
(***************************************************************************)
EXTENDS Naturals, SequencesExt

CONSTANTS
  File,        \* paths of files an ssh configuration may be spread over
  Contents,    \* what the files may hold: a sequence of lines for each
  KnownHosts,  \* what known_hosts may hold
  Typed,       \* what may be completed: a user ("" for none) and a prefix
  MainConfig,  \* ~/.ssh/config, or what -F names
  Unreadable,  \* the content of a path that cannot be read
  Glob,        \* for each pattern of an Include, the files it matches, in order
  Unlisted,    \* words with a wildcard, a negation, a hash bar, a marker, a dash
  HostOf,      \* known_hosts names of the form [host]:port, and their hosts
  StartsWith,  \* pairs <<host, prefix>>
  MaxDepth     \* 16

ASSUME MainAssumption  == MainConfig \in File
ASSUME DepthAssumption == MaxDepth \in Nat \ {0}

ASSUME FileAssumption == IsFiniteSet(File) /\ Glob \in [DOMAIN Glob -> Seq(File)]

-----------------------------------------------------------------------------
(* The lines of a configuration.                                           *)

\* ssh_config: a keyword and its arguments, with or without one "=" between.
Arguments(line) ==
  (ToSet(Tail(line[1])) \union UNION {ToSet(field) : field \in ToSet(Tail(line))}) \ {"="}
IsBroken(line) == line = <<>> \/ \E field \in ToSet(line) : "unterminated" \in ToSet(field)

\* Only the first "=" of a directive is an atom of its own, at the end of the keyword
\* or before its value.  A line with another one that stands alone is left out.
WellCut(line) ==
  /\ line \in Seq(Seq(STRING))
  /\ line # <<>> =>
       /\ Len(line[1]) \in 1..3 /\ line[1][1] # "="
       /\ Len(line[1]) > 1 => line[1][2] = "="
       /\ Len(line[1]) > 2 => line[1][3] # "="
  /\ \A i \in 2..Len(line) :
       \/ Len(line[i]) = 1 /\ line[i][1] # "="
       \/ /\ i = 2 /\ Len(line[1]) < 3
          /\ Len(line[2]) \in 1..2 /\ line[2][1] = "="
          /\ Len(line[2]) > 1 => line[2][2] # "="

WellWritten(c) ==
  \A file \in File :
    \/ c[file] = Unreadable
    \/ /\ c[file] \in Seq(Seq(Seq(STRING)))
       /\ \A line \in ToSet(c[file]) :
            /\ WellCut(line)
            /\ line # <<>> /\ line[1][1] = "include" => Arguments(line) \subseteq DOMAIN Glob

ASSUME ContentAssumption == \A c \in Contents : WellWritten(c)

VARIABLES
  content,    \* for each file its lines, or Unreadable
  known,      \* the lines of known_hosts, or Unreadable
  typed,      \* what is completed
  stack,      \* the calls of readSSHConfig
  hosts,      \* what has been found
  visited,
  completing, \* "config", "known", "matching" or "done"
  matches,    \* what is suggested: pairs of user and host
  reads       \* history: the files read, in order

completionInput == <<content, known, typed>>
completionVars  == <<completionInput, stack, hosts, visited, completing, matches, reads>>

-----------------------------------------------------------------------------
(* sshConfigDirective: a keyword and its values.  An "=" may stand between *)
(* them, as a field, or at the end or the beginning of a field.            *)

KeyOf(line) == line[1][1]

ValuesOf(line) ==
  LET attached == SubSeq(line[1], 3, Len(line[1]))   \* after the first "="
      values   == Tail(line)
  IN CASE attached # <<>> -> <<attached>> \o values
       [] attached = <<>> /\ values # <<>> /\ values[1][1] = "=" ->
            (IF Len(values[1]) = 1 THEN <<>> ELSE <<Tail(values[1])>>) \o Tail(values)
       [] OTHER -> values

\* What Scan and sshConfigDirective make of a line: a broken one has no key.
Directive(line) ==
  IF line = <<>> \/ \E i \in 1..Len(line) : Contains(line[i], "unterminated")
    THEN [key |-> "", values |-> <<>>]
    ELSE [key |-> KeyOf(line), values |-> ValuesOf(line)]

\* addSSHHost
ListedAnything(words) == words
Listed(words) == words \ Unlisted

Words(values) == {v[1] : v \in ToSet(values)}

\* sshIncludePaths, of all the patterns of a line.
IncludedByFirst(values) == IF values = <<>> THEN <<>> ELSE Glob[values[1][1]]
Included(values) ==
  FlattenSeq([i \in 1..Len(values) |-> Glob[values[i][1]]])

-----------------------------------------------------------------------------
Frame(file) == [rest |-> content[file], calls |-> <<>>]

\* A call of readSSHConfig returns at once for what is too deep, has been read
\* or cannot be read.
CallForgetful(file, below) ==
  IF Len(below) < MaxDepth
    THEN /\ visited' = visited \union {file}
         /\ reads' = Append(reads, file)
         /\ stack' = IF content[file] = Unreadable THEN below ELSE Append(below, Frame(file))
    ELSE /\ UNCHANGED <<visited, reads>>
         /\ stack' = below
Call(file, below) ==
  IF Len(below) < MaxDepth /\ file \notin visited
    THEN /\ visited' = visited \union {file}
         /\ reads' = Append(reads, file)
         /\ stack' = IF content[file] = Unreadable THEN below ELSE Append(below, Frame(file))
    ELSE /\ UNCHANGED <<visited, reads>>
         /\ stack' = below

CompletionInit(configs, knowns, texts) ==
  /\ content \in configs /\ known \in knowns /\ typed \in texts
  /\ stack = <<>> /\ hosts = {} /\ visited = {} /\ reads = <<>>
  /\ completing = "config"
  /\ matches = {}

ReadMainConfig ==
  /\ completing = "config" /\ reads = <<>>
  /\ Call(MainConfig, <<>>)
  /\ UNCHANGED <<completionInput, hosts, completing, matches>>

Top == Last(stack)

ScanLine ==
  /\ stack # <<>> /\ Top.calls = <<>> /\ Top.rest # <<>>
  /\ LET d == Directive(Top.rest[1])
     IN /\ hosts' = IF d.key = "host" THEN hosts \union Listed(Words(d.values)) ELSE hosts
        /\ stack' = Append(Front(stack),
             [rest |-> Tail(Top.rest),
              calls |-> IF d.key = "include" THEN Included(d.values) ELSE <<>>])
  /\ UNCHANGED <<completionInput, visited, completing, matches, reads>>

ReadIncluded ==
  /\ stack # <<>> /\ Top.calls # <<>>
  /\ Call(Top.calls[1], Append(Front(stack), [Top EXCEPT !.calls = Tail(Top.calls)]))
  /\ UNCHANGED <<completionInput, hosts, completing, matches>>

EndFile ==
  /\ stack # <<>> /\ Top.calls = <<>> /\ Top.rest = <<>>
  /\ stack' = Front(stack)
  /\ UNCHANGED <<completionInput, hosts, visited, completing, matches, reads>>

EndConfig ==
  /\ completing = "config" /\ stack = <<>> /\ reads # <<>>
  /\ completing' = "known"
  /\ UNCHANGED <<completionInput, stack, hosts, visited, matches, reads>>

\* A line of known_hosts: its marker, its names and whether it has a key.
KnownNames(line) ==
  IF line.marker \in {"#", "@revoked"} \/ ~line.complete THEN {}
    ELSE {IF n \in DOMAIN HostOf THEN HostOf[n] ELSE n : n \in line.names}

ReadKnownHosts ==
  /\ completing = "known"
  /\ hosts' = IF known = Unreadable THEN hosts
                ELSE hosts \union Listed(UNION {KnownNames(known[i]) : i \in 1..Len(known)})
  /\ completing' = "matching"
  /\ UNCHANGED <<completionInput, stack, visited, matches, reads>>

Match ==
  /\ completing = "matching"
  /\ matches' = {<<typed.user, h>> : h \in {x \in hosts : <<x, typed.prefix>> \in StartsWith}}
  /\ completing' = "done"
  /\ UNCHANGED <<completionInput, stack, hosts, visited, reads>>

CompletionNext ==
  \/ ReadMainConfig \/ ScanLine \/ ReadIncluded \/ EndFile \/ EndConfig
  \/ ReadKnownHosts \/ Match

-----------------------------------------------------------------------------
(* What the documentation says should be suggested.                        *)

Lines(file, key) ==
  IF content[file] = Unreadable THEN {}
    ELSE {line \in ToSet(content[file]) : ~IsBroken(line) /\ line[1][1] = key}

IncludedBy(file) ==
  UNION {UNION {ToSet(Glob[p]) : p \in Arguments(line)} : line \in Lines(file, "include")}

\* The smallest set of files that has the main one and what its files include.
Reachable ==
  {file \in File : \A S \in SUBSET File :
     MainConfig \in S /\ (\A f \in S : IncludedBy(f) \subseteq S) => file \in S}

NamedHosts == UNION {UNION {Arguments(line) : line \in Lines(f, "host")} : f \in Reachable}
KnownOnes  == IF known = Unreadable THEN {} ELSE UNION {KnownNames(known[i]) : i \in 1..Len(known)}

Documented == (NamedHosts \union KnownOnes) \ Unlisted

\* Completion finds literal aliases of the configuration and of what it
\* includes, and hosts of known_hosts, and no others; it finds all of them
\* unless so many files are read that the bound on the depth may be met.
HostsAsDocumented ==
  completing = "done" =>
    /\ hosts \subseteq Documented
    /\ Cardinality(Reachable) <= MaxDepth => hosts = Documented

\* However files include each other, each is read once and none is open twice.
FileReadOnce ==
  /\ Len(stack) <= MaxDepth
  /\ \A i, j \in 1..Len(reads) : reads[i] = reads[j] => i = j
=============================================================================
