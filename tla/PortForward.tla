------------------------------ MODULE PortForward ------------------------------
(***************************************************************************)
(* The values of -p, -L and -R (internal/command/cli_values.go) and the    *)
(* text they become for ssh (Forward.String in session_options.go).        *)
(*                                                                         *)
(* A text is a sequence of words and of the marks "[", "]" and ":".  A     *)
(* word is one atom; what the code asks of its characters are constants.   *)
(* A value that may be refused is a set: empty, or of the one result.      *)
(***************************************************************************)
EXTENDS Integers, SequencesExt

CONSTANTS
  Number,   \* the decimal words, each with the number it denotes
  Blemish,  \* words with a slash, a comma or a blank in them
  V6        \* texts that netip.ParseAddr takes for IPv6 addresses

ASSUME NumberAssumption == Number \in [DOMAIN Number -> Nat]
ASSUME V6Assumption ==
  \A v \in V6 : v \in Seq(STRING) /\ ":" \in ToSet(v) /\ {"[", "]"} \intersect ToSet(v) = {}

Marks     == {"[", "]", ":"}
Localhost == <<"localhost">>
PortRange == 1..(2^16 - 1)

Decimal(field) == Len(field) = 1 /\ field[1] \in DOMAIN Number

\* tcpPort.Set: ParseUint of 16 bits, and never 0.
TCPPortWraps(field) ==
  IF Decimal(field) THEN {Number[field[1]] % 2^16} ELSE {}
TCPPort(field) ==
  IF Decimal(field) THEN {Number[field[1]]} \cap PortRange ELSE {}

-----------------------------------------------------------------------------
(* Parsing.                                                                *)

\* What the loop of forwardFields does at one rune: fields are the fields before
\* the last colon outside brackets, field is what follows it, open is bracketed,
\* and wrong says that a bracket stood where none may.
ReadMark(s, mark) ==
  CASE mark = "["             -> [s EXCEPT !.open = TRUE, !.field = Append(@, mark),
                                          !.wrong = @ \/ s.open \/ s.field # <<>>]
    [] mark = "]"             -> [s EXCEPT !.open = FALSE, !.field = Append(@, mark),
                                          !.wrong = @ \/ ~s.open]
    [] mark = ":" /\ ~s.open  -> [s EXCEPT !.fields = Append(@, s.field), !.field = <<>>]
    [] OTHER                  -> [s EXCEPT !.field = Append(@, mark)]

Marked(text) ==
  LET read[i \in 0..Len(text)] ==
        IF i = 0 THEN [fields |-> <<>>, field |-> <<>>, open |-> FALSE, wrong |-> FALSE]
                 ELSE ReadMark(read[i - 1], text[i])
  IN read[Len(text)]

\* Where forwardFields returns no error, and what it then returns.
WellBracketed(text) == ~Marked(text).open /\ ~Marked(text).wrong
ForwardFields(text) == Append(Marked(text).fields, Marked(text).field)

ForwardHost(field) ==
  CASE field = <<>>      -> {Localhost}
    [] field # <<>> /\ field[1] = "[" ->
         IF Last(field) = "]" THEN {SubSeq(field, 2, Len(field) - 1)} \cap V6 ELSE {}
    [] OTHER             -> IF ToSet(field) \cap (Marks \union Blemish) = {}
                              THEN {field} ELSE {}

\* setDestination, of the fields from the listen port on: <<host, port>>.
Destination(fields, listen) ==
  CASE Len(fields) = 1 -> {<<Localhost, listen>>}
    [] Len(fields) = 2 -> IF Decimal(fields[2]) THEN {Localhost} \X TCPPort(fields[2])
                                                ELSE ForwardHost(fields[2]) \X {listen}
    [] Len(fields) = 3 -> ForwardHost(fields[2]) \X
                            (IF fields[3] = <<>> THEN {listen} ELSE TCPPort(fields[3]))
    [] OTHER -> {}

ParsePortForward(text) ==
  LET fields == ForwardFields(text)
      bound  == Len(fields) > 1 /\ ~Decimal(fields[1])
      rest   == IF bound THEN Tail(fields) ELSE fields
  IN IF ~WellBracketed(text) THEN {}
     ELSE UNION { { [bind |-> b, listen |-> l, host |-> d[1], port |-> d[2]] :
                      b \in IF bound THEN ForwardHost(fields[1]) ELSE {Localhost},
                      d \in Destination(rest, l) } : l \in TCPPort(rest[1]) }

-----------------------------------------------------------------------------
(* Rendering.                                                              *)

\* The shortest of the words for a number is the one strconv.Itoa writes;
\* which of them a model writes makes no difference to ssh.
Itoa(n) == CHOOSE w \in DOMAIN Number : Number[w] = n

JoinHostPort(host, port) ==
  (IF Contains(host, ":") THEN <<"[">> \o host \o <<"]">> ELSE host) \o <<":", Itoa(port)>>

\* Forward.String
Rendered(f) == JoinHostPort(f.bind, f.listen) \o <<":">> \o JoinHostPort(f.host, f.port)

-----------------------------------------------------------------------------
(* What the words mean to others.                                          *)

\* ssh divides a specification at the colons outside brackets, which it drops.
SSHForward(text) ==
  LET fields   == ForwardFields(text)
      bare(x)  == IF x # <<>> /\ x[1] = "[" THEN SubSeq(x, 2, Len(x) - 1) ELSE x
  IN IF Len(fields) # 4 \/ ~(Decimal(fields[2]) /\ Decimal(fields[4])) THEN {}
     ELSE {[bind |-> bare(fields[1]), listen |-> Number[fields[2][1]],
            host |-> bare(fields[3]), port |-> Number[fields[4][1]]]}

\* The README's "Port forwards": PORT, PORT:PORT, PORT:HOST, PORT:HOST:PORT,
\* each also after BIND:, where empty addresses mean localhost, a port that is
\* not given is the other one, and IPv6 addresses are bracketed.  Names are the
\* words that may stand for a host.  Each is a text and what it stands for.
Addresses(Names) ==
  {<<<<>>, Localhost>>} \union {<<<<w>>, <<w>>>> : w \in Names}
    \union {<<<<"[">> \o v \o <<"]">>, v>> : v \in V6}
Ports == {<<<<w>>, Number[w]>> : w \in {v \in DOMAIN Number : Number[v] \in PortRange}}

NoNumbers(Names) == {a \in Addresses(Names) : ~Decimal(a[1])}
Binds(Names) ==
  {<<<<>>, Localhost>>} \union {<<a[1] \o <<":">>, a[2]>> : a \in NoNumbers(Names)}
Targets(Names, listen) ==
  {<<<<>>, Localhost, listen>>}
    \union {<<<<":">> \o p[1], Localhost, p[2]>> : p \in Ports}
    \union {<<<<":">> \o a[1], a[2], listen>> : a \in NoNumbers(Names)}
    \union {<<<<":">> \o a[1] \o <<":">>, a[2], listen>> : a \in Addresses(Names)}
    \union {<<<<":">> \o a[1] \o <<":">> \o p[1], a[2], p[2]>> : a \in Addresses(Names), p \in Ports}

\* A text is of marks, words that may stand for a host and words that may not, and
\* each word is whole: there is no other beside it.
Worded(text, Names) ==
  /\ text \in Seq(Marks \union Blemish \union Names)
  /\ \A i \in 1..(Len(text) - 1) : text[i] \in Marks \/ text[i + 1] \in Marks

DocumentedForwards(text, Names) ==
  UNION { { [bind |-> b[2], listen |-> l[2], host |-> t[2], port |-> t[3]] :
              t \in {u \in Targets(Names, l[2]) : text = b[1] \o l[1] \o u[1]} } :
          b \in Binds(Names), l \in Ports }
=============================================================================
