------------------------- MODULE MCClipboardServer -------------------------
(***************************************************************************)
(* Constants for model-checking ClipboardServer.                           *)
(***************************************************************************)
EXTENDS ClipboardServer

MCAtoi == [n \in {"-1", "0", "1", "2", "3"} |->
             CASE n = "-1" -> -1 [] n = "0" -> 0 [] n = "1" -> 1
               [] n = "2" -> 2   [] n = "3" -> 3]

Header(fields) == [fields |-> fields, long |-> FALSE]

\* Every way a header is refused, and every way it is accepted.
MCEveryLine ==
  { Header(<<>>),
    Header(<<"GET", "/", "HTTP">>),
    Header(<<"SLUSH1", "tok">>),
    Header(<<"SLUSH1", "tok", "FROB">>),
    Header(<<"SLUSH1", "tok", "HELLO">>),
    Header(<<"SLUSH1", "tok", "PASTE">>),
    Header(<<"SLUSH1", "old", "PASTE">>),
    Header(<<"SLUSH1", "tok", "PASTE", "1">>),
    Header(<<"SLUSH1", "tok", "COPY">>),
    Header(<<"SLUSH1", "old", "COPY", "1">>),
    Header(<<"SLUSH1", "tok", "COPY", "x">>),
    Header(<<"SLUSH1", "tok", "COPY", "-1">>),
    Header(<<"SLUSH1", "tok", "COPY", "0">>),
    Header(<<"SLUSH1", "tok", "COPY", "1">>),
    Header(<<"SLUSH1", "tok", "COPY", "2">>),
    Header(<<"SLUSH1", "tok", "COPY", "3">>),
    Header(<<"SLUSH1", "tok", "OPEN", "0">>),
    Header(<<"SLUSH1", "tok", "OPEN", "1">>),
    [fields |-> <<"SLUSH1", "tok", "COPY", "1">>, long |-> TRUE] }

\* A writer and a reader of the clipboard, and one that is refused.
MCSomeLines ==
  { Header(<<"SLUSH1", "tok", "COPY", "1">>),
    Header(<<"SLUSH1", "tok", "PASTE">>),
    Header(<<"SLUSH1", "old", "PASTE">>) }

\* "u" stands for a URL, anything else for a file name.
MCTargets == {<<"u">>}
=============================================================================
