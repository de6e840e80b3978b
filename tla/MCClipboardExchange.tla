------------------------- MODULE MCClipboardExchange -------------------------
(***************************************************************************)
(* Constants for model-checking ClipboardExchange.                         *)
(***************************************************************************)
EXTENDS ClipboardExchange

MCAtoi == [n \in {"0", "1", "2", "3"} |->
             CASE n = "0" -> 0 [] n = "1" -> 1 [] n = "2" -> 2 [] n = "3" -> 3]

\* A copy, one longer than the server accepts, a paste, and two opens.
MCRequests ==
  { [verb |-> "COPY",  data |-> <<"u", "v">>],
    [verb |-> "COPY",  data |-> <<"u", "v", "v">>],
    [verb |-> "PASTE", data |-> <<>>],
    [verb |-> "OPEN",  data |-> <<"u">>],
    [verb |-> "OPEN",  data |-> <<"v">>] }

MCTargets == {<<"u">>}

MCLines ==
  { [fields |-> f, long |-> FALSE] :
      f \in { <<"SLUSH1", t, "PASTE">> : t \in {"tok", "old"} } \union
            { <<"SLUSH1", t, v, n>> : t \in {"tok", "old"}, v \in {"COPY", "OPEN"},
                                      n \in DOMAIN MCAtoi } }
=============================================================================
