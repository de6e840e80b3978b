----------------------------- MODULE MCCommandLine -----------------------------
(***************************************************************************)
(* Invocations and files for model-checking CommandLine.                   *)
(***************************************************************************)
EXTENDS CommandLine

MCNumber == [w \in {"0", "80", "8080", "65535", "65536"} |->
  CASE w = "0" -> 0 [] w = "80" -> 80 [] w = "8080" -> 8080
    [] w = "65535" -> 65535 [] w = "65536" -> 65536]
MCV6 == {<<":", ":", "80">>}
MCNames == {"db", "localhost"} \union DOMAIN MCNumber

MCDashed == {"-A", "-F", "-L", "-N", "-O", "-R", "-S", "-i", "-n", "-o", "-p", "-t", "-c", "-l",
             "--", "-", "--ssh=", "--no-ssh-pty", "-oForwardAgent=no"}

-----------------------------------------------------------------------------
(* Texts of forwards: fields of every kind, also ill-bracketed ones.       *)

Fields == {<<>>, <<"8080">>, <<"80">>, <<"db">>, <<"[", ":", ":", "80", "]">>,
           <<"[", "db", "]">>, <<"]">>, <<"[">>, <<"a/b">>, <<"0">>, <<"65535">>, <<"65536">>}
Good   == {<<>>, <<"8080">>, <<"80">>, <<"db">>, <<"[", ":", ":", "80", "]">>}

Texts(S, n) ==
  {FlattenSeq([i \in 1..n |-> IF i = 1 THEN f[1] ELSE <<":">> \o f[i]]) : f \in [1..n -> S]}

MCTexts == UNION {Texts(Fields, n) : n \in 1..3} \union UNION {Texts(Good, n) : n \in 4..5}

-----------------------------------------------------------------------------
Invocation(verb, transport, agent, port, identity, config, local, remote, operands) ==
  [verb |-> verb, transport |-> transport, agent |-> agent, port |-> port,
   identity |-> identity, config |-> config, local |-> local, remote |-> remote,
   operands |-> operands]

\* No command, words that look like options of ssh and mosh, quotes and blanks; a
\* key that looks like one.
Commands == {<<>>, <<<<"ls">>, <<"-l">>>>, <<<<"--">>, <<"-o">>, <<"ls">>>>,
             <<<<"-">>, <<"--ssh=", "x">>>>, <<<<"echo">>, <<"'", "a", " ", "b", "'">>>>}
Keys     == {<<>>, <<"my", " ", "key">>, <<"it", "'", "s">>, <<"-p">>}

Sessions ==
  { Invocation(verb, transport, agent, port, key, config, local, <<>>, <<<<"user@box">>>> \o command) :
      verb \in {"session", "validate", "install"}, transport \in {"", "auto", "ssh", "mosh"},
      agent \in BOOLEAN, port \in {<<>>, <<"80">>}, key \in Keys, config \in {<<>>, <<"conf">>},
      local \in {<<>>, <<<<"80">>, <<"8080", ":", "db">>>>}, command \in Commands }

Refusals ==
  { Invocation("session", "ssh", FALSE, port, <<>>, <<>>, <<>>, <<>>, operands) :
      port \in {<<>>, <<"0">>, <<"65536">>, <<"db">>},
      operands \in {<<>>, <<<<>>>>, <<<<"-l">>>>, <<<<"a", " ", "b">>>>, <<<<"box">>>>} }

Forwarding ==
  { Invocation("session", "ssh", FALSE, <<>>, <<>>, <<>>, IF here THEN <<text>> ELSE <<>>,
               IF here THEN <<>> ELSE <<text>>, <<<<"box">>>>) :
      here \in BOOLEAN, text \in MCTexts }

-----------------------------------------------------------------------------
(* ssh configurations of up to three files that may include each other, in *)
(* every spelling of a directive.                                          *)

MCGlob == [p \in {"main", "a", "b", "all", "gone"} |->
  CASE p = "main" -> <<"main">> [] p = "a" -> <<"a">> [] p = "b" -> <<"b">>
    [] p = "all" -> <<"a", "b", "c">> [] p = "gone" -> <<>>]

HostLines == {<<<<"host">>, <<"one">>, <<"w*">>>>, <<<<"host", "=">>, <<"two">>>>,
              <<<<"host", "=", "three">>, <<"one">>>>, <<<<"host">>, <<"=", "two">>>>,
              <<<<"host">>, <<"=">>, <<"three">>>>, <<<<"host">>, <<"unterminated">>>>,
              <<<<"match">>, <<"one">>>>, <<>>}
IncludeLines == {<<<<"include">>, <<"main">>, <<"a">>>>, <<<<"include">>, <<"=">>, <<"all">>>>,
                 <<<<"include", "=", "b">>>>, <<<<"include">>, <<"gone">>>>}

MCContents ==
  { [f \in File |-> CASE f = "main" -> <<x, y>> [] f = "a" -> a [] f = "b" -> b
                      [] f = "c" -> <<<<<<"host">>, <<"four">>>>>>] :
      x \in IncludeLines, y \in HostLines \union IncludeLines,
      a \in {Unreadable, <<<<<<"host">>, <<"five">>>>>>} \union {<<l>> : l \in IncludeLines},
      b \in {<<l>> : l \in IncludeLines} \union {<<l, <<<<"host">>, <<"six">>>>>> : l \in IncludeLines} }

KnownLine(marker, names, complete) == [marker |-> marker, names |-> names, complete |-> complete]
MCKnown ==
  { Unreadable,
    << KnownLine("", {"seven", "[eight]:22"}, TRUE), KnownLine("", {"|1|hash"}, TRUE),
       KnownLine("@cert-authority", {"nine", "w*"}, TRUE), KnownLine("@revoked", {"ten"}, TRUE),
       KnownLine("#", {"eleven"}, TRUE), KnownLine("", {"twelve"}, FALSE) >> }

MCHostOf == [n \in {"[eight]:22"} |-> "eight"]
MCUnlisted == {"w*", "|1|hash"}
MCStartsWith ==
  {<<h, "">> : h \in {"one", "two", "three", "four", "five", "six", "seven", "eight", "nine"}}
    \union {<<"two", "t">>, <<"three", "t">>}

MCTyped == {[user |-> "me", prefix |-> "t"], [user |-> "", prefix |-> ""]}

MCPortRequests ==
  { Invocation("session", "ssh", FALSE, <<"80">>, <<>>, <<>>, <<>>, <<>>, <<<<"box">>>>) }

MCRequests == Sessions \union Refusals \union Forwarding
=============================================================================
