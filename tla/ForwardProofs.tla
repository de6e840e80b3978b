------------------------------ MODULE ForwardProofs ------------------------------
(***************************************************************************)
(* What a forward means: slush accepts the texts that the README's forms   *)
(* allow, takes them for what the README says, and ssh hears them so.      *)
(*                                                                         *)
(* This rests on the fields of a text.  A text is Parted at its last colon *)
(* outside brackets, and a Plain text is one field wherever one begins.    *)
(***************************************************************************)
EXTENDS CommandLineProofs

-----------------------------------------------------------------------------
(* The fields of a text.                                                   *)

\* The state of forwardFields between two runes, and the first.
Between(fields, field, open, wrong) ==
  [fields |-> fields, field |-> field, open |-> open, wrong |-> wrong]
Nothing == Between(<<>>, <<>>, FALSE, FALSE)

\* The states on the way, as far as k.
Passes(f, text, k) ==
  f[0] = Nothing /\ \A i \in 1..k : f[i] = ReadMark(f[i - 1], text[i])

\* There are such states, for any text.
LEMMA Passage ==
  ASSUME NEW text, Sequence(text)
  PROVE  \E f : Passes(f, text, Len(text))
<1> DEFINE n == Len(text)
           S == {k \in 0..n : \E f : Passes(f, text, k)}
<1>1. n \in Nat BY AnySequence DEF Sequence
<1> HIDE DEF n
<1>2. 0 \in S
  <2> DEFINE f == [i \in {0} |-> Nothing]
  <2>1. f[0] = Nothing OBVIOUS
  <2> HIDE DEF f
  <2>2. Passes(f, text, 0) BY <2>1 DEF Passes
  <2> QED BY <1>1, <2>2
<1>3. ASSUME NEW k \in Nat, k < n, k \in S PROVE k + 1 \in S
  <2>1. PICK f : Passes(f, text, k) BY <1>3
  <2> DEFINE x == ReadMark(f[k], text[k + 1])
             g == [i \in 0..k + 1 |-> IF i = k + 1 THEN x ELSE f[i]]
  <2>2. g[k + 1] = x /\ \A i \in 0..k : g[i] = f[i] BY <1>3
  <2> HIDE DEF g
  <2>3. ASSUME NEW i \in 1..k + 1 PROVE g[i] = ReadMark(g[i - 1], text[i])
    <3>1. CASE i = k + 1
      <4>1. k \in 0..k /\ i - 1 = k BY <1>3, <3>1
      <4> QED BY <2>2, <3>1, <4>1
    <3>2. CASE i # k + 1
      <4>1. i \in 1..k /\ i \in 0..k /\ i - 1 \in 0..k BY <1>3, <3>2
      <4> QED BY <2>1, <2>2, <4>1 DEF Passes
    <3> QED BY <3>1, <3>2
  <2>4. 0 \in 0..k BY <1>3
  <2>5. g[0] = Nothing BY <2>1, <2>2, <2>4 DEF Passes
  <2>6. Passes(g, text, k + 1) BY <2>3, <2>5 DEF Passes
  <2>7. k + 1 \in 0..n BY <1>1, <1>3
  <2> QED BY <2>6, <2>7
<1> HIDE DEF S
<1>4. \A k \in Nat : k < n /\ k \in S => k + 1 \in S BY <1>3
<1>5. \A k \in 0..n : k \in S BY <1>1, <1>2, <1>4, UpTo
<1>6. n \in S BY <1>1, <1>5
<1> QED BY <1>6 DEF S, n

\* Marked is the last of them.
LEMMA MarkedIs ==
  ASSUME NEW text, Sequence(text), NEW f, Passes(f, text, Len(text))
  PROVE  Marked(text) = f[Len(text)]
<1> DEFINE n == Len(text)
           first == [fields |-> <<>>, field |-> <<>>, open |-> FALSE, wrong |-> FALSE]
           Body(h) == [i \in 0..n |-> IF i = 0 THEN first ELSE ReadMark(h[i - 1], text[i])]
           h == CHOOSE x : x = Body(x)
<1>1. Marked(text) = h[n] BY DEF Marked
<1> HIDE DEF h
<1>2. n \in Nat BY AnySequence DEF Sequence
<1>3. first = Nothing BY DEF Nothing, Between
<1>4. f[0] = Nothing /\ \A i \in 1..n : f[i] = ReadMark(f[i - 1], text[i]) BY DEF Passes
<1> HIDE DEF first, n
<1>5. \E x : x = Body(x)
  <2> DEFINE x == [i \in 0..n |-> f[i]]
  <2>1. \A i \in 0..n : x[i] = f[i] OBVIOUS
  <2>2. \A i \in 0..n : i # 0 => i \in 1..n /\ i - 1 \in 0..n BY <1>2
  <2>3. x = [i \in 0..n |-> x[i]] OBVIOUS
  <2> HIDE DEF x
  <2>4. \A i \in 0..n : x[i] = IF i = 0 THEN first ELSE ReadMark(x[i - 1], text[i])
    BY <1>3, <1>4, <2>1, <2>2
  <2>5. [i \in 0..n |-> x[i]] = Body(x) BY <2>4
  <2>6. x = Body(x) BY <2>3, <2>5
  <2> QED BY <2>6
<1>6. h = Body(h)
  <2> HIDE DEF Body
  <2> QED BY <1>5 DEF h
<1>7. \A i \in 0..n : h[i] = IF i = 0 THEN first ELSE ReadMark(h[i - 1], text[i]) BY <1>6
<1> DEFINE S == {k \in 0..n : h[k] = f[k]}
<1>8. 0 \in S
  <2>1. 0 \in 0..n BY <1>2
  <2>2. h[0] = first BY <1>7, <2>1
  <2> QED BY <1>3, <1>4, <2>1, <2>2
<1>9. ASSUME NEW k \in Nat, k < n, k \in S PROVE k + 1 \in S
  <2> DEFINE i == k + 1
  <2>1. i \in 0..n /\ i \in 1..n /\ i # 0 /\ i - 1 = k BY <1>2, <1>9
  <2> HIDE DEF i
  <2>2. h[k] = f[k] BY <1>9
  <2>3. h[i] = f[i] BY <1>4, <1>7, <2>1, <2>2
  <2> QED BY <2>1, <2>3 DEF i
<1> HIDE DEF S
<1>10. \A k \in Nat : k < n /\ k \in S => k + 1 \in S BY <1>9
<1>11. \A k \in 0..n : k \in S BY <1>2, <1>8, <1>10, UpTo
<1>12. h[n] = f[n] BY <1>2, <1>11 DEF S
<1> QED BY <1>1, <1>12 DEF n

\* Nothing of nothing, and one rune more.
LEMMA MarkedNone == Marked(<<>>) = Nothing
<1>1. Sequence(<<>>) /\ Len(<<>>) = 0 BY FewWords
<1>2. PICK f : Passes(f, <<>>, Len(<<>>)) BY <1>1, Passage
<1>3. Marked(<<>>) = f[0] BY <1>1, <1>2, MarkedIs
<1> QED BY <1>2, <1>3 DEF Passes

\* A rune more changes the state as ReadMark says.
LEMMA MarkedMore ==
  ASSUME NEW text, Sequence(text), NEW mark
  PROVE  Marked(Append(text, mark)) = ReadMark(Marked(text), mark)
<1> DEFINE t == Append(text, mark)
           n == Len(text)
<1>1. /\ Sequence(t) /\ Len(t) = n + 1 /\ n \in Nat /\ t[n + 1] = mark
      /\ \A i \in 1..n : t[i] = text[i]
  <2>1. n \in Nat BY AnySequence DEF Sequence
  <2> QED BY <2>1, AppendFacts
<1> HIDE DEF t, n
<1>2. PICK f : Passes(f, t, Len(t)) BY <1>1, Passage
<1>3. Marked(t) = f[n + 1] BY <1>1, <1>2, MarkedIs
<1>4. \A i \in 1..n + 1 : f[i] = ReadMark(f[i - 1], t[i]) BY <1>1, <1>2 DEF Passes
<1>5. \A i \in 1..n : i \in 1..n + 1 BY <1>1
<1>6. Passes(f, text, n) BY <1>1, <1>2, <1>4, <1>5 DEF Passes
<1>7. Marked(text) = f[n] BY <1>6, MarkedIs DEF n
<1>8. n + 1 \in 1..n + 1 /\ (n + 1) - 1 = n BY <1>1
<1>9. f[n + 1] = ReadMark(f[n], mark) BY <1>1, <1>4, <1>8
<1> QED BY <1>3, <1>7, <1>9 DEF t

\* The state behind a text holds all of it: there is one field, or there is a text
\* before the last colon outside brackets, whose fields were found before.
Tidy(s) ==
  /\ s = Between(s.fields, s.field, s.open, s.wrong)
  /\ Sequence(s.fields) /\ Sequence(s.field) /\ s.open \in BOOLEAN /\ s.wrong \in BOOLEAN
Before(t, u) ==
  /\ Sequence(u) /\ t = (u \o <<":">>) \o Marked(t).field
  /\ ~Marked(u).open /\ (Marked(u).wrong => Marked(t).wrong)
  /\ Marked(t).fields = Append(Marked(u).fields, Marked(u).field)
Parted(t) ==
  /\ Sequence(t) /\ Tidy(Marked(t))
  /\ \/ Marked(t).fields = <<>> /\ Marked(t).field = t
     \/ \E u : Before(t, u)

\* What a rune does, by what it is.
LEMMA ReadMarkCases ==
  ASSUME NEW s, Tidy(s), NEW mark, NEW x, x = ReadMark(s, mark)
  PROVE  /\ x = Between(x.fields, x.field, x.open, x.wrong)
         /\ x.open \in BOOLEAN /\ x.wrong \in BOOLEAN
         /\ mark = ":" /\ ~s.open =>
              /\ x.fields = Append(s.fields, s.field) /\ x.field = <<>>
              /\ (x.wrong <=> s.wrong) /\ ~x.open
         /\ ~(mark = ":" /\ ~s.open) =>
              /\ x.fields = s.fields /\ x.field = Append(s.field, mark)
              /\ x.open <=> mark = "[" \/ (mark # "]" /\ s.open)
              /\ x.wrong <=> \/ s.wrong
                             \/ mark = "[" /\ (s.open \/ s.field # <<>>)
                             \/ mark = "]" /\ ~s.open
<1> DEFINE fd == s.fields
           fi == s.field
           op == s.open
           wr == s.wrong
<1>1. s = Between(fd, fi, op, wr) /\ op \in BOOLEAN /\ wr \in BOOLEAN BY DEF Tidy
<1>2. x = ReadMark(Between(fd, fi, op, wr), mark) BY <1>1
<1> HIDE DEF fd, fi, op, wr
<1>3. CASE mark = ":" /\ ~op BY <1>1, <1>2, <1>3 DEF ReadMark, Between
<1>4. CASE mark = "[" BY <1>1, <1>2, <1>4 DEF ReadMark, Between
<1>5. CASE mark = "]" BY <1>1, <1>2, <1>5 DEF ReadMark, Between
<1>6. CASE mark # "[" /\ mark # "]" /\ (mark = ":" => op) BY <1>1, <1>2, <1>6 DEF ReadMark, Between
<1> QED BY <1>3, <1>4, <1>5, <1>6 DEF op

\* Parts of a text are parts of what it is followed by.
LEMMA PartedMore ==
  ASSUME NEW t, Parted(t), NEW mark
  PROVE  Parted(Append(t, mark))
<1> DEFINE n == Append(t, mark)
           s == Marked(t)
           x == Marked(n)
<1>1. Sequence(n) /\ Sequence(t) /\ Tidy(s) BY AppendFacts DEF Parted
<1>2. x = ReadMark(s, mark) BY <1>1, MarkedMore
<1>3. Sequence(s.fields) /\ Sequence(s.field) BY <1>1 DEF Tidy
<1>4. Sequence(Append(s.fields, s.field)) /\ Sequence(Append(s.field, mark)) BY <1>3, AppendFacts
<1>5. n = t \o <<mark>> /\ Sequence(<<mark>>) BY <1>1, AppendJoins, FewWords
<1>6. Append(s.field, mark) = s.field \o <<mark>> BY <1>3, AppendJoins
<1> HIDE DEF n, s, x
<1>7. CASE mark = ":" /\ ~s.open
  <2>1. /\ x.fields = Append(s.fields, s.field) /\ x.field = <<>> /\ (x.wrong <=> s.wrong)
        /\ x = Between(x.fields, x.field, x.open, x.wrong)
        /\ x.open \in BOOLEAN /\ x.wrong \in BOOLEAN
    BY <1>1, <1>2, <1>7, ReadMarkCases
  <2>2. Tidy(x) BY <1>4, <2>1, FewWords DEF Tidy
  <2>3. n = (t \o <<":">>) \o <<>>
    <3> DEFINE c == t \o <<":">>
    <3>1. Sequence(c) /\ n = c BY <1>1, <1>5, <1>7, JoinFacts
    <3> HIDE DEF c
    <3>2. c \o <<>> = c BY <3>1, NothingAdded
    <3> QED BY <3>1, <3>2 DEF c
  <2>4. Before(n, t) BY <1>1, <1>7, <2>1, <2>3 DEF Before, s, x
  <2> QED BY <1>1, <2>2, <2>4 DEF Parted, n, x
<1>8. CASE ~(mark = ":" /\ ~s.open)
  <2>1. /\ x.fields = s.fields /\ x.field = Append(s.field, mark) /\ (s.wrong => x.wrong)
        /\ x = Between(x.fields, x.field, x.open, x.wrong)
        /\ x.open \in BOOLEAN /\ x.wrong \in BOOLEAN
    BY <1>1, <1>2, <1>8, ReadMarkCases
  <2>2. Tidy(x) BY <1>3, <1>4, <2>1 DEF Tidy
  <2>3. CASE s.fields = <<>> /\ s.field = t
    BY <1>1, <2>1, <2>2, <2>3 DEF Parted, n, x
  <2>4. ASSUME NEW u, Before(t, u) PROVE Before(n, u)
    <3>1. /\ Sequence(u) /\ t = (u \o <<":">>) \o s.field
          /\ ~Marked(u).open /\ (Marked(u).wrong => s.wrong)
          /\ s.fields = Append(Marked(u).fields, Marked(u).field)
      BY <2>4 DEF Before, s
    <3> DEFINE c == u \o <<":">>
               f == s.field
               m == <<mark>>
    <3>2. Sequence(c) BY <3>1, FewWords, JoinFacts
    <3>3. Sequence(f) /\ Sequence(m) BY <1>3, <1>5
    <3> HIDE DEF c, f, m
    <3>4. (c \o f) \o m = c \o (f \o m) BY <3>2, <3>3, JoinAssociates
    <3>5. n = c \o x.field BY <1>5, <1>6, <2>1, <3>1, <3>4 DEF c, f, m
    <3> QED BY <2>1, <3>1, <3>5 DEF Before, c, x
  <2>5. \/ s.fields = <<>> /\ s.field = t
        \/ \E u : Before(t, u)
    BY DEF Parted, s
  <2> QED BY <1>1, <2>2, <2>3, <2>4, <2>5 DEF Parted, n, x
<1> QED BY <1>7, <1>8

\* Every text is held so.
LEMMA AllParted == ASSUME NEW t, Sequence(t) PROVE Parted(t)
<1> DEFINE n == Len(t)
           S == {k \in 0..n : Parted(SubSeq(t, 1, k))}
<1>1. n \in Nat BY AnySequence DEF Sequence
<1>2. Parted(<<>>)
  <2>1. Tidy(Nothing) /\ Nothing.fields = <<>> /\ Nothing.field = <<>>
    BY FewWords DEF Tidy, Nothing, Between
  <2> QED BY <2>1, MarkedNone, FewWords DEF Parted
<1> HIDE DEF n
<1>3. 0 \in S
  <2>1. SubSeq(t, 1, 0) = <<>> BY PrefixGrows
  <2>2. Parted(SubSeq(t, 1, 0)) BY <1>2, <2>1
  <2>3. 0 \in 0..n BY <1>1
  <2> QED BY <2>2, <2>3
<1>4. ASSUME NEW k \in Nat, k < n, k \in S PROVE k + 1 \in S
  <2>1. Parted(SubSeq(t, 1, k)) BY <1>4
  <2>2. SubSeq(t, 1, k + 1) = Append(SubSeq(t, 1, k), t[k + 1]) BY <1>4, PrefixGrows DEF n
  <2>3. Parted(SubSeq(t, 1, k + 1)) BY <2>1, <2>2, PartedMore
  <2>4. k + 1 \in 0..n BY <1>1, <1>4
  <2> QED BY <2>3, <2>4
<1> HIDE DEF S
<1>5. \A k \in Nat : k < n /\ k \in S => k + 1 \in S BY <1>4
<1>6. \A k \in 0..n : k \in S BY <1>1, <1>3, <1>5, UpTo
<1>7. n \in S BY <1>1, <1>6
<1>8. SubSeq(t, 1, n) = t BY PrefixGrows DEF n
<1> QED BY <1>7, <1>8 DEF S

\* A text, a colon and another text.
Glued(u, x) == (u \o <<":">>) \o x

\* The fields of a text are the text, or those of the text before the last colon
\* outside brackets and what follows it.
LEMMA FieldsParted ==
  ASSUME NEW t, Sequence(t), WellBracketed(t)
  PROVE  \/ ForwardFields(t) = <<t>>
         \/ \E u, x : /\ Sequence(u) /\ Sequence(x) /\ WellBracketed(u) /\ t = Glued(u, x)
                      /\ ForwardFields(t) = Append(ForwardFields(u), x)
                      /\ Sequence(ForwardFields(u))
<1> DEFINE s == Marked(t)
<1>1. Parted(t) BY AllParted
<1>2. Sequence(s.field) /\ ForwardFields(t) = Append(s.fields, s.field) /\ ~s.open /\ ~s.wrong
  BY <1>1 DEF Parted, Tidy, ForwardFields, WellBracketed
<1>3. CASE s.fields = <<>> /\ s.field = t
  <2>1. Append(<<>>, t) = <<t>> BY TailOfTwo
  <2> QED BY <1>2, <1>3, <2>1
<1>4. ASSUME NEW u, Before(t, u)
      PROVE  /\ Sequence(u) /\ WellBracketed(u) /\ t = Glued(u, s.field)
             /\ ForwardFields(t) = Append(ForwardFields(u), s.field)
             /\ Sequence(ForwardFields(u))
  <2>1. Sequence(u) BY <1>4 DEF Before
  <2>2. Parted(u) BY <2>1, AllParted
  <2>3. Sequence(Marked(u).fields) BY <2>2 DEF Parted, Tidy
  <2>4. ForwardFields(u) = Append(Marked(u).fields, Marked(u).field) BY DEF ForwardFields
  <2>5. Sequence(ForwardFields(u)) BY <2>3, <2>4, AppendFacts
  <2> QED BY <1>2, <1>4, <2>1, <2>4, <2>5 DEF Before, WellBracketed, Glued
<1> QED BY <1>1, <1>2, <1>3, <1>4 DEF Parted

\* The parts of a text of whole words are such texts.
LEMMA WordedParts ==
  ASSUME NEW u, NEW x, Sequence(u), Sequence(x), Worded(Glued(u, x), Names)
  PROVE  Worded(u, Names) /\ Worded(x, Names)
<1> DEFINE A == Marks \union Blemish \union Names
           c == <<":">>
           t == Glued(u, x)
           m == Len(u)
           n == Len(x)
<1>0. Sequence(c) /\ Len(c) = 1 BY FewWords
<1>1. t = (u \o c) \o x BY DEF Glued
<1> HIDE DEF c
<1>c. Sequence(c) BY <1>0
<1>2. /\ Sequence(u \o c) /\ Len(u \o c) = m + Len(c) /\ m \in Nat
      /\ \A i \in 1..m : (u \o c)[i] = u[i]
  BY <1>c, JoinFacts
<1>3. Sequence(u \o c) BY <1>2
<1>4. /\ Len(t) = Len(u \o c) + n /\ n \in Nat
      /\ \A i \in 1..Len(u \o c) : t[i] = (u \o c)[i]
      /\ \A i \in 1..n : t[Len(u \o c) + i] = x[i]
  BY <1>1, <1>3, JoinFacts
<1>5. t \in Seq(A) /\ \A i \in 1..(Len(t) - 1) : t[i] \in Marks \/ t[i + 1] \in Marks
  BY DEF Worded
<1> HIDE DEF t, A, m, n
<1>6. Len(u \o c) = m + 1 BY <1>0, <1>2
<1>7. \A i \in 1..m : t[i] = u[i] /\ i \in 1..Len(t)
  <2> TAKE i \in 1..m
  <2>1. i \in 1..Len(u \o c) /\ i \in 1..Len(t) BY <1>2, <1>4, <1>6
  <2> QED BY <1>2, <1>4, <2>1
<1>8. \A i \in 1..n : t[m + 1 + i] = x[i] /\ m + 1 + i \in 1..Len(t)
  <2> TAKE i \in 1..n
  <2>1. t[Len(u \o c) + i] = x[i] BY <1>4
  <2>2. t[m + 1 + i] = x[i] BY <1>6, <2>1
  <2>3. m + 1 + i \in 1..Len(t) BY <1>2, <1>4, <1>6
  <2> QED BY <2>2, <2>3
<1>9. DOMAIN u = 1..m /\ DOMAIN x = 1..n BY AnySequence DEF Sequence, m, n
<1>a. \A i \in 1..Len(t) : t[i] \in A BY <1>5
<1>10. Worded(u, Names)
  <2>1. \A i \in 1..m : u[i] \in A BY <1>7, <1>a
  <2>2. u \in Seq(A)
    <3>1. u = [i \in 1..m |-> u[i]] BY <1>9 DEF Sequence
    <3> QED BY <1>2, <2>1, <3>1
  <2>3. ASSUME NEW i \in 1..(m - 1) PROVE u[i] \in Marks \/ u[i + 1] \in Marks
    <3>1. i \in 1..m /\ i + 1 \in 1..m BY <1>2, <2>3
    <3>2. i \in 1..(Len(t) - 1) BY <1>2, <1>4, <1>6, <2>3
    <3> QED BY <1>5, <1>7, <3>1, <3>2
  <2> QED BY <2>2, <2>3 DEF Worded, A, m
<1>11. Worded(x, Names)
  <2>1. \A i \in 1..n : x[i] \in A BY <1>8, <1>a
  <2>2. x \in Seq(A)
    <3>1. x = [i \in 1..n |-> x[i]] BY <1>9 DEF Sequence
    <3> QED BY <1>4, <2>1, <3>1
  <2>3. ASSUME NEW i \in 1..(n - 1) PROVE x[i] \in Marks \/ x[i + 1] \in Marks
    <3> DEFINE j == m + 1 + i
    <3>1. i \in 1..n /\ i + 1 \in 1..n /\ m + 1 + (i + 1) = j + 1 BY <1>2, <1>4, <2>3
    <3>2. j \in 1..(Len(t) - 1) BY <1>2, <1>4, <1>6, <2>3
    <3>3. t[j] = x[i] /\ t[j + 1] = x[i + 1] BY <1>8, <3>1
    <3> HIDE DEF j
    <3> QED BY <1>5, <3>2, <3>3
  <2> QED BY <2>2, <2>3 DEF Worded, A, n
<1> QED BY <1>10, <1>11

\* A third behind two.
LEMMA AppendThird == ASSUME NEW a, NEW b, NEW c PROVE Append(<<a, b>>, c) = <<a, b, c>>
<1> DEFINE s == <<a, b>>
           t == Append(s, c)
           w == <<a, b, c>>
<1>1. Sequence(s) /\ Len(s) = 2 /\ s[1] = a /\ s[2] = b BY FewWords
<1>2. Sequence(w) BY ThreeWords
<1>3. Len(w) = 3 /\ w[1] = a /\ w[2] = b /\ w[3] = c OBVIOUS
<1> HIDE DEF s, w
<1>4. Sequence(s) BY <1>1
<1>5. /\ Sequence(t) /\ Len(t) = Len(s) + 1 /\ t[Len(s) + 1] = c
      /\ \A i \in 1..Len(s) : t[i] = s[i]
  BY <1>4, AppendFacts
<1> HIDE DEF t
<1>6. t[1] = a /\ t[2] = b /\ t[3] = c /\ Len(t) = 3
  <2>1. 1 \in 1..Len(s) /\ 2 \in 1..Len(s) BY <1>1
  <2> QED BY <1>1, <1>5, <2>1
<1>7. \A i \in 1..3 : i = 1 \/ i = 2 \/ i = 3 OBVIOUS
<1>8. \A i \in 1..Len(t) : t[i] = w[i] BY <1>3, <1>6, <1>7
<1>9. Len(t) = Len(w) BY <1>3, <1>6
<1>10. Sequence(t) BY <1>5
<1>11. t = w BY <1>2, <1>8, <1>9, <1>10, SameSequence
<1> QED BY <1>11 DEF t, s, w

\* And a fourth behind three.
LEMMA AppendFourth ==
  ASSUME NEW a, NEW b, NEW c, NEW d PROVE Append(<<a, b, c>>, d) = <<a, b, c, d>>
<1> DEFINE s == <<a, b, c>>
<1>1. Sequence(s) /\ s \o <<d>> = <<a, b, c, d>> BY ThreeWords
<1> HIDE DEF s
<1>2. s \o <<d>> = Append(s, d) BY <1>1, AppendJoins
<1> QED BY <1>1, <1>2 DEF s

\* The lists of fields a forward may have, with the texts they are the fields of.
LEMMA FieldsShapes ==
  ASSUME NEW t, Sequence(t), WellBracketed(t), Worded(t, Names)
  PROVE  LET F == ForwardFields(t)
             Is(x) == Sequence(x) /\ Worded(x, Names)
         IN  \/ F = <<t>>
             \/ \E a, b : Is(a) /\ Is(b) /\ F = <<a, b>> /\ t = Glued(a, b)
             \/ \E a, b, c : /\ Is(a) /\ Is(b) /\ Is(c)
                             /\ F = <<a, b, c>> /\ t = Glued(Glued(a, b), c)
             \/ \E a, b, c, d : /\ Is(a) /\ Is(b) /\ Is(c) /\ Is(d)
                                /\ F = <<a, b, c, d>>
                                /\ t = Glued(Glued(Glued(a, b), c), d)
             \/ Len(F) \in Nat /\ Len(F) > 4
<1> DEFINE Is(x) == Sequence(x) /\ Worded(x, Names)
           Step(s, u, x) == /\ Is(u) /\ Is(x) /\ WellBracketed(u) /\ s = Glued(u, x)
                            /\ ForwardFields(s) = Append(ForwardFields(u), x)
                            /\ Sequence(ForwardFields(u))
<1>1. ASSUME NEW s, Is(s), WellBracketed(s)
      PROVE  ForwardFields(s) = <<s>> \/ \E u, x : Step(s, u, x)
  BY <1>1, FieldsParted, WordedParts
<1> HIDE DEF Is
<1>2. Is(t) BY DEF Is
<1>3. CASE ForwardFields(t) = <<t>> BY <1>3
<1>4. ASSUME NEW u, NEW x, Step(t, u, x), ForwardFields(u) = <<u>>
      PROVE  Is(u) /\ Is(x) /\ ForwardFields(t) = <<u, x>> /\ t = Glued(u, x)
  BY <1>4, TailOfTwo
<1>5. ASSUME NEW u, NEW x, Step(t, u, x), NEW v, NEW y, Step(u, v, y), ForwardFields(v) = <<v>>
      PROVE  /\ Is(v) /\ Is(y) /\ Is(x) /\ ForwardFields(t) = <<v, y, x>>
             /\ t = Glued(Glued(v, y), x)
  <2>1. ForwardFields(u) = <<v, y>> BY <1>5, TailOfTwo
  <2>2. Append(<<v, y>>, x) = <<v, y, x>> BY AppendThird
  <2> QED BY <1>5, <2>1, <2>2
<1>6. ASSUME NEW u, NEW x, Step(t, u, x), NEW v, NEW y, Step(u, v, y), NEW w, NEW z,
             Step(v, w, z), ForwardFields(w) = <<w>>
      PROVE  /\ Is(w) /\ Is(z) /\ Is(y) /\ Is(x) /\ ForwardFields(t) = <<w, z, y, x>>
             /\ t = Glued(Glued(Glued(w, z), y), x)
  <2>1. ForwardFields(v) = <<w, z>> BY <1>6, TailOfTwo
  <2>2. Append(<<w, z>>, y) = <<w, z, y>> /\ Append(<<w, z, y>>, x) = <<w, z, y, x>>
    BY AppendThird, AppendFourth
  <2> QED BY <1>6, <2>1, <2>2
<1>7. ASSUME NEW u, NEW x, Step(t, u, x), NEW v, NEW y, Step(u, v, y), NEW w, NEW z,
             Step(v, w, z), NEW q, NEW p, Step(w, q, p)
      PROVE  Len(ForwardFields(t)) \in Nat /\ Len(ForwardFields(t)) > 4
  <2>1. Sequence(ForwardFields(q)) BY <1>7
  <2>2. ForwardFields(q) # <<>> /\ Len(ForwardFields(q)) >= 1 /\ Len(ForwardFields(q)) \in Nat
    <3>1. Parted(q) BY <1>7, AllParted DEF Is
    <3> DEFINE f == Marked(q).fields
               e == Marked(q).field
    <3>2. Sequence(f) /\ ForwardFields(q) = Append(f, e) BY <3>1 DEF Parted, Tidy, ForwardFields
    <3> HIDE DEF f, e
    <3>3. Len(f) \in Nat BY <3>2, AnySequence DEF Sequence
    <3>4. Len(Append(f, e)) = Len(f) + 1 BY <3>2, AppendFacts
    <3>5. Len(<<>>) = 0 BY FewWords
    <3> QED BY <3>2, <3>3, <3>4, <3>5
  <2>3. /\ ForwardFields(w) = Append(ForwardFields(q), p) /\ Sequence(ForwardFields(w))
        /\ ForwardFields(v) = Append(ForwardFields(w), z) /\ Sequence(ForwardFields(v))
        /\ ForwardFields(u) = Append(ForwardFields(v), y) /\ Sequence(ForwardFields(u))
        /\ ForwardFields(t) = Append(ForwardFields(u), x)
    BY <1>7
  <2>4. Len(ForwardFields(w)) = Len(ForwardFields(q)) + 1 BY <2>1, <2>3, AppendFacts
  <2>5. Len(ForwardFields(v)) = Len(ForwardFields(w)) + 1 BY <2>3, AppendFacts
  <2>6. Len(ForwardFields(u)) = Len(ForwardFields(v)) + 1 BY <2>3, AppendFacts
  <2>7. Len(ForwardFields(t)) = Len(ForwardFields(u)) + 1 BY <2>3, AppendFacts
  <2> QED BY <2>2, <2>4, <2>5, <2>6, <2>7
<1>a. ASSUME NEW s, NEW u, NEW x, Step(s, u, x) PROVE Is(u) /\ WellBracketed(u) BY <1>a
<1> HIDE DEF Step
<1>8. ASSUME ForwardFields(t) # <<t>>
      PROVE  \/ \E a, b : Is(a) /\ Is(b) /\ ForwardFields(t) = <<a, b>> /\ t = Glued(a, b)
             \/ \E a, b, c : /\ Is(a) /\ Is(b) /\ Is(c) /\ ForwardFields(t) = <<a, b, c>>
                             /\ t = Glued(Glued(a, b), c)
             \/ \E a, b, c, d : /\ Is(a) /\ Is(b) /\ Is(c) /\ Is(d)
                                /\ ForwardFields(t) = <<a, b, c, d>>
                                /\ t = Glued(Glued(Glued(a, b), c), d)
             \/ Len(ForwardFields(t)) \in Nat /\ Len(ForwardFields(t)) > 4
  <2>1. PICK u, x : Step(t, u, x) BY <1>1, <1>2, <1>8
  <2>2. CASE ForwardFields(u) = <<u>> BY <1>4, <2>1, <2>2
  <2>3. CASE ForwardFields(u) # <<u>>
    <3>1. PICK v, y : Step(u, v, y) BY <1>1, <1>a, <2>1, <2>3
    <3>2. CASE ForwardFields(v) = <<v>> BY <1>5, <2>1, <3>1, <3>2
    <3>3. CASE ForwardFields(v) # <<v>>
      <4>1. PICK w, z : Step(v, w, z) BY <1>1, <1>a, <3>1, <3>3
      <4>2. CASE ForwardFields(w) = <<w>> BY <1>6, <2>1, <3>1, <4>1, <4>2
      <4>3. CASE ForwardFields(w) # <<w>>
        <5>1. PICK q, p : Step(w, q, p) BY <1>1, <1>a, <4>1, <4>3
        <5> QED BY <1>7, <2>1, <3>1, <4>1, <5>1
      <4> QED BY <4>2, <4>3
    <3> QED BY <3>2, <3>3
  <2> QED BY <2>2, <2>3
<1> QED BY <1>3, <1>8 DEF Is

\* A text at whose end a field begins, and a text that is a field wherever one begins.
Begins(u) ==
  Sequence(u) /\ Marked(u).field = <<>> /\ ~Marked(u).open /\ ~Marked(u).wrong
Plain(p) ==
  /\ Sequence(p)
  /\ \A u : Begins(u) =>
       /\ Marked(u \o p).fields = Marked(u).fields /\ Marked(u \o p).field = p
       /\ ~Marked(u \o p).open /\ ~Marked(u \o p).wrong

\* A rune more, by what it is.
LEMMA MarkedCases ==
  ASSUME NEW u, Sequence(u), NEW mark, NEW t, t = Append(u, mark)
  PROVE  /\ Sequence(t) /\ Sequence(Marked(u).fields) /\ Sequence(Marked(u).field)
         /\ mark = ":" /\ ~Marked(u).open =>
              /\ Marked(t).fields = Append(Marked(u).fields, Marked(u).field)
              /\ Marked(t).field = <<>>
              /\ (Marked(t).wrong <=> Marked(u).wrong) /\ ~Marked(t).open
         /\ ~(mark = ":" /\ ~Marked(u).open) =>
              /\ Marked(t).fields = Marked(u).fields
              /\ Marked(t).field = Append(Marked(u).field, mark)
              /\ Marked(t).open <=> mark = "[" \/ (mark # "]" /\ Marked(u).open)
              /\ Marked(t).wrong <=> \/ Marked(u).wrong
                                     \/ mark = "[" /\ (Marked(u).open \/ Marked(u).field # <<>>)
                                     \/ mark = "]" /\ ~Marked(u).open
<1> DEFINE s == Marked(u)
           x == Marked(t)
<1>1. Tidy(s) BY AllParted DEF Parted
<1>2. x = ReadMark(s, mark) BY MarkedMore
<1>3. Sequence(t) BY AppendFacts
<1>4. Sequence(s.fields) /\ Sequence(s.field) BY <1>1 DEF Tidy
<1> HIDE DEF s, x
<1>5. /\ mark = ":" /\ ~s.open =>
           /\ x.fields = Append(s.fields, s.field) /\ x.field = <<>>
           /\ (x.wrong <=> s.wrong) /\ ~x.open
      /\ ~(mark = ":" /\ ~s.open) =>
           /\ x.fields = s.fields /\ x.field = Append(s.field, mark)
           /\ x.open <=> mark = "[" \/ (mark # "]" /\ s.open)
           /\ x.wrong <=> \/ s.wrong
                          \/ mark = "[" /\ (s.open \/ s.field # <<>>)
                          \/ mark = "]" /\ ~s.open
  BY <1>1, <1>2, ReadMarkCases
<1> QED BY <1>3, <1>4, <1>5 DEF s, x

\* A rune within a field, and a bracket at either end of one.
LEMMA MarkedWithin ==
  ASSUME NEW u, Sequence(u), NEW mark, mark # "[", mark # "]", mark = ":" => Marked(u).open,
         NEW t, t = Append(u, mark), ~Marked(u).wrong
  PROVE  /\ Sequence(t) /\ Marked(t).fields = Marked(u).fields
         /\ Marked(t).field = Append(Marked(u).field, mark)
         /\ (Marked(t).open <=> Marked(u).open) /\ ~Marked(t).wrong
<1>1. ~(mark = ":" /\ ~Marked(u).open) OBVIOUS
<1>2. /\ Sequence(t) /\ Marked(t).fields = Marked(u).fields
      /\ Marked(t).field = Append(Marked(u).field, mark)
  BY <1>1, MarkedCases
<1>3. Marked(t).open <=> mark = "[" \/ (mark # "]" /\ Marked(u).open) BY <1>1, MarkedCases
<1>4. Marked(t).wrong <=> \/ Marked(u).wrong
                          \/ mark = "[" /\ (Marked(u).open \/ Marked(u).field # <<>>)
                          \/ mark = "]" /\ ~Marked(u).open
  BY <1>1, MarkedCases
<1> QED BY <1>2, <1>3, <1>4

\* A bracket opens a field, or closes what is open.
LEMMA MarkedEnds ==
  ASSUME NEW u, Sequence(u), ~Marked(u).wrong, NEW mark \in {"[", "]"},
         mark = "[" => ~Marked(u).open /\ Marked(u).field = <<>>, mark = "]" => Marked(u).open,
         NEW t, t = Append(u, mark)
  PROVE  /\ Sequence(t) /\ Marked(t).fields = Marked(u).fields
         /\ Marked(t).field = Append(Marked(u).field, mark)
         /\ (Marked(t).open <=> mark = "[") /\ ~Marked(t).wrong
<1>1. ~(mark = ":" /\ ~Marked(u).open) OBVIOUS
<1>2. /\ Sequence(t) /\ Marked(t).fields = Marked(u).fields
      /\ Marked(t).field = Append(Marked(u).field, mark)
  BY <1>1, MarkedCases
<1>3. Marked(t).open <=> mark = "[" \/ (mark # "]" /\ Marked(u).open) BY <1>1, MarkedCases
<1>4. Marked(t).wrong <=> \/ Marked(u).wrong
                          \/ mark = "[" /\ (Marked(u).open \/ Marked(u).field # <<>>)
                          \/ mark = "]" /\ ~Marked(u).open
  BY <1>1, MarkedCases
<1> QED BY <1>2, <1>3, <1>4

\* Nothing, and a word.
LEMMA PlainNone == Plain(<<>>)
<1>1. Sequence(<<>>) BY FewWords
<1>2. ASSUME NEW u, Begins(u) PROVE u \o <<>> = u BY <1>2, NothingAdded DEF Begins
<1> QED BY <1>1, <1>2 DEF Plain, Begins

\* A word is a field.
LEMMA PlainWord == ASSUME NEW w, w \notin Marks PROVE Plain(<<w>>)
<1>1. Sequence(<<w>>) BY FewWords
<1>2. w # "[" /\ w # "]" /\ w # ":" BY DEF Marks
<1>3. ASSUME NEW u, Begins(u)
      PROVE  /\ Marked(u \o <<w>>).fields = Marked(u).fields /\ Marked(u \o <<w>>).field = <<w>>
             /\ ~Marked(u \o <<w>>).open /\ ~Marked(u \o <<w>>).wrong
  <2>1. Sequence(u) /\ Marked(u).field = <<>> /\ ~Marked(u).open /\ ~Marked(u).wrong
    BY <1>3 DEF Begins
  <2>2. u \o <<w>> = Append(u, w) BY <2>1, AppendJoins
  <2>3. Append(<<>>, w) = <<w>> BY TailOfTwo
  <2> DEFINE t == u \o <<w>>
  <2>4. t = Append(u, w) BY <2>2
  <2> HIDE DEF t
  <2>5. /\ Marked(t).fields = Marked(u).fields /\ Marked(t).field = Append(Marked(u).field, w)
        /\ (Marked(t).open <=> Marked(u).open) /\ ~Marked(t).wrong
    BY <1>2, <2>1, <2>4, MarkedWithin
  <2> QED BY <2>1, <2>3, <2>5 DEF t
<1> QED BY <1>1, <1>3 DEF Plain

\* What an open bracket l behind b holds is the field.
Holds(b, l, fields, q) ==
  /\ Sequence(b \o q) /\ Marked(b \o q).fields = fields /\ Marked(b \o q).field = l \o q
  /\ Marked(b \o q).open /\ ~Marked(b \o q).wrong

\* It still does with a mark more.
LEMMA HoldsMore ==
  ASSUME NEW b, Sequence(b), NEW l, Sequence(l), NEW fields, NEW q, Sequence(q),
         Holds(b, l, fields, q), NEW m, m # "[", m # "]"
  PROVE  Holds(b, l, fields, Append(q, m))
<1> DEFINE y == Append(q, m)
           x == b \o q
           t == b \o y
           a == <<m>>
<1>1. /\ Sequence(x) /\ Marked(x).fields = fields /\ Marked(x).field = l \o q
      /\ Marked(x).open /\ ~Marked(x).wrong
  BY DEF Holds
<1>2. Sequence(a) /\ Sequence(l \o q) BY FewWords, JoinFacts
<1>3. q \o a = y /\ x \o a = Append(x, m) /\ (l \o q) \o a = Append(l \o q, m)
  BY <1>1, <1>2, AppendJoins
<1> HIDE DEF a, y
<1>a. Sequence(b) /\ Sequence(l) /\ Sequence(q) /\ Sequence(a) BY <1>2
<1>c. (b \o q) \o a = b \o (q \o a) BY <1>a, JoinAssociates
<1>d. (l \o q) \o a = l \o (q \o a) BY <1>a, JoinAssociates
<1>5. t = Append(x, m) /\ Append(l \o q, m) = l \o y BY <1>3, <1>c, <1>d
<1> HIDE DEF x, t
<1>b. Sequence(x) /\ Marked(x).open /\ ~Marked(x).wrong /\ t = Append(x, m) BY <1>1, <1>5
<1>6. /\ Sequence(t) /\ Marked(t).fields = Marked(x).fields
      /\ Marked(t).field = Append(Marked(x).field, m)
  BY <1>b, MarkedWithin
<1>7. Marked(t).open /\ ~Marked(t).wrong BY <1>b, MarkedWithin
<1> QED BY <1>1, <1>5, <1>6, <1>7 DEF Holds, t, y

\* An address in brackets.
Unbracketed(v) == \A i \in 1..Len(v) : v[i] # "[" /\ v[i] # "]"

\* It is a field, whatever it holds.
LEMMA PlainBracketed ==
  ASSUME NEW v, Sequence(v), Unbracketed(v)
  PROVE  Plain((<<"[">> \o v) \o <<"]">>)
<1> DEFINE n == Len(v)
           l == <<"[">>
           r == <<"]">>
           p == (l \o v) \o r
<1>1. n \in Nat BY AnySequence DEF Sequence
<1>2. Sequence(l) /\ Sequence(r) BY FewWords
<1> HIDE DEF l, r, n
<1>3. Sequence(l \o v) BY <1>2, JoinFacts
<1>4. Sequence(p) BY <1>2, <1>3, JoinFacts
<1>5. ASSUME NEW u, Begins(u)
      PROVE  /\ Marked(u \o p).fields = Marked(u).fields /\ Marked(u \o p).field = p
             /\ ~Marked(u \o p).open /\ ~Marked(u \o p).wrong
  <2>1. Sequence(u) /\ Marked(u).field = <<>> /\ ~Marked(u).open /\ ~Marked(u).wrong
    BY <1>5 DEF Begins
  <2> DEFINE b == Append(u, "[")
             F == Marked(u).fields
             S == {k \in 0..n : Holds(b, l, F, SubSeq(v, 1, k))}
  <2>2. b = u \o l /\ Append(<<>>, "[") = l BY <2>1, AppendJoins, TailOfTwo DEF l
  <2>3. /\ Sequence(b) /\ Marked(b).fields = F /\ Marked(b).field = l
        /\ Marked(b).open /\ ~Marked(b).wrong
    <3>1. b = Append(u, "[") OBVIOUS
    <3> HIDE DEF b
    <3>2. /\ Sequence(b) /\ Marked(b).fields = Marked(u).fields
          /\ Marked(b).field = Append(Marked(u).field, "[") /\ Marked(b).open /\ ~Marked(b).wrong
      BY <2>1, <3>1, MarkedEnds
    <3> QED BY <2>1, <2>2, <3>2
  <2> HIDE DEF b, F
  <2>4. 0 \in S
    <3>1. SubSeq(v, 1, 0) = <<>> BY PrefixGrows
    <3>2. b \o <<>> = b /\ l \o <<>> = l BY <1>2, <2>3, NothingAdded
    <3>3. Holds(b, l, F, <<>>) BY <2>3, <3>2 DEF Holds
    <3>4. Holds(b, l, F, SubSeq(v, 1, 0)) BY <3>1, <3>3
    <3> QED BY <1>1, <3>4
  <2>5. ASSUME NEW k \in Nat, k < n, k \in S PROVE k + 1 \in S
    <3> DEFINE q == SubSeq(v, 1, k)
               m == v[k + 1]
               y == SubSeq(v, 1, k + 1)
    <3>1. Sequence(q) /\ y = Append(q, m) BY <2>5, PrefixGrows DEF n
    <3>2. k + 1 \in 1..Len(v) /\ k + 1 \in 0..n BY <1>1, <2>5 DEF n
    <3>3. m # "[" /\ m # "]" BY <3>2 DEF Unbracketed
    <3>4. Holds(b, l, F, q) BY <2>5
    <3> HIDE DEF q, m, y
    <3>5. Holds(b, l, F, y) BY <1>2, <2>3, <3>1, <3>3, <3>4, HoldsMore
    <3> QED BY <3>2, <3>5 DEF y
  <2> HIDE DEF S
  <2>6. \A k \in Nat : k < n /\ k \in S => k + 1 \in S BY <2>5
  <2>7. \A k \in 0..n : k \in S BY <1>1, <2>4, <2>6, UpTo
  <2>8. n \in S BY <1>1, <2>7
  <2>9. SubSeq(v, 1, n) = v BY PrefixGrows DEF n
  <2> DEFINE x == b \o v
             t == u \o p
  <2>10. /\ Sequence(x) /\ Marked(x).fields = F
         /\ Marked(x).field = l \o v /\ Marked(x).open /\ ~Marked(x).wrong
    BY <2>8, <2>9 DEF S, Holds
  <2>11. t = Append(x, "]")
    <3>1. (b \o v) \o r = Append(b \o v, "]") BY <2>10, AppendJoins DEF r
    <3>2. (u \o l) \o v = u \o (l \o v) BY <1>2, <2>1, JoinAssociates
    <3>3. (u \o (l \o v)) \o r = u \o ((l \o v) \o r) BY <1>2, <1>3, <2>1, JoinAssociates, SMTT(60)
    <3> QED BY <2>2, <3>1, <3>2, <3>3
  <2>12. Append(l \o v, "]") = p BY <1>3, AppendJoins DEF r
  <2> HIDE DEF p, x, t
  <2>13. /\ Sequence(t) /\ Marked(t).fields = Marked(x).fields
         /\ Marked(t).field = Append(Marked(x).field, "]") /\ ~Marked(t).open /\ ~Marked(t).wrong
    BY <2>10, <2>11, MarkedEnds
  <2> QED BY <2>10, <2>12, <2>13 DEF t, F
<1> QED BY <1>4, <1>5 DEF Plain, l, r

\* A field is a text of one, and another behind a colon adds it.
LEMMA FieldsAlone ==
  ASSUME NEW p, Plain(p)
  PROVE  Sequence(p) /\ WellBracketed(p) /\ ForwardFields(p) = <<p>>
<1>1. Sequence(p) /\ <<>> \o p = p BY NothingAdded DEF Plain
<1>2. Begins(<<>>) /\ Marked(<<>>).fields = <<>>
  <2>1. /\ Nothing.fields = <<>> /\ Nothing.field = <<>>
        /\ Nothing.open = FALSE /\ Nothing.wrong = FALSE
    BY DEF Nothing, Between
  <2>2. Sequence(<<>>) BY FewWords
  <2> QED BY <2>1, <2>2, MarkedNone DEF Begins
<1>3. Marked(p).fields = <<>> /\ Marked(p).field = p /\ ~Marked(p).open /\ ~Marked(p).wrong
  BY <1>1, <1>2 DEF Plain
<1>4. Append(<<>>, p) = <<p>> BY TailOfTwo
<1> QED BY <1>1, <1>3, <1>4 DEF WellBracketed, ForwardFields

\* A field glued to a text is one more field of it.
LEMMA FieldsMore ==
  ASSUME NEW u, Sequence(u), WellBracketed(u), NEW p, Plain(p)
  PROVE  /\ Sequence(Glued(u, p)) /\ WellBracketed(Glued(u, p))
         /\ ForwardFields(Glued(u, p)) = Append(ForwardFields(u), p)
<1> DEFINE c == Append(u, ":")
<1>1. Sequence(p) BY DEF Plain
<1>2. u \o <<":">> = c BY AppendJoins
<1>3. Sequence(c) /\ Begins(c) /\ Marked(c).fields = ForwardFields(u)
  BY MarkedCases DEF Begins, WellBracketed, ForwardFields
<1>4. Glued(u, p) = c \o p BY <1>2 DEF Glued
<1> HIDE DEF c
<1>5. Sequence(c \o p) BY <1>1, <1>3, JoinFacts
<1>6. /\ Marked(c \o p).fields = Marked(c).fields /\ Marked(c \o p).field = p
      /\ ~Marked(c \o p).open /\ ~Marked(c \o p).wrong
  BY <1>3 DEF Plain
<1> QED BY <1>3, <1>4, <1>5, <1>6 DEF WellBracketed, ForwardFields

\* An address in brackets.
Bracketed(v) == (<<"[">> \o v) \o <<"]">>

\* A text in brackets, and a text that begins and ends with them.
LEMMA BracketedParts ==
  ASSUME NEW v, Sequence(v)
  PROVE  LET p == Bracketed(v)
         IN  /\ Sequence(p) /\ p # <<>> /\ p[1] = "[" /\ Last(p) = "]"
             /\ SubSeq(p, 2, Len(p) - 1) = v
<1> DEFINE l == <<"[">>
           r == <<"]">>
           p == Bracketed(v)
           n == Len(v)
           s == SubSeq(p, 2, Len(p) - 1)
<1>1. Sequence(l) /\ Len(l) = 1 /\ l[1] = "[" /\ Sequence(r) /\ Len(r) = 1 /\ r[1] = "]" BY FewWords
<1>2. p = (l \o v) \o r BY DEF Bracketed
<1> HIDE DEF l, r, p
<1>3. Sequence(l) /\ Sequence(r) BY <1>1
<1>4. /\ Sequence(l \o v) /\ Len(l \o v) = Len(l) + n /\ n \in Nat
      /\ \A i \in 1..Len(l) : (l \o v)[i] = l[i]
      /\ \A i \in 1..n : (l \o v)[Len(l) + i] = v[i]
  BY <1>3, JoinFacts
<1>5. Sequence(l \o v) BY <1>4
<1>6. /\ Sequence(p) /\ Len(p) = Len(l \o v) + Len(r)
      /\ \A i \in 1..Len(l \o v) : p[i] = (l \o v)[i]
      /\ \A i \in 1..Len(r) : p[Len(l \o v) + i] = r[i]
  BY <1>2, <1>3, <1>5, JoinFacts
<1> HIDE DEF n
<1>7. Len(l \o v) = n + 1 /\ Len(p) = n + 2 BY <1>1, <1>4, <1>6
<1>8. p[1] = "[" /\ p[n + 2] = "]"
  <2>1. 1 \in 1..Len(l \o v) /\ 1 \in 1..Len(l) /\ 1 \in 1..Len(r) BY <1>1, <1>4, <1>7
  <2>2. p[1] = "[" BY <1>1, <1>4, <1>6, <2>1
  <2>3. p[Len(l \o v) + 1] = "]" BY <1>1, <1>6, <2>1
  <2>4. Len(l \o v) + 1 = n + 2 BY <1>4, <1>7
  <2> QED BY <2>2, <2>3, <2>4
<1>9. \A i \in 1..n : p[i + 1] = v[i]
  <2> TAKE i \in 1..n
  <2>1. i + 1 \in 1..Len(l \o v) /\ Len(l) + i = i + 1 BY <1>1, <1>4, <1>7
  <2>2. (l \o v)[Len(l) + i] = v[i] BY <1>4
  <2>3. p[i + 1] = (l \o v)[i + 1] BY <1>6, <2>1
  <2> QED BY <2>1, <2>2, <2>3
<1>10. Last(p) = "]" BY <1>7, <1>8 DEF Last
<1>11. p # <<>>
  <2>1. Len(<<>>) = 0 BY FewWords
  <2> QED BY <1>4, <1>7, <2>1
<1>12. s = v
  <2> DEFINE A == ToSet(p)
             k == Len(p) - 1
  <2>1. p \in Seq(A) /\ k = n + 1 BY <1>4, <1>6, <1>7 DEF Sequence
  <2>2. 2 \in 1..Len(p) + 1 /\ k \in 1-1..Len(p) BY <1>4, <1>7, <2>1
  <2> HIDE DEF A
  <2>3. s \in Seq(A) /\ Len(s) = n /\ \A i \in 1..n : s[i] = p[i + 1]
    <3>1. SubSeq(p, 2, n + 1) \in Seq(A) /\ Len(SubSeq(p, 2, n + 1)) = n
          /\ \A i \in 1..n : SubSeq(p, 2, n + 1)[i] = p[i + 1]
      <4>1. 2 <= n + 1 + 1 /\ n + 1 <= Len(p) /\ n + 1 - 2 + 1 = n BY <1>4, <1>7
      <4> QED BY <1>4, <2>1, <4>1
    <3>2. s = SubSeq(p, 2, n + 1) BY <2>1
    <3> QED BY <3>1, <3>2
  <2>4. Sequence(s) BY <2>3, AnySequence
  <2> HIDE DEF s
  <2>5. \A i \in 1..Len(s) : s[i] = v[i] BY <1>9, <2>3
  <2>6. Len(s) = Len(v) BY <2>3 DEF n
  <2> QED BY <2>4, <2>5, <2>6, SameSequence
<1> QED BY <1>6, <1>8, <1>10, <1>11, <1>12 DEF p

\* What stands between the brackets of a text.
LEMMA BracketedIs ==
  ASSUME NEW x, Sequence(x), x # <<>>, x[1] = "[", Last(x) = "]"
  PROVE  LET v == SubSeq(x, 2, Len(x) - 1) IN Sequence(v) /\ x = Bracketed(v)
<1> DEFINE A == ToSet(x)
           n == Len(x)
           v == SubSeq(x, 2, n - 1)
           p == Bracketed(v)
<1>1. x \in Seq(A) /\ n \in Nat /\ n # 0 BY AnySequence DEF Sequence
<1>2. x[1] = "[" /\ x[n] = "]" BY DEF Last
<1>3. n # 1 BY <1>2
<1>4. n = Len(x) OBVIOUS
<1> HIDE DEF A, n
<1>5. n >= 2 BY <1>1, <1>3
<1>6. \A i \in 2..n - 1 : x[i] \in A BY <1>1, <1>4
<1>7. v \in Seq(A) /\ Len(v) = n - 2 /\ \A i \in 1..n - 2 : v[i] = x[i + 1]
  <2> DEFINE m == n - 1
  <2>1. 2 \in Int /\ m \in Int BY <1>1
  <2>2. \A i \in 2..m : x[i] \in A BY <1>6
  <2> HIDE DEF m
  <2>3. /\ SubSeq(x, 2, m) \in Seq(A)
        /\ Len(SubSeq(x, 2, m)) = IF 2 <= m THEN m - 2 + 1 ELSE 0
        /\ \A i \in 1 .. m - 2 + 1 : SubSeq(x, 2, m)[i] = x[2 + i - 1]
    BY <2>1, <2>2, SubSeqProperties
  <2>4. m - 2 + 1 = n - 2 /\ (~(2 <= m) => n - 2 = 0) BY <1>1, <1>5 DEF m
  <2>5. Len(SubSeq(x, 2, m)) = n - 2 BY <2>3, <2>4
  <2>6. ASSUME NEW i \in 1..n - 2 PROVE SubSeq(x, 2, m)[i] = x[i + 1]
    <3>1. i \in 1..m - 2 + 1 /\ 2 + i - 1 = i + 1 BY <1>1, <2>4
    <3> QED BY <2>3, <3>1
  <2> QED BY <2>3, <2>5, <2>6 DEF m
<1>8. Sequence(v) BY <1>7, AnySequence
<1> DEFINE l == <<"[">>
           r == <<"]">>
<1>9. Sequence(l) /\ Len(l) = 1 /\ l[1] = "[" /\ Sequence(r) /\ Len(r) = 1 /\ r[1] = "]" BY FewWords
<1>10. p = (l \o v) \o r BY DEF Bracketed
<1> HIDE DEF l, r, p, v
<1>11. Sequence(l) /\ Sequence(r) BY <1>9
<1>12. /\ Sequence(l \o v) /\ Len(l \o v) = Len(l) + Len(v)
       /\ \A i \in 1..Len(l) : (l \o v)[i] = l[i]
       /\ \A i \in 1..Len(v) : (l \o v)[Len(l) + i] = v[i]
  BY <1>8, <1>11, JoinFacts
<1>13. Sequence(l \o v) BY <1>12
<1>14. /\ Sequence(p) /\ Len(p) = Len(l \o v) + Len(r)
       /\ \A i \in 1..Len(l \o v) : p[i] = (l \o v)[i]
       /\ \A i \in 1..Len(r) : p[Len(l \o v) + i] = r[i]
  BY <1>10, <1>11, <1>13, JoinFacts
<1>15. Len(l \o v) = n - 1 /\ Len(p) = n BY <1>1, <1>7, <1>9, <1>12, <1>14
<1>16. ASSUME NEW i \in 1..n PROVE p[i] = x[i]
  <2>1. CASE i = 1
    <3>1. 1 \in 1..Len(l \o v) /\ 1 \in 1..Len(l) BY <1>5, <1>9, <1>15, <1>1
    <3> QED BY <1>2, <1>9, <1>12, <1>14, <2>1, <3>1
  <2>2. CASE i = n
    <3>1. 1 \in 1..Len(r) /\ Len(l \o v) + 1 = n BY <1>1, <1>9, <1>15
    <3>2. p[Len(l \o v) + 1] = r[1] BY <1>14, <3>1
    <3> QED BY <1>2, <1>9, <2>2, <3>1, <3>2
  <2>3. CASE i # 1 /\ i # n
    <3> DEFINE k == i - 1
    <3>1. k \in 1..n - 2 /\ k \in 1..Len(v) /\ Len(l) + k = i /\ k + 1 = i /\ i \in 1..Len(l \o v)
      BY <1>1, <1>7, <1>9, <1>15, <2>3
    <3> HIDE DEF k
    <3>2. (l \o v)[Len(l) + k] = v[k] /\ v[k] = x[k + 1] BY <1>7, <1>12, <3>1
    <3> QED BY <1>14, <3>1, <3>2
  <2> QED BY <2>1, <2>2, <2>3
<1>17. p = x BY <1>4, <1>14, <1>15, <1>16, SameSequence
<1> QED BY <1>8, <1>17 DEF v, p, n

-----------------------------------------------------------------------------
(* What the words of a forward stand for.                                  *)

\* An address of the README is a field, and parsed as what it stands for.
LEMMA AddressParsed ==
  ASSUME NEW a \in Addresses(Names)
  PROVE  Plain(a[1]) /\ a[2] \in ForwardHost(a[1])
<1>1. CASE a = <<<<>>, Localhost>>
  <2>1. a[1] = <<>> /\ a[2] = Localhost BY <1>1
  <2>2. ForwardHost(<<>>) = {Localhost} BY DEF ForwardHost
  <2> QED BY <2>1, <2>2, PlainNone
<1>2. ASSUME NEW w \in Names, a = <<<<w>>, <<w>>>> PROVE Plain(a[1]) /\ a[2] \in ForwardHost(a[1])
  <2> DEFINE f == <<w>>
  <2>1. a[1] = f /\ a[2] = f BY <1>2
  <2>2. w \notin Marks /\ w \notin Marks \union Blemish BY NameAssumption
  <2>3. Plain(f) BY <2>2, PlainWord
  <2>4. f[1] = w /\ Len(f) = 1 /\ Sequence(f) BY FewWords
  <2>5. ToSet(f) = {w}
    <3>1. DOMAIN f = 1..1 BY <2>4, AnySequence DEF Sequence
    <3>2. \A i \in 1..1 : i = 1 OBVIOUS
    <3> HIDE DEF f
    <3> QED BY <2>4, <3>1, <3>2 DEF ToSet
  <2>6. f # <<>> /\ f[1] # "["
    <3>1. Len(<<>>) = 0 BY FewWords
    <3>2. w # "[" BY <2>2 DEF Marks
    <3> QED BY <2>4, <3>1, <3>2
  <2> HIDE DEF f
  <2>7. ToSet(f) \cap (Marks \union Blemish) = {} BY <2>2, <2>5
  <2>8. ForwardHost(f) = {f} BY <2>6, <2>7 DEF ForwardHost
  <2> QED BY <2>1, <2>3, <2>8
<1>3. ASSUME NEW v \in V6, a = <<<<"[">> \o v \o <<"]">>, v>>
      PROVE  Plain(a[1]) /\ a[2] \in ForwardHost(a[1])
  <2> DEFINE p == Bracketed(v)
  <2>1. a[1] = p /\ a[2] = v BY <1>3 DEF Bracketed
  <2>2. Sequence(v) /\ Unbracketed(v)
    <3>1. v \in Seq(STRING) /\ {"[", "]"} \intersect ToSet(v) = {} BY V6Assumption
    <3>2. \A i \in 1..Len(v) : v[i] \in ToSet(v) BY <3>1 DEF ToSet
    <3> QED BY <3>1, <3>2, AnySequence DEF Unbracketed
  <2>3. Plain(p) BY <2>2, PlainBracketed DEF Bracketed
  <2>4. p # <<>> /\ p[1] = "[" /\ Last(p) = "]" /\ SubSeq(p, 2, Len(p) - 1) = v
    BY <2>2, BracketedParts
  <2> HIDE DEF p
  <2>5. ForwardHost(p) = {v} \cap V6 BY <2>4 DEF ForwardHost
  <2> QED BY <2>1, <2>3, <2>5
<1> QED BY <1>1, <1>2, <1>3 DEF Addresses

\* And what is parsed as an address is one of the README.
LEMMA ParsedAddress ==
  ASSUME NEW x, Sequence(x), Worded(x, Names), NEW h \in ForwardHost(x)
  PROVE  <<x, h>> \in Addresses(Names)
<1>1. CASE x = <<>>
  <2>1. h = Localhost BY <1>1 DEF ForwardHost
  <2> QED BY <1>1, <2>1 DEF Addresses
<1>2. CASE x # <<>> /\ x[1] = "["
  <2> DEFINE v == SubSeq(x, 2, Len(x) - 1)
  <2>1. Last(x) = "]" /\ h = v /\ v \in V6 BY <1>2 DEF ForwardHost
  <2>2. x = Bracketed(v) BY <1>2, <2>1, BracketedIs
  <2> HIDE DEF v
  <2>3. x = <<"[">> \o v \o <<"]">> BY <2>2 DEF Bracketed
  <2>4. <<<<"[">> \o v \o <<"]">>, v>> \in Addresses(Names) BY <2>1 DEF Addresses
  <2> QED BY <2>1, <2>3, <2>4
<1>3. CASE x # <<>> /\ x[1] # "["
  <2>1. ToSet(x) \cap (Marks \union Blemish) = {} /\ h = x BY <1>3 DEF ForwardHost
  <2>2. /\ x \in Seq(Marks \union Blemish \union Names)
        /\ \A i \in 1..(Len(x) - 1) : x[i] \in Marks \/ x[i + 1] \in Marks
    BY DEF Worded
  <2>3. Len(x) \in Nat /\ DOMAIN x = 1..Len(x) /\ Len(x) # 0 BY <1>3, <2>2
  <2>4. \A i \in 1..Len(x) : x[i] \in Names /\ x[i] \notin Marks
    <3>1. \A i \in 1..Len(x) : x[i] \in ToSet(x) /\ x[i] \in Marks \union Blemish \union Names
      BY <2>2, <2>3 DEF ToSet
    <3> QED BY <2>1, <3>1
  <2>5. Len(x) = 1
    <3>1. SUFFICES ASSUME Len(x) # 1 PROVE FALSE OBVIOUS
    <3>2. 1 \in 1..(Len(x) - 1) /\ 1 \in 1..Len(x) /\ 1 + 1 \in 1..Len(x) BY <2>3, <3>1
    <3> QED BY <2>2, <2>4, <3>2
  <2> DEFINE w == x[1]
             f == <<w>>
  <2>6. w \in Names BY <2>3, <2>4, <2>5
  <2>7. x = f
    <3>1. Sequence(f) /\ Len(f) = 1 /\ f[1] = w BY FewWords
    <3>2. \A i \in 1..Len(x) : i = 1 BY <2>5
    <3> HIDE DEF f
    <3>3. \A i \in 1..Len(x) : x[i] = f[i] BY <3>1, <3>2
    <3>4. Len(x) = Len(f) BY <2>5, <3>1
    <3>5. Sequence(f) BY <3>1
    <3> QED BY <3>3, <3>4, <3>5, SameSequence
  <2> HIDE DEF w
  <2>8. <<<<w>>, <<w>>>> \in Addresses(Names) BY <2>6 DEF Addresses
  <2> QED BY <2>1, <2>7, <2>8
<1> QED BY <1>1, <1>2, <1>3

\* A port of the README, and what is parsed as a port.
LEMMA PortParsed ==
  ASSUME NEW p \in Ports
  PROVE  Plain(p[1]) /\ Decimal(p[1]) /\ p[2] \in TCPPort(p[1])
<1>1. PICK w \in DOMAIN Number : Number[w] \in PortRange /\ p = <<<<w>>, Number[w]>> BY DEF Ports
<1>2. w \notin Marks BY NameAssumption
<1> DEFINE f == <<w>>
<1>3. f[1] = w /\ Len(f) = 1 BY FewWords
<1>4. p[1] = f /\ p[2] = Number[w] BY <1>1
<1>5. Plain(f) BY <1>2, PlainWord
<1> HIDE DEF f
<1>6. Decimal(f) BY <1>3 DEF Decimal
<1>7. Number[w] \in TCPPort(f) BY <1>1, <1>3, <1>6 DEF TCPPort
<1> QED BY <1>4, <1>5, <1>6, <1>7

\* What TCPPort accepts is a port of the README.
LEMMA ParsedPort ==
  ASSUME NEW x, Sequence(x), NEW n \in TCPPort(x)
  PROVE  Decimal(x) /\ <<x, n>> \in Ports /\ x # <<>> /\ n \in PortRange
<1>1. Decimal(x) /\ n = Number[x[1]] /\ n \in PortRange BY DEF TCPPort
<1> DEFINE w == x[1]
           f == <<w>>
<1>2. w \in DOMAIN Number /\ Len(x) = 1 BY <1>1 DEF Decimal
<1>3. x = f
  <2>1. Sequence(f) /\ Len(f) = 1 /\ f[1] = w BY FewWords
  <2>2. \A i \in 1..Len(x) : i = 1 BY <1>2
  <2> HIDE DEF f
  <2>3. \A i \in 1..Len(x) : x[i] = f[i] BY <2>1, <2>2
  <2>4. Len(x) = Len(f) BY <1>2, <2>1
  <2>5. Sequence(f) BY <2>1
  <2> QED BY <2>3, <2>4, <2>5, SameSequence
<1>a. Len(x) = 1 BY <1>2
<1>b. Len(<<>>) = 0 BY FewWords
<1>4. x # <<>>
  <2> SUFFICES ASSUME x = <<>> PROVE FALSE OBVIOUS
  <2>1. Len(x) = 0 BY <1>b
  <2> HIDE DEF f, w
  <2> QED BY <1>a, <2>1
<1>5. n = Number[w] BY <1>1
<1> HIDE DEF w
<1>6. <<f, n>> \in Ports BY <1>1, <1>2, <1>5 DEF Ports
<1> QED BY <1>1, <1>3, <1>4, <1>6

\* Fields from the listen port on, of texts in S, and the text they are the fields of.
FromPort(R, r, S) ==
  \/ \E x \in S : R = <<x>> /\ r = x
  \/ \E x, y \in S : R = <<x, y>> /\ r = Glued(x, y)
  \/ \E x, y, z \in S : R = <<x, y, z>> /\ r = Glued(Glued(x, y), z)

\* Texts of whole words, and those of the README.
WholeTexts == {x \in Seq(Marks \union Blemish \union Names) : Worded(x, Names)}
Allowed    == {a[1] : a \in Addresses(Names)} \union {p[1] : p \in Ports}

\* A text of whole words is a sequence of them.
LEMMA WholeSequence == ASSUME NEW x \in WholeTexts PROVE Sequence(x) /\ Worded(x, Names)
<1>1. x \in Seq(Marks \union Blemish \union Names) /\ Worded(x, Names) BY DEF WholeTexts
<1>2. Sequence(x) BY <1>1, AnySequence
<1> QED BY <1>1, <1>2

\* The texts of the README are fields.
LEMMA AllowedPlain == ASSUME NEW x \in Allowed PROVE Plain(x) /\ Sequence(x)
<1>1. CASE \E a \in Addresses(Names) : x = a[1] BY <1>1, AddressParsed DEF Plain
<1>2. CASE \E p \in Ports : x = p[1] BY <1>2, PortParsed DEF Plain
<1> QED BY <1>1, <1>2 DEF Allowed

\* Lists of fields, read from the front.
LEMMA FewFields ==
  ASSUME NEW a, NEW b, NEW c, NEW d
  PROVE  /\ Len(<<a>>) = 1 /\ Len(<<a, b>>) = 2 /\ Len(<<a, b, c>>) = 3 /\ Len(<<a, b, c, d>>) = 4
         /\ <<a>>[1] = a /\ <<a, b>>[1] = a /\ <<a, b, c>>[1] = a /\ <<a, b, c, d>>[1] = a
         /\ <<a, b>>[2] = b /\ <<a, b, c>>[2] = b /\ <<a, b, c>>[3] = c
         /\ Tail(<<a, b>>) = <<b>> /\ Tail(<<a, b, c>>) = <<b, c>>
         /\ Tail(<<a, b, c, d>>) = <<b, c, d>>
<1>1. /\ Len(<<a>>) = 1 /\ Len(<<a, b>>) = 2 /\ Len(<<a, b, c>>) = 3 /\ Len(<<a, b, c, d>>) = 4
  OBVIOUS
<1>2. /\ <<a>>[1] = a /\ <<a, b>>[1] = a /\ <<a, b, c>>[1] = a /\ <<a, b, c, d>>[1] = a
      /\ <<a, b>>[2] = b /\ <<a, b, c>>[2] = b /\ <<a, b, c>>[3] = c
  OBVIOUS
<1>3. Tail(<<a, b>>) = <<b>> OBVIOUS
<1>4. Tail(<<a, b, c>>) = <<b, c>> OBVIOUS
<1>5. Tail(<<a, b, c, d>>) = <<b, c, d>> OBVIOUS
<1> QED BY <1>1, <1>2, <1>3, <1>4, <1>5

\* Where fields are glued makes no difference.
LEMMA GluedType ==
  ASSUME NEW a, NEW b, Sequence(a), Sequence(b)
  PROVE  /\ Sequence(Glued(a, b)) /\ Sequence(a \o <<":">>) /\ Sequence(<<":">> \o b)
         /\ Glued(a, b) = a \o (<<":">> \o b)
<1> DEFINE c == <<":">>
<1>1. Sequence(c) BY FewWords
<1>2. Glued(a, b) = (a \o c) \o b BY DEF Glued
<1> HIDE DEF c
<1>3. Sequence(a \o c) BY <1>1, JoinFacts
<1>4. Sequence(c \o b) BY <1>1, JoinFacts
<1>5. Sequence((a \o c) \o b) BY <1>3, JoinFacts
<1>6. (a \o c) \o b = a \o (c \o b) BY <1>1, JoinAssociates
<1> QED BY <1>2, <1>3, <1>4, <1>5, <1>6 DEF c

\* Three fields are glued in either order.
LEMMA GluedAssociates ==
  ASSUME NEW a, NEW b, NEW c, Sequence(a), Sequence(b), Sequence(c)
  PROVE  Glued(Glued(a, b), c) = Glued(a, Glued(b, c))
<1> DEFINE m == <<":">>
           am == a \o m
           bm == b \o m
<1>1. Sequence(m) BY FewWords
<1>2. Sequence(am) /\ Sequence(bm) BY GluedType
<1>3. Glued(Glued(a, b), c) = ((am \o b) \o m) \o c BY DEF Glued
<1>4. Glued(a, Glued(b, c)) = am \o (bm \o c) BY DEF Glued
<1> HIDE DEF m
<1>5. (am \o b) \o m = am \o (b \o m)
  <2> HIDE DEF am
  <2> QED BY <1>1, <1>2, JoinAssociates, SMTT(60)
<1>6. (am \o bm) \o c = am \o (bm \o c)
  <2> HIDE DEF am, bm
  <2> QED BY <1>2, JoinAssociates
<1> QED BY <1>3, <1>4, <1>5, <1>6

\* A text glued from fields of the README has those fields.
LEMMA FieldsOfTwo ==
  ASSUME NEW a, NEW b, Plain(a), Plain(b)
  PROVE  /\ Sequence(Glued(a, b)) /\ WellBracketed(Glued(a, b))
         /\ ForwardFields(Glued(a, b)) = <<a, b>>
<1>1. Sequence(a) /\ WellBracketed(a) /\ ForwardFields(a) = <<a>> BY FieldsAlone
<1>2. /\ Sequence(Glued(a, b)) /\ WellBracketed(Glued(a, b))
      /\ ForwardFields(Glued(a, b)) = Append(ForwardFields(a), b)
  BY <1>1, FieldsMore
<1> QED BY <1>1, <1>2, TailOfTwo

\* Three fields are found again.
LEMMA FieldsOfThree ==
  ASSUME NEW a, NEW b, NEW c, Plain(a), Plain(b), Plain(c)
  PROVE  LET t == Glued(Glued(a, b), c)
         IN  Sequence(t) /\ WellBracketed(t) /\ ForwardFields(t) = <<a, b, c>>
<1> DEFINE u == Glued(a, b)
<1>1. Sequence(u) /\ WellBracketed(u) /\ ForwardFields(u) = <<a, b>> BY FieldsOfTwo
<1> HIDE DEF u
<1>2. /\ Sequence(Glued(u, c)) /\ WellBracketed(Glued(u, c))
      /\ ForwardFields(Glued(u, c)) = Append(ForwardFields(u), c)
  BY <1>1, FieldsMore
<1> QED BY <1>1, <1>2, AppendThird DEF u

\* And four.
LEMMA FieldsOfFour ==
  ASSUME NEW a, NEW b, NEW c, NEW d, Plain(a), Plain(b), Plain(c), Plain(d)
  PROVE  LET t == Glued(Glued(Glued(a, b), c), d)
         IN  Sequence(t) /\ WellBracketed(t) /\ ForwardFields(t) = <<a, b, c, d>>
<1> DEFINE u == Glued(Glued(a, b), c)
<1>1. Sequence(u) /\ WellBracketed(u) /\ ForwardFields(u) = <<a, b, c>> BY FieldsOfThree
<1> HIDE DEF u
<1>2. /\ Sequence(Glued(u, d)) /\ WellBracketed(Glued(u, d))
      /\ ForwardFields(Glued(u, d)) = Append(ForwardFields(u), d)
  BY <1>1, FieldsMore
<1> QED BY <1>1, <1>2, AppendFourth DEF u

\* The fields from the listen port on are found again.
LEMMA FromPortFields ==
  ASSUME NEW R, NEW r, FromPort(R, r, Allowed)
  PROVE  Sequence(r) /\ WellBracketed(r) /\ ForwardFields(r) = R
<1>1. ASSUME NEW x \in Allowed, R = <<x>>, r = x
      PROVE  Sequence(r) /\ WellBracketed(r) /\ ForwardFields(r) = R
  BY <1>1, AllowedPlain, FieldsAlone
<1>2. ASSUME NEW x \in Allowed, NEW y \in Allowed, R = <<x, y>>, r = Glued(x, y)
      PROVE  Sequence(r) /\ WellBracketed(r) /\ ForwardFields(r) = R
  <2>1. Plain(x) /\ Plain(y) BY AllowedPlain
  <2> QED BY <1>2, <2>1, FieldsOfTwo
<1>3. ASSUME NEW x \in Allowed, NEW y \in Allowed, NEW z \in Allowed,
             R = <<x, y, z>>, r = Glued(Glued(x, y), z)
      PROVE  Sequence(r) /\ WellBracketed(r) /\ ForwardFields(r) = R
  <2>1. Plain(x) /\ Plain(y) /\ Plain(z) BY AllowedPlain
  <2> QED BY <1>3, <2>1, FieldsOfThree
<1> QED BY <1>1, <1>2, <1>3 DEF FromPort

\* And one more before them.
LEMMA FromPortBehind ==
  ASSUME NEW R, NEW r, FromPort(R, r, Allowed), NEW a \in Allowed
  PROVE  LET t == Glued(a, r)
             F == ForwardFields(t)
         IN  WellBracketed(t) /\ Len(F) \in Nat /\ Len(F) > 1 /\ F[1] = a /\ Tail(F) = R
<1> DEFINE t == Glued(a, r)
           F == ForwardFields(t)
           Goal == WellBracketed(t) /\ Len(F) \in Nat /\ Len(F) > 1 /\ F[1] = a /\ Tail(F) = R
<1>0. Plain(a) /\ Sequence(a) BY AllowedPlain
<1>1. ASSUME NEW x \in Allowed, R = <<x>>, r = x PROVE Goal
  <2>1. Plain(x) BY AllowedPlain
  <2>2. WellBracketed(t) /\ F = <<a, x>> BY <1>0, <1>1, <2>1, FieldsOfTwo
  <2> HIDE DEF F
  <2> QED BY <1>1, <2>2, FewFields
<1>2. ASSUME NEW x \in Allowed, NEW y \in Allowed, R = <<x, y>>, r = Glued(x, y) PROVE Goal
  <2>1. Plain(x) /\ Plain(y) /\ Sequence(x) /\ Sequence(y) BY AllowedPlain
  <2>2. t = Glued(Glued(a, x), y) BY <1>0, <1>2, <2>1, GluedAssociates
  <2>3. WellBracketed(t) /\ F = <<a, x, y>> BY <1>0, <2>1, <2>2, FieldsOfThree
  <2> HIDE DEF F
  <2> QED BY <1>2, <2>3, FewFields
<1>3. ASSUME NEW x \in Allowed, NEW y \in Allowed, NEW z \in Allowed,
             R = <<x, y, z>>, r = Glued(Glued(x, y), z)
      PROVE  Goal
  <2>1. /\ Plain(x) /\ Plain(y) /\ Plain(z)
        /\ Sequence(x) /\ Sequence(y) /\ Sequence(z) /\ Sequence(Glued(x, y))
    BY AllowedPlain, GluedType
  <2>2. Glued(a, Glued(x, y)) = Glued(Glued(a, x), y) BY <1>0, <2>1, GluedAssociates
  <2>3. Glued(a, Glued(Glued(x, y), z)) = Glued(Glued(a, Glued(x, y)), z)
    BY <1>0, <2>1, GluedAssociates
  <2>4. t = Glued(Glued(Glued(a, x), y), z) BY <1>3, <2>2, <2>3
  <2>5. WellBracketed(t) /\ F = <<a, x, y, z>> BY <1>0, <2>1, <2>4, FieldsOfFour
  <2> HIDE DEF F
  <2> QED BY <1>3, <2>5, FewFields
<1> QED BY <1>1, <1>2, <1>3 DEF FromPort

-----------------------------------------------------------------------------
(* What is parsed is what the README says.                                 *)

\* The targets of the README one by one.
OneOfTargets(l, u) ==
  \/ u = <<<<>>, Localhost, l>>
  \/ \E q \in Ports : u = <<<<":">> \o q[1], Localhost, q[2]>>
  \/ \E a \in NoNumbers(Names) : u = <<<<":">> \o a[1], a[2], l>>
  \/ \E a \in Addresses(Names) : u = <<<<":">> \o a[1] \o <<":">>, a[2], l>>
  \/ \E a \in Addresses(Names), q \in Ports :
       u = <<<<":">> \o a[1] \o <<":">> \o q[1], a[2], q[2]>>

\* Which are all of them.
LEMMA TargetsAre == ASSUME NEW l, NEW u PROVE u \in Targets(Names, l) <=> OneOfTargets(l, u)
<1> DEFINE A == {<<<<>>, Localhost, l>>}
           B == {<<<<":">> \o p[1], Localhost, p[2]>> : p \in Ports}
           C == {<<<<":">> \o a[1], a[2], l>> : a \in NoNumbers(Names)}
           D == {<<<<":">> \o a[1] \o <<":">>, a[2], l>> : a \in Addresses(Names)}
           E == {<<<<":">> \o a[1] \o <<":">> \o p[1], a[2], p[2]>> : a \in Addresses(Names), p \in Ports}
<1>1. Targets(Names, l) = A \union B \union C \union D \union E BY DEF Targets
<1>2. u \in A <=> u = <<<<>>, Localhost, l>> OBVIOUS
<1>3. u \in B <=> \E q \in Ports : u = <<<<":">> \o q[1], Localhost, q[2]>> BY Zenon
<1>4. u \in C <=> \E a \in NoNumbers(Names) : u = <<<<":">> \o a[1], a[2], l>> BY Zenon
<1>5. u \in D <=> \E a \in Addresses(Names) : u = <<<<":">> \o a[1] \o <<":">>, a[2], l>> BY Zenon
<1>6. u \in E <=> \E a \in Addresses(Names), q \in Ports :
                u = <<<<":">> \o a[1] \o <<":">> \o q[1], a[2], q[2]>>
  <2> DEFINE X == Addresses(Names)
             t(a, q) == <<<<":">> \o a[1] \o <<":">> \o q[1], a[2], q[2]>>
  <2>1. E = {t(a, q) : a \in X, q \in Ports} OBVIOUS
  <2> HIDE DEF t, E, X
  <2>2. u \in E <=> \E a \in X, q \in Ports : u = t(a, q) BY <2>1
  <2> QED BY <2>2 DEF t, X
<1> HIDE DEF A, B, C, D, E
<1> QED BY <1>1, <1>2, <1>3, <1>4, <1>5, <1>6 DEF OneOfTargets

\* Both readings of the fields from the listen port on.
Target(d, r, x, u) == d = <<u[2], u[3]>> /\ r = x \o u[1]

\* What setDestination finds in fields is what the README says of their text.
LEMMA DestinationTarget ==
  ASSUME NEW R, NEW r, FromPort(R, r, WholeTexts), NEW l \in TCPPort(R[1]), NEW d \in Destination(R, l)
  PROVE  \E u \in Targets(Names, l) : Target(d, r, R[1], u)
<1> DEFINE Goal == \E u \in Targets(Names, l) : Target(d, r, R[1], u)
<1>1. ASSUME NEW x \in WholeTexts, R = <<x>>, r = x PROVE Goal
  <2>1. Sequence(x) BY WholeSequence
  <2>2. Len(R) = 1 /\ R[1] = x BY <1>1, FewFields
  <2>3. d = <<Localhost, l>> BY <2>2 DEF Destination
  <2>4. x \o <<>> = x BY <2>1, NothingAdded
  <2> DEFINE u == <<<<>>, Localhost, l>>
  <2>5. u \in Targets(Names, l) BY DEF Targets
  <2>6. u[1] = <<>> /\ u[2] = Localhost /\ u[3] = l OBVIOUS
  <2> HIDE DEF u
  <2>7. Target(d, r, R[1], u) BY <1>1, <2>2, <2>3, <2>4, <2>6 DEF Target
  <2> QED BY <2>5, <2>7
<1>2. ASSUME NEW x \in WholeTexts, NEW y \in WholeTexts, R = <<x, y>>, r = Glued(x, y) PROVE Goal
  <2>1. Sequence(x) /\ Sequence(y) /\ Worded(y, Names) BY WholeSequence
  <2>2. Len(R) = 2 /\ R[1] = x /\ R[2] = y BY <1>2, FewFields
  <2>3. r = x \o (<<":">> \o y) BY <1>2, <2>1, GluedType
  <2>4. d \in IF Decimal(y) THEN {Localhost} \X TCPPort(y) ELSE ForwardHost(y) \X {l}
    BY <2>2 DEF Destination
  <2>5. CASE Decimal(y)
    <3>1. PICK n \in TCPPort(y) : d = <<Localhost, n>> BY <2>4, <2>5
    <3> DEFINE p == <<y, n>>
               u == <<<<":">> \o p[1], Localhost, p[2]>>
    <3>2. p \in Ports BY <2>1, ParsedPort
    <3>3. p[1] = y /\ p[2] = n OBVIOUS
    <3> HIDE DEF p
    <3>4. u \in Targets(Names, l) BY <3>2, TargetsAre DEF OneOfTargets
    <3>5. u[1] = <<":">> \o y /\ u[2] = Localhost /\ u[3] = n BY <3>3
    <3> HIDE DEF u
    <3>6. Target(d, r, R[1], u) BY <2>2, <2>3, <3>1, <3>5 DEF Target
    <3> QED BY <3>4, <3>6
  <2>6. CASE ~Decimal(y)
    <3>1. PICK h \in ForwardHost(y) : d = <<h, l>> BY <2>4, <2>6
    <3> DEFINE a == <<y, h>>
               u == <<<<":">> \o a[1], a[2], l>>
    <3>2. a \in Addresses(Names) BY <2>1, ParsedAddress
    <3>3. a[1] = y /\ a[2] = h OBVIOUS
    <3> HIDE DEF a
    <3>4. a \in NoNumbers(Names) BY <2>6, <3>2, <3>3 DEF NoNumbers
    <3>5. u \in Targets(Names, l) BY <3>4, TargetsAre DEF OneOfTargets
    <3>6. u[1] = <<":">> \o y /\ u[2] = h /\ u[3] = l BY <3>3
    <3> HIDE DEF u
    <3>7. Target(d, r, R[1], u) BY <2>2, <2>3, <3>1, <3>6 DEF Target
    <3> QED BY <3>5, <3>7
  <2> QED BY <2>5, <2>6
<1>3. ASSUME NEW x \in WholeTexts, NEW y \in WholeTexts, NEW z \in WholeTexts,
             R = <<x, y, z>>, r = Glued(Glued(x, y), z)
      PROVE  Goal
  <2>1. Sequence(x) /\ Sequence(y) /\ Worded(y, Names) /\ Sequence(z) BY WholeSequence
  <2>2. Len(R) = 3 /\ R[1] = x /\ R[2] = y /\ R[3] = z BY <1>3, FewFields
  <2>3. r = x \o (<<":">> \o Glued(y, z))
    <3>1. r = Glued(x, Glued(y, z)) BY <1>3, <2>1, GluedAssociates
    <3>2. Sequence(Glued(y, z)) BY <2>1, GluedType
    <3> QED BY <2>1, <3>1, <3>2, GluedType
  <2>4. <<":">> \o Glued(y, z) = (<<":">> \o y \o <<":">>) \o z
    <3> DEFINE c == <<":">>
               yc == y \o c
    <3>1. Sequence(c) /\ Sequence(yc) BY <2>1, FewWords, GluedType
    <3>2. Glued(y, z) = yc \o z BY DEF Glued
    <3> HIDE DEF c
    <3>3. (c \o y) \o c = c \o yc BY <2>1, <3>1, JoinAssociates
    <3>4. (c \o yc) \o z = c \o (yc \o z)
      <4> HIDE DEF yc
      <4> QED BY <2>1, <3>1, JoinAssociates, SMTT(60)
    <3> QED BY <3>2, <3>3, <3>4 DEF c
  <2>5. d \in ForwardHost(y) \X (IF z = <<>> THEN {l} ELSE TCPPort(z)) BY <2>2 DEF Destination
  <2>6. PICK h \in ForwardHost(y), n \in IF z = <<>> THEN {l} ELSE TCPPort(z) : d = <<h, n>>
    BY <2>5
  <2> DEFINE a == <<y, h>>
  <2>7. a \in Addresses(Names) BY <2>1, ParsedAddress
  <2>8. a[1] = y /\ a[2] = h OBVIOUS
  <2> HIDE DEF a
  <2> DEFINE s == <<":">> \o y \o <<":">>
  <2>9. CASE z = <<>>
    <3> DEFINE u == <<<<":">> \o a[1] \o <<":">>, a[2], l>>
    <3>1. u \in Targets(Names, l) BY <2>7, TargetsAre DEF OneOfTargets
    <3>2. u[1] = s /\ u[2] = h /\ u[3] = n BY <2>6, <2>8, <2>9
    <3> HIDE DEF u
    <3>3. Sequence(s)
      <4>1. Sequence(<<":">> \o y) BY <2>1, GluedType
      <4> QED BY <4>1, GluedType
    <3> HIDE DEF s
    <3>4. s \o z = s BY <2>9, <3>3, NothingAdded
    <3>5. r = x \o s BY <2>3, <2>4, <3>4 DEF s
    <3>6. Target(d, r, R[1], u) BY <2>2, <2>6, <3>2, <3>5 DEF Target
    <3> QED BY <3>1, <3>6
  <2>10. CASE z # <<>>
    <3> DEFINE p == <<z, n>>
               u == <<<<":">> \o a[1] \o <<":">> \o p[1], a[2], p[2]>>
    <3>1. p \in Ports BY <2>1, <2>6, <2>10, ParsedPort
    <3>2. p[1] = z /\ p[2] = n OBVIOUS
    <3> HIDE DEF p
    <3>3. u \in Targets(Names, l) BY <2>7, <3>1, TargetsAre DEF OneOfTargets
    <3>4. u[1] = s \o z /\ u[2] = h /\ u[3] = n BY <2>8, <3>2
    <3> HIDE DEF u
    <3>5. r = x \o (s \o z) BY <2>3, <2>4
    <3> HIDE DEF s
    <3>6. Target(d, r, R[1], u) BY <2>2, <2>6, <3>4, <3>5 DEF Target
    <3> QED BY <3>3, <3>6
  <2> QED BY <2>9, <2>10
<1> QED BY <1>1, <1>2, <1>3 DEF FromPort

\* And what the README allows behind a listen port is what setDestination finds.
LEMMA TargetDestination ==
  ASSUME NEW p \in Ports, NEW u \in Targets(Names, p[2])
  PROVE  \E R : /\ FromPort(R, p[1] \o u[1], Allowed) /\ R[1] = p[1]
                /\ Len(R) = 1 \/ Decimal(R[1])
                /\ <<u[2], u[3]>> \in Destination(R, p[2])
<1> DEFINE x == p[1]
           l == p[2]
           Goal == \E R : /\ FromPort(R, x \o u[1], Allowed) /\ R[1] = x
                          /\ Len(R) = 1 \/ Decimal(R[1])
                          /\ <<u[2], u[3]>> \in Destination(R, l)
<1>0. Decimal(x) /\ l \in TCPPort(x) /\ Sequence(x) /\ x \in Allowed
  BY PortParsed DEF Plain, Allowed
<1>1. CASE u = <<<<>>, Localhost, l>>
  <2> DEFINE R == <<x>>
  <2>1. u[1] = <<>> /\ u[2] = Localhost /\ u[3] = l BY <1>1
  <2>2. x \o <<>> = x BY <1>0, NothingAdded
  <2>3. FromPort(R, x, Allowed) BY <1>0 DEF FromPort
  <2>4. Len(R) = 1 /\ R[1] = x BY FewFields
  <2> HIDE DEF R
  <2>5. <<Localhost, l>> \in Destination(R, l) BY <2>4 DEF Destination
  <2> QED BY <2>1, <2>2, <2>3, <2>4, <2>5
<1>2. ASSUME NEW q \in Ports, u = <<<<":">> \o q[1], Localhost, q[2]>> PROVE Goal
  <2> DEFINE y == q[1]
             R == <<x, y>>
  <2>1. u[1] = <<":">> \o y /\ u[2] = Localhost /\ u[3] = q[2] BY <1>2
  <2>2. Decimal(y) /\ q[2] \in TCPPort(y) /\ Sequence(y) /\ y \in Allowed
    BY PortParsed DEF Plain, Allowed
  <2> HIDE DEF x, y
  <2>3. Glued(x, y) = x \o (<<":">> \o y) BY <1>0, <2>2, GluedType
  <2>4. FromPort(R, Glued(x, y), Allowed) BY <1>0, <2>2 DEF FromPort
  <2>5. Len(R) = 2 /\ R[1] = x /\ R[2] = y BY FewFields
  <2> HIDE DEF R
  <2>6. <<Localhost, q[2]>> \in Destination(R, l) BY <2>2, <2>5 DEF Destination
  <2> QED BY <1>0, <2>1, <2>3, <2>4, <2>5, <2>6
<1>3. ASSUME NEW a \in NoNumbers(Names), u = <<<<":">> \o a[1], a[2], l>> PROVE Goal
  <2> DEFINE y == a[1]
             R == <<x, y>>
  <2>1. u[1] = <<":">> \o y /\ u[2] = a[2] /\ u[3] = l BY <1>3
  <2>2. ~Decimal(y) /\ a[2] \in ForwardHost(y) /\ Sequence(y) /\ y \in Allowed
    BY AddressParsed DEF Plain, Allowed, NoNumbers
  <2> HIDE DEF x, y
  <2>3. Glued(x, y) = x \o (<<":">> \o y) BY <1>0, <2>2, GluedType
  <2>4. FromPort(R, Glued(x, y), Allowed) BY <1>0, <2>2 DEF FromPort
  <2>5. Len(R) = 2 /\ R[1] = x /\ R[2] = y BY FewFields
  <2> HIDE DEF R
  <2>6. <<a[2], l>> \in Destination(R, l) BY <2>2, <2>5 DEF Destination
  <2> QED BY <1>0, <2>1, <2>3, <2>4, <2>5, <2>6
<1>4. ASSUME NEW y, NEW h, NEW z, NEW n, <<y, h>> \in Addresses(Names), z \in Allowed, Sequence(z),
             n \in IF z = <<>> THEN {l} ELSE TCPPort(z),
             u[1] = (<<":">> \o y \o <<":">>) \o z, u[2] = h, u[3] = n
      PROVE  Goal
  <2> DEFINE R == <<x, y, z>>
             a == <<y, h>>
             t == Glued(Glued(x, y), z)
  <2>1. a[1] = y /\ a[2] = h /\ a \in Addresses(Names) BY <1>4
  <2> HIDE DEF a, x
  <2>2. h \in ForwardHost(y) /\ Sequence(y) /\ y \in Allowed
    BY <2>1, AddressParsed DEF Plain, Allowed
  <2>3. t = x \o u[1]
    <3> DEFINE c == <<":">>
               yc == y \o c
               g == Glued(y, z)
    <3>1. Sequence(c) /\ Sequence(yc) BY <2>2, FewWords, GluedType
    <3>2. g = yc \o z /\ Sequence(g) BY <1>4, <2>2, GluedType DEF Glued
    <3>3. t = Glued(x, g) BY <1>0, <1>4, <2>2, GluedAssociates
    <3> HIDE DEF g, t
    <3>4. t = x \o (c \o g) BY <1>0, <3>2, <3>3, GluedType
    <3> HIDE DEF c
    <3>5. (c \o y) \o c = c \o yc BY <2>2, <3>1, JoinAssociates
    <3>6. (c \o yc) \o z = c \o (yc \o z)
      <4> HIDE DEF yc
      <4> QED BY <1>4, <3>1, JoinAssociates
    <3> QED BY <1>4, <3>2, <3>4, <3>5, <3>6 DEF c
  <2>4. FromPort(R, t, Allowed) BY <1>0, <1>4, <2>2 DEF FromPort
  <2>5. Len(R) = 3 /\ R[1] = x /\ R[2] = y /\ R[3] = z BY FewFields
  <2> HIDE DEF R
  <2>6. <<h, n>> \in Destination(R, l) BY <1>4, <2>2, <2>5 DEF Destination
  <2> QED BY <1>0, <1>4, <2>3, <2>4, <2>5, <2>6
<1>5. ASSUME NEW a \in Addresses(Names), u = <<<<":">> \o a[1] \o <<":">>, a[2], l>> PROVE Goal
  <2> DEFINE y == a[1]
             h == a[2]
             s == <<":">> \o y \o <<":">>
  <2>1. <<y, h>> \in Addresses(Names) BY <1>5 DEF Addresses
  <2>2. Sequence(y) BY AddressParsed DEF Plain
  <2>3. Sequence(s)
    <3>1. Sequence(<<":">> \o y) BY <2>2, GluedType
    <3> QED BY <3>1, GluedType
  <2>4. s \o <<>> = s
    <3> HIDE DEF s
    <3> QED BY <2>3, NothingAdded
  <2>5. u[1] = s \o <<>> /\ u[2] = h /\ u[3] = l BY <1>5, <2>4
  <2>6. <<>> \in Allowed /\ Sequence(<<>>)
    <3> DEFINE none == <<<<>>, Localhost>>
    <3>1. none \in Addresses(Names) BY DEF Addresses
    <3>2. none[1] = <<>> OBVIOUS
    <3> HIDE DEF none
    <3>3. <<>> \in Allowed BY <3>1, <3>2 DEF Allowed
    <3> QED BY <3>3, FewWords
  <2> HIDE DEF y, h
  <2> QED BY <1>4, <2>1, <2>5, <2>6
<1>6. ASSUME NEW a \in Addresses(Names), NEW q \in Ports,
             u = <<<<":">> \o a[1] \o <<":">> \o q[1], a[2], q[2]>>
      PROVE  Goal
  <2> DEFINE y == a[1]
             h == a[2]
             z == q[1]
             n == q[2]
  <2>1. <<y, h>> \in Addresses(Names) BY <1>6 DEF Addresses
  <2>2. u[1] = (<<":">> \o y \o <<":">>) \o z /\ u[2] = h /\ u[3] = n BY <1>6
  <2>3. z \in Allowed /\ Sequence(z) /\ n \in TCPPort(z) BY PortParsed DEF Plain, Allowed
  <2>4. z # <<>> BY <2>3, ParsedPort
  <2> HIDE DEF y, h, z, n
  <2> QED BY <1>4, <2>1, <2>2, <2>3, <2>4
<1>7. OneOfTargets(l, u)
  <2>1. u \in Targets(Names, l) OBVIOUS
  <2> HIDE DEF l
  <2> QED BY <2>1, TargetsAre
<1> QED BY <1>1, <1>2, <1>3, <1>5, <1>6, <1>7 DEF OneOfTargets

\* The fields of a text of whole words, from the first on and from the second on.
LEMMA WholeFields ==
  ASSUME NEW t \in WholeTexts, WellBracketed(t), NEW F, F = ForwardFields(t)
  PROVE  /\ Len(F) \in Nat /\ Len(F) # 0 /\ (Len(F) > 1 => Len(Tail(F)) = Len(F) - 1)
         /\ Len(F) <= 3 => FromPort(F, t, WholeTexts)
         /\ Len(F) > 1 /\ Len(F) <= 4 =>
              \E a \in WholeTexts : \E r :
                F[1] = a /\ FromPort(Tail(F), r, WholeTexts) /\ t = Glued(a, r)
<1> DEFINE Goal == /\ Len(F) \in Nat /\ Len(F) # 0 /\ (Len(F) > 1 => Len(Tail(F)) = Len(F) - 1)
                   /\ Len(F) <= 3 => FromPort(F, t, WholeTexts)
                   /\ Len(F) > 1 /\ Len(F) <= 4 =>
                        \E a \in WholeTexts : \E r :
                          F[1] = a /\ FromPort(Tail(F), r, WholeTexts) /\ t = Glued(a, r)
           Is(x) == Sequence(x) /\ Worded(x, Names)
<1>0. Sequence(t) /\ Worded(t, Names) BY WholeSequence
<1>w. \A x : Is(x) => x \in WholeTexts /\ Sequence(x)
  BY DEF Worded, WholeTexts
<1>1. CASE F = <<t>>
  <2>1. Len(F) = 1 BY <1>1, FewFields
  <2>2. FromPort(F, t, WholeTexts) BY <1>1 DEF FromPort
  <2> QED BY <2>1, <2>2
<1>2. ASSUME NEW a, NEW b, Is(a), Is(b), F = <<a, b>>, t = Glued(a, b) PROVE Goal
  <2>1. a \in WholeTexts /\ b \in WholeTexts BY <1>2, <1>w
  <2>2. FromPort(F, t, WholeTexts) BY <1>2, <2>1 DEF FromPort
  <2>3. FromPort(<<b>>, b, WholeTexts) BY <2>1 DEF FromPort
  <2>4. Len(F) = 2 /\ F[1] = a /\ Tail(F) = <<b>> /\ Len(Tail(F)) = 1 BY <1>2, FewFields
  <2> QED BY <1>2, <2>1, <2>2, <2>3, <2>4
<1>3. ASSUME NEW a, NEW b, NEW c, Is(a), Is(b), Is(c), F = <<a, b, c>>, t = Glued(Glued(a, b), c)
      PROVE  Goal
  <2>1. /\ a \in WholeTexts /\ b \in WholeTexts /\ c \in WholeTexts
        /\ Sequence(a) /\ Sequence(b) /\ Sequence(c)
    BY <1>3, <1>w
  <2>2. FromPort(F, t, WholeTexts) BY <1>3, <2>1 DEF FromPort
  <2>3. FromPort(<<b, c>>, Glued(b, c), WholeTexts) BY <2>1 DEF FromPort
  <2>4. Len(F) = 3 /\ F[1] = a /\ Tail(F) = <<b, c>> /\ Len(Tail(F)) = 2 BY <1>3, FewFields
  <2>5. t = Glued(a, Glued(b, c)) BY <1>3, <2>1, GluedAssociates
  <2>6. \E e \in WholeTexts : \E r :
          F[1] = e /\ FromPort(Tail(F), r, WholeTexts) /\ t = Glued(e, r)
    BY <2>1, <2>3, <2>4, <2>5
  <2>7. Len(F) = 3 /\ Len(Tail(F)) = 2 BY <2>4
  <2> HIDE DEF Is
  <2> QED BY <2>2, <2>6, <2>7
<1>4. ASSUME NEW a, NEW b, NEW c, NEW d, Is(a), Is(b), Is(c), Is(d), F = <<a, b, c, d>>,
             t = Glued(Glued(Glued(a, b), c), d)
      PROVE  Goal
  <2>1. /\ a \in WholeTexts /\ b \in WholeTexts /\ c \in WholeTexts /\ d \in WholeTexts
        /\ Sequence(a) /\ Sequence(b) /\ Sequence(c) /\ Sequence(d)
    BY <1>4, <1>w
  <2>2. FromPort(<<b, c, d>>, Glued(Glued(b, c), d), WholeTexts) BY <2>1 DEF FromPort
  <2>3. Len(F) = 4 /\ F[1] = a /\ Tail(F) = <<b, c, d>> /\ Len(Tail(F)) = 3 BY <1>4, FewFields
  <2>4. Sequence(Glued(b, c)) BY <2>1, GluedType
  <2>5. Glued(Glued(a, b), c) = Glued(a, Glued(b, c)) BY <2>1, GluedAssociates
  <2>6. Glued(Glued(a, Glued(b, c)), d) = Glued(a, Glued(Glued(b, c), d))
    BY <2>1, <2>4, GluedAssociates
  <2> QED BY <1>4, <2>1, <2>2, <2>3, <2>5, <2>6
<1>5. ASSUME Len(F) \in Nat, Len(F) > 4 PROVE Goal
  <2>1. F # <<>>
    <3>1. Len(<<>>) = 0 BY FewWords
    <3> QED BY <1>5, <3>1
  <2>2. Sequence(F)
    <3>1. Sequence(Marked(t).fields) BY <1>0, AllParted DEF Parted, Tidy
    <3> QED BY <3>1, AppendFacts DEF ForwardFields
  <2>3. Len(Tail(F)) = Len(F) - 1 BY <2>1, <2>2 DEF Sequence
  <2> QED BY <1>5, <2>3
<1> HIDE DEF Goal
<1>6. \/ F = <<t>>
      \/ \E a, b : Is(a) /\ Is(b) /\ F = <<a, b>> /\ t = Glued(a, b)
      \/ \E a, b, c : /\ Is(a) /\ Is(b) /\ Is(c)
                      /\ F = <<a, b, c>> /\ t = Glued(Glued(a, b), c)
      \/ \E a, b, c, d : /\ Is(a) /\ Is(b) /\ Is(c) /\ Is(d)
                         /\ F = <<a, b, c, d>>
                         /\ t = Glued(Glued(Glued(a, b), c), d)
      \/ Len(F) \in Nat /\ Len(F) > 4
  BY <1>0, FieldsShapes
<1> HIDE DEF Is
<1> QED BY <1>1, <1>2, <1>3, <1>4, <1>5, <1>6 DEF Goal

\* What parsePortForward reads, in one line.
Bound(F)   == Len(F) > 1 /\ ~Decimal(F[1])
Rest(F)    == IF Bound(F) THEN Tail(F) ELSE F
BindsTo(F) == IF Bound(F) THEN ForwardHost(F[1]) ELSE {Localhost}
Reads(f, F) ==
  /\ f.listen \in TCPPort(Rest(F)[1]) /\ f.bind \in BindsTo(F)
  /\ <<f.host, f.port>> \in Destination(Rest(F), f.listen)
Forward(b, l, h, p) == [bind |-> b, listen |-> l, host |-> h, port |-> p]
IsForward(f) == f = Forward(f.bind, f.listen, f.host, f.port)

\* A destination is a host and a port, of one to three fields.
LEMMA DestinationPairs ==
  ASSUME NEW R, NEW l, NEW d \in Destination(R, l)
  PROVE  d = <<d[1], d[2]>> /\ (Len(R) = 1 \/ Len(R) = 2 \/ Len(R) = 3)
<1>1. Len(R) = 1 \/ Len(R) = 2 \/ Len(R) = 3 BY DEF Destination
<1>2. CASE Len(R) = 1 BY <1>2 DEF Destination
<1>3. CASE Len(R) = 2
  <2>1. d \in {Localhost} \X TCPPort(R[2]) \/ d \in ForwardHost(R[2]) \X {l} BY <1>3 DEF Destination
  <2> QED BY <1>1, <2>1
<1>4. CASE Len(R) = 3
  <2> DEFINE S == IF R[3] = <<>> THEN {l} ELSE TCPPort(R[3])
  <2>1. d \in ForwardHost(R[2]) \X S BY <1>4 DEF Destination
  <2> HIDE DEF S
  <2> QED BY <1>1, <2>1
<1> QED BY <1>1, <1>2, <1>3, <1>4

\* parsePortForward reads just that.
LEMMA ParseReads ==
  ASSUME NEW t, NEW F, F = ForwardFields(t), NEW f
  PROVE  f \in ParsePortForward(t) <=> WellBracketed(t) /\ IsForward(f) /\ Reads(f, F)
<1>1. CASE ~WellBracketed(t) BY <1>1 DEF ParsePortForward
<1>2. CASE WellBracketed(t)
  <2> DEFINE S(l) == { Forward(b, l, d[1], d[2]) : b \in BindsTo(F), d \in Destination(Rest(F), l) }
  <2>1. ParsePortForward(t) = UNION { S(l) : l \in TCPPort(Rest(F)[1]) }
    BY <1>2 DEF ParsePortForward, Bound, Rest, BindsTo, Forward
  <2>2. f \in ParsePortForward(t) <=> \E l \in TCPPort(Rest(F)[1]) : f \in S(l)
    <3> HIDE DEF S
    <3> QED BY <2>1
  <2>3. \A l : f \in S(l) <=>
          \E b \in BindsTo(F), d \in Destination(Rest(F), l) : f = Forward(b, l, d[1], d[2])
    <3> HIDE DEF Forward
    <3> QED OBVIOUS
  <2>4. ASSUME NEW b, NEW l, NEW h, NEW p, f = Forward(b, l, h, p)
        PROVE  f.bind = b /\ f.listen = l /\ f.host = h /\ f.port = p /\ IsForward(f)
    BY <2>4 DEF Forward, IsForward
  <2> HIDE DEF S
  <2>5. ASSUME f \in ParsePortForward(t) PROVE IsForward(f) /\ Reads(f, F)
    <3>0. PICK l \in TCPPort(Rest(F)[1]) : f \in S(l) BY <2>2, <2>5
    <3>1. PICK b \in BindsTo(F), d \in Destination(Rest(F), l) : f = Forward(b, l, d[1], d[2])
      BY <2>3, <3>0
    <3>2. f.bind = b /\ f.listen = l /\ f.host = d[1] /\ f.port = d[2] /\ IsForward(f)
      BY <2>4, <3>1
    <3>3. d = <<d[1], d[2]>> BY DestinationPairs
    <3> QED BY <3>1, <3>2, <3>3 DEF Reads
  <2>6. ASSUME IsForward(f), Reads(f, F) PROVE f \in ParsePortForward(t)
    <3> DEFINE l == f.listen
               d == <<f.host, f.port>>
    <3>1. d[1] = f.host /\ d[2] = f.port OBVIOUS
    <3>2. l \in TCPPort(Rest(F)[1]) /\ f.bind \in BindsTo(F) /\ d \in Destination(Rest(F), l)
      BY <2>6 DEF Reads
    <3>3. f = Forward(f.bind, l, d[1], d[2]) BY <2>6, <3>1 DEF IsForward
    <3> HIDE DEF l, d
    <3> QED BY <2>2, <2>3, <3>2, <3>3
  <2> QED BY <1>2, <2>5, <2>6
<1> QED BY <1>1, <1>2

\* What the README allows, in one line.
Documents(t, f) ==
  \E b \in Binds(Names), l \in Ports : \E u \in Targets(Names, l[2]) :
    t = b[1] \o l[1] \o u[1] /\ f = Forward(b[2], l[2], u[2], u[3])

\* Which is what DocumentedForwards collects.
LEMMA DocumentedIs ==
  ASSUME NEW t, NEW f PROVE f \in DocumentedForwards(t, Names) <=> Documents(t, f)
<1> DEFINE T(b, l) == {u \in Targets(Names, l[2]) : t = b[1] \o l[1] \o u[1]}
           S(b, l) == { Forward(b[2], l[2], u[2], u[3]) : u \in T(b, l) }
<1>1. DocumentedForwards(t, Names) = UNION { S(b, l) : b \in Binds(Names), l \in Ports }
  BY DEF DocumentedForwards, Forward
<1>2. \A b, l : f \in S(b, l) <=> \E u \in T(b, l) : f = Forward(b[2], l[2], u[2], u[3])
  <2> HIDE DEF T
  <2> QED BY Zenon
<1>3. \A b, l, u : u \in T(b, l) <=> u \in Targets(Names, l[2]) /\ t = b[1] \o l[1] \o u[1]
  OBVIOUS
<1> HIDE DEF T, S
<1>4. f \in DocumentedForwards(t, Names) <=> \E b \in Binds(Names), l \in Ports : f \in S(b, l)
  BY <1>1
<1>5. \A b, l : f \in S(b, l) <=>
        \E u \in Targets(Names, l[2]) :
          t = b[1] \o l[1] \o u[1] /\ f = Forward(b[2], l[2], u[2], u[3])
  <2> TAKE b, l
  <2> DEFINE Q == T(b, l)
  <2>1. f \in S(b, l) <=> \E u \in Q : f = Forward(b[2], l[2], u[2], u[3]) BY <1>2
  <2>2. \A u : u \in Q <=> u \in Targets(Names, l[2]) /\ t = b[1] \o l[1] \o u[1] BY <1>3
  <2> HIDE DEF Q
  <2> QED BY <2>1, <2>2, Zenon
<1>6. f \in DocumentedForwards(t, Names) <=>
        \E b \in Binds(Names), l \in Ports : \E u \in Targets(Names, l[2]) :
          t = b[1] \o l[1] \o u[1] /\ f = Forward(b[2], l[2], u[2], u[3])
  BY <1>4, <1>5, Zenon
<1> QED BY <1>6 DEF Documents

\* A bind address is none, or one with a colon behind it.
LEMMA BindsAre ==
  ASSUME NEW b
  PROVE  b \in Binds(Names) <=>
           \/ b = <<<<>>, Localhost>>
           \/ \E a \in NoNumbers(Names) : b = <<a[1] \o <<":">>, a[2]>>
<1> DEFINE A == {<<<<>>, Localhost>>}
           B == {<<a[1] \o <<":">>, a[2]>> : a \in NoNumbers(Names)}
<1>1. Binds(Names) = A \union B BY DEF Binds
<1>2. b \in A <=> b = <<<<>>, Localhost>> OBVIOUS
<1>3. b \in B <=> \E a \in NoNumbers(Names) : b = <<a[1] \o <<":">>, a[2]>> BY Zenon
<1> HIDE DEF A, B
<1> QED BY <1>1, <1>2, <1>3

\* What stands behind a listen port is a text.
LEMMA TargetText ==
  ASSUME NEW p \in Ports, NEW u \in Targets(Names, p[2]) PROVE Sequence(u[1])
<1>1. OneOfTargets(p[2], u) BY TargetsAre
<1>c. Sequence(<<":">>) BY FewWords
<1>2. \A a \in Addresses(Names) :
        Sequence(a[1]) /\ Sequence(<<":">> \o a[1]) /\ Sequence(<<":">> \o a[1] \o <<":">>)
  <2> TAKE a \in Addresses(Names)
  <2> DEFINE y == a[1]
  <2>1. Sequence(y) BY AddressParsed DEF Plain
  <2> HIDE DEF y
  <2>2. Sequence(<<":">> \o y) BY <2>1, GluedType
  <2>3. Sequence(<<":">> \o y \o <<":">>) BY <2>2, GluedType
  <2> QED BY <2>1, <2>2, <2>3 DEF y
<1>3. \A q \in Ports : Sequence(q[1]) /\ Sequence(<<":">> \o q[1])
  <2> TAKE q \in Ports
  <2> DEFINE y == q[1]
  <2>1. Sequence(y) BY PortParsed DEF Plain
  <2> HIDE DEF y
  <2>2. Sequence(<<":">> \o y) BY <2>1, GluedType
  <2> QED BY <2>1, <2>2 DEF y
<1>4. CASE u = <<<<>>, Localhost, p[2]>>
  <2>1. u[1] = <<>> BY <1>4
  <2> QED BY <2>1, FewWords
<1>5. ASSUME NEW q \in Ports, u = <<<<":">> \o q[1], Localhost, q[2]>> PROVE Sequence(u[1])
  <2>1. u[1] = <<":">> \o q[1] BY <1>5
  <2> QED BY <1>3, <2>1
<1>6. ASSUME NEW a \in NoNumbers(Names), u = <<<<":">> \o a[1], a[2], p[2]>> PROVE Sequence(u[1])
  <2>1. u[1] = <<":">> \o a[1] /\ a \in Addresses(Names) BY <1>6 DEF NoNumbers
  <2> QED BY <1>2, <2>1
<1>7. ASSUME NEW a \in Addresses(Names), u = <<<<":">> \o a[1] \o <<":">>, a[2], p[2]>>
      PROVE  Sequence(u[1])
  <2>1. u[1] = <<":">> \o a[1] \o <<":">> BY <1>7
  <2> QED BY <1>2, <2>1
<1>8. ASSUME NEW a \in Addresses(Names), NEW q \in Ports,
             u = <<<<":">> \o a[1] \o <<":">> \o q[1], a[2], q[2]>>
      PROVE  Sequence(u[1])
  <2> DEFINE s == <<":">> \o a[1] \o <<":">>
             z == q[1]
  <2>1. u[1] = s \o z BY <1>8
  <2>2. Sequence(s) /\ Sequence(z) BY <1>2, <1>3
  <2> HIDE DEF s, z
  <2>3. Sequence(s \o z) BY <2>2, JoinFacts
  <2> QED BY <2>1, <2>3
<1> QED BY <1>1, <1>4, <1>5, <1>6, <1>7, <1>8 DEF OneOfTargets

\* The code accepts what the README allows, and takes it for what the README says.
LEMMA ParsedIsDocumented ==
  ASSUME NEW t \in WholeTexts, NEW f \in ParsePortForward(t)
  PROVE  f \in DocumentedForwards(t, Names)
<1> DEFINE F == ForwardFields(t)
           R == Rest(F)
           x == R[1]
           d == <<f.host, f.port>>
           n == f.listen
           Means(b, l, u) == t = b[1] \o l[1] \o u[1] /\ f = Forward(b[2], l[2], u[2], u[3])
<1>1. WellBracketed(t) /\ IsForward(f) /\ Reads(f, F) BY ParseReads
<1> HIDE DEF F
<1>2. /\ Len(F) \in Nat /\ Len(F) # 0 /\ (Len(F) > 1 => Len(Tail(F)) = Len(F) - 1)
      /\ Len(F) <= 3 => FromPort(F, t, WholeTexts)
      /\ Len(F) > 1 /\ Len(F) <= 4 =>
           \E a \in WholeTexts : \E r :
             F[1] = a /\ FromPort(Tail(F), r, WholeTexts) /\ t = Glued(a, r)
  BY <1>1, WholeFields DEF F
<1>3. n \in TCPPort(x) /\ f.bind \in BindsTo(F) /\ d \in Destination(R, n)
  BY <1>1 DEF Reads
<1>4. Len(R) = 1 \/ Len(R) = 2 \/ Len(R) = 3 BY <1>3, DestinationPairs
<1>5. ASSUME NEW r, FromPort(R, r, WholeTexts)
      PROVE  /\ Sequence(x) /\ <<x, n>> \in Ports
             /\ \E u \in Targets(Names, n) : /\ u[2] = f.host /\ u[3] = f.port /\ Sequence(u[1])
                                             /\ r = x \o u[1]
  <2>1. x \in WholeTexts BY <1>5, FewFields DEF FromPort
  <2>2. Sequence(x) BY <2>1, WholeSequence
  <2> DEFINE p == <<x, n>>
  <2>3. p \in Ports BY <1>3, <2>2, ParsedPort
  <2>4. PICK u \in Targets(Names, n) : Target(d, r, x, u) BY <1>3, <1>5, DestinationTarget
  <2>5. u[2] = f.host /\ u[3] = f.port /\ r = x \o u[1] BY <2>4 DEF Target
  <2>6. Sequence(u[1])
    <3>1. p[1] = x /\ p[2] = n OBVIOUS
    <3> HIDE DEF p
    <3>2. u \in Targets(Names, p[2]) BY <3>1
    <3> QED BY <2>3, <3>2, TargetText
  <2> QED BY <2>2, <2>3, <2>5, <2>6
<1> HIDE DEF R
<1>6. ASSUME NEW b \in Binds(Names), NEW l \in Ports, NEW u \in Targets(Names, l[2]), Means(b, l, u)
      PROVE  f \in DocumentedForwards(t, Names)
  <2>1. Documents(t, f) BY <1>6 DEF Documents
  <2> QED BY <2>1, DocumentedIs
<1>7. CASE ~Bound(F)
  <2>1. R = F /\ f.bind = Localhost BY <1>3, <1>7 DEF R, Rest, BindsTo
  <2>2. FromPort(R, t, WholeTexts)
    <3>1. Len(F) <= 3
      <4>1. Len(F) = 1 \/ Len(F) = 2 \/ Len(F) = 3 BY <1>4, <2>1
      <4> QED BY <4>1
    <3> QED BY <1>2, <2>1, <3>1
  <2>3. Sequence(x) /\ <<x, n>> \in Ports BY <1>5, <2>2
  <2>4. PICK u \in Targets(Names, n) :
          u[2] = f.host /\ u[3] = f.port /\ Sequence(u[1]) /\ t = x \o u[1]
    BY <1>5, <2>2
  <2> DEFINE l == <<x, n>>
             b == <<<<>>, Localhost>>
  <2>5. l[1] = x /\ l[2] = n OBVIOUS
  <2>6. b[1] = <<>> /\ b[2] = Localhost OBVIOUS
  <2>7. l \in Ports /\ b \in Binds(Names) BY <2>3, BindsAre
  <2> HIDE DEF l, b, x, n
  <2>8. b[1] \o l[1] = x BY <2>3, <2>5, <2>6, NothingAdded
  <2>9. f = Forward(b[2], l[2], u[2], u[3]) BY <1>1, <2>1, <2>4, <2>5, <2>6 DEF IsForward, n
  <2>10. Means(b, l, u) BY <2>4, <2>8, <2>9
  <2>11. u \in Targets(Names, l[2]) BY <2>5
  <2> HIDE DEF Means
  <2> QED BY <1>6, <2>7, <2>10, <2>11
<1>8. CASE Bound(F)
  <2>1. R = Tail(F) /\ f.bind \in ForwardHost(F[1]) /\ Len(F) > 1 /\ ~Decimal(F[1])
    BY <1>3, <1>8 DEF R, Rest, BindsTo, Bound
  <2>2. Len(F) <= 4 BY <1>2, <1>4, <2>1
  <2>a. PICK a \in WholeTexts : \E r : F[1] = a /\ FromPort(R, r, WholeTexts) /\ t = Glued(a, r)
    BY <1>2, <2>1, <2>2
  <2>3. PICK r : F[1] = a /\ FromPort(R, r, WholeTexts) /\ t = Glued(a, r) BY <2>a
  <2>4. Sequence(a) /\ Worded(a, Names) BY WholeSequence
  <2>5. Sequence(x) /\ <<x, n>> \in Ports BY <1>5, <2>3
  <2>6. PICK u \in Targets(Names, n) :
          u[2] = f.host /\ u[3] = f.port /\ Sequence(u[1]) /\ r = x \o u[1]
    BY <1>5, <2>3
  <2> DEFINE l == <<x, n>>
             g == <<a, f.bind>>
             c == a \o <<":">>
             b == <<g[1] \o <<":">>, g[2]>>
  <2>7. g \in Addresses(Names) BY <2>1, <2>3, <2>4, ParsedAddress
  <2>8. g[1] = a /\ g[2] = f.bind OBVIOUS
  <2>9. b[1] = c /\ b[2] = f.bind OBVIOUS
  <2>10. l[1] = x /\ l[2] = n OBVIOUS
  <2> HIDE DEF g
  <2>11. g \in NoNumbers(Names) BY <2>1, <2>3, <2>7, <2>8 DEF NoNumbers
  <2>12. l \in Ports /\ b \in Binds(Names) BY <2>5, <2>11, BindsAre
  <2>13. t = (c \o x) \o u[1]
    <3>1. Sequence(c) BY <2>4, GluedType
    <3>2. t = c \o r BY <2>3 DEF Glued
    <3> DEFINE y == u[1]
    <3> HIDE DEF c, x, y
    <3>3. Sequence(y) BY <2>6 DEF y
    <3>4. (c \o x) \o y = c \o (x \o y) BY <2>5, <3>1, <3>3, JoinAssociates
    <3> QED BY <2>6, <3>2, <3>4 DEF y
  <2> HIDE DEF l, b, x, n
  <2>14. f = Forward(b[2], l[2], u[2], u[3]) BY <1>1, <2>6, <2>9, <2>10 DEF IsForward, n
  <2>15. Means(b, l, u) BY <2>9, <2>10, <2>13, <2>14
  <2>16. u \in Targets(Names, l[2]) BY <2>10
  <2> HIDE DEF Means
  <2> QED BY <1>6, <2>12, <2>15, <2>16
<1> QED BY <1>7, <1>8

\* What the README allows is accepted for what the README says.
LEMMA DocumentedIsParsed ==
  ASSUME NEW t, NEW f \in DocumentedForwards(t, Names)
  PROVE  f \in ParsePortForward(t)
<1>1. PICK b \in Binds(Names), l \in Ports :
        \E u \in Targets(Names, l[2]) :
           t = b[1] \o l[1] \o u[1] /\ f = Forward(b[2], l[2], u[2], u[3])
  <2>1. Documents(t, f) BY DocumentedIs
  <2> QED BY <2>1 DEF Documents
<1>2. PICK u \in Targets(Names, l[2]) :
        t = b[1] \o l[1] \o u[1] /\ f = Forward(b[2], l[2], u[2], u[3])
  BY <1>1
<1> DEFINE x == l[1]
           n == l[2]
           y == u[1]
           r == x \o y
           F == ForwardFields(t)
<1>3. PICK R : /\ FromPort(R, r, Allowed) /\ R[1] = x
               /\ Len(R) = 1 \/ Decimal(R[1])
               /\ <<u[2], u[3]>> \in Destination(R, n)
  BY TargetDestination
<1>4. /\ f.bind = b[2] /\ f.listen = n /\ f.host = u[2] /\ f.port = u[3] /\ IsForward(f)
  BY <1>2 DEF Forward, IsForward
<1>5. n \in TCPPort(x) /\ Sequence(x) BY PortParsed DEF Plain
<1>6. Sequence(y) BY TargetText
<1> HIDE DEF x, y, n, F
<1>7. ASSUME WellBracketed(t), Rest(F) = R, b[2] \in BindsTo(F) PROVE f \in ParsePortForward(t)
  <2>1. f.listen \in TCPPort(Rest(F)[1]) BY <1>3, <1>4, <1>5, <1>7
  <2>2. <<f.host, f.port>> \in Destination(Rest(F), f.listen) BY <1>3, <1>4, <1>7
  <2>3. Reads(f, F) BY <1>4, <1>7, <2>1, <2>2 DEF Reads
  <2> QED BY <1>4, <1>7, <2>3, ParseReads DEF F
<1>8. CASE b = <<<<>>, Localhost>>
  <2>1. b[1] = <<>> /\ b[2] = Localhost BY <1>8
  <2>2. t = r BY <1>2, <1>5, <2>1, NothingAdded DEF x, y
  <2>3. WellBracketed(t) /\ F = R BY <1>3, <2>2, FromPortFields DEF F
  <2>4. ~Bound(F) BY <1>3, <2>3 DEF Bound
  <2> QED BY <1>7, <2>1, <2>3, <2>4 DEF Rest, BindsTo
<1>9. ASSUME NEW a \in NoNumbers(Names), b = <<a[1] \o <<":">>, a[2]>> PROVE f \in ParsePortForward(t)
  <2> DEFINE g == a[1]
             c == g \o <<":">>
  <2>1. b[1] = c /\ b[2] = a[2] BY <1>9
  <2>2. g \in Allowed /\ Sequence(g) /\ a[2] \in ForwardHost(g) /\ ~Decimal(g)
    BY AddressParsed DEF Plain, Allowed, NoNumbers
  <2> HIDE DEF g
  <2>3. Sequence(c) BY <2>2, GluedType
  <2>4. t = (c \o x) \o y BY <1>2, <2>1 DEF x, y
  <2> HIDE DEF c
  <2>5. (c \o x) \o y = c \o (x \o y) BY <1>5, <1>6, <2>3, JoinAssociates
  <2>6. t = Glued(g, r) BY <2>4, <2>5 DEF Glued, c
  <2> HIDE DEF r
  <2>7. WellBracketed(t) /\ Len(F) \in Nat /\ Len(F) > 1 /\ F[1] = g /\ Tail(F) = R
    BY <1>3, <2>2, <2>6, FromPortBehind DEF F
  <2>8. Bound(F) BY <2>2, <2>7 DEF Bound
  <2>9. Rest(F) = R /\ b[2] \in BindsTo(F) BY <2>1, <2>2, <2>7, <2>8 DEF Rest, BindsTo
  <2> QED BY <1>7, <2>7, <2>9
<1> QED BY <1>8, <1>9, BindsAre

\* So parsePortForward is the grammar of the README, for any text of whole words.
LEMMA ParsesAsDocumented ==
  ASSUME NEW t \in WholeTexts PROVE ParsePortForward(t) = DocumentedForwards(t, Names)
<1> HIDE DEF WholeTexts
<1>1. \A f : f \in ParsePortForward(t) <=> f \in DocumentedForwards(t, Names)
  BY ParsedIsDocumented, DocumentedIsParsed
<1> QED BY <1>1

-----------------------------------------------------------------------------
(* What ssh hears.                                                         *)

\* Hosts the README allows, and how Forward.String and ssh write and read them.
AllowedHosts == {a[2] : a \in Addresses(Names)}
Shown(h) == IF Contains(h, ":") THEN Bracketed(h) ELSE h
BareOf(x) == IF x # <<>> /\ x[1] = "[" THEN SubSeq(x, 2, Len(x) - 1) ELSE x

\* A word is written as it stands, and read as it was.
LEMMA WordShown ==
  ASSUME NEW w, w \notin Marks
  PROVE  Plain(Shown(<<w>>)) /\ BareOf(Shown(<<w>>)) = <<w>>
<1> DEFINE f == <<w>>
<1>1. w # "[" /\ w # ":" BY DEF Marks
<1>2. Len(f) = 1 /\ f[1] = w BY FewWords
<1>3. Plain(f) BY PlainWord
<1>4. \A i \in 1..1 : i = 1 OBVIOUS
<1> HIDE DEF f
<1>5. Shown(f) = f BY <1>1, <1>2, <1>4 DEF Shown, Contains
<1>6. BareOf(f) = f BY <1>1, <1>2 DEF BareOf
<1> QED BY <1>3, <1>5, <1>6 DEF f

\* Any host is read as it was, and is one field.
LEMMA HostShown ==
  ASSUME NEW h \in AllowedHosts
  PROVE  Plain(Shown(h)) /\ BareOf(Shown(h)) = h
<1>1. CASE h = Localhost
  <2>1. "localhost" \notin Marks BY DEF Marks
  <2> QED BY <1>1, <2>1, WordShown DEF Localhost
<1>2. ASSUME NEW w \in Names, h = <<w>> PROVE Plain(Shown(h)) /\ BareOf(Shown(h)) = h
  <2>1. w \notin Marks BY NameAssumption
  <2> QED BY <1>2, <2>1, WordShown
<1>3. CASE h \in V6
  <2> DEFINE p == Bracketed(h)
  <2>1. h \in Seq(STRING) /\ ":" \in ToSet(h) /\ {"[", "]"} \intersect ToSet(h) = {}
    BY <1>3, V6Assumption
  <2>2. Sequence(h) /\ DOMAIN h = 1..Len(h) BY <2>1, AnySequence
  <2>3. Contains(h, ":") BY <2>1, <2>2 DEF Contains, ToSet
  <2>4. \A i \in 1..Len(h) : h[i] \in ToSet(h) BY <2>2 DEF ToSet
  <2>5. Unbracketed(h) BY <2>1, <2>4 DEF Unbracketed
  <2>6. Plain(p) BY <2>2, <2>5, PlainBracketed DEF Bracketed
  <2>7. p # <<>> /\ p[1] = "[" /\ SubSeq(p, 2, Len(p) - 1) = h BY <2>2, BracketedParts
  <2>8. Shown(h) = p BY <2>3 DEF Shown
  <2> HIDE DEF p
  <2>9. BareOf(p) = h BY <2>7 DEF BareOf
  <2> QED BY <2>6, <2>8, <2>9
<1>4. h = Localhost \/ (\E w \in Names : h = <<w>>) \/ h \in V6
  <2>1. PICK a \in Addresses(Names) : h = a[2] BY DEF AllowedHosts
  <2>2. CASE a = <<<<>>, Localhost>> BY <2>1, <2>2
  <2>3. ASSUME NEW w \in Names, a = <<<<w>>, <<w>>>> PROVE h = <<w>> BY <2>1, <2>3
  <2>4. ASSUME NEW v \in V6, a = <<<<"[">> \o v \o <<"]">>, v>> PROVE h \in V6 BY <2>1, <2>4
  <2> QED BY <2>2, <2>3, <2>4 DEF Addresses
<1> QED BY <1>1, <1>2, <1>3, <1>4

\* A port is written as a number that is read as the port.
AllowedPorts == {p[2] : p \in Ports}

LEMMA PortShown ==
  ASSUME NEW n \in AllowedPorts
  PROVE  LET x == <<Itoa(n)>> IN Plain(x) /\ Decimal(x) /\ Number[x[1]] = n
<1>1. \E w \in DOMAIN Number : Number[w] = n
  <2>1. PICK p \in Ports : n = p[2] BY DEF AllowedPorts
  <2>2. PICK w \in DOMAIN Number : p = <<<<w>>, Number[w]>> BY DEF Ports
  <2> QED BY <2>1, <2>2
<1> DEFINE w == Itoa(n)
           x == <<w>>
<1>2. w \in DOMAIN Number /\ Number[w] = n BY <1>1 DEF Itoa
<1> HIDE DEF w
<1>3. w \notin Marks BY <1>2, NameAssumption
<1>4. Plain(x) BY <1>3, PlainWord
<1>5. Len(x) = 1 /\ x[1] = w BY FewWords
<1> HIDE DEF x
<1>6. Decimal(x) BY <1>2, <1>5 DEF Decimal
<1>7. Plain(x) /\ Decimal(x) /\ Number[x[1]] = n BY <1>2, <1>4, <1>5, <1>6
<1> QED BY <1>7 DEF x, w

\* Forward.String glues its four fields, and ssh finds them again.
LEMMA HostPortGlued ==
  ASSUME NEW h, NEW n, Sequence(Shown(h))
  PROVE  JoinHostPort(h, n) = Glued(Shown(h), <<Itoa(n)>>)
<1> DEFINE s == Shown(h)
           c == <<":">>
           x == <<Itoa(n)>>
<1>1. JoinHostPort(h, n) = s \o <<":", Itoa(n)>> BY DEF JoinHostPort, Shown, Bracketed
<1>2. <<":", Itoa(n)>> = c \o x BY TwoWords
<1>3. Sequence(c) /\ Sequence(x) BY FewWords
<1>4. Glued(s, x) = (s \o c) \o x BY DEF Glued
<1> HIDE DEF s, c, x
<1>5. Sequence(s) BY DEF s
<1>6. (s \o c) \o x = s \o (c \o x) BY <1>3, <1>5, JoinAssociates
<1>7. JoinHostPort(h, n) = Glued(s, x) BY <1>1, <1>2, <1>4, <1>6
<1> QED BY <1>7 DEF s, x

\* The four fields of a forward.
LEMMA FourFields ==
  ASSUME NEW a, NEW b, NEW c, NEW d
  PROVE  LET F == <<a, b, c, d>>
         IN  Len(F) = 4 /\ F[1] = a /\ F[2] = b /\ F[3] = c /\ F[4] = d
OBVIOUS

\* ssh finds the forward that was written.
LEMMA RenderedHeard ==
  ASSUME NEW f, IsForward(f), {f.bind, f.host} \subseteq AllowedHosts,
         {f.listen, f.port} \subseteq AllowedPorts
  PROVE  SSHForward(Rendered(f)) = {f}
<1> DEFINE a == Shown(f.bind)
           b == <<Itoa(f.listen)>>
           c == Shown(f.host)
           d == <<Itoa(f.port)>>
           t == Rendered(f)
           F == ForwardFields(t)
<1>1. /\ Plain(a) /\ BareOf(a) = f.bind /\ Plain(c) /\ BareOf(c) = f.host
  BY HostShown
<1>2. /\ Plain(b) /\ Decimal(b) /\ Number[b[1]] = f.listen
      /\ Plain(d) /\ Decimal(d) /\ Number[d[1]] = f.port
  BY PortShown
<1>3. Sequence(a) /\ Sequence(b) /\ Sequence(c) /\ Sequence(d) BY <1>1, <1>2 DEF Plain
<1>4. JoinHostPort(f.bind, f.listen) = Glued(a, b) /\ JoinHostPort(f.host, f.port) = Glued(c, d)
  BY <1>3, HostPortGlued
<1>5. t = Glued(Glued(a, b), Glued(c, d)) BY <1>4 DEF Rendered, Glued
<1> HIDE DEF a, b, c, d, t
<1>6. Sequence(Glued(a, b)) BY <1>3, GluedType
<1>7. t = Glued(Glued(Glued(a, b), c), d)
  <2> DEFINE g == Glued(a, b)
  <2> HIDE DEF g
  <2>1. Sequence(g) BY <1>6 DEF g
  <2>2. Glued(Glued(g, c), d) = Glued(g, Glued(c, d)) BY <1>3, <2>1, GluedAssociates
  <2> QED BY <1>5, <2>2 DEF g
<1>8. F = <<a, b, c, d>> BY <1>1, <1>2, <1>7, FieldsOfFour
<1>9. Len(F) = 4 /\ F[1] = a /\ F[2] = b /\ F[3] = c /\ F[4] = d BY <1>8, FourFields
<1>10. SSHForward(t) =
         IF Len(F) # 4 \/ ~(Decimal(F[2]) /\ Decimal(F[4])) THEN {}
         ELSE {Forward(BareOf(F[1]), Number[F[2][1]], BareOf(F[3]), Number[F[4][1]])}
  BY DEF SSHForward, BareOf, Forward
<1> HIDE DEF F
<1>11. SSHForward(t) = {Forward(f.bind, f.listen, f.host, f.port)}
  BY <1>1, <1>2, <1>9, <1>10
<1> QED BY <1>11 DEF IsForward, t

\* What is parsed has such parts, and is one.
LEMMA ParsedParts ==
  ASSUME NEW t \in WholeTexts, NEW f \in ParsePortForward(t)
  PROVE  /\ IsForward(f) /\ {f.bind, f.host} \subseteq AllowedHosts
         /\ {f.listen, f.port} \subseteq AllowedPorts
<1>0. Documents(t, f) BY ParsesAsDocumented, DocumentedIs
<1>1. PICK b \in Binds(Names), l \in Ports : \E u \in Targets(Names, l[2]) :
        t = b[1] \o l[1] \o u[1] /\ f = Forward(b[2], l[2], u[2], u[3])
  BY <1>0 DEF Documents
<1>2. PICK u \in Targets(Names, l[2]) : f = Forward(b[2], l[2], u[2], u[3]) BY <1>1
<1>3. /\ f.bind = b[2] /\ f.listen = l[2] /\ f.host = u[2] /\ f.port = u[3] /\ IsForward(f)
  BY <1>2 DEF Forward, IsForward
<1>4. Localhost \in AllowedHosts
  <2> DEFINE none == <<<<>>, Localhost>>
  <2>1. none \in Addresses(Names) BY DEF Addresses
  <2>2. none[2] = Localhost OBVIOUS
  <2> HIDE DEF none
  <2> QED BY <2>1, <2>2 DEF AllowedHosts
<1>5. \A a \in Addresses(Names) : a[2] \in AllowedHosts BY DEF AllowedHosts
<1>6. \A p \in Ports : p[2] \in AllowedPorts BY DEF AllowedPorts
<1>7. \A a \in NoNumbers(Names) : a[2] \in AllowedHosts BY <1>5 DEF NoNumbers
<1>8. b[2] \in AllowedHosts
  <2>1. CASE b = <<<<>>, Localhost>> BY <1>4, <2>1
  <2>2. ASSUME NEW a \in NoNumbers(Names), b = <<a[1] \o <<":">>, a[2]>> PROVE b[2] = a[2]
    BY <2>2
  <2> QED BY <1>7, <2>1, <2>2, BindsAre
<1>9. u[2] \in AllowedHosts /\ u[3] \in AllowedPorts
  <2>0. l[2] \in AllowedPorts BY <1>6
  <2>1. CASE u = <<<<>>, Localhost, l[2]>>
    <3>1. u[2] = Localhost /\ u[3] = l[2] BY <2>1
    <3> QED BY <1>4, <2>0, <3>1
  <2>2. ASSUME NEW q \in Ports, u = <<<<":">> \o q[1], Localhost, q[2]>>
        PROVE  u[2] \in AllowedHosts /\ u[3] \in AllowedPorts
    <3>1. u[2] = Localhost /\ u[3] = q[2] BY <2>2
    <3> QED BY <1>4, <1>6, <3>1
  <2>3. ASSUME NEW a \in NoNumbers(Names), u = <<<<":">> \o a[1], a[2], l[2]>>
        PROVE  u[2] \in AllowedHosts /\ u[3] \in AllowedPorts
    <3>1. u[2] = a[2] /\ u[3] = l[2] BY <2>3
    <3> QED BY <1>7, <2>0, <3>1
  <2>4. ASSUME NEW a \in Addresses(Names), u = <<<<":">> \o a[1] \o <<":">>, a[2], l[2]>>
        PROVE  u[2] \in AllowedHosts /\ u[3] \in AllowedPorts
    <3>1. u[2] = a[2] /\ u[3] = l[2] BY <2>4
    <3> QED BY <1>5, <2>0, <3>1
  <2>5. ASSUME NEW a \in Addresses(Names), NEW q \in Ports,
               u = <<<<":">> \o a[1] \o <<":">> \o q[1], a[2], q[2]>>
        PROVE  u[2] \in AllowedHosts /\ u[3] \in AllowedPorts
    <3>1. u[2] = a[2] /\ u[3] = q[2] BY <2>5
    <3> QED BY <1>5, <1>6, <3>1
  <2>6. OneOfTargets(l[2], u) BY TargetsAre
  <2> QED BY <2>1, <2>2, <2>3, <2>4, <2>5, <2>6 DEF OneOfTargets
<1>10. f.listen \in AllowedPorts BY <1>3, <1>6
<1> QED BY <1>3, <1>8, <1>9, <1>10

\* A text stands for one host,
LEMMA OneHost == ASSUME NEW x, NEW g \in ForwardHost(x), NEW h \in ForwardHost(x) PROVE g = h
<1> DEFINE v == SubSeq(x, 2, Len(x) - 1)
           H == ForwardHost(x)
<1>1. H = {Localhost} \/ H \subseteq {v} \/ H \subseteq {x}
  <2>1. CASE x = <<>> BY <2>1 DEF ForwardHost
  <2>2. CASE x # <<>> /\ x[1] = "["
    <3>1. H = IF Last(x) = "]" THEN {v} \cap V6 ELSE {} BY <2>2 DEF ForwardHost
    <3> HIDE DEF H, v
    <3> QED BY <3>1
  <2>3. CASE x # <<>> /\ x[1] # "["
    <3>1. H = IF ToSet(x) \cap (Marks \union Blemish) = {} THEN {x} ELSE {}
      BY <2>3 DEF ForwardHost
    <3> HIDE DEF H
    <3> QED BY <3>1
  <2> QED BY <2>1, <2>2, <2>3
<1>2. g \in H /\ h \in H OBVIOUS
<1> HIDE DEF H, v
<1> QED BY <1>1, <1>2

\* for one port,
LEMMA OnePort == ASSUME NEW x, NEW m \in TCPPort(x), NEW n \in TCPPort(x) PROVE m = n
BY DEF TCPPort

\* fields for one destination,
LEMMA OneDestination ==
  ASSUME NEW R, NEW l, NEW d \in Destination(R, l), NEW e \in Destination(R, l)
  PROVE  d = e
<1>1. Len(R) = 1 \/ Len(R) = 2 \/ Len(R) = 3 BY DestinationPairs
<1>2. CASE Len(R) = 1 BY <1>2 DEF Destination
<1>3. CASE Len(R) = 2
  <2>1. CASE Decimal(R[2])
    <3>1. d \in {Localhost} \X TCPPort(R[2]) /\ e \in {Localhost} \X TCPPort(R[2])
      BY <1>3, <2>1 DEF Destination
    <3> QED BY <3>1, OnePort
  <2>2. CASE ~Decimal(R[2])
    <3>1. d \in ForwardHost(R[2]) \X {l} /\ e \in ForwardHost(R[2]) \X {l}
      BY <1>3, <2>2 DEF Destination
    <3> QED BY <3>1, OneHost
  <2> QED BY <2>1, <2>2
<1>4. CASE Len(R) = 3
  <2> DEFINE S == IF R[3] = <<>> THEN {l} ELSE TCPPort(R[3])
  <2>1. d \in ForwardHost(R[2]) \X S /\ e \in ForwardHost(R[2]) \X S BY <1>4 DEF Destination
  <2>2. \A m, n \in S : m = n BY OnePort
  <2> HIDE DEF S
  <2> QED BY <2>1, <2>2, OneHost
<1> QED BY <1>1, <1>2, <1>3, <1>4

\* and a text for one forward.
LEMMA OneForward ==
  ASSUME NEW t, NEW f \in ParsePortForward(t), NEW g \in ParsePortForward(t)
  PROVE  f = g
<1> DEFINE F == ForwardFields(t)
<1>1. IsForward(f) /\ Reads(f, F) /\ IsForward(g) /\ Reads(g, F) BY ParseReads
<1> HIDE DEF F
<1>2. f.listen = g.listen BY <1>1, OnePort DEF Reads
<1>3. f.bind = g.bind BY <1>1, OneHost DEF Reads, BindsTo
<1> DEFINE d == <<f.host, f.port>>
           e == <<g.host, g.port>>
<1>4. d = e
  <2>1. d \in Destination(Rest(F), f.listen) /\ e \in Destination(Rest(F), f.listen)
    BY <1>1, <1>2 DEF Reads
  <2> HIDE DEF d, e
  <2> QED BY <2>1, OneDestination
<1>5. f.host = g.host /\ f.port = g.port BY <1>4
<1> QED BY <1>1, <1>2, <1>3, <1>5 DEF IsForward

\* So what ssh hears of a text that was accepted is what the README says of it.
LEMMA HeardAsDocumented ==
  ASSUME NEW t \in WholeTexts, ParsePortForward(t) # {}
  PROVE  SSHForward(Rendered(CHOOSE f \in ParsePortForward(t) : TRUE)) = DocumentedForwards(t, Names)
<1> DEFINE f == CHOOSE g \in ParsePortForward(t) : TRUE
<1>1. f \in ParsePortForward(t) OBVIOUS
<1> HIDE DEF f
<1>2. ParsePortForward(t) = {f} BY <1>1, OneForward
<1>3. SSHForward(Rendered(f)) = {f} BY <1>1, ParsedParts, RenderedHeard
<1> QED BY <1>2, <1>3, ParsesAsDocumented DEF f

-----------------------------------------------------------------------------
(* The forwards of a list of options.                                      *)

\* A flag stands in options behind others where it stands in either.
LEMMA FlagAtJoin ==
  ASSUME NEW a, NEW b, Options(a, RealSSHTakesArg), Options(b, RealSSHTakesArg),
         NEW flag \in RealSSHTakesArg
  PROVE  /\ \A i \in 1..Len(a) : i \in FlagAt(a \o b, flag) <=> i \in FlagAt(a, flag)
         /\ \A i \in 1..Len(b) : Len(a) + i \in FlagAt(a \o b, flag) <=> i \in FlagAt(b, flag)
<1>1. PICK P, Q : Chain(a, P, RealSSHTakesArg) /\ Chain(b, Q, RealSSHTakesArg) BY DEF Options
<1>2. Sequence(a) /\ Sequence(b) BY DEF Options
<1> DEFINE w == a \o b
           R == P \union {Len(a) + i : i \in Q}
<1>3. Chain(w, R, RealSSHTakesArg) BY <1>1, <1>2, ChainsJoin
<1>4. /\ Sequence(w) /\ Len(w) = Len(a) + Len(b) /\ Len(a) \in Nat /\ Len(b) \in Nat
      /\ \A i \in 1..Len(a) : w[i] = a[i]
      /\ \A i \in 1..Len(b) : w[Len(a) + i] = b[i]
  BY <1>2, JoinFacts
<1>c. \A i : i \in R <=> i \in P \/ \E j \in Q : i = Len(a) + j OBVIOUS
<1> HIDE DEF w, R
<1>5. /\ FlagAt(a, flag) = AtFlag(a, P, flag) /\ FlagAt(b, flag) = AtFlag(b, Q, flag)
      /\ FlagAt(w, flag) = AtFlag(w, R, flag)
  BY <1>1, <1>2, <1>3, <1>4, FlagAtChain
<1>8. P \subseteq 1..Len(a) + 1 /\ Q \subseteq 1..Len(b) + 1 /\ 1 \in Q BY <1>1 DEF Chain
<1>9. ASSUME NEW i \in 1..Len(a) PROVE i \in FlagAt(w, flag) <=> i \in FlagAt(a, flag)
  <2>1. i \in R <=> i \in P
    <3>1. \A j \in Q : i # Len(a) + j BY <1>4, <1>8
    <3> QED BY <1>c, <3>1
  <2>2. i <= Len(w) /\ i <= Len(a) /\ w[i] = a[i] BY <1>4
  <2> QED BY <1>5, <2>1, <2>2 DEF AtFlag
<1>10. ASSUME NEW i \in 1..Len(b) PROVE Len(a) + i \in FlagAt(w, flag) <=> i \in FlagAt(b, flag)
  <2> DEFINE k == Len(a) + i
  <2>1. k \in R <=> i \in Q
    <3>1. k \in P => i = 1 BY <1>4, <1>8
    <3>2. \A j \in Q : k = Len(a) + j => i = j BY <1>4, <1>8
    <3> HIDE DEF k
    <3>3. i \in Q => k \in R BY <1>c DEF k
    <3>4. k \in R => i \in Q BY <1>8, <1>c, <3>1, <3>2
    <3> QED BY <3>3, <3>4
  <2>2. k <= Len(w) /\ i <= Len(b) /\ w[k] = b[i] BY <1>4
  <2> HIDE DEF k
  <2>3. k \in FlagAt(w, flag) <=> i \in FlagAt(b, flag) BY <1>5, <2>1, <2>2 DEF AtFlag
  <2> QED BY <2>3 DEF k
<1> QED BY <1>9, <1>10 DEF w

\* What a flag is given on the way through options.
Found(s, w, flag, i) == IF i \in FlagAt(w, flag) THEN Append(s, w[i + 1]) ELSE s
Finds(f, w, flag) ==
  /\ f[0] = <<>> /\ \A i \in 0..Len(w) : Sequence(f[i])
  /\ \A i \in 1..Len(w) : f[i] = Found(f[i - 1], w, flag, i)

\* ValuesOfFlag is what is found on such a way,
LEMMA ValuesSteps ==
  ASSUME NEW w, Sequence(w), NEW flag
  PROVE  \E f : Finds(f, w, flag) /\ ValuesOfFlag(w, flag) = f[Len(w)]
<1> DEFINE n == Len(w)
           V == Seq(ToSet(w))
           next == [i \in 1..n |-> [s \in V |-> Found(s, w, flag, i)]]
           Body(h) == [i \in 0..n |->
                         IF i = 0 THEN <<>>
                         ELSE IF i \in FlagAt(w, flag) THEN Append(h[i - 1], w[i + 1])
                         ELSE h[i - 1]]
<1>a. DOMAIN w = 1..n /\ n \in Nat BY AnySequence DEF Sequence
<1>b. \A i \in FlagAt(w, flag) : i + 1 \in 1..n \/ i \notin 1..n
  <2> TAKE i \in FlagAt(w, flag)
  <2>1. i < n BY DEF FlagAt
  <2> HIDE DEF n
  <2> QED BY <1>a, <2>1
<1>c. \A i \in 1..n : w[i] \in ToSet(w) BY <1>a DEF ToSet
<1>0. \A h : Body(h) = [i \in 0..n |-> IF i = 0 THEN <<>> ELSE Found(h[i - 1], w, flag, i)]
  BY DEF Found
<1> DEFINE f == CHOOSE h : h = Body(h)
<1>7. ValuesOfFlag(w, flag) = f[n] BY DEF ValuesOfFlag
<1> HIDE DEF f, Body, n
<1>1. next \in [1..n -> [V -> V]]
  <2>1. ASSUME NEW i \in 1..n, NEW s \in V PROVE Found(s, w, flag, i) \in V
    <3>1. CASE i \in FlagAt(w, flag)
      <4>1. w[i + 1] \in ToSet(w) BY <1>b, <1>c, <3>1
      <4> QED BY <3>1, <4>1 DEF Found
    <3>2. CASE i \notin FlagAt(w, flag) BY <3>2 DEF Found
    <3> QED BY <3>1, <3>2
  <2> QED BY <2>1
<1>2. \A i \in 1..n, s \in V : next[i][s] = Found(s, w, flag, i) OBVIOUS
<1>d. <<>> \in V OBVIOUS
<1> HIDE DEF next, V
<1>3. PICK g \in [0..n -> V] : Built(g, <<>>, next, n) BY <1>1, <1>a, <1>d, Iterates
<1>4. \A i \in 1..n : g[i] = Found(g[i - 1], w, flag, i)
  <2>1. \A i \in 1..n : i - 1 \in 0..n BY <1>a
  <2> QED BY <1>2, <1>3, <2>1 DEF Built
<1>5. g = Body(g)
  <2> DEFINE h == [i \in 0..n |-> IF i = 0 THEN <<>> ELSE Found(g[i - 1], w, flag, i)]
  <2>1. \A i \in 0..n : g[i] = h[i] BY <1>3, <1>4, <1>a DEF Built
  <2>3. g = h BY <2>1
  <2>4. Body(g) = h BY <1>0
  <2> QED BY <2>3, <2>4
<1>6. f = Body(f) BY <1>5 DEF f
<1>8. f[0] = <<>> /\ \A i \in 1..n : f[i] = Found(f[i - 1], w, flag, i)
  BY <1>0, <1>6, <1>a
<1> DEFINE S == {k \in 0..n : f[k] = g[k]}
<1>9. 0 \in S BY <1>3, <1>8, <1>a DEF Built
<1>10. ASSUME NEW k \in Nat, k < n, k \in S PROVE k + 1 \in S
  <2> DEFINE i == k + 1
  <2>1. i \in 1..n /\ i \in 0..n /\ i - 1 = k BY <1>10, <1>a
  <2> HIDE DEF i
  <2>2. f[i] = g[i] BY <1>4, <1>8, <1>10, <2>1
  <2> QED BY <2>1, <2>2 DEF i
<1> HIDE DEF S
<1>11. \A k \in Nat : k < n /\ k \in S => k + 1 \in S BY <1>10
<1>12. \A k \in 0..n : k \in S BY <1>a, <1>9, <1>11, UpTo
<1>13. \A k \in 0..n : Sequence(f[k])
  <2> TAKE k \in 0..n
  <2>1. f[k] = g[k] /\ g[k] \in V BY <1>12 DEF S
  <2> QED BY <2>1, AnySequence DEF V
<1>14. Finds(f, w, flag) BY <1>8, <1>13 DEF Finds, n
<1> QED BY <1>7, <1>14 DEF n

\* and on any.
LEMMA ValuesAre ==
  ASSUME NEW w, Sequence(w), NEW flag, NEW g, Finds(g, w, flag)
  PROVE  ValuesOfFlag(w, flag) = g[Len(w)]
<1> DEFINE n == Len(w)
<1>1. PICK f : Finds(f, w, flag) /\ ValuesOfFlag(w, flag) = f[n] BY ValuesSteps
<1>2. n \in Nat BY AnySequence DEF Sequence
<1>3. /\ f[0] = <<>> /\ g[0] = <<>>
      /\ \A i \in 1..n : f[i] = Found(f[i - 1], w, flag, i) /\ g[i] = Found(g[i - 1], w, flag, i)
  BY <1>1 DEF Finds
<1> HIDE DEF n
<1> DEFINE S == {k \in 0..n : f[k] = g[k]}
<1>4. 0 \in S BY <1>2, <1>3
<1>5. ASSUME NEW k \in Nat, k < n, k \in S PROVE k + 1 \in S
  <2> DEFINE i == k + 1
  <2>1. i \in 1..n /\ i \in 0..n /\ i - 1 = k BY <1>2, <1>5
  <2> HIDE DEF i
  <2>2. f[i] = g[i] BY <1>3, <1>5, <2>1
  <2> QED BY <2>1, <2>2 DEF i
<1> HIDE DEF S
<1>6. \A k \in Nat : k < n /\ k \in S => k + 1 \in S BY <1>5
<1>7. \A k \in 0..n : k \in S BY <1>2, <1>4, <1>6, UpTo
<1>8. n \in S BY <1>2, <1>7
<1> QED BY <1>1, <1>8 DEF S, n

\* The values of a flag in options behind others are those of both, in order.
LEMMA ValuesJoin ==
  ASSUME NEW a, NEW b, Options(a, RealSSHTakesArg), Options(b, RealSSHTakesArg),
         NEW flag \in RealSSHTakesArg
  PROVE  /\ Sequence(ValuesOfFlag(a, flag)) /\ Sequence(ValuesOfFlag(b, flag))
         /\ ValuesOfFlag(a \o b, flag) = ValuesOfFlag(a, flag) \o ValuesOfFlag(b, flag)
<1> DEFINE w == a \o b
           m == Len(a)
           n == Len(b)
<1>1. Sequence(a) /\ Sequence(b) BY DEF Options
<1>2. /\ Sequence(w) /\ Len(w) = m + n /\ m \in Nat /\ n \in Nat
      /\ \A i \in 1..m : w[i] = a[i]
      /\ \A i \in 1..n : w[m + i] = b[i]
  BY <1>1, JoinFacts
<1>3. /\ \A i \in 1..m : i \in FlagAt(w, flag) <=> i \in FlagAt(a, flag)
      /\ \A i \in 1..n : m + i \in FlagAt(w, flag) <=> i \in FlagAt(b, flag)
  BY FlagAtJoin
<1>4. (\A i \in FlagAt(a, flag) : i < m) /\ (\A i \in FlagAt(b, flag) : i < n)
  BY DEF FlagAt
<1>5. PICK f : Finds(f, a, flag) /\ ValuesOfFlag(a, flag) = f[m] BY <1>1, ValuesSteps
<1>6. PICK g : Finds(g, b, flag) /\ ValuesOfFlag(b, flag) = g[n] BY <1>1, ValuesSteps
<1>7. /\ f[0] = <<>> /\ \A i \in 0..m : Sequence(f[i])
      /\ \A i \in 1..m : f[i] = Found(f[i - 1], a, flag, i)
  BY <1>5 DEF Finds
<1>8. /\ g[0] = <<>> /\ \A i \in 0..n : Sequence(g[i])
      /\ \A i \in 1..n : g[i] = Found(g[i - 1], b, flag, i)
  BY <1>6 DEF Finds
<1> HIDE DEF w, m, n
<1> DEFINE x == f[m]
           h == [i \in 0..m + n |-> IF i <= m THEN f[i] ELSE x \o g[i - m]]
<1>9. Sequence(x) /\ x \o <<>> = x
  <2>1. m \in 0..m BY <1>2
  <2>2. Sequence(x) BY <1>7, <2>1
  <2> QED BY <2>2, NothingAdded
<1>10. \A i \in 0..m : h[i] = f[i] BY <1>2
<1>11. \A i \in 0..n : h[m + i] = x \o g[i]
  <2> TAKE i \in 0..n
  <2>1. CASE i = 0
    <3>1. h[m + i] = x BY <1>2, <2>1
    <3> HIDE DEF x, h
    <3> QED BY <1>8, <1>9, <2>1, <3>1
  <2>2. CASE i # 0
    <3>1. m + i \in 0..m + n /\ ~(m + i <= m) /\ (m + i) - m = i BY <1>2, <2>2
    <3> QED BY <3>1
  <2> QED BY <2>1, <2>2
<1>12. \A i \in 0..n : Sequence(x \o g[i])
  <2> TAKE i \in 0..n
  <2> DEFINE y == g[i]
  <2>1. Sequence(y) BY <1>8
  <2> HIDE DEF x, y
  <2>2. Sequence(x \o y) BY <1>9, <2>1, JoinFacts
  <2> QED BY <2>2 DEF y
<1> HIDE DEF h, x
<1>13. \A i \in 0..m + n : i \in 0..m \/ \E k \in 0..n : i = m + k
  <2> TAKE i \in 0..m + n
  <2>1. CASE i <= m BY <1>2, <2>1
  <2>2. CASE ~(i <= m)
    <3>1. i - m \in 0..n /\ i = m + (i - m) BY <1>2, <2>2
    <3> QED BY <3>1
  <2> QED BY <2>1, <2>2
<1>14. \A i \in 0..Len(w) : Sequence(h[i])
  <2> TAKE i \in 0..Len(w)
  <2>1. i \in 0..m \/ \E k \in 0..n : i = m + k BY <1>2, <1>13
  <2>2. CASE i \in 0..m BY <1>7, <1>10, <2>2
  <2>3. ASSUME NEW k \in 0..n, i = m + k PROVE Sequence(h[i])
    <3>1. h[m + k] = x \o g[k] /\ Sequence(x \o g[k]) BY <1>11, <1>12
    <3> QED BY <2>3, <3>1
  <2> QED BY <2>1, <2>2, <2>3
<1>15. ASSUME NEW i \in 1..m PROVE h[i] = Found(h[i - 1], w, flag, i)
  <2>1. i \in 0..m /\ i - 1 \in 0..m BY <1>2
  <2>2. h[i] = Found(h[i - 1], a, flag, i) BY <1>7, <1>10, <2>1
  <2>3. i \in FlagAt(a, flag) => w[i + 1] = a[i + 1]
    <3> SUFFICES ASSUME i \in FlagAt(a, flag) PROVE w[i + 1] = a[i + 1] OBVIOUS
    <3>1. i < m BY <1>4
    <3>2. i + 1 \in 1..m BY <1>2, <3>1
    <3> QED BY <1>2, <3>2
  <2> QED BY <1>3, <2>2, <2>3 DEF Found
<1>16. ASSUME NEW k \in 1..n, NEW i, i = m + k PROVE h[i] = Found(h[i - 1], w, flag, i)
  <2> DEFINE j == k - 1
             y == g[j]
             e == b[k + 1]
  <2>1. k \in 0..n /\ j \in 0..n /\ i - 1 = m + j BY <1>2, <1>16
  <2>2. h[i] = x \o g[k] /\ h[i - 1] = x \o y BY <1>11, <1>16, <2>1
  <2>3. g[k] = Found(y, b, flag, k) BY <1>8
  <2>4. Sequence(y) BY <1>8, <2>1
  <2> HIDE DEF y, e
  <2>5. CASE k \in FlagAt(b, flag)
    <3>1. k < n BY <1>4, <2>5
    <3>2. k + 1 \in 1..n /\ m + (k + 1) = i + 1 BY <1>2, <1>16, <3>1
    <3>3. w[i + 1] = e BY <1>2, <3>2 DEF e
    <3>4. g[k] = Append(y, e) BY <2>3, <2>5 DEF Found, e
    <3>5. Append(y, e) = y \o <<e>> BY <2>4, AppendJoins
    <3> DEFINE u == <<e>>
    <3>6. Sequence(u) BY FewWords
    <3>7. Sequence(x \o y) BY <1>9, <2>4, JoinFacts
    <3> HIDE DEF u
    <3>8. (x \o y) \o u = x \o (y \o u) BY <1>9, <2>4, <3>6, JoinAssociates
    <3>9. (x \o y) \o <<e>> = Append(x \o y, e) BY <3>7, AppendJoins
    <3>10. h[i] = Append(h[i - 1], w[i + 1]) BY <2>2, <3>3, <3>4, <3>5, <3>8, <3>9 DEF u
    <3>11. i \in FlagAt(w, flag) BY <1>3, <1>16, <2>5
    <3> QED BY <3>10, <3>11 DEF Found
  <2>6. CASE k \notin FlagAt(b, flag)
    <3>1. i \notin FlagAt(w, flag) BY <1>3, <1>16, <2>6
    <3>2. g[k] = y BY <2>3, <2>6 DEF Found
    <3> QED BY <2>2, <3>1, <3>2 DEF Found
  <2> QED BY <2>5, <2>6
<1>17. ASSUME NEW i \in 1..Len(w) PROVE h[i] = Found(h[i - 1], w, flag, i)
  <2>1. CASE i <= m
    <3>1. i \in 1..m BY <1>2, <2>1
    <3> QED BY <1>15, <3>1
  <2>2. CASE ~(i <= m)
    <3>1. i - m \in 1..n /\ i = m + (i - m) BY <1>2, <2>2
    <3> QED BY <1>16, <3>1
  <2> QED BY <2>1, <2>2
<1>18. h[0] = <<>>
  <2>1. 0 \in 0..m BY <1>2
  <2> QED BY <1>7, <1>10, <2>1
<1>19. Finds(h, w, flag) BY <1>14, <1>17, <1>18 DEF Finds
<1>20. ValuesOfFlag(w, flag) = h[m + n] BY <1>2, <1>19, ValuesAre
<1>21. h[m + n] = x \o g[n] /\ Sequence(g[n])
  <2>1. n \in 0..n BY <1>2
  <2> QED BY <1>8, <1>11, <2>1
<1> QED BY <1>5, <1>6, <1>9, <1>20, <1>21 DEF w, x

\* What -L and -R are given in options, in order.
Hears(w, L, R) ==
  /\ Options(w, RealSSHTakesArg) /\ Sequence(L) /\ Sequence(R)
  /\ ValuesOfFlag(w, "-L") = L /\ ValuesOfFlag(w, "-R") = R

\* Options behind others add their forwards.
LEMMA HearsJoin ==
  ASSUME NEW a, NEW L, NEW R, Hears(a, L, R), NEW b, NEW M, NEW S, Hears(b, M, S)
  PROVE  Hears(a \o b, L \o M, R \o S)
<1>1. Options(a, RealSSHTakesArg) /\ Options(b, RealSSHTakesArg) BY DEF Hears
<1>2. "-L" \in RealSSHTakesArg /\ "-R" \in RealSSHTakesArg BY DEF RealSSHTakesArg
<1>3. Options(a \o b, RealSSHTakesArg) BY <1>1, OptionsJoin
<1>4. \A flag \in RealSSHTakesArg :
        ValuesOfFlag(a \o b, flag) = ValuesOfFlag(a, flag) \o ValuesOfFlag(b, flag)
  BY <1>1, ValuesJoin
<1>5. /\ Sequence(L) /\ Sequence(M) /\ Sequence(R) /\ Sequence(S)
      /\ ValuesOfFlag(a, "-L") = L /\ ValuesOfFlag(b, "-L") = M
      /\ ValuesOfFlag(a, "-R") = R /\ ValuesOfFlag(b, "-R") = S
  BY DEF Hears
<1>6. Sequence(L \o M) /\ Sequence(R \o S) BY <1>5, JoinFacts
<1>7. ValuesOfFlag(a \o b, "-L") = L \o M /\ ValuesOfFlag(a \o b, "-R") = R \o S
  BY <1>2, <1>4, <1>5
<1> QED BY <1>3, <1>6, <1>7 DEF Hears

\* Options that are not for -L or -R, and one that is.
LEMMA HearsNothing ==
  ASSUME NEW w, Options(w, RealSSHTakesArg), NEW flag, FlagAt(w, flag) = {}
  PROVE  ValuesOfFlag(w, flag) = <<>>
<1> DEFINE n == Len(w)
           g == [i \in 0..n |-> <<>>]
<1>1. Sequence(w) /\ n \in Nat BY AnySequence DEF Options, Sequence
<1>2. Sequence(<<>>) BY FewWords
<1>3. \A i \in 0..n : g[i] = <<>> OBVIOUS
<1>4. 0 \in 0..n /\ n \in 0..n /\ \A i \in 1..n : i \in 0..n /\ i - 1 \in 0..n BY <1>1
<1> HIDE DEF g
<1>5. \A i \in 1..n : g[i] = Found(g[i - 1], w, flag, i) BY <1>3, <1>4 DEF Found
<1>6. Finds(g, w, flag) BY <1>2, <1>3, <1>4, <1>5 DEF Finds
<1>7. ValuesOfFlag(w, flag) = g[n] BY <1>1, <1>6, ValuesAre
<1> QED BY <1>3, <1>4, <1>7

\* A flag that is given nothing stands nowhere.
LEMMA NowhereGiven ==
  ASSUME NEW w, NEW flag, GivenTo(w, flag) = {}
  PROVE  FlagAt(w, flag) = {}
<1>1. \A i \in FlagAt(w, flag) : w[i + 1] \in GivenTo(w, flag) BY DEF GivenTo
<1> QED BY <1>1

\* Options that name no forward add none.
LEMMA HearsOther ==
  ASSUME NEW w, Options(w, RealSSHTakesArg), GivenTo(w, "-L") = {}, GivenTo(w, "-R") = {}
  PROVE  Hears(w, <<>>, <<>>)
<1>1. FlagAt(w, "-L") = {} /\ FlagAt(w, "-R") = {} BY NowhereGiven
<1>2. ValuesOfFlag(w, "-L") = <<>> /\ ValuesOfFlag(w, "-R") = <<>> BY <1>1, HearsNothing
<1>3. Sequence(<<>>) BY FewWords
<1> QED BY <1>2, <1>3 DEF Hears

\* An option that names one adds it.
LEMMA HearsValue ==
  ASSUME NEW flag \in {"-L", "-R"}, NEW value
  PROVE  ValuesOfFlag(Opt(flag, value), flag) = <<value>>
<1> DEFINE w == Opt(flag, value)
           u == <<value>>
           g == [i \in 0..2 |-> IF i = 0 THEN <<>> ELSE u]
<1>1. flag \in RealSSHTakesArg /\ flag \in DashedAtoms /\ flag # "--"
  BY DashAssumption DEF RealSSHTakesArg
<1>2. Sequence(w) /\ Len(w) = 2 /\ w[1] = W(flag) /\ w[2] = value BY FewWords DEF Opt
<1>3. Chain(w, {1, 3}, RealSSHTakesArg) BY <1>1, OneOption
<1> HIDE DEF w
<1>4. FlagAt(w, flag) = {1}
  <2>1. FlagAt(w, flag) = AtFlag(w, {1, 3}, flag) BY <1>1, <1>2, <1>3, FlagAtChain
  <2> QED BY <1>2, <2>1 DEF AtFlag
<1>5. g[0] = <<>> /\ g[1] = u /\ g[2] = u OBVIOUS
<1>6. Append(<<>>, value) = u BY TailOfTwo
<1>7. Sequence(u) /\ Sequence(<<>>) BY FewWords
<1> HIDE DEF g, u
<1>8. \A i \in 0..2 : Sequence(g[i])
  <2>1. \A i \in 0..2 : i = 0 \/ i = 1 \/ i = 2 OBVIOUS
  <2> QED BY <1>5, <1>7, <2>1
<1>9. g[1] = Found(g[0], w, flag, 1)
  <2>1. w[1 + 1] = value BY <1>2
  <2> QED BY <1>4, <1>5, <1>6, <2>1 DEF Found
<1>10. g[2] = Found(g[1], w, flag, 2) BY <1>4, <1>5 DEF Found
<1>11. \A i \in 1..2 : g[i] = Found(g[i - 1], w, flag, i)
  <2>1. \A i \in 1..2 : (i = 1 /\ i - 1 = 0) \/ (i = 2 /\ i - 1 = 1) OBVIOUS
  <2> QED BY <1>9, <1>10, <2>1
<1>12. Finds(g, w, flag) BY <1>2, <1>5, <1>8, <1>11 DEF Finds
<1>13. ValuesOfFlag(w, flag) = g[2] BY <1>2, <1>12, ValuesAre
<1> QED BY <1>5, <1>13 DEF w, u

\* The options slush gives ssh, one by one.
LEMMA HearsOption ==
  ASSUME NEW v
  PROVE  /\ \A f \in {"-p", "-i", "-F", "-o"} : Hears(Opt(f, v), <<>>, <<>>)
         /\ Hears(<<W("-N")>>, <<>>, <<>>) /\ Hears(<<>>, <<>>, <<>>)
         /\ Hears(Opt("-L", v), <<v>>, <<>>) /\ Hears(Opt("-R", v), <<>>, <<v>>)
<1>1. {"-L", "-R"} \subseteq RealSSHTakesArg BY DEF RealSSHTakesArg
<1>2. \A f \in WithValue : Options(Opt(f, v), RealSSHTakesArg) BY SlushOption
<1>3. \A f \in WithValue, flag \in {"-L", "-R"} :
        GivenTo(Opt(f, v), flag) = IF f = flag THEN {v} ELSE {}
  BY <1>1, SlushOption
<1>4. ASSUME NEW f \in {"-p", "-i", "-F", "-o"} PROVE Hears(Opt(f, v), <<>>, <<>>)
  <2>1. f \in WithValue /\ f # "-L" /\ f # "-R" BY DEF WithValue
  <2> QED BY <1>2, <1>3, <2>1, HearsOther
<1>5. Hears(<<W("-N")>>, <<>>, <<>>) BY <1>1, SlushFlag, HearsOther
<1>6. Hears(<<>>, <<>>, <<>>) BY <1>1, NoOptions, GivenNone, HearsOther
<1>7. Sequence(<<v>>) /\ Sequence(<<>>) BY FewWords
<1>8. Hears(Opt("-L", v), <<v>>, <<>>)
  <2> DEFINE w == Opt("-L", v)
  <2>1. Options(w, RealSSHTakesArg) /\ GivenTo(w, "-R") = {} BY <1>2, <1>3 DEF WithValue
  <2>2. ValuesOfFlag(w, "-L") = <<v>> BY HearsValue
  <2> HIDE DEF w
  <2>3. ValuesOfFlag(w, "-R") = <<>> BY <2>1, NowhereGiven, HearsNothing
  <2> QED BY <1>7, <2>1, <2>2, <2>3 DEF Hears, w
<1>9. Hears(Opt("-R", v), <<>>, <<v>>)
  <2> DEFINE w == Opt("-R", v)
  <2>1. Options(w, RealSSHTakesArg) /\ GivenTo(w, "-L") = {} BY <1>2, <1>3 DEF WithValue
  <2>2. ValuesOfFlag(w, "-R") = <<v>> BY HearsValue
  <2> HIDE DEF w
  <2>3. ValuesOfFlag(w, "-L") = <<>> BY <2>1, NowhereGiven, HearsNothing
  <2> QED BY <1>7, <2>1, <2>2, <2>3 DEF Hears, w
<1> QED BY <1>4, <1>5, <1>6, <1>8, <1>9

\* Options that name none change nothing behind others.
LEMMA HearsMore ==
  ASSUME NEW a, NEW L, NEW R, Hears(a, L, R), NEW b, Hears(b, <<>>, <<>>)
  PROVE  Hears(a \o b, L, R)
<1>1. L \o <<>> = L /\ R \o <<>> = R BY NothingAdded DEF Hears
<1>2. Hears(a \o b, L \o <<>>, R \o <<>>) BY HearsJoin
<1> QED BY <1>1, <1>2

\* The options of the connection name no forward.
LEMMA HearsConnOpts == Hears(ConnOpts, <<>>, <<>>)
<1> DEFINE pv == IF request.port = <<>> THEN <<>>
                 ELSE W(Itoa(CHOOSE n \in TCPPort(request.port) : TRUE))
           o == Opt("-o", W(AgentWord))
           p == IfGiven("-p", pv)
           i == IfGiven("-i", request.identity)
           c == IfGiven("-F", request.config)
<1>1. ConnOpts = o \o ((p \o i) \o c) BY DEF ConnOpts, ConnectionFlags, AgentWord
<1>2. Hears(o, <<>>, <<>>) BY HearsOption
<1>3. \A f \in {"-p", "-i", "-F"} : \A v : Hears(IfGiven(f, v), <<>>, <<>>)
  BY HearsOption DEF IfGiven
<1>4. Hears(p, <<>>, <<>>) /\ Hears(i, <<>>, <<>>) /\ Hears(c, <<>>, <<>>) BY <1>3
<1> HIDE DEF o, p, i, c
<1>5. Hears(p \o i, <<>>, <<>>) BY <1>4, HearsMore
<1>6. Hears((p \o i) \o c, <<>>, <<>>) BY <1>4, <1>5, HearsMore
<1>7. Hears(o \o ((p \o i) \o c), <<>>, <<>>) BY <1>2, <1>6, HearsMore
<1> QED BY <1>1, <1>7

\* What a list of forwards becomes.
RenderedOf(texts, i) == Rendered(CHOOSE f \in Forwards(texts)[i] : TRUE)
AllRendered(texts) == [i \in 1..Len(texts) |-> RenderedOf(texts, i)]
HeardAs(flag, w, values) ==
  IF flag = "-L" THEN Hears(w, values, <<>>) ELSE Hears(w, <<>>, values)

\* forwardOptions names every forward of a list, in order.
LEMMA HearsForwardOpts ==
  ASSUME NEW flag \in {"-L", "-R"}, NEW texts, Len(texts) \in Nat
  PROVE  HeardAs(flag, ForwardOpts(flag, texts), AllRendered(texts))
<1> DEFINE n == Len(texts)
           all == AllRendered(texts)
           V == {RenderedOf(texts, i) : i \in 1..n} \union {W(flag)}
           seqs == [i \in 1..n |-> Opt(flag, RenderedOf(texts, i))]
<1>1. n \in Nat OBVIOUS
<1>2. ForwardOpts(flag, texts) = FlattenSeq(seqs) BY DEF ForwardOpts, RenderedOf
<1>3. \A i \in 1..n : seqs[i] \in Seq(V)
  <2> TAKE i \in 1..n
  <2> DEFINE v == RenderedOf(texts, i)
  <2>1. v \in V /\ W(flag) \in V OBVIOUS
  <2>2. seqs[i] = <<W(flag), v>> BY DEF Opt
  <2> HIDE DEF v, V, seqs
  <2> QED BY <2>1, <2>2
<1>a. \A i \in 1..n : all[i] = RenderedOf(texts, i) BY DEF AllRendered
<1>b. all = [i \in 1..n |-> all[i]] BY DEF AllRendered
<1>c. Sequence(all) /\ Len(all) = n
  <2> HIDE DEF all
  <2> DEFINE U == {all[i] : i \in 1..n}
  <2>1. all \in Seq(U) /\ Len(all) = n BY <1>1, <1>b
  <2> QED BY <2>1, AnySequence
<1>4. \A i \in 1..n : HeardAs(flag, seqs[i], <<all[i]>>)
  BY <1>a, HearsOption DEF HeardAs
<1>5. seqs = [i \in 1..n |-> seqs[i]] OBVIOUS
<1>d. n = Len(texts) OBVIOUS
<1> HIDE DEF V, n, seqs, all
<1>6. seqs \in Seq(Seq(V)) /\ Len(seqs) = n BY <1>1, <1>3, <1>5
<1>7. CASE n = 0
  <2>1. seqs = <<>> BY <1>6, <1>7
  <2>2. all = <<>> BY <1>c, <1>7 DEF Sequence
  <2>3. HeardAs(flag, <<>>, <<>>) BY HearsOption DEF HeardAs
  <2> QED BY <1>2, <2>1, <2>2, <2>3, FlattenFew DEF all
<1>8. CASE n # 0
  <2>1. PICK f : /\ f[0] = <<>> /\ FlattenSeq(seqs) = f[n]
                 /\ \A i \in 1..n : f[i] = f[i - 1] \o seqs[i]
    <3>1. PICK f \in [0..Len(seqs) -> Seq(V)] :
                   /\ f[0] = <<>> /\ f[1] = seqs[1] /\ FlattenSeq(seqs) = f[Len(seqs)]
                   /\ \A i \in 1..Len(seqs) : f[i] = f[i - 1] \o seqs[i]
      <4>1. Len(seqs) # 0 BY <1>6, <1>8
      <4> QED BY <1>6, <4>1, FlattenSteps
    <3> QED BY <1>6, <3>1
  <2> DEFINE S == {k \in 0..n : HeardAs(flag, f[k], SubSeq(all, 1, k))}
  <2>2. 0 \in S
    <3>1. SubSeq(all, 1, 0) = <<>> BY <1>c, PrefixGrows
    <3>2. HeardAs(flag, <<>>, <<>>) BY HearsOption DEF HeardAs
    <3>3. HeardAs(flag, f[0], SubSeq(all, 1, 0)) BY <2>1, <3>1, <3>2
    <3>4. 0 \in 0..n BY <1>1
    <3> QED BY <3>3, <3>4
  <2>3. ASSUME NEW k \in Nat, k < n, k \in S PROVE k + 1 \in S
    <3> DEFINE i == k + 1
               q == SubSeq(all, 1, k)
               y == SubSeq(all, 1, k + 1)
               e == all[k + 1]
    <3>1. i \in 1..n /\ i - 1 = k /\ i \in 0..n BY <1>1, <2>3
    <3>2. y = Append(q, e) /\ Sequence(q) BY <1>c, <2>3, PrefixGrows
    <3>3. HeardAs(flag, f[k], q) BY <2>3
    <3>4. HeardAs(flag, seqs[i], <<e>>) BY <1>4, <3>1
    <3>e. y = SubSeq(all, 1, i) OBVIOUS
    <3> HIDE DEF i, q, y, e
    <3>5. f[i] = f[k] \o seqs[i] BY <2>1, <3>1
    <3>6. y = q \o <<e>> BY <3>2, AppendJoins
    <3>7. <<>> \o <<>> = <<>>
      <4>1. Sequence(<<>>) BY FewWords
      <4> QED BY <4>1, NothingAdded
    <3>8. HeardAs(flag, f[i], y)
      <4> DEFINE u == <<e>>
      <4>1. u = <<e>> OBVIOUS
      <4> HIDE DEF u
      <4>2. CASE flag = "-L"
        <5>1. Hears(f[k], q, <<>>) /\ Hears(seqs[i], u, <<>>)
          BY <3>3, <3>4, <4>1, <4>2 DEF HeardAs
        <5>2. Hears(f[k] \o seqs[i], q \o u, <<>> \o <<>>) BY <5>1, HearsJoin
        <5> QED BY <3>5, <3>6, <3>7, <4>1, <4>2, <5>2 DEF HeardAs
      <4>3. CASE flag # "-L"
        <5>1. Hears(f[k], <<>>, q) /\ Hears(seqs[i], <<>>, u)
          BY <3>3, <3>4, <4>1, <4>3 DEF HeardAs
        <5>2. Hears(f[k] \o seqs[i], <<>> \o <<>>, q \o u) BY <5>1, HearsJoin
        <5> QED BY <3>5, <3>6, <3>7, <4>1, <4>3, <5>2 DEF HeardAs
      <4> QED BY <4>2, <4>3
    <3> QED BY <3>1, <3>8, <3>e DEF i
  <2> HIDE DEF S
  <2>4. \A k \in Nat : k < n /\ k \in S => k + 1 \in S BY <2>3
  <2>5. \A k \in 0..n : k \in S BY <1>1, <2>2, <2>4, UpTo
  <2>6. n \in S BY <1>1, <2>5
  <2>7. SubSeq(all, 1, n) = all BY <1>c, PrefixGrows
  <2> QED BY <1>2, <2>1, <2>6, <2>7 DEF S, all
<1> QED BY <1>7, <1>8

-----------------------------------------------------------------------------
(* The master.                                                             *)

\* The words of the master name the forwards of the request and no other.
LEMMA MasterHears ==
  ASSUME Fit
  PROVE  Hears(SSHReads(MasterArgs).options, AllRendered(request.local), AllRendered(request.remote))
<1> DEFINE a1 == <<W("-N")>>
           a2 == a1 \o Opt("-o", W("ExitOnForwardFailure=yes"))
           a3 == a2 \o Opt("-o", W("ControlMaster=yes"))
           a4 == a3 \o Opt("-o", ControlPath)
           a5 == a4 \o Opt("-o", W("ControlPersist=no"))
           a6 == a5 \o ConnOpts
           fl == ForwardOpts("-L", request.local)
           fr == ForwardOpts("-R", request.remote)
           a7 == a6 \o fl
           w  == a7 \o fr
           L  == AllRendered(request.local)
           R  == AllRendered(request.remote)
<1>1. MasterArgs = w \o <<Host>> BY SessionHostIs DEF MasterArgs
<1>2. Hears(a1, <<>>, <<>>) BY HearsOption
<1>3. HeardAs("-L", fl, L) /\ HeardAs("-R", fr, R) BY FitFacts, HearsForwardOpts
<1>4. Hears(fl, L, <<>>) /\ Hears(fr, <<>>, R) BY <1>3 DEF HeardAs
<1>5. \A v : Hears(Opt("-o", v), <<>>, <<>>) BY HearsOption
<1>6. Sequence(L) /\ Sequence(R) BY <1>4 DEF Hears
<1>7. <<>> \o L = L /\ L \o <<>> = L /\ <<>> \o R = R /\ <<>> \o <<>> = <<>>
  <2> HIDE DEF L, R
  <2>1. Sequence(<<>>) BY FewWords
  <2> QED BY <1>6, <2>1, NothingAdded
<1> HIDE DEF a1, fl, fr, L, R
<1>8. Hears(a2, <<>>, <<>>) BY <1>2, <1>5, HearsMore
<1> HIDE DEF a2
<1>9. Hears(a3, <<>>, <<>>) BY <1>5, <1>8, HearsMore
<1> HIDE DEF a3
<1>10. Hears(a4, <<>>, <<>>) BY <1>5, <1>9, HearsMore
<1> HIDE DEF a4
<1>11. Hears(a5, <<>>, <<>>) BY <1>5, <1>10, HearsMore
<1> HIDE DEF a5
<1>12. Hears(a6, <<>>, <<>>) BY <1>11, HearsConnOpts, HearsMore
<1> HIDE DEF a6
<1>13. Hears(a7, <<>> \o L, <<>> \o <<>>) BY <1>4, <1>12, HearsJoin
<1>14. Hears(a7, L, <<>>) BY <1>7, <1>13
<1> HIDE DEF a7
<1>15. Hears(w, L \o <<>>, <<>> \o R) BY <1>4, <1>14, HearsJoin
<1>16. Hears(w, L, R) BY <1>7, <1>15
<1> HIDE DEF w
<1>17. Options(w, RealSSHTakesArg) BY <1>16 DEF Hears
<1>18. SSHReads(w \o <<Host>>) = [host |-> Host, options |-> w, command |-> <<>>]
  BY <1>17, FitFacts, ReadsHost
<1>19. SSHReads(MasterArgs).options = w BY <1>1, <1>18
<1> QED BY <1>16, <1>19 DEF L, R

\* The master hears the forwards of the request as they are rendered.
HeardInv ==
  run.by = "master" =>
    Hears(SSHReads(run.args).options, AllRendered(request.local), AllRendered(request.remote))

\* No step disturbs it.
LEMMA HeardNext == ASSUME LineInv, HeardInv, Next PROVE HeardInv'
<1>0. step \notin Unstarted => Fit BY DEF LineInv, Fit
<1>1. ASSUME run' = run, request' = request PROVE HeardInv' BY <1>1 DEF HeardInv
<1>2. ASSUME NEW by, by # "master", NEW program, NEW args, NEW held,
             run' = [by |-> by, program |-> program, args |-> args, held |-> held]
      PROVE  HeardInv'
  <2>1. run'.by = by BY <1>2
  <2> QED BY <1>2, <2>1 DEF HeardInv
<1>3. CASE StartMaster
  <2>1. step = "master" /\ request' = request /\ run'.args = MasterArgs
    BY <1>3 DEF StartMaster, Execute
  <2>2. Fit BY <1>0, <2>1 DEF Unstarted
  <2>3. Hears(SSHReads(run'.args).options, AllRendered(request'.local), AllRendered(request'.remote))
    BY <2>1, <2>2, MasterHears
  <2> QED BY <2>3 DEF HeardInv
<1>4. CASE ReadOptions \/ OptionsFail \/ NoLocalMosh \/ MasterDies \/ Complete
  BY <1>1, <1>4 DEF ReadOptions, OptionsFail, NoLocalMosh, MasterDies, Complete, commandVars
<1>5. CASE Install
  BY <1>2, <1>5 DEF Install, Execute
<1>6. CASE CheckMaster
  BY <1>2, <1>6 DEF CheckMaster, Execute
<1>7. CASE ForwardClipboard
  BY <1>2, <1>7 DEF ForwardClipboard, Execute
<1>8. CASE CheckRemoteAgent
  BY <1>2, <1>8 DEF CheckRemoteAgent, Execute
<1>9. CASE ProvisionOverMaster
  BY <1>2, <1>9 DEF ProvisionOverMaster, Execute
<1>10. CASE ProvisionDirectly
  <2>1. step \in {"env direct", "shim direct"} /\ \E args, next : Execute("ssh", args, next)
    BY <1>10 DEF ProvisionDirectly
  <2>2. step # "master" BY <2>1
  <2>3. \E program, args, held :
          run' = [by |-> step, program |-> program, args |-> args, held |-> held]
    BY <2>1 DEF Execute
  <2> QED BY <1>2, <2>2, <2>3
<1>11. CASE DetectTransport
  BY <1>2, <1>11 DEF DetectTransport, Execute
<1>12. CASE RunClient
  BY <1>2, <1>12 DEF RunClient, Execute
<1>13. CASE Probe
  BY <1>2, <1>13 DEF Probe, Execute
<1>14. CASE StopTunnel
  BY <1>2, <1>14 DEF StopTunnel, Execute
<1> QED BY <1>3, <1>4, <1>5, <1>6, <1>7, <1>8, <1>9, <1>10, <1>11, <1>12, <1>13, <1>14 DEF Next

\* It holds throughout.
LEMMA AlwaysHeardInv == Spec => [](LineInv /\ HeardInv)
<1>1. Init => HeardInv
  <2>1. Init => run = NoRun BY DEF Init
  <2>2. NoRun.by = "none" BY DEF NoRun
  <2> QED BY <2>1, <2>2 DEF HeardInv
<1>2. LineInv /\ HeardInv /\ [Next]_<<commandVars, completionVars>> => HeardInv'
  <2>1. UNCHANGED <<commandVars, completionVars>> => UNCHANGED commandVars OBVIOUS
  <2>2. UNCHANGED commandVars => run' = run /\ request' = request BY DEF commandVars
  <2>3. HeardInv /\ run' = run /\ request' = request => HeardInv' BY DEF HeardInv
  <2> QED BY <2>1, <2>2, <2>3, HeardNext
<1> QED BY <1>1, <1>2, AlwaysLineInv, PTL DEF Spec

\* The texts of a request are of whole words.
LEMMA TextsWhole ==
  ASSUME request \in Requests
  PROVE  /\ Sequence(request.local) /\ Sequence(request.remote)
         /\ ToSet(request.local) \union ToSet(request.remote) \subseteq WholeTexts
<1>1. {request.local, request.remote} \subseteq Seq(Seq(STRING)) BY RequestAssumption
<1>2. Sequence(request.local) /\ Sequence(request.remote) BY <1>1, AnySequence
<1>3. \A text \in ToSet(request.local) \union ToSet(request.remote) : text \in WholeTexts
  BY NameAssumption DEF WholeTexts, Worded
<1> QED BY <1>2, <1>3

\* What two sequences joined hold.
LEMMA JoinedSet ==
  ASSUME NEW a, NEW b, Sequence(a), Sequence(b)
  PROVE  ToSet(a \o b) = ToSet(a) \union ToSet(b)
<1> DEFINE c == a \o b
<1>1. /\ Sequence(c) /\ Len(c) = Len(a) + Len(b) /\ Len(a) \in Nat /\ Len(b) \in Nat
      /\ \A i \in 1..Len(a) : c[i] = a[i]
      /\ \A i \in 1..Len(b) : c[Len(a) + i] = b[i]
  BY JoinFacts
<1> HIDE DEF c
<1>2. DOMAIN a = 1..Len(a) /\ DOMAIN b = 1..Len(b) /\ DOMAIN c = 1..Len(c)
  BY <1>1, AnySequence DEF Sequence
<1>3. /\ ToSet(a) = {a[i] : i \in 1..Len(a)} /\ ToSet(b) = {b[i] : i \in 1..Len(b)}
      /\ ToSet(c) = {c[i] : i \in 1..Len(c)}
  BY <1>2 DEF ToSet
<1>4. \A i \in 1..Len(c) : i \in 1..Len(a) \/ \E k \in 1..Len(b) : i = Len(a) + k
  <2> TAKE i \in 1..Len(c)
  <2>1. CASE i <= Len(a) BY <1>1, <2>1
  <2>2. CASE ~(i <= Len(a))
    <3>1. i - Len(a) \in 1..Len(b) /\ i = Len(a) + (i - Len(a)) BY <1>1, <2>2
    <3> QED BY <3>1
  <2> QED BY <2>1, <2>2
<1>5. \A i \in 1..Len(a) : i \in 1..Len(c) BY <1>1
<1>6. \A i \in 1..Len(b) : Len(a) + i \in 1..Len(c) BY <1>1
<1>7. \A v \in ToSet(c) : v \in ToSet(a) \union ToSet(b)
  <2> TAKE v \in ToSet(c)
  <2>1. PICK i \in 1..Len(c) : v = c[i] BY <1>3
  <2>2. CASE i \in 1..Len(a)
    <3>1. c[i] = a[i] BY <1>1, <2>2
    <3> QED BY <1>3, <2>1, <2>2, <3>1
  <2>3. CASE \E k \in 1..Len(b) : i = Len(a) + k
    <3>1. PICK k \in 1..Len(b) : i = Len(a) + k BY <2>3
    <3>2. c[i] = b[k] BY <1>1, <3>1
    <3> QED BY <1>3, <2>1, <3>1, <3>2
  <2> QED BY <1>4, <2>2, <2>3
<1>8. \A v \in ToSet(a) : v \in ToSet(c) BY <1>1, <1>3, <1>5
<1>9. \A v \in ToSet(b) : v \in ToSet(c) BY <1>1, <1>3, <1>6
<1> QED BY <1>7, <1>8, <1>9 DEF c

\* No text of a request that is accepted is refused.
LEMMA NoneRefused ==
  ASSUME Fit, NEW texts \in {request.local, request.remote}, NEW i \in 1..Len(texts)
  PROVE  texts[i] \in WholeTexts /\ ParsePortForward(texts[i]) # {}
<1>1. /\ Sequence(request.local) /\ Sequence(request.remote)
      /\ ToSet(request.local) \union ToSet(request.remote) \subseteq WholeTexts
  BY TextsWhole DEF Fit
<1>2. DOMAIN texts = 1..Len(texts) BY <1>1, AnySequence DEF Sequence
<1>3. texts[i] \in ToSet(texts) BY <1>2 DEF ToSet
<1>4. texts[i] \in WholeTexts BY <1>1, <1>3
<1> DEFINE l == Forwards(request.local)
           r == Forwards(request.remote)
<1>5. \A s : Sequence(s) => Sequence(Forwards(s)) /\ \A k \in 1..Len(s) :
                              ParsePortForward(s[k]) \in ToSet(Forwards(s))
  <2> SUFFICES ASSUME NEW s, Sequence(s)
               PROVE  Sequence(Forwards(s)) /\ \A k \in 1..Len(s) :
                        ParsePortForward(s[k]) \in ToSet(Forwards(s))
    OBVIOUS
  <2> DEFINE g == Forwards(s)
             U == {g[k] : k \in 1..Len(s)}
  <2>1. Len(s) \in Nat BY AnySequence DEF Sequence
  <2>2. g = [k \in 1..Len(s) |-> ParsePortForward(s[k])] BY DEF Forwards
  <2> HIDE DEF g
  <2>3. g \in Seq(U) BY <2>1, <2>2
  <2>4. Sequence(g) BY <2>3, AnySequence
  <2>5. DOMAIN g = 1..Len(s) /\ \A k \in 1..Len(s) : g[k] = ParsePortForward(s[k]) BY <2>2
  <2>6. \A k \in 1..Len(s) : ParsePortForward(s[k]) \in ToSet(g) BY <2>5 DEF ToSet
  <2> QED BY <2>4, <2>6 DEF g
<1>6. Sequence(l) /\ Sequence(r) BY <1>1, <1>5
<1>7. ParsePortForward(texts[i]) \in ToSet(l) \union ToSet(r) BY <1>1, <1>5
<1>8. \A field \in ToSet(l \o r) : field # {} BY DEF Fit, Refused, ValueRefused
<1> HIDE DEF l, r
<1>9. ToSet(l \o r) = ToSet(l) \union ToSet(r) BY <1>6, JoinedSet
<1> QED BY <1>4, <1>7, <1>8, <1>9

\* What -L and -R accept and what ssh then hears is what the README documents, for
\* any text and any list of them (portForwardSpec.Set, parsePortForward,
\* forwardFields, Forward.String, forwardOptions).
THEOREM ForwardsHeard == Spec => []ForwardsAsDocumented
<1>1. ASSUME LineInv, HeardInv PROVE ForwardsAsDocumented
  <2>0. request \in Requests BY <1>1 DEF LineInv
  <2>1. ASSUME NEW text \in ToSet(request.local \o request.remote)
        PROVE  (ParsePortForward(text) = {}) <=> (DocumentedForwards(text, Names) = {})
    <3>1. text \in WholeTexts BY <2>0, TextsWhole, JoinedSet
    <3> QED BY <3>1, ParsesAsDocumented
  <2>2. ASSUME run.by = "master", NEW flag, NEW texts, NEW pair, pair = <<flag, texts>>,
               (flag = "-L" /\ texts = request.local) \/ (flag = "-R" /\ texts = request.remote)
        PROVE  LET heard == ValuesOfFlag(Read.options, pair[1])
               IN  /\ Len(heard) = Len(pair[2])
                   /\ \A i \in 1..Len(heard) :
                        SSHForward(heard[i]) = DocumentedForwards(pair[2][i], Names)
    <3>1. pair[1] = flag /\ pair[2] = texts BY <2>2
    <3>2. run.program = "ssh" /\ Fit BY <1>1, <2>2 DEF LineInv, Bare, Fit
    <3>3. Read = SSHReads(run.args) BY <3>2 DEF Read, SSHArgs
    <3> DEFINE heard == ValuesOfFlag(Read.options, flag)
    <3>4. heard = AllRendered(texts) BY <1>1, <2>2, <3>3 DEF HeardInv, Hears
    <3>5. Len(texts) \in Nat BY <2>2, <3>2, FitFacts
    <3>6. Len(heard) = Len(texts) /\ \A i \in 1..Len(texts) : heard[i] = RenderedOf(texts, i)
      BY <3>4, <3>5 DEF AllRendered
    <3> HIDE DEF heard
    <3>7. ASSUME NEW i \in 1..Len(texts)
          PROVE  SSHForward(heard[i]) = DocumentedForwards(texts[i], Names)
      <4> DEFINE t == texts[i]
      <4>1. t \in WholeTexts /\ ParsePortForward(t) # {} BY <2>2, <3>2, NoneRefused
      <4>2. Forwards(texts)[i] = ParsePortForward(t) BY DEF Forwards
      <4>3. heard[i] = Rendered(CHOOSE f \in ParsePortForward(t) : TRUE)
        BY <3>6, <4>2 DEF RenderedOf
      <4> HIDE DEF t
      <4>4. SSHForward(heard[i]) = DocumentedForwards(t, Names) BY <4>1, <4>3, HeardAsDocumented
      <4> QED BY <4>4 DEF t
    <3>8. /\ Len(heard) = Len(texts)
          /\ \A i \in 1..Len(heard) : SSHForward(heard[i]) = DocumentedForwards(texts[i], Names)
      BY <3>6, <3>7
    <3> QED BY <3>1, <3>8 DEF heard
  <2>3. ASSUME run.by = "master", NEW pair \in {<<"-L", request.local>>, <<"-R", request.remote>>}
        PROVE  LET heard == ValuesOfFlag(Read.options, pair[1])
               IN  /\ Len(heard) = Len(pair[2])
                   /\ \A i \in 1..Len(heard) :
                        SSHForward(heard[i]) = DocumentedForwards(pair[2][i], Names)
    <3>1. CASE pair = <<"-L", request.local>> BY <2>2, <2>3, <3>1
    <3>2. CASE pair = <<"-R", request.remote>> BY <2>2, <2>3, <3>2
    <3> QED BY <2>3, <3>1, <3>2
  <2> QED BY <2>1, <2>3 DEF ForwardsAsDocumented
<1> QED BY <1>1, AlwaysHeardInv, PTL
==================================================================================
