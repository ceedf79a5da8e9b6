------------------------- MODULE CommandTextProofs -------------------------
(***************************************************************************)
(* What is made of the text a user types, for every size of the buffer and *)
(* every input: the lines fgets_wrapper returns, and the words that        *)
(* userinputtocommand finds in them.                                       *)
(***************************************************************************)
EXTENDS CommandLineProofs, FiniteSetTheorems

USE BufferAssumption

-----------------------------------------------------------------------------
(* Lines.                                                                   *)

LEMMA Concatenated ==
  ASSUME NEW s \in Seq(Chars), NEW t \in Seq(Chars)
  PROVE  /\ s \o t \in Seq(Chars) /\ Len(s \o t) = Len(s) + Len(t)
         /\ \A i \in 1..Len(s) : (s \o t)[i] = s[i]
         /\ \A i \in 1..Len(t) : (s \o t)[Len(s) + i] = t[i]
         /\ SubSeq(s \o t, Len(s) + 1, Len(s \o t)) = t
<1>1. /\ s \o t \in Seq(Chars) /\ Len(s \o t) = Len(s) + Len(t)
      /\ \A i \in 1..Len(s) : (s \o t)[i] = s[i]
      /\ \A i \in 1..Len(t) : (s \o t)[Len(s) + i] = t[i]
  OBVIOUS
<1> DEFINE u == s \o t
           v == SubSeq(u, Len(s) + 1, Len(u))
<1> HIDE DEF u
<1>2. /\ u \in Seq(Chars) /\ Len(u) = Len(s) + Len(t)
      /\ \A i \in 1..Len(t) : u[Len(s) + i] = t[i]
  BY <1>1 DEF u
<1>3. /\ v \in Seq(Chars) /\ Len(v) = Len(t)
      /\ \A i \in 1..Len(t) : v[i] = u[Len(s) + i]
  BY <1>2
<1>4. v = t
  <2>1. \A i \in 1..Len(t) : v[i] = t[i]
    BY <1>2, <1>3
  <2> HIDE DEF v
  <2>2. QED
    BY <1>3, <2>1
<1>5. QED
  BY <1>1, <1>4 DEF u

LEMMA Sliced ==
  ASSUME NEW s \in Seq(Chars), NEW i \in Nat, i # 0, NEW j \in Nat, j <= Len(s), i <= j + 1
  PROVE  /\ SubSeq(s, i, j) \in Seq(Chars) /\ Len(SubSeq(s, i, j)) = j - i + 1
         /\ \A k \in 1..j - i + 1 : SubSeq(s, i, j)[k] = s[i + k - 1]
OBVIOUS

LEMMA Prefixed ==
  ASSUME NEW s \in Seq(Chars), NEW m \in Nat, m <= Len(s)
  PROVE  /\ SubSeq(s, 1, m) \in Seq(Chars) /\ Len(SubSeq(s, 1, m)) = m
         /\ \A k \in 1..m : SubSeq(s, 1, m)[k] = s[k]
OBVIOUS

LEMMA SuffixLength ==
  ASSUME NEW s \in Seq(Chars), NEW m \in Nat, m <= Len(s)
  PROVE  Len(SubSeq(s, m + 1, Len(s))) = Len(s) - m
OBVIOUS

\* What follows does not change where fgets begins.
LEMMA BeginsIsStable ==
  ASSUME NEW s \in Seq(Chars), NEW t \in Seq(Chars), NEW n \in 0..Len(s), Begins(s, n)
  PROVE  Begins(s \o t, n)
<1>1. \A i \in 1..Len(s) : (s \o t)[i] = s[i]
  BY Concatenated
<1>2. CASE n = 0
  BY <1>2 DEF Begins
<1>3. CASE n # 0 /\ s[n] = "nl"
  BY <1>1, <1>3 DEF Begins
<1>4. CASE n >= BufferSize - 1 /\ \A i \in n - BufferSize + 2..n : s[i] # "nl"
  <2>1. ASSUME NEW i \in n - BufferSize + 2..n
        PROVE  (s \o t)[i] # "nl"
    <3>1. i \in 1..Len(s)
      BY <1>4
    <3>2. QED
      BY <1>1, <1>4, <3>1
  <2>2. QED
    BY <1>4, <2>1 DEF Begins
<1>5. QED
  BY <1>2, <1>3, <1>4 DEF Begins

LEMMA ReadLineText ==
  ASSUME TypeOK, ReadInv, ReadLine
  PROVE  ReadInv'
<1>1. PICK k \in 1..Len(stdin) :
        /\ FgetsTakes(stdin, k)
        /\ stdin' = SubSeq(stdin, k + 1, Len(stdin))
        /\ consumed' = consumed \o SubSeq(stdin, 1, k)
        /\ cmd_read' = Chomp(SubSeq(stdin, 1, k))
  BY DEF ReadLine
<1> DEFINE piece == SubSeq(stdin, 1, k)
           n == Len(consumed)
<1>2. /\ stdin \in Seq(Chars) /\ consumed \in Seq(Chars) /\ n \in Nat /\ stdin # <<>>
  BY DEF TypeOK, ReadLine
<1>3. /\ piece \in Seq(Chars) /\ Len(piece) = k
      /\ \A i \in 1..k : piece[i] = stdin[i]
  BY <1>1, <1>2, Sliced
<1> HIDE DEF piece
<1>4. /\ consumed' \in Seq(Chars) /\ Len(consumed') = n + k
      /\ \A i \in 1..k : consumed'[n + i] = piece[i]
      /\ SubSeq(consumed', n + 1, Len(consumed')) = piece
  BY <1>1, <1>2, <1>3, Concatenated DEF piece
<1>5. Begins(consumed', n)
  <2>1. Begins(consumed, n)
    BY <1>2 DEF ReadInv
  <2>2. consumed' = consumed \o piece
    BY <1>1 DEF piece
  <2>3. QED
    BY <1>2, <1>3, <2>1, <2>2, BeginsIsStable
<1>6. \A i \in 1..k - 1 : piece[i] # "nl"
  <2>1. \A i \in 1..k - 1 : stdin[i] # "nl"
    BY <1>1 DEF FgetsTakes
  <2>2. 1..k - 1 \subseteq 1..k
    BY <1>2
  <2>3. QED
    BY <1>3, <2>1, <2>2
<1>7. \A i \in n + 1..Len(consumed') - 1 : consumed'[i] # "nl"
  <2>1. ASSUME NEW i \in n + 1..Len(consumed') - 1
        PROVE  consumed'[i] # "nl"
    <3>1. i - n \in 1..k - 1 /\ n + (i - n) = i
      BY <1>2, <1>4
    <3>2. QED
      BY <1>4, <1>6, <3>1
  <2>2. QED
    BY <2>1
<1>8. stdin' # <<>> => Begins(consumed', n + k)
  <2>1. SUFFICES ASSUME stdin' # <<>> PROVE Begins(consumed', n + k)
    OBVIOUS
  <2>2. k < Len(stdin)
    BY <1>1, <1>2, <2>1
  <2>3. piece[k] = "nl" \/ k = BufferSize - 1
    BY <1>1, <1>2, <1>3, <2>2 DEF FgetsTakes
  <2>4. CASE piece[k] = "nl"
    BY <1>4, <2>4 DEF Begins
  <2>5. CASE piece[k] # "nl" /\ k = BufferSize - 1
    <3>1. \A i \in 1..k : piece[i] # "nl"
      BY <1>6, <2>5
    <3>2. ASSUME NEW i \in (n + k) - BufferSize + 2..n + k
          PROVE  consumed'[i] # "nl"
      <4>1. i - n \in 1..k /\ n + (i - n) = i
        BY <1>2, <2>5
      <4>2. QED
        BY <1>4, <3>1, <4>1
    <3>3. QED
      BY <1>2, <2>5, <3>2 DEF Begins
  <2>6. QED
    BY <2>3, <2>4, <2>5
<1>9. cmd_read' = Chomp(SubSeq(consumed', n + 1, Len(consumed')))
  BY <1>1, <1>4 DEF piece
<1>10. n \in 0..Len(consumed') /\ n # Len(consumed') /\ Len(consumed') = n + k
  BY <1>2, <1>4
<1> HIDE DEF n
<1>11. QED
  BY <1>5, <1>7, <1>8, <1>9, <1>10 DEF ReadInv

LEMMA ReadStep ==
  ASSUME TypeOK, ReadInv, [Next]_vars
  PROVE  ReadInv'
<1>1. CASE ReadLine
  BY <1>1, ReadLineText
<1>2. CASE UNCHANGED <<stdin, consumed, cmd_read>>
  BY <1>2 DEF ReadInv
<1>3. QED
  BY <1>1, <1>2 DEF Next, Word, GiveUp, EndOfWords, Execute, EndOfInput, Terminated, vars

\* What a text's last characters are.
LEMMA LastOfText ==
  ASSUME NEW s \in Seq(Chars), NEW m \in Nat, m <= Len(s), NEW e \in Seq(Chars),
         Len(e) = Len(s) - m, \A i \in 1..Len(e) : s[m + i] = e[i]
  PROVE  s = SubSeq(s, 1, m) \o e
<1> DEFINE t == SubSeq(s, 1, m)
           u == t \o e
<1>1. /\ t \in Seq(Chars) /\ Len(t) = m /\ \A i \in 1..m : t[i] = s[i]
  BY Sliced
<1> HIDE DEF t
<1>2. /\ u \in Seq(Chars) /\ Len(u) = Len(s)
      /\ \A i \in 1..m : u[i] = t[i]
      /\ \A i \in 1..Len(e) : u[m + i] = e[i]
  BY <1>1, Concatenated
<1> HIDE DEF u
<1>3. ASSUME NEW i \in 1..Len(s) PROVE u[i] = s[i]
  <2>1. CASE i <= m
    BY <1>1, <1>2, <2>1
  <2>2. CASE i > m
    <3>1. i - m \in 1..Len(e) /\ m + (i - m) = i
      BY <2>2
    <3>2. QED
      BY <1>2, <3>1
  <2>3. QED
    BY <2>1, <2>2
<1>4. u = s
  BY <1>2, <1>3
<1>5. QED
  BY <1>4 DEF u, t

LEMMA EndOfText ==
  ASSUME NEW s \in Seq(Chars), NEW f \in LineEnds, EndsWith(s, f), f # <<>>
  PROVE  /\ s # <<>> /\ s[Len(s)] = f[Len(f)]
         /\ f = <<"cr", "nl">> => Len(s) > 1 /\ s[Len(s) - 1] = "cr"
<1> USE DEF EndsWith
<1>1. CASE Len(f) = 1
  <2>1. SubSeq(s, Len(s), Len(s)) = f /\ Len(s) \in Nat /\ Len(s) # 0
    BY <1>1
  <2>2. f[1] = s[Len(s)]
    BY <2>1, Sliced
  <2>3. QED
    BY <1>1, <2>1, <2>2
<1>2. CASE f = <<"cr", "nl">>
  <2>1. SubSeq(s, Len(s) - 1, Len(s)) = f /\ Len(s) \in Nat /\ Len(s) > 1
    BY <1>2
  <2>2. f[1] = s[Len(s) - 1] /\ f[2] = s[Len(s)]
    <3>1. SubSeq(s, Len(s) - 1, Len(s))[1] = s[Len(s) - 1]
      BY <2>1
    <3>2. SubSeq(s, Len(s) - 1, Len(s))[2] = s[Len(s)]
      BY <2>1
    <3>3. QED
      BY <2>1, <3>1, <3>2
  <2>3. QED
    BY <1>2, <2>1, <2>2
<1>3. QED
  BY <1>1, <1>2 DEF LineEnds

\* fgets_wrapper removes the longest line end there is (ftp_client_funcs.c:361).
LEMMA ChompedLine ==
  ASSUME NEW text \in Seq(Chars)
  PROVE  \E e \in LineEnds :
           /\ text = Chomp(text) \o e
           /\ \A f \in LineEnds : EndsWith(text, f) => Len(f) <= Len(e)
<1> DEFINE n == Len(text)
           short == SubSeq(text, 1, n - 1)
<1>1. n \in Nat /\ (text # <<>> => n # 0) /\ "nl" \in Chars /\ "cr" \in Chars
  <2>1. "nl" \in Chars /\ "cr" \in Chars
    BY DEF Chars, Separators
  <2>2. QED
    BY <2>1
<1>2. \A f \in LineEnds : Len(f) <= 2 /\ (f = <<"cr", "nl">> \/ Len(f) <= 1)
  <2>1. ASSUME NEW f \in LineEnds
        PROVE  Len(f) <= 2 /\ (f = <<"cr", "nl">> \/ Len(f) <= 1)
    <3>1. CASE f = <<>>
      BY <3>1
    <3>2. CASE f \in {<<"nl">>, <<"cr">>}
      <4>1. Len(f) = 1
        BY <3>2
      <4>2. QED
        BY <4>1
    <3>3. CASE f = <<"cr", "nl">>
      BY <3>3
    <3>4. QED
      BY <3>1, <3>2, <3>3 DEF LineEnds
  <2>2. QED
    BY <2>1
<1>3. LineEnds \subseteq Seq(Chars)
  BY <1>1 DEF LineEnds
<1>4. ASSUME text # <<>>
      PROVE  /\ short \in Seq(Chars) /\ Len(short) = n - 1
             /\ \A i \in 1..n - 1 : short[i] = text[i]
  <2>1. n - 1 \in Nat /\ n - 1 <= Len(text)
    BY <1>1, <1>4
  <2>2. QED
    BY <2>1, Prefixed
<1>5. CASE text # <<>> /\ text[n] = "nl" /\ n > 1 /\ text[n - 1] = "cr"
  <2>0. /\ n - 2 \in Nat /\ n - 1 \in 1..n - 1 /\ n - 2 <= Len(text)
        /\ short \in Seq(Chars) /\ Len(short) = n - 1 /\ n - 2 <= Len(short)
    BY <1>1, <1>4, <1>5
  <2>1. WithoutLast(text, "nl") = short /\ short[Len(short)] = "cr" /\ short # <<>>
    <3>1. WithoutLast(text, "nl") = short
      BY <1>5 DEF WithoutLast
    <3>2. short[n - 1] = "cr" /\ Len(short) = n - 1
      BY <1>4, <1>5, <2>0
    <3>3. QED
      <4>1. short # <<>>
        <5> HIDE DEF short, n
        <5>1. QED
          BY <1>1, <1>5, <3>2
      <4>2. QED
        BY <3>1, <3>2, <4>1
  <2>2. Chomp(text) = SubSeq(short, 1, n - 2)
    BY <1>4, <1>5, <2>1 DEF WithoutLast, Chomp
  <2>3. SubSeq(short, 1, n - 2) = SubSeq(text, 1, n - 2)
    <3>1. /\ SubSeq(short, 1, n - 2) \in Seq(Chars)
          /\ Len(SubSeq(short, 1, n - 2)) = n - 2
          /\ \A i \in 1..n - 2 : SubSeq(short, 1, n - 2)[i] = short[i]
      <4> HIDE DEF short, n
      <4>1. QED
        BY <2>0, Prefixed
    <3>2. /\ SubSeq(text, 1, n - 2) \in Seq(Chars)
          /\ Len(SubSeq(text, 1, n - 2)) = n - 2
          /\ \A i \in 1..n - 2 : SubSeq(text, 1, n - 2)[i] = text[i]
      <4> HIDE DEF n
      <4>1. QED
        BY <2>0, Prefixed
    <3>3. \A i \in 1..n - 2 : short[i] = text[i]
      BY <1>1, <1>4, <1>5
    <3>4. QED
      BY <3>1, <3>2, <3>3
  <2>4. text = SubSeq(text, 1, n - 2) \o <<"cr", "nl">>
    <3>1. \A i \in 1..2 : text[(n - 2) + i] = <<"cr", "nl">>[i]
      BY <1>1, <1>5
    <3>2. QED
      BY <1>1, <1>5, <3>1, LastOfText
  <2>5. QED
    BY <1>2, <2>2, <2>3, <2>4 DEF LineEnds
<1>6. CASE /\ text # <<>> /\ text[n] \in {"nl", "cr"}
           /\ ~(text[n] = "nl" /\ n > 1 /\ text[n - 1] = "cr")
  <2>1. Chomp(text) = short
    BY <1>1, <1>4, <1>6 DEF WithoutLast, Chomp
  <2>2. text = short \o <<text[n]>>
    <3>1. \A i \in 1..1 : text[(n - 1) + i] = <<text[n]>>[i]
      BY <1>1, <1>6
    <3>2. QED
      BY <1>1, <1>6, <3>1, LastOfText
  <2>3. \A f \in LineEnds : EndsWith(text, f) => Len(f) <= 1
    <3>1. ASSUME NEW f \in LineEnds, EndsWith(text, f)
          PROVE  Len(f) <= 1
      <4>1. CASE f = <<"cr", "nl">>
        <5>1. f # <<>> /\ f[Len(f)] = "nl"
          BY <4>1
        <5>2. text[n] = "nl" /\ n > 1 /\ text[n - 1] = "cr"
          BY <3>1, <4>1, <5>1, EndOfText
        <5>3. QED
          BY <1>6, <5>2
      <4>2. QED
        BY <1>2, <4>1
    <3>2. QED
      BY <3>1
  <2>4. <<text[n]>> \in LineEnds
    BY <1>6 DEF LineEnds
  <2>5. QED
    BY <2>1, <2>2, <2>3, <2>4
<1>7. CASE text = <<>> \/ text[n] \notin {"nl", "cr"}
  <2>1. Chomp(text) = text
    BY <1>7 DEF WithoutLast, Chomp
  <2>2. text = text \o <<>>
    OBVIOUS
  <2>3. \A f \in LineEnds : EndsWith(text, f) => f = <<>>
    BY <1>1, <1>7, EndOfText DEF LineEnds
  <2>4. QED
    BY <2>1, <2>2, <2>3 DEF LineEnds
<1>8. QED
  BY <1>1, <1>5, <1>6, <1>7
LEMMA LastLineBegins ==
  ASSUME NEW text \in Seq(Chars), NEW n \in 0..Len(text) - 1,
         n = 0 \/ text[n] = "nl", \A j \in n + 1..Len(text) - 1 : text[j] # "nl"
  PROVE  LastLine(text) = SubSeq(text, n + 1, Len(text))
<1> DEFINE P(i) == /\ i = 0 \/ text[i] = "nl"
                   /\ \A j \in i + 1..Len(text) - 1 : text[j] # "nl"
           m == CHOOSE i \in 0..Len(text) - 1 : P(i)
<1>1. P(n)
  OBVIOUS
<1>2. m \in 0..Len(text) - 1 /\ P(m)
  BY <1>1
<1>3. LastLine(text) = SubSeq(text, 1 + m, Len(text))
  BY DEF LastLine
<1> HIDE DEF m
<1>4. m = n
  <2>1. ~(m < n)
    BY <1>1, <1>2
  <2>2. ~(n < m)
    BY <1>1, <1>2
  <2>3. QED
    BY <1>2, <2>1, <2>2
<1>5. QED
  BY <1>3, <1>4

\* Every text that is not empty has a last line.
LEMMA LastLineExists ==
  ASSUME NEW text \in Seq(Chars), text # <<>>
  PROVE  \E n \in 0..Len(text) - 1 :
           /\ n = 0 \/ text[n] = "nl"
           /\ \A j \in n + 1..Len(text) - 1 : text[j] # "nl"
<1> DEFINE last == Len(text) - 1
           D == {d \in Nat : d <= last /\ (last - d = 0 \/ text[last - d] = "nl")}
<1>1. last \in Nat
  OBVIOUS
<1> HIDE DEF last
<1>2. last \in D
  BY <1>1
<1>3. PICK d \in D : \A e \in D : ~(<<e, d>> \in OpToRel(<, Nat))
  BY <1>2, NatLessThanWellFounded, WFMin
<1>4. d \in Nat /\ d <= last /\ last - d \in 0..last
  BY <1>1
<1>5. \A e \in D : ~(e < d)
  BY <1>3, <1>4 DEF OpToRel
<1>6. ASSUME NEW j \in last - d + 1..last, text[j] = "nl"
      PROVE  FALSE
  <2>1. last - j \in Nat /\ last - j < d /\ last - (last - j) = j
    BY <1>1, <1>4
  <2>2. last - j \in D
    BY <1>1, <1>4, <1>6, <2>1
  <2>3. QED
    BY <1>5, <2>1, <2>2
<1>7. last - d = 0 \/ text[last - d] = "nl"
  OBVIOUS
<1>8. QED
  BY <1>4, <1>6, <1>7 DEF last

LEMMA ShortLine ==
  ASSUME TypeOK, ReadInv
  PROVE  ShortLinesAreWhole
<1> SUFFICES ASSUME consumed # <<>>, Len(LastLine(consumed)) < BufferSize
             PROVE  \E e \in LineEnds :
                      /\ LastLine(consumed) = cmd_read \o e
                      /\ \A f \in LineEnds :
                           EndsWith(LastLine(consumed), f) => Len(f) <= Len(e)
  BY DEF ShortLinesAreWhole
<1>1. consumed \in Seq(Chars) /\ Len(consumed) \in Nat
  BY DEF TypeOK
<1>2. PICK n \in 0..Len(consumed) - 1 :
        /\ Begins(consumed, n)
        /\ \A i \in n + 1..Len(consumed) - 1 : consumed[i] # "nl"
        /\ cmd_read = Chomp(SubSeq(consumed, n + 1, Len(consumed)))
  BY <1>1 DEF ReadInv
<1>3. n = 0 \/ consumed[n] = "nl"
  <2>1. SUFFICES ASSUME n >= BufferSize - 1,
                        \A i \in n - BufferSize + 2..n : consumed[i] # "nl"
                 PROVE  FALSE
    BY <1>2 DEF Begins
  <2>2. PICK m \in 0..Len(consumed) - 1 :
          /\ m = 0 \/ consumed[m] = "nl"
          /\ \A j \in m + 1..Len(consumed) - 1 : consumed[j] # "nl"
    BY <1>1, LastLineExists
  <2>3. m < n - BufferSize + 2
    <3>1. m = 0 \/ m \notin n - BufferSize + 2..n
      BY <2>1, <2>2
    <3>2. m <= n
      BY <1>1, <1>2, <2>2
    <3>3. QED
      BY <2>1, <3>1, <3>2
  <2>4. LastLine(consumed) = SubSeq(consumed, m + 1, Len(consumed))
    BY <1>1, <2>2, LastLineBegins
  <2>5. Len(LastLine(consumed)) = Len(consumed) - m
    BY <1>1, <2>4
  <2>6. QED
    BY <1>1, <2>3, <2>5
<1>4. LastLine(consumed) = SubSeq(consumed, n + 1, Len(consumed))
  BY <1>1, <1>2, <1>3, LastLineBegins
<1>5. LastLine(consumed) \in Seq(Chars)
  BY <1>1, <1>4, Slices
<1>6. QED
  BY <1>2, <1>4, <1>5, ChompedLine
-----------------------------------------------------------------------------
(* Words.                                                                   *)

LEMMA PlaceType ==
  ASSUME NEW text \in Seq(Chars), NEW p \in WordPlaces(text)
  PROVE  /\ p[1] \in 1..Len(text) /\ p[2] \in 1..Len(text) /\ p = <<p[1], p[2]>>
         /\ IsWord(text, p[1], p[2])
BY DEF WordPlaces

LEMMA PlacesFinite ==
  ASSUME NEW text \in Seq(Chars)
  PROVE  IsFiniteSet(WordPlaces(text)) /\ Cardinality(WordPlaces(text)) \in Nat
<1>1. IsFiniteSet(1..Len(text))
  BY FS_Interval
<1>2. IsFiniteSet((1..Len(text)) \X (1..Len(text)))
  BY <1>1, FS_Product
<1>3. WordPlaces(text) \in SUBSET ((1..Len(text)) \X (1..Len(text)))
  BY DEF WordPlaces
<1>4. IsFiniteSet(WordPlaces(text))
  BY <1>2, <1>3, FS_Subset
<1>5. QED
  BY <1>4, FS_CardinalityType

LEMMA WithinFinite ==
  ASSUME NEW text \in Seq(Chars), NEW n
  PROVE  /\ WordsWithin(text, n) \in SUBSET WordPlaces(text)
         /\ IsFiniteSet(WordsWithin(text, n)) /\ Cardinality(WordsWithin(text, n)) \in Nat
         /\ Cardinality(WordsWithin(text, n)) <= Cardinality(WordPlaces(text))
<1>1. WordsWithin(text, n) \in SUBSET WordPlaces(text)
  BY DEF WordsWithin
<1>2. IsFiniteSet(WordPlaces(text))
  BY PlacesFinite
<1>3. /\ IsFiniteSet(WordsWithin(text, n))
      /\ Cardinality(WordsWithin(text, n)) <= Cardinality(WordPlaces(text))
  BY <1>1, <1>2, FS_Subset
<1>4. QED
  BY <1>1, <1>3, FS_CardinalityType

\* Words do not overlap: one begins behind the end of the one before it.
LEMMA WordsAreApart ==
  ASSUME NEW text \in Seq(Chars), NEW p \in WordPlaces(text), NEW q \in WordPlaces(text),
         p[1] <= q[1]
  PROVE  p = q \/ p[2] + 1 < q[1]
<1>1. /\ p[1] \in 1..Len(text) /\ p[2] \in 1..Len(text) /\ p = <<p[1], p[2]>>
      /\ q[1] \in 1..Len(text) /\ q[2] \in 1..Len(text) /\ q = <<q[1], q[2]>>
      /\ IsWord(text, p[1], p[2]) /\ IsWord(text, q[1], q[2])
  BY PlaceType
<1>2. CASE p[1] = q[1]
  <2>1. ~(p[2] < q[2])
    BY <1>1, <1>2 DEF IsWord
  <2>2. ~(q[2] < p[2])
    BY <1>1, <1>2 DEF IsWord
  <2>3. p[2] = q[2]
    BY <1>1, <2>1, <2>2
  <2>4. QED
    BY <1>1, <1>2, <2>3
<1>3. CASE p[1] < q[1]
  <2>1. ~(q[1] - 1 \in p[1]..p[2])
    BY <1>1, <1>3 DEF IsWord
  <2>2. ~(q[1] - 1 < p[1])
    BY <1>1, <1>3
  <2>3. QED
    BY <1>1, <2>1, <2>2
<1>4. QED
  BY <1>1, <1>2, <1>3

\* The k-th word is the one with k words up to its beginning.
LEMMA WordNumber ==
  ASSUME NEW text \in Seq(Chars), NEW p \in WordPlaces(text)
  PROVE  LET k == Cardinality(WordsWithin(text, p[1]))
         IN  /\ k \in 1..Cardinality(WordPlaces(text))
             /\ Words(text)[k] = SubSeq(text, p[1], p[2])
<1> DEFINE k == Cardinality(WordsWithin(text, p[1]))
           place == WordPlace(text, k)
<1>1. p \in WordsWithin(text, p[1])
  BY PlaceType DEF WordsWithin
<1>2. k \in Nat /\ k # 0 /\ k <= Cardinality(WordPlaces(text))
  BY <1>1, WithinFinite, FS_EmptySet
<1>3. place \in WordPlaces(text) /\ Cardinality(WordsWithin(text, place[1])) = k
  BY DEF WordPlace
<1>4. ASSUME NEW q \in WordPlaces(text), NEW r \in WordPlaces(text), q[1] <= r[1],
             Cardinality(WordsWithin(text, q[1])) = Cardinality(WordsWithin(text, r[1]))
      PROVE  q = r
  <2>1. q[1] \in Nat /\ r[1] \in Nat
    BY PlaceType
  <2>2. WordsWithin(text, q[1]) \in SUBSET WordsWithin(text, r[1])
    <3>1. \A w \in WordPlaces(text) : w[1] \in Nat
      BY PlaceType
    <3>2. QED
      BY <1>4, <2>1, <3>1 DEF WordsWithin
  <2>3. WordsWithin(text, q[1]) = WordsWithin(text, r[1])
    BY <1>4, <2>2, WithinFinite, FS_Subset
  <2>4. r[1] <= q[1]
    BY <2>1, <2>3 DEF WordsWithin
  <2>5. QED
    <3>1. q = r \/ q[2] + 1 < r[1]
      BY <1>4, WordsAreApart
    <3>2. q[1] <= q[2] /\ q[2] \in Nat
      BY PlaceType DEF IsWord
    <3>3. QED
      BY <2>1, <2>4, <3>1, <3>2
<1> HIDE DEF place
<1>5. place = p
  <2>1. place[1] <= p[1] \/ p[1] <= place[1]
    BY <1>3, PlaceType
  <2>2. QED
    BY <1>3, <1>4, <2>1
<1>6. Words(text)[k] = SubSeq(text, place[1], place[2])
  <2> HIDE DEF k
  <2>1. k \in 1..Cardinality(WordPlaces(text))
    BY <1>2, PlacesFinite
  <2>2. QED
    BY <2>1 DEF Words, place
<1>7. QED
  BY <1>2, <1>5, <1>6

LEMMA WordsLength ==
  ASSUME NEW text \in Seq(Chars)
  PROVE  Len(Words(text)) = Cardinality(WordPlaces(text))
<1>1. Cardinality(WordPlaces(text)) \in Nat
  BY PlacesFinite
<1> DEFINE n == Cardinality(WordPlaces(text))
           w == [k \in 1..n |-> SubSeq(text, WordPlace(text, k)[1], WordPlace(text, k)[2])]
<1> HIDE DEF n
<1>2. Len(w) = n
  BY <1>1 DEF n
<1>3. QED
  BY <1>2 DEF Words, n

\* Where no word begins, their number stays; where one begins, it grows by one.
LEMMA NoWordBegins ==
  ASSUME NEW text \in Seq(Chars), NEW a \in Nat, NEW b \in Nat, a <= b,
         \A p \in WordPlaces(text) : p[1] <= a \/ p[1] > b
  PROVE  WordsWithin(text, b) = WordsWithin(text, a)
<1>1. \A p \in WordPlaces(text) : p[1] \in Nat
  BY PlaceType
<1>2. QED
  BY <1>1 DEF WordsWithin

LEMMA OneWordBegins ==
  ASSUME NEW text \in Seq(Chars), NEW a \in Nat, NEW b \in Nat, NEW p \in WordPlaces(text),
         a < p[1], p[1] <= b,
         \A q \in WordPlaces(text) : q = p \/ q[1] <= a \/ q[1] > b
  PROVE  Cardinality(WordsWithin(text, b)) = Cardinality(WordsWithin(text, a)) + 1
<1>1. \A q \in WordPlaces(text) : q[1] \in Nat
  BY PlaceType
<1>2. p \notin WordsWithin(text, a)
  BY <1>1 DEF WordsWithin
<1>3. WordsWithin(text, b) = WordsWithin(text, a) \cup {p}
  BY <1>1 DEF WordsWithin
<1>4. QED
  BY <1>2, <1>3, WithinFinite, FS_AddElement
LEMMA Behind ==
  ASSUME NEW text \in Seq(Chars), NEW a \in Nat, NEW behind, Splits(text, a, behind)
  PROVE  /\ a \in Nat /\ a <= Len(text) /\ Len(text) \in Nat
         /\ behind \in Seq(Chars) /\ Len(behind) = Len(text) - a
         /\ \A i \in 1..Len(behind) : behind[i] = text[a + i]
<1>1. a \in Nat /\ a <= Len(text) /\ Len(text) \in Nat /\ behind = SubSeq(text, a + 1, Len(text))
  BY DEF Splits
<1>2. /\ behind \in Seq(Chars) /\ Len(behind) = Len(text) - a
      /\ \A i \in 1..Len(text) - a : behind[i] = text[(a + 1) + i - 1]
  BY <1>1, Sliced
<1>3. \A i \in 1..Len(behind) : (a + 1) + i - 1 = a + i
  BY <1>1
<1>4. QED
  BY <1>1, <1>2, <1>3

\* A slice of what is behind is a slice of the text.
LEMMA SliceBehind ==
  ASSUME NEW text \in Seq(Chars), NEW a \in Nat, NEW behind, Splits(text, a, behind),
         NEW i \in Nat, i # 0, NEW j \in Nat, j <= Len(behind), i <= j + 1
  PROVE  SubSeq(behind, i, j) = SubSeq(text, a + i, a + j)
<1>1. /\ a \in Nat /\ a <= Len(text) /\ Len(text) \in Nat
      /\ behind \in Seq(Chars) /\ Len(behind) = Len(text) - a
      /\ \A m \in 1..Len(behind) : behind[m] = text[a + m]
  BY Behind
<1>2. /\ SubSeq(behind, i, j) \in Seq(Chars) /\ Len(SubSeq(behind, i, j)) = j - i + 1
      /\ \A m \in 1..j - i + 1 : SubSeq(behind, i, j)[m] = behind[i + m - 1]
  BY <1>1, Sliced
<1> DEFINE ai == a + i
           aj == a + j
<1>3. /\ ai \in Nat /\ ai # 0 /\ aj \in Nat /\ aj <= Len(text) /\ ai <= aj + 1
      /\ aj - ai + 1 = j - i + 1
  BY <1>1
<1>4. \A m \in 1..j - i + 1 : i + m - 1 \in 1..Len(behind) /\ a + (i + m - 1) = ai + m - 1
  BY <1>1
<1> HIDE DEF ai, aj
<1>5. /\ SubSeq(text, ai, aj) \in Seq(Chars) /\ Len(SubSeq(text, ai, aj)) = j - i + 1
      /\ \A m \in 1..j - i + 1 : SubSeq(text, ai, aj)[m] = text[ai + m - 1]
  BY <1>3, Sliced
<1>6. ASSUME NEW m \in 1..j - i + 1
      PROVE  SubSeq(behind, i, j)[m] = SubSeq(text, ai, aj)[m]
  <2>1. SubSeq(behind, i, j)[m] = behind[i + m - 1]
    BY <1>2
  <2>2. behind[i + m - 1] = text[ai + m - 1]
    BY <1>1, <1>4
  <2>3. QED
    BY <1>5, <2>1, <2>2
<1>7. SubSeq(behind, i, j) = SubSeq(text, ai, aj)
  <2> DEFINE u == SubSeq(behind, i, j)
             v == SubSeq(text, ai, aj)
  <2>1. /\ u \in Seq(Chars) /\ v \in Seq(Chars) /\ Len(u) = Len(v)
        /\ \A m \in 1..Len(u) : u[m] = v[m]
    BY <1>2, <1>5, <1>6
  <2> HIDE DEF u, v
  <2>2. u = v
    BY <2>1
  <2>3. QED
    BY <2>2 DEF u, v
<1>8. QED
  BY <1>7 DEF ai, aj

\* The first word behind is a word of the text, and nothing stands before it.
LEMMA FirstWord ==
  ASSUME NEW text \in Seq(Chars), NEW a \in Nat, NEW behind, Splits(text, a, behind),
         NEW i \in 1..Len(behind), NEW j \in 1..Len(behind), IsFirstWord(behind, i, j)
  PROVE  /\ i <= j /\ IsWord(text, a + i, a + j)
         /\ \A m \in 1..i - 1 : text[a + m] \in Separators
<1>1. /\ a \in Nat /\ a <= Len(text) /\ Len(text) \in Nat
      /\ behind \in Seq(Chars) /\ Len(behind) = Len(text) - a
      /\ \A m \in 1..Len(behind) : behind[m] = text[a + m]
  BY Behind
<1>2. /\ i <= j /\ i \in Nat /\ j \in Nat /\ 1 <= i /\ j <= Len(behind)
      /\ \A m \in i..j : behind[m] \notin Separators
      /\ i > 1 => behind[i - 1] \in Separators
      /\ j < Len(behind) => behind[j + 1] \in Separators
  BY <1>1 DEF IsFirstWord, IsWord
<1>3. ASSUME NEW m \in 1..i - 1 PROVE text[a + m] \in Separators
  <2>1. i - 1 \in Nat /\ i - 1 <= Len(behind) /\ m \in 1..Len(behind)
    BY <1>1, <1>2
  <2>2. /\ Len(SubSeq(behind, 1, i - 1)) = i - 1
        /\ SubSeq(behind, 1, i - 1)[m] = behind[m]
    BY <1>1, <2>1, Prefixed
  <2>3. behind[m] \in Separators
    BY <2>2 DEF IsFirstWord, IsBlank
  <2>4. QED
    BY <1>1, <2>1, <2>3
<1>4. ASSUME NEW m \in a + i..a + j PROVE text[m] \notin Separators
  <2>1. m - a \in i..j /\ m - a \in 1..Len(behind) /\ a + (m - a) = m
    BY <1>1, <1>2
  <2>2. QED
    BY <1>1, <1>2, <2>1
<1>5. ASSUME a + i > 1 PROVE text[a + i - 1] \in Separators
  <2>1. CASE i > 1
    <3>1. i - 1 \in 1..i - 1 /\ a + (i - 1) = a + i - 1
      BY <1>1, <1>2, <2>1
    <3>2. QED
      BY <1>3, <3>1
  <2>2. CASE i = 1
    <3>1. a > 0 /\ behind # <<>> /\ a + i - 1 = a
      BY <1>1, <1>2, <1>5, <2>2
    <3>2. QED
      BY <3>1 DEF Splits
  <2>3. QED
    BY <1>2, <2>1, <2>2
<1>6. ASSUME a + j < Len(text) PROVE text[a + j + 1] \in Separators
  <2>1. j + 1 \in 1..Len(behind) /\ a + (j + 1) = a + j + 1 /\ j < Len(behind)
    BY <1>1, <1>2, <1>6
  <2>2. QED
    BY <1>1, <1>2, <2>1
<1>7. QED
  BY <1>1, <1>2, <1>3, <1>4, <1>5, <1>6 DEF IsWord

\* The separator behind the word is passed too, when there is one.
LEMMA BehindWord ==
  ASSUME NEW text \in Seq(Chars), NEW a \in Nat, NEW behind, Splits(text, a, behind),
         NEW j \in 1..Len(behind),
         a + j < Len(text) => text[a + j + 1] \in Separators
  PROVE  LET b == Len(text) - Len(After(behind, j))
         IN  /\ Splits(text, b, After(behind, j))
             /\ b = IF a + j < Len(text) THEN a + j + 1 ELSE a + j
<1>1. /\ a \in Nat /\ a <= Len(text) /\ Len(text) \in Nat
      /\ behind \in Seq(Chars) /\ Len(behind) = Len(text) - a
  BY Behind
<1> DEFINE n == Len(text)
           c == a + j + 1
           r == After(behind, j)
<1>2. j \in Nat /\ 1 <= j /\ j <= n - a /\ n \in Nat /\ c \in Nat /\ a + j = c - 1
  BY <1>1
<1>3. CASE j = n - a
  <2>1. r = <<>>
    BY <1>1, <1>2, <1>3 DEF After
  <2> HIDE DEF r
  <2>2. n - Len(r) = n /\ a + j = n
    BY <1>1, <1>2, <1>3, <2>1
  <2>3. SubSeq(text, n + 1, n) = <<>>
    BY <1>1
  <2>4. Splits(text, n, r)
    BY <1>2, <2>1, <2>3 DEF Splits
  <2>5. QED
    BY <1>2, <2>2, <2>4 DEF r
<1>4. CASE j < n - a
  <2>0. /\ j + 2 \in Nat /\ j + 2 # 0 /\ n - a \in Nat /\ n - a <= Len(behind)
        /\ j + 2 <= (n - a) + 1 /\ r = SubSeq(behind, j + 2, n - a)
    BY <1>1, <1>2, <1>4 DEF After
  <2>1. r = SubSeq(text, a + (j + 2), a + (n - a))
    <3>1. ASSUME NEW x \in Nat, NEW y \in Nat, x # 0, y <= Len(behind), x <= y + 1
          PROVE  SubSeq(behind, x, y) = SubSeq(text, a + x, a + y)
      BY <3>1, SliceBehind, SMTT(30)
    <3>2. QED
      BY <2>0, <3>1
  <2>2. a + (j + 2) = c + 1 /\ a + (n - a) = n /\ c <= n /\ c > 0
    BY <1>1, <1>2, <1>4
  <2>3. r = SubSeq(text, c + 1, n)
    BY <2>1, <2>2
  <2> HIDE DEF r, c
  <2>4. Len(r) = n - c
    <3>1. Len(SubSeq(text, c + 1, Len(text))) = Len(text) - c
      BY <1>2, <2>2, SuffixLength
    <3>2. QED
      BY <1>2, <2>3, <3>1
  <2>5. n - Len(r) = c
    BY <1>2, <2>2, <2>4
  <2>6. text[c] \in Separators
    BY <1>1, <1>2, <1>4 DEF c
  <2>7. Splits(text, c, r)
    BY <1>2, <2>2, <2>3, <2>6 DEF Splits
  <2>8. a + j < n
    BY <1>1, <1>2, <1>4
  <2>9. QED
    BY <2>5, <2>7, <2>8 DEF r, c
<1>5. j = n - a \/ j < n - a
  BY <1>1, <1>2
<1>6. QED
  BY <1>3, <1>4, <1>5

\* A turn of the loop takes the next word of the line (common.c:92, 124).
LEMMA NextWord ==
  ASSUME NEW text \in Seq(Chars), NEW a \in Nat, NEW behind, Splits(text, a, behind),
         NEW i \in 1..Len(behind), NEW j \in 1..Len(behind), IsFirstWord(behind, i, j)
  PROVE  LET b == Len(text) - Len(After(behind, j))
             k == Cardinality(WordsWithin(text, a))
         IN  /\ Splits(text, b, After(behind, j))
             /\ Cardinality(WordsWithin(text, b)) = k + 1
             /\ k + 1 <= Len(Words(text)) /\ Words(text)[k + 1] = SubSeq(behind, i, j)
<1> DEFINE b == Len(text) - Len(After(behind, j))
           k == Cardinality(WordsWithin(text, a))
           p == <<a + i, a + j>>
<1>1. /\ a \in Nat /\ a <= Len(text) /\ Len(text) \in Nat
      /\ Len(behind) = Len(text) - a
  BY Behind
<1>2. /\ i <= j /\ IsWord(text, a + i, a + j)
      /\ \A m \in 1..i - 1 : text[a + m] \in Separators
  BY FirstWord
<1>3. p \in WordPlaces(text) /\ p[1] = a + i /\ p[2] = a + j
  <2>1. a + i \in 1..Len(text) /\ a + j \in 1..Len(text)
    BY <1>1
  <2>2. QED
    BY <1>2, <2>1 DEF WordPlaces
<1>4. SubSeq(behind, i, j) = SubSeq(text, p[1], p[2])
  <2>1. i \in Nat /\ i # 0 /\ j \in Nat /\ j <= Len(behind) /\ i <= j + 1
    BY <1>1, <1>2
  <2>2. SubSeq(behind, i, j) = SubSeq(text, a + i, a + j)
    BY <2>1, SliceBehind, SMTT(30)
  <2> HIDE DEF p
  <2>3. QED
    BY <1>3, <2>2
<1>5. /\ Splits(text, b, After(behind, j))
      /\ b = IF a + j < Len(text) THEN a + j + 1 ELSE a + j
  <2>1. a + j < Len(text) => text[a + j + 1] \in Separators
    BY <1>2 DEF IsWord
  <2>2. QED
    BY <2>1, BehindWord
<1> HIDE DEF b, p
<1>6. b \in Nat /\ a + j <= b /\ b <= a + j + 1
  BY <1>1, <1>5
<1>7. ASSUME NEW q \in WordPlaces(text), a < q[1], q[1] <= a + j + 1
      PROVE  q = p
  <2>1. /\ q[1] \in Nat /\ q[2] \in Nat /\ q[1] <= q[2]
        /\ text[q[1]] \notin Separators
    BY PlaceType DEF IsWord
  <2>2. CASE q[1] < a + i
    <3>1. q[1] - a \in 1..i - 1 /\ a + (q[1] - a) = q[1]
      BY <1>1, <1>7, <2>1, <2>2
    <3>2. QED
      BY <1>2, <2>1, <3>1
  <2>3. CASE p[1] <= q[1]
    <3>1. p = q \/ p[2] + 1 < q[1]
      BY <1>3, <2>3, WordsAreApart
    <3>2. ~(p[2] + 1 < q[1])
      BY <1>1, <1>3, <1>7, <2>1
    <3>3. QED
      BY <3>1, <3>2
  <2>4. QED
    BY <1>1, <1>3, <2>1, <2>2, <2>3
<1>8. \A q \in WordPlaces(text) : q[1] \in Nat
  BY PlaceType
<1>9. a < p[1] /\ p[1] <= b /\ p[1] \in Nat /\ p[1] <= a + j + 1
  BY <1>1, <1>2, <1>3, <1>6
<1>10. Cardinality(WordsWithin(text, b)) = k + 1
  <2>1. ASSUME NEW q \in WordPlaces(text) PROVE q = p \/ q[1] <= a \/ q[1] > b
    BY <1>1, <1>6, <1>7, <1>8
  <2> HIDE DEF k
  <2>2. Cardinality(WordsWithin(text, b)) = Cardinality(WordsWithin(text, a)) + 1
    BY <1>1, <1>3, <1>6, <1>9, <2>1, OneWordBegins
  <2>3. QED
    BY <2>2 DEF k
<1>11. Cardinality(WordsWithin(text, p[1])) = k + 1
  <2>1. ASSUME NEW q \in WordPlaces(text) PROVE q = p \/ q[1] <= a \/ q[1] > p[1]
    BY <1>1, <1>7, <1>8, <1>9
  <2> HIDE DEF k
  <2>2. Cardinality(WordsWithin(text, p[1])) = Cardinality(WordsWithin(text, a)) + 1
    BY <1>1, <1>3, <1>9, <2>1, OneWordBegins
  <2>3. QED
    BY <2>2 DEF k
<1>12. Len(Words(text)) = Cardinality(WordPlaces(text))
  BY WordsLength
<1>13. /\ k + 1 \in 1..Cardinality(WordPlaces(text))
       /\ Words(text)[k + 1] = SubSeq(text, p[1], p[2])
  BY <1>3, <1>11, WordNumber
<1>14. k + 1 <= Len(Words(text)) /\ Words(text)[k + 1] = SubSeq(behind, i, j)
  BY <1>4, <1>12, <1>13, PlacesFinite
<1>15. QED
  BY <1>5, <1>10, <1>14 DEF b

\* Behind the last word nothing is left to be found.
LEMMA NoMoreWords ==
  ASSUME NEW text \in Seq(Chars), NEW a \in Nat, NEW behind, Splits(text, a, behind), IsBlank(behind)
  PROVE  Cardinality(WordsWithin(text, a)) = Len(Words(text))
<1>1. /\ a \in Nat /\ a <= Len(text) /\ Len(text) \in Nat
      /\ behind \in Seq(Chars) /\ Len(behind) = Len(text) - a
      /\ \A m \in 1..Len(behind) : behind[m] = text[a + m]
  BY Behind
<1>2. ASSUME NEW q \in WordPlaces(text), ~(q[1] <= a)
      PROVE  FALSE
  <2>1. q[1] \in 1..Len(text) /\ q[1] <= q[2] /\ q[2] \in Nat /\ text[q[1]] \notin Separators
    BY PlaceType DEF IsWord
  <2>2. q[1] - a \in 1..Len(behind) /\ a + (q[1] - a) = q[1]
    BY <1>1, <1>2, <2>1
  <2>3. QED
    BY <1>1, <2>1, <2>2 DEF IsBlank
<1>3. WordsWithin(text, a) = WordPlaces(text)
  BY <1>2 DEF WordsWithin
<1>4. QED
  BY <1>3, WordsLength
-----------------------------------------------------------------------------
(* The loop over strtok_r.                                                  *)

LEMMA ReadLineParse ==
  ASSUME TypeOK', ReadLine
  PROVE  ParseInv' /\ CommandIsTyped'
<1>1. /\ pc' \in {"prompt", "parse"} /\ rest' = cmd_read' /\ cmd_read' \in Seq(Chars)
      /\ id' = "none" /\ npaths' = 0 /\ paths' = <<>>
  BY DEF ReadLine, TypeOK
<1> DEFINE text == cmd_read'
<1> HIDE DEF text
<1>2. Splits(text, 0, text)
  BY <1>1 DEF Splits, text
<1>3. WordsWithin(text, 0) = {}
  BY <1>1, PlaceType DEF WordsWithin, text
<1>4. Cardinality(WordsWithin(text, 0)) = 0
  BY <1>3, FS_EmptySet
<1>5. CommandOf(Words(text), 0, id', npaths', paths')
  BY <1>1 DEF CommandOf
<1>6. Len(cmd_read') - Len(rest') = 0
  BY <1>1
<1>7. ParseInv'
  BY <1>1, <1>2, <1>4, <1>5, <1>6 DEF ParseInv, text
<1>8. QED
  BY <1>1, <1>7 DEF CommandIsTyped

\* One more word: it is the command, one of its paths, or nothing.
LEMMA TokenCommand ==
  ASSUME NEW words, NEW k \in Nat, NEW word, word = words[k + 1],
         npaths \in Nat, paths \in Seq(Seq(Chars)), Token(word), pc' = "parse", pc = "parse",
         CommandOf(words, k, id, npaths, paths)
  PROVE  CommandOf(words, k + 1, id', npaths', paths')
<1>1. CASE id = "none"
  <2>1. /\ npaths = 0 /\ paths = <<>> /\ \A i \in 1..k : words[i] \notin CommandWords
    BY <1>1 DEF CommandOf, CommandWords, CommandNames
  <2>2. /\ id' = IF word \in CommandWords THEN word[1] ELSE "none"
        /\ npaths' = 0 /\ paths' = <<>>
    BY <1>1, <2>1 DEF Token
  <2>3. CASE word \in CommandWords
    <3> DEFINE n == k + 1
    <3>1. /\ n \in 1..k + 1 /\ words[n] \in CommandWords /\ id' = words[n][1]
          /\ \A i \in 1..n - 1 : words[i] \notin CommandWords
          /\ npaths' = k + 1 - n
      BY <2>1, <2>2, <2>3
    <3>2. paths' = [i \in 1..npaths' |-> WithBlanks(words[n + i])]
      BY <2>2
    <3>3. QED
      BY <3>1, <3>2 DEF CommandOf
  <2>4. CASE word \notin CommandWords
    BY <2>1, <2>2, <2>4 DEF CommandOf
  <2>5. QED
    BY <2>3, <2>4
<1>2. CASE id # "none"
  <2>1. /\ id' = id /\ npaths' = npaths + 1
        /\ paths' = Append(paths, WithBlanks(word))
    BY <1>2 DEF Token, AppendPath, AppendPathFails
  <2>2. PICK n \in 1..k :
          /\ words[n] \in CommandWords /\ id = words[n][1]
          /\ \A i \in 1..n - 1 : words[i] \notin CommandWords
          /\ npaths = k - n
          /\ paths = [i \in 1..npaths |-> WithBlanks(words[n + i])]
    BY <1>2 DEF CommandOf
  <2>3. n \in 1..k + 1 /\ npaths' = k + 1 - n
    BY <2>1, <2>2
  <2>4. paths' = [i \in 1..npaths' |-> WithBlanks(words[n + i])]
    <3> DEFINE f == [i \in 1..npaths + 1 |-> WithBlanks(words[n + i])]
    <3>1. Len(paths) = npaths /\ \A i \in 1..npaths : paths[i] = WithBlanks(words[n + i])
      BY <2>2
    <3>2. n + (npaths + 1) = k + 1
      BY <2>2
    <3>3. DOMAIN paths' = 1..npaths + 1
      BY <2>1, <3>1
    <3>4. ASSUME NEW i \in 1..npaths + 1 PROVE paths'[i] = WithBlanks(words[n + i])
      <4>1. CASE i = npaths + 1
        <5> DEFINE last == WithBlanks(word)
        <5> HIDE DEF last
        <5>1. paths' = Append(paths, last)
          BY <2>1 DEF last
        <5>2. paths'[i] = last
          BY <3>1, <4>1, <5>1
        <5>3. QED
          BY <3>2, <4>1, <5>2 DEF last
      <4>2. CASE i \in 1..npaths
        <5> DEFINE last == WithBlanks(word)
        <5> HIDE DEF last
        <5>1. paths' = Append(paths, last)
          BY <2>1 DEF last
        <5>2. paths'[i] = paths[i]
          BY <3>1, <4>2, <5>1
        <5>3. QED
          BY <3>1, <4>2, <5>2
      <4>3. QED
        BY <4>1, <4>2
    <3>5. QED
      BY <2>1, <3>3, <3>4
  <2>5. QED
    BY <2>1, <2>2, <2>3, <2>4 DEF CommandOf
<1>3. QED
  BY <1>1, <1>2

LEMMA WordParse ==
  ASSUME TypeOK, ParseInv, Word
  PROVE  ParseInv' /\ CommandIsTyped'
<1>1. PICK start \in 1..Len(rest), end \in 1..Len(rest) :
        /\ IsFirstWord(rest, start, end) /\ rest' = After(rest, end)
        /\ Token(SubSeq(rest, start, end))
  BY DEF Word
<1>2. pc = "parse" /\ cmd_read' = cmd_read
  BY DEF Word
<1>3. pc' \in {"parse", "failed"}
  BY <1>1, <1>2 DEF Token, AppendPath, AppendPathFails
<1>4. CASE pc' = "failed"
  BY <1>4 DEF ParseInv, CommandIsTyped
<1>5. CASE pc' = "parse"
  <2> DEFINE a == Len(cmd_read) - Len(rest)
             b == Len(cmd_read) - Len(After(rest, end))
             k == Cardinality(WordsWithin(cmd_read, a))
             word == SubSeq(rest, start, end)
             words == Words(cmd_read)
  <2>1. cmd_read \in Seq(Chars) /\ npaths \in Nat /\ paths \in Seq(Seq(Chars))
    BY DEF TypeOK
  <2>2. Splits(cmd_read, a, rest) /\ CommandOf(words, k, id, npaths, paths)
    BY <1>2 DEF ParseInv
  <2>3. a \in Nat
    BY <2>2 DEF Splits
  <2>4. k \in Nat
    BY <2>1, WithinFinite
  <2> HIDE DEF a
  <2>5. /\ Splits(cmd_read, b, After(rest, end))
        /\ Cardinality(WordsWithin(cmd_read, b)) = k + 1 /\ words[k + 1] = word
    BY <1>1, <2>1, <2>2, <2>3, NextWord
  <2> HIDE DEF b, k, word, words
  <2>6. CommandOf(words, k + 1, id', npaths', paths')
    BY <1>1, <1>2, <1>5, <2>1, <2>2, <2>4, <2>5, TokenCommand DEF word
  <2>7. Len(cmd_read') - Len(rest') = b
    BY <1>1, <1>2 DEF b
  <2>8. ParseInv'
    BY <1>1, <1>2, <2>5, <2>6, <2>7 DEF ParseInv, words
  <2>9. QED
    BY <1>5, <2>8 DEF CommandIsTyped
<1>6. QED
  BY <1>3, <1>4, <1>5

LEMMA EndOfWordsParse ==
  ASSUME TypeOK, ParseInv, EndOfWords
  PROVE  ParseInv' /\ CommandIsTyped'
<1>1. /\ pc = "parse" /\ IsBlank(rest) /\ id' = Wildcard(id)
      /\ pc' = IF id = "none" THEN "prompt" ELSE "run"
      /\ UNCHANGED <<cmd_read, npaths, paths>>
  BY DEF EndOfWords
<1>2. CASE id = "none"
  BY <1>1, <1>2 DEF ParseInv, CommandIsTyped
<1>3. CASE id # "none"
  <2> DEFINE a == Len(cmd_read) - Len(rest)
             words == Words(cmd_read)
  <2>1. cmd_read \in Seq(Chars)
    BY DEF TypeOK
  <2>2. /\ Splits(cmd_read, a, rest)
        /\ CommandOf(words, Cardinality(WordsWithin(cmd_read, a)), id, npaths, paths)
    BY <1>1 DEF ParseInv
  <2>3. a \in Nat
    BY <2>2 DEF Splits
  <2>4. Cardinality(WordsWithin(cmd_read, a)) = Len(words)
    BY <1>1, <2>1, <2>2, <2>3, NoMoreWords
  <2> HIDE DEF a, words
  <2>5. PICK n \in 1..Len(words) :
          /\ words[n] \in CommandWords /\ id = words[n][1]
          /\ \A i \in 1..n - 1 : words[i] \notin CommandWords
          /\ npaths = Len(words) - n
          /\ paths = [i \in 1..npaths |-> WithBlanks(words[n + i])]
    BY <1>3, <2>2, <2>4 DEF CommandOf
  <2>6. id' = Wildcard(words[n][1])'
    BY <1>1, <2>5 DEF Wildcard, words
  <2>7. CommandIsTyped'
    BY <1>1, <2>5, <2>6 DEF CommandIsTyped, words
  <2>8. QED
    BY <1>1, <1>3, <2>7 DEF ParseInv
<1>4. QED
  BY <1>2, <1>3

LEMMA ParseStep ==
  ASSUME TypeOK, TypeOK', ParseInv, CommandIsTyped, [Next]_vars
  PROVE  ParseInv' /\ CommandIsTyped'
<1>1. CASE ReadLine
  BY <1>1, ReadLineParse
<1>2. CASE Word
  BY <1>2, WordParse
<1>3. CASE EndOfWords
  BY <1>3, EndOfWordsParse
<1>4. CASE pc' \in {"prompt", "exited"}
  BY <1>4 DEF ParseInv, CommandIsTyped
<1>5. CASE UNCHANGED vars
  BY <1>5 DEF vars, ParseInv, CommandIsTyped, Wildcard
<1>6. QED
  BY <1>1, <1>2, <1>3, <1>4, <1>5 DEF Next, GiveUp, Execute, EndOfInput, Terminated

-----------------------------------------------------------------------------

\* TextInv is inductive.
THEOREM TextInvariant == Spec => []TextInv
<1>1. Init => TextInv
  <2> SUFFICES ASSUME Init PROVE TextInv
    OBVIOUS
  <2>1. TypeOK
    BY InitialTypes
  <2>2. consumed = <<>> /\ cmd_read = <<>> /\ pc = "prompt"
    BY DEF Init
  <2>3. ReadInv
    <3>1. Len(consumed) = 0 /\ SubSeq(consumed, 0 + 1, Len(consumed)) = <<>>
      BY <2>2
    <3>2. Chomp(<<>>) = <<>>
      BY DEF Chomp, WithoutLast
    <3>3. Begins(consumed, 0)
      BY DEF Begins
    <3>4. cmd_read = Chomp(SubSeq(consumed, 0 + 1, Len(consumed)))
      BY <2>2, <3>1, <3>2
    <3>5. \A i \in 0 + 1..Len(consumed) - 1 : consumed[i] # "nl"
      BY <3>1
    <3>6. 0 \in 0..Len(consumed)
      BY <3>1
    <3>7. QED
      BY <2>2, <3>1, <3>3, <3>4, <3>5, <3>6 DEF ReadInv
  <2>4. QED
    BY <2>1, <2>2, <2>3 DEF TextInv, ParseInv, CommandIsTyped
<1>2. TextInv /\ [Next]_vars => TextInv'
  BY TypeStep, ReadStep, ParseStep DEF TextInv
<1>3. QED
  BY <1>1, <1>2, PTL DEF Spec

\* A line that fits into the buffer is read whole (ftp_client_funcs.c:355).
THEOREM LinesAreWhole == Spec => []ShortLinesAreWhole
<1>1. TextInv => ShortLinesAreWhole
  BY ShortLine DEF TextInv
<1>2. QED
  BY <1>1, TextInvariant, PTL

\* A command has the words that were typed behind it (common.c:78).
THEOREM CommandsAreTyped == Spec => []CommandIsTyped
<1>1. TextInv => CommandIsTyped
  BY DEF TextInv
<1>2. QED
  BY <1>1, TextInvariant, PTL
=============================================================================
