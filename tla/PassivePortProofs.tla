------------------------- MODULE PassivePortProofs -------------------------
(***************************************************************************)
(* The data port: cal_data_port looks no further than the first closing    *)
(* bracket, so a reply to PASV that is cut off has no port or its own, for *)
(* every size of the buffer, every stream and every way to cut it.         *)
(***************************************************************************)
EXTENDS PassivePort, ResponseFramingProofs, FiniteSetTheorems, SequenceTheorems,
        WellFoundedInduction

-----------------------------------------------------------------------------
(* The place of a character.                                                *)

LEMMA MinOfPlaces ==
  ASSUME NEW I, I \subseteq Nat, I # {}
  PROVE  Min(I) \in I /\ \A y \in I : Min(I) <= y
<1>1. IsWellFoundedOn(OpToRel(<, Nat), Nat)
  BY NatLessThanWellFounded
<1>2. PICK x \in I : \A y \in I : <<y, x>> \notin OpToRel(<, Nat)
  BY <1>1, WFMin
<1>3. ASSUME NEW y \in I PROVE x <= y
  <2>1. x \in Nat /\ y \in Nat /\ <<y, x>> \in Nat \X Nat
    OBVIOUS
  <2>2. <<y, x>> \notin OpToRel(<, Nat)
    BY <1>2
  <2>3. ~(y < x)
    BY <2>1, <2>2 DEF OpToRel
  <2>4. QED
    BY <2>1, <2>3
<1>4. \E z \in I : \A y \in I : z =< y
  BY <1>3
<1>5. QED
  BY <1>4 DEF Min

\* PlaceOf finds the first place of a character, if there is one.
LEMMA FirstPlace ==
  ASSUME NEW text \in Seq(Chars), NEW char \in Chars
  PROVE  /\ PlaceOf(text, char) \in 0..Len(text)
         /\ PlaceOf(text, char) = 0 => \A i \in 1..Len(text) : text[i] # char
         /\ PlaceOf(text, char) # 0 => /\ text[PlaceOf(text, char)] = char
                                       /\ \A i \in 1..PlaceOf(text, char) - 1 :
                                            text[i] # char
<1> DEFINE places == {i \in 1..Len(text) : text[i] = char}
<1>1. PlaceOf(text, char) = IF places # {} THEN Min(places) ELSE 0
  BY DEF PlaceOf, SelectInSeq
<1>2. Len(text) \in Nat /\ places \subseteq Nat
  OBVIOUS
<1>3. CASE places = {}
  BY <1>1, <1>2, <1>3
<1>4. CASE places # {}
  <2>1. Min(places) \in places /\ \A i \in places : Min(places) <= i
    <3> HIDE DEF places
    <3>1. QED
      BY <1>2, <1>4, MinOfPlaces
  <2>2. ASSUME NEW i \in 1..Min(places) - 1 PROVE text[i] # char
    BY <1>2, <2>1
  <2>3. QED
    BY <1>1, <1>2, <1>4, <2>1, <2>2
<1>5. QED
  BY <1>3, <1>4

-----------------------------------------------------------------------------
(* A text and one that begins with it.                                      *)

Begun(text, whole) ==
  Len(text) <= Len(whole) /\ \A i \in 1..Len(text) : text[i] = whole[i]

\* What the shorter text has, the longer one has at the same place; what it
\* does not have comes behind it.
LEMMA SamePlace ==
  ASSUME NEW text \in Seq(Chars), NEW whole \in Seq(Chars), Begun(text, whole),
         NEW char \in Chars
  PROVE  \/ PlaceOf(text, char) = PlaceOf(whole, char)
         \/ PlaceOf(text, char) = 0 /\ PlaceOf(whole, char) > Len(text)
<1> DEFINE p == PlaceOf(text, char)
           q == PlaceOf(whole, char)
<1>1. /\ p \in 0..Len(text)
      /\ p = 0 => \A i \in 1..Len(text) : text[i] # char
      /\ p # 0 => text[p] = char /\ \A i \in 1..p - 1 : text[i] # char
  BY FirstPlace
<1>2. /\ q \in 0..Len(whole)
      /\ q = 0 => \A i \in 1..Len(whole) : whole[i] # char
      /\ q # 0 => whole[q] = char /\ \A i \in 1..q - 1 : whole[i] # char
  BY FirstPlace
<1>3. /\ Len(text) \in Nat /\ Len(whole) \in Nat /\ Len(text) <= Len(whole)
      /\ \A i \in 1..Len(text) : text[i] = whole[i]
  BY DEF Begun
<1> HIDE DEF p, q
<1>4. CASE p = 0
  <2>1. q \in 1..Len(text) => whole[q] = text[q] /\ text[q] # char
    BY <1>1, <1>3, <1>4
  <2>2. QED
    BY <1>2, <1>3, <1>4, <2>1 DEF p, q
<1>5. CASE p # 0
  <2>1. p \in 1..Len(text) /\ p \in 1..Len(whole) /\ whole[p] = char
    BY <1>1, <1>3, <1>5
  <2>2. q # 0 /\ ~(p < q)
    BY <1>2, <2>1
  <2>3. ASSUME q < p PROVE FALSE
    <3>1. q \in 1..p - 1 /\ q \in 1..Len(text)
      BY <1>2, <1>3, <2>1, <2>2, <2>3
    <3>2. QED
      BY <1>1, <1>2, <1>3, <1>5, <2>2, <3>1
  <2>4. p = q
    BY <1>2, <2>1, <2>2, <2>3
  <2>5. QED
    BY <2>4 DEF p, q
<1>6. QED
  BY <1>4, <1>5

LEMMA SamePiece ==
  ASSUME NEW text \in Seq(Chars), NEW whole \in Seq(Chars), Begun(text, whole),
         NEW m \in Nat, NEW n \in Int, m # 0, n <= Len(text)
  PROVE  SubSeq(text, m, n) = SubSeq(whole, m, n)
<1>1. /\ Len(text) \in Nat /\ Len(whole) \in Nat /\ Len(text) <= Len(whole)
      /\ \A i \in 1..Len(text) : text[i] = whole[i]
  BY DEF Begun
<1> DEFINE s == SubSeq(text, m, n)
           t == SubSeq(whole, m, n)
<1>2. /\ s \in Seq(Chars) /\ t \in Seq(Chars)
      /\ Len(s) = (IF m <= n THEN n - m + 1 ELSE 0)
      /\ Len(t) = (IF m <= n THEN n - m + 1 ELSE 0)
      /\ \A i \in 1..Len(s) : s[i] = text[m + i - 1]
      /\ \A i \in 1..Len(t) : t[i] = whole[m + i - 1]
  BY <1>1
<1> HIDE DEF s, t
<1>3. ASSUME NEW i \in 1..Len(s) PROVE s[i] = t[i]
  <2>1. m + i - 1 \in 1..Len(text)
    BY <1>1, <1>2
  <2>2. QED
    BY <1>1, <1>2, <2>1
<1>4. Len(s) = Len(t)
  BY <1>2
<1>5. s = t
  BY <1>2, <1>3, <1>4, SeqEqual
<1>6. QED
  BY <1>5 DEF s, t

LEMMA MinOfPair ==
  ASSUME NEW m \in Nat, NEW n \in Nat
  PROVE  Min({m, n}) \in Nat /\ Min({m, n}) <= m
BY MinOfPlaces

\* The address stands before the first closing bracket: what follows it does
\* not matter (cal_data_port).
LEMMA SameAddress ==
  ASSUME NEW text \in Seq(Chars), NEW whole \in Seq(Chars), Begun(text, whole),
         Contains(text, ")")
  PROVE  Bracketed(text) = Bracketed(whole)
<1>1. "(" \in Chars /\ ")" \in Chars
  BY DEF Chars
<1> DEFINE open   == PlaceOf(text, "(")
           close  == PlaceOf(text, ")")
           open2  == PlaceOf(whole, "(")
           close2 == PlaceOf(whole, ")")
<1>2. Len(text) \in Nat /\ open \in 0..Len(text) /\ close \in 0..Len(text)
  BY <1>1, FirstPlace
<1>3. close # 0
  <2>1. close = 0 => \A i \in 1..Len(text) : text[i] # ")"
    BY <1>1, FirstPlace
  <2>2. QED
    BY <2>1 DEF Contains
<1>4. close2 = close
  BY <1>1, <1>3, SamePlace
<1>5. open2 = open \/ (open = 0 /\ open2 > Len(text))
  BY <1>1, SamePlace
<1>6. open2 \in Nat
  BY <1>1, FirstPlace
<1>7. /\ Bracketed(text) = IF open = 0 \/ close <= open THEN <<>>
                           ELSE SubSeq(text, open + 1, Min({close - 1, open + 63}))
      /\ Bracketed(whole) = IF open2 = 0 \/ close2 <= open2 THEN <<>>
                            ELSE SubSeq(whole, open2 + 1, Min({close2 - 1, open2 + 63}))
  BY DEF Bracketed
<1> HIDE DEF open, close, open2, close2
<1>8. CASE open2 = open
  <2>1. CASE open = 0 \/ close <= open
    BY <1>4, <1>7, <1>8, <2>1
  <2>2. CASE ~(open = 0 \/ close <= open)
    <3> DEFINE last == Min({close - 1, open + 63})
    <3>1. close - 1 \in Nat /\ open + 63 \in Nat
      BY <1>2, <1>3
    <3>2. last \in Nat /\ last <= close - 1
      BY <3>1, MinOfPair
    <3> HIDE DEF last
    <3>3. open + 1 \in Nat /\ open + 1 # 0 /\ last \in Int /\ last <= Len(text)
      BY <1>2, <3>2
    <3>4. SubSeq(text, open + 1, last) = SubSeq(whole, open + 1, last)
      BY <3>3, SamePiece
    <3>5. QED
      BY <1>4, <1>7, <1>8, <2>2, <3>4 DEF last
  <2>3. QED
    BY <2>1, <2>2
<1>9. CASE open = 0 /\ open2 > Len(text)
  <2>1. close2 <= open2
    BY <1>2, <1>4, <1>6, <1>9
  <2>2. QED
    BY <1>7, <1>9, <2>1
<1>10. QED
  BY <1>5, <1>8, <1>9

-----------------------------------------------------------------------------
(* A response that was cut off before its bracket.                          *)

LEMMA NoFields == Cardinality(FieldStarts(<<>>)) = 0
<1>1. FieldStarts(<<>>) = {}
  BY DEF FieldStarts
<1>2. QED
  BY <1>1, FS_EmptySet

\* A reply that was cut off before its bracket, or has none, makes the client
\* give up: a part of an address is never taken for one (cal_data_port).
THEOREM CutReplyHasNoPort ==
  ASSUME NEW text \in Seq(Chars), \A i \in 1..Len(text) : text[i] # ")"
  PROVE  CalDataPort(text) = 0 /\ PassivePortOf(text) = 0
<1>1. "(" \in Chars /\ ")" \in Chars
  BY DEF Chars
<1>2. PlaceOf(text, "(") \in Nat
  BY <1>1, FirstPlace
<1>3. PlaceOf(text, ")") = 0
  BY <1>1, FirstPlace
<1>4. Bracketed(text) = <<>>
  BY <1>2, <1>3 DEF Bracketed
<1>5. CalDataPort(text) = 0
  BY <1>4, NoFields DEF CalDataPort
<1>6. 0 % PortValues = 0
  BY DEF PortValues
<1>7. QED
  BY <1>5, <1>6 DEF PassivePortOf

-----------------------------------------------------------------------------
(* Every response is a piece of a stream.                                   *)

LEMMA ReceivedWhole ==
  ASSUME taken \in Seq(Chars), stream \in Seq(Chars), NEW k \in 1..Len(stream), Receive(k)
  PROVE  taken' \o stream' = taken \o stream
<1> DEFINE front == SubSeq(stream, 1, k)
           back  == SubSeq(stream, k + 1, Len(stream))
<1>1. front \in Seq(Chars) /\ back \in Seq(Chars)
  OBVIOUS
<1>2. front \o back = stream
  OBVIOUS
<1>3. (taken \o front) \o back = taken \o (front \o back)
  <2> HIDE DEF front, back
  <2>1. QED
    BY <1>1
<1>4. QED
  BY <1>2, <1>3 DEF Receive

LEMMA RestOfSuffix ==
  ASSUME NEW s \in Seq(Chars), NEW i \in 1..Len(s) + 1, NEW a \in Seq(Chars),
         NEW b \in Seq(Chars), a \o b = SubSeq(s, i, Len(s))
  PROVE  b = SubSeq(s, i + Len(a), Len(s)) /\ i + Len(a) \in 1..Len(s) + 1
<1> DEFINE t == SubSeq(s, i + Len(a), Len(s))
           ab == a \o b
           z  == SubSeq(s, i, Len(s))
<1>1. Len(s) \in Nat /\ Len(a) \in Nat /\ Len(b) \in Nat
  OBVIOUS
<1>2. /\ Len(ab) = Len(a) + Len(b)
      /\ \A j \in 1..Len(b) : ab[Len(a) + j] = b[j]
  <2>1. /\ Len(ab) = Len(a) + Len(b)
        /\ \A j \in 1..Len(a) + Len(b) :
             ab[j] = IF j <= Len(a) THEN a[j] ELSE b[j - Len(a)]
    BY ConcatProperties
  <2>2. ASSUME NEW j \in 1..Len(b) PROVE ab[Len(a) + j] = b[j]
    <3>1. /\ Len(a) + j \in 1..Len(a) + Len(b) /\ ~(Len(a) + j <= Len(a))
          /\ (Len(a) + j) - Len(a) = j
      BY <1>1
    <3> HIDE DEF ab
    <3>2. QED
      BY <2>1, <3>1
  <2>3. QED
    BY <2>1, <2>2
<1>3. /\ Len(z) = Len(s) + 1 - i
      /\ \A j \in 1..Len(z) : z[j] = s[i + j - 1]
  BY <1>1
<1>4. ab = z
  OBVIOUS
<1> HIDE DEF ab, z
<1>5. Len(a) + Len(b) = Len(s) + 1 - i
  BY <1>2, <1>3, <1>4
<1>6. i + Len(a) \in 1..Len(s) + 1 /\ i + Len(a) \in Nat
  BY <1>1, <1>5
<1>7. /\ t \in Seq(Chars) /\ Len(t) = Len(b)
      /\ \A j \in 1..Len(t) : t[j] = s[i + Len(a) + j - 1]
  BY <1>1, <1>5, <1>6
<1> HIDE DEF t
<1>8. ASSUME NEW j \in 1..Len(b) PROVE b[j] = t[j]
  <2>1. Len(a) + j \in 1..Len(z) /\ i + (Len(a) + j) - 1 = i + Len(a) + j - 1
    BY <1>1, <1>3, <1>5
  <2>2. ab[Len(a) + j] = b[j] /\ z[Len(a) + j] = s[i + (Len(a) + j) - 1]
    BY <1>2, <1>3, <2>1
  <2>3. t[j] = s[i + Len(a) + j - 1]
    BY <1>7
  <2>4. QED
    BY <1>4, <2>1, <2>2, <2>3
<1>9. b = t
  BY <1>7, <1>8, SeqEqual
<1>10. QED
  BY <1>6, <1>9 DEF t

\* What begins with 227 goes on beginning with it.
LEMMA SameStart ==
  ASSUME NEW text \in Seq(Chars), NEW whole \in Seq(Chars), Begun(text, whole),
         EntersPassive(text)
  PROVE  EntersPassive(whole)
<1> DEFINE start == <<"2", "2", "7">>
<1>1. Len(start) = 3 /\ Len(text) \in Nat /\ Len(whole) \in Nat
  OBVIOUS
<1>2. 3 <= Len(text) /\ SubSeq(start, 1, 3) = SubSeq(text, 1, 3)
  BY <1>1 DEF EntersPassive, IsPrefix
<1>3. SubSeq(text, 1, 3) = SubSeq(whole, 1, 3)
  BY <1>1, <1>2, SamePiece
<1>4. 3 <= Len(whole)
  BY <1>1, <1>2 DEF Begun
<1>5. QED
  BY <1>1, <1>2, <1>3, <1>4 DEF EntersPassive, IsPrefix

LEMMA ArrivedStep ==
  ASSUME FramingInv, Arrived, [Next]_vars
  PROVE  Arrived'
<1>1. taken \in Seq(Chars) /\ stream \in Seq(Chars)
  BY DEF FramingInv, TypeOK
<1>2. PICK s \in Streams : \E i \in 1..Len(s) + 1 : taken \o stream = SubSeq(s, i, Len(s))
  BY DEF Arrived
<1>3. PICK i \in 1..Len(s) + 1 : taken \o stream = SubSeq(s, i, Len(s))
  BY <1>2
<1>4. s \in Seq(Chars) /\ Len(s) \in Nat
  BY StreamsAssumption
<1>5. ASSUME NEW k \in Pieces, Receive(k) PROVE Arrived'
  <2>1. k \in 1..Len(stream) /\ Len(stream) \in Nat
    BY <1>1, <1>5 DEF Pieces
  <2>2. taken' \o stream' = taken \o stream
    BY <1>1, <1>5, <2>1, ReceivedWhole
  <2>3. QED
    BY <1>3, <2>2 DEF Arrived
<1>6. ASSUME Call PROVE Arrived'
  <2>1. taken' = <<>> /\ stream' = stream
    BY <1>6 DEF Call
  <2>2. stream = SubSeq(s, i + Len(taken), Len(s))
        /\ i + Len(taken) \in 1..Len(s) + 1
    BY <1>1, <1>3, <1>4, RestOfSuffix
  <2>3. taken' \o stream' = stream
    BY <1>1, <2>1
  <2>4. QED
    BY <2>2, <2>3 DEF Arrived
<1>7. CASE UNCHANGED <<stream, taken>>
  BY <1>7 DEF Arrived
<1>8. Call \/ (\E k \in Pieces : Receive(k)) \/ UNCHANGED <<stream, taken>>
  BY DEF Next, FirstReceive, AnotherReceive, ReceiveFails, vars
<1>9. QED
  BY <1>5, <1>6, <1>7, <1>8

LEMMA ArrivedInit == Init => Arrived
<1> SUFFICES ASSUME Init PROVE Arrived
  OBVIOUS
<1>1. stream \in Streams /\ stream \in Seq(Chars) /\ taken = <<>>
  BY StreamsAssumption DEF Init
<1>2. taken \o stream = SubSeq(stream, 1, Len(stream)) /\ 1 \in 1..Len(stream) + 1
  BY <1>1
<1>3. QED
  BY <1>1, <1>2 DEF Arrived

\* A successful call returns the string of the bytes it has received.
LEMMA ResponseIsTaken ==
  ASSUME FramingInv, pc = "returned", result > 0
  PROVE  CString(recv_buffer) = taken
<1>1. /\ taken \in Seq(Chars) /\ Len(taken) \in Nat /\ Len(taken) < BufferSize
      /\ BufferSize \in Nat
  BY BufferAssumption DEF FramingInv, TypeOK
<1>2. /\ \A i \in 1..Len(taken) : recv_buffer[i - 1] = taken[i]
      /\ recv_buffer[Len(taken)] = "NUL"
  BY DEF FramingInv, BufferIsString
<1>3. \A i \in 0..Len(taken) - 1 : recv_buffer[i] # "NUL"
  <2>1. SUFFICES ASSUME NEW i \in 0..Len(taken) - 1 PROVE recv_buffer[i] # "NUL"
    OBVIOUS
  <2>2. i + 1 \in 1..Len(taken) /\ (i + 1) - 1 = i
    BY <1>1
  <2>3. recv_buffer[i] = taken[i + 1] /\ taken[i + 1] \in Chars
    BY <1>1, <1>2, <2>2
  <2>4. QED
    BY <2>3 DEF Chars, Digits
<1> DEFINE End(n) == recv_buffer[n] = "NUL" /\ \A i \in 0..n - 1 : recv_buffer[i] # "NUL"
           n == CHOOSE n \in 0..BufferSize - 1 : End(n)
<1>4. Len(taken) \in 0..BufferSize - 1 /\ End(Len(taken))
  BY <1>1, <1>2, <1>3
<1>5. n \in 0..BufferSize - 1 /\ End(n)
  <2> HIDE DEF End
  <2>1. QED
    BY <1>4
<1>6. CString(recv_buffer) = [i \in 1..n |-> recv_buffer[i - 1]]
  BY DEF CString
<1> HIDE DEF n
<1>7. n = Len(taken)
  <2>1. ~(n < Len(taken))
    BY <1>1, <1>3, <1>5
  <2>2. ~(Len(taken) < n)
    BY <1>1, <1>2, <1>5
  <2>3. QED
    BY <1>1, <1>5, <2>1, <2>2
<1>8. [i \in 1..Len(taken) |-> recv_buffer[i - 1]] = taken
  BY <1>1, <1>2
<1>9. QED
  BY <1>6, <1>7, <1>8

LEMMA NoPortAnnounced == 0 \notin Announced
BY AnnouncedAssumption

LEMMA BegunByFirst ==
  ASSUME NEW a \in Seq(Chars), NEW b \in Seq(Chars) PROVE Begun(a, a \o b)
<1> DEFINE ab == a \o b
<1>1. /\ Len(ab) = Len(a) + Len(b)
      /\ \A i \in 1..Len(a) + Len(b) :
           ab[i] = IF i <= Len(a) THEN a[i] ELSE b[i - Len(a)]
  BY ConcatProperties
<1>2. Len(a) \in Nat /\ Len(b) \in Nat
  OBVIOUS
<1> HIDE DEF ab
<1>3. Len(a) <= Len(ab) /\ \A i \in 1..Len(a) : a[i] = ab[i]
  BY <1>1, <1>2
<1>4. QED
  BY <1>3 DEF Begun, ab

LEMMA PortAnnounced ==
  ASSUME WholeRepliesAnnounce, FramingInv, Arrived
  PROVE  PortIsAnnounced
<1>1. SUFFICES ASSUME pc = "returned", result > 0
               PROVE  /\ PassivePortOf(taken) \in Announced \cup {0}
                      /\ EntersPassive(taken) /\ Contains(taken, ")") =>
                           PassivePortOf(taken) # 0
  BY ResponseIsTaken DEF PortIsAnnounced
<1>2. taken \in Seq(Chars) /\ stream \in Seq(Chars)
  BY DEF FramingInv, TypeOK
<1>3. CASE ~EntersPassive(taken)
  BY <1>3 DEF PassivePortOf
<1>4. CASE ~Contains(taken, ")")
  <2>1. PassivePortOf(taken) = 0
    BY <1>2, <1>4, CutReplyHasNoPort DEF Contains
  <2>2. QED
    BY <1>4, <2>1
<1>5. CASE EntersPassive(taken) /\ Contains(taken, ")")
  <2> PICK s \in Streams : \E i \in 1..Len(s) + 1 : taken \o stream = SubSeq(s, i, Len(s))
    BY DEF Arrived
  <2>1. PICK i \in 1..Len(s) + 1 : taken \o stream = SubSeq(s, i, Len(s))
    OBVIOUS
  <2> DEFINE reply == SubSeq(s, i, Len(s))
  <2>2. s \in Seq(Chars) /\ Len(s) \in Nat /\ reply \in Seq(Chars)
        /\ (i = Len(s) + 1 => Len(reply) = 0)
    BY StreamsAssumption
  <2>3. Begun(taken, reply)
    BY <1>2, <2>1, BegunByFirst
  <2> HIDE DEF reply
  <2>4. Len(taken) # 0 /\ Contains(reply, ")")
    <3>1. PICK j \in 1..Len(taken) : taken[j] = ")"
      BY <1>5 DEF Contains
    <3>2. Len(taken) \in Nat /\ Len(reply) \in Nat
      BY <1>2, <2>2
    <3>3. j \in 1..Len(reply) /\ reply[j] = ")"
      BY <2>3, <3>1, <3>2 DEF Begun
    <3>4. Len(taken) # 0
      BY <3>1, <3>2
    <3>5. QED
      BY <3>3, <3>4 DEF Contains
  <2>5. i \in 1..Len(s)
    BY <2>2, <2>3, <2>4 DEF Begun
  <2>6. EntersPassive(reply)
    BY <1>2, <1>5, <2>2, <2>3, SameStart
  <2>7. PassivePortOf(reply) \in Announced
    BY <2>4, <2>5, <2>6 DEF WholeRepliesAnnounce, reply
  <2>8. Bracketed(taken) = Bracketed(reply)
    BY <1>2, <1>5, <2>2, <2>3, SameAddress
  <2>9. PassivePortOf(taken) = PassivePortOf(reply)
    BY <1>5, <2>6, <2>8 DEF PassivePortOf, CalDataPort
  <2>10. 0 \notin Announced
    BY NoPortAnnounced
  <2>11. PassivePortOf(taken) \in Announced
    BY <2>7, <2>9
  <2>12. QED
    BY <2>10, <2>11
<1>6. QED
  BY <1>3, <1>4, <1>5

\* However the reply to PASV is cut into pieces or mixed with other replies,
\* for every size of recv_buffer, the client connects to the port that the
\* whole reply announces, or gives up (enter_passive_mode).
THEOREM PortsAreAnnounced ==
  ASSUME WholeRepliesAnnounce
  PROVE  Spec => []PortIsAnnounced
<1>1. FramingInv /\ Arrived /\ [Next]_vars => Arrived'
  BY ArrivedStep
<1>2. FramingInv /\ Arrived => PortIsAnnounced
  BY PortAnnounced
<1>3. QED
  BY <1>1, <1>2, ArrivedInit, FramingInvariant, PTL DEF Spec
=============================================================================
