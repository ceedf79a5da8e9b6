---------------------------- MODULE PassivePort ----------------------------
(***************************************************************************)
(* cal_data_port: the port of the data connection, read from the response  *)
(* that ResponseFraming has put into recv_buffer.                          *)
(***************************************************************************)
EXTENDS ResponseFraming, SequencesExt

CONSTANT Announced  \* the ports that the 227 replies in Streams announce

\* The values of an in_port_t.
PortValues == 65536

ASSUME AnnouncedAssumption == Announced \subseteq 1..PortValues - 1

DigitValue == [c \in Digits |-> CASE c = "0" -> 0 [] c = "1" -> 1
                                  [] c = "2" -> 2 [] c = "7" -> 7]

\* The C string in a buffer.
CString(buffer) ==
  LET n == CHOOSE n \in 0..BufferSize - 1 :
             buffer[n] = "NUL" /\ \A i \in 0..n - 1 : buffer[i] # "NUL"
  IN [i \in 1..n |-> buffer[i - 1]]

-----------------------------------------------------------------------------

\* strchr: the first place of a character, 0 if there is none.
PlaceOf(text, char) == SelectInSeq(text, LAMBDA c : c = char)

\* Mutant: without ")" the text goes on to its end.
BracketedToEnd(text) ==
  LET open  == PlaceOf(text, "(")
      close == PlaceOf(text, ")")
      last  == IF close = 0 THEN Len(text) ELSE close - 1
  IN IF open = 0 THEN <<>> ELSE SubSeq(text, open + 1, Min({last, open + 63}))

\* What stands between "(" and ")", as far as passive_res[64] holds it.
Bracketed(text) ==
  LET open  == PlaceOf(text, "(")
      close == PlaceOf(text, ")")
  IN IF open = 0 \/ close <= open
     THEN <<>> ELSE SubSeq(text, open + 1, Min({close - 1, open + 63}))

\* strtok_r: fields are what commas separate; an empty one is none.
FieldStarts(text) ==
  {i \in 1..Len(text) : text[i] # "," /\ (i = 1 \/ text[i - 1] = ",")}

FieldStart(text, k) ==
  CHOOSE i \in FieldStarts(text) : Cardinality({j \in FieldStarts(text) : j <= i}) = k

\* atoi at a place: blanks, a sign, and digits up to anything else.
Atoi(text, at) ==
  LET number == SelectInSubSeq(text, at, Len(text), LAMBDA c : c # " ")
      first  == IF text[number] = "-" THEN number + 1 ELSE number
      behind == SelectInSubSeq(text, first, Len(text), LAMBDA c : c \notin Digits)
      digits == SubSeq(text, first, IF behind = 0 THEN Len(text) ELSE behind - 1)
      value  == FoldLeft(LAMBDA n, c : 10 * n + DigitValue[c], 0, digits)
  IN IF number = 0 THEN 0 ELSE IF text[number] = "-" THEN -value ELSE value

CalDataPort(text) ==
  LET fields == Bracketed(text)
      p(k)   == Atoi(fields, FieldStart(fields, k))
  IN IF Cardinality(FieldStarts(fields)) < 6 THEN 0 ELSE 256 * p(5) + p(6)

EntersPassive(text) == IsPrefix(<<"2", "2", "7">>, text)

\* The port that enter_passive_mode connects to, an in_port_t; 0 if it gives up.
PassivePortOf(text) ==
  IF EntersPassive(text) THEN CalDataPort(text) % PortValues ELSE 0

-----------------------------------------------------------------------------

\* However the reply to PASV is cut into pieces, or mixed with other replies,
\* the client connects to the port that the server announced or gives up; it
\* gives up only if the response it has got does not hold the whole address
\* (enter_passive_mode).
PortIsAnnounced ==
  LET text == CString(recv_buffer)
  IN pc = "returned" /\ result > 0 =>
       /\ PassivePortOf(text) \in Announced \cup {0}
       /\ EntersPassive(text) /\ Contains(text, ")") => PassivePortOf(text) # 0

-----------------------------------------------------------------------------
(* What the proof of PortIsAnnounced for every buffer and every stream needs *)
(* (PassivePortProofs).                                                     *)

\* What Announced means: whatever in a stream begins like a reply to PASV is
\* one, and cal_data_port finds an announced port in it if it is left whole.
WholeRepliesAnnounce ==
  \A s \in Streams : \A i \in 1..Len(s) :
    LET reply == SubSeq(s, i, Len(s))
    IN EntersPassive(reply) /\ Contains(reply, ")") => PassivePortOf(reply) \in Announced

\* What this call has received and what is to come are the end of a stream.
Arrived ==
  \E s \in Streams : \E i \in 1..Len(s) + 1 : taken \o stream = SubSeq(s, i, Len(s))
=============================================================================
