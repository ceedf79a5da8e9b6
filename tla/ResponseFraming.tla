-------------------------- MODULE ResponseFraming --------------------------
(***************************************************************************)
(* get_response_with_timeout byte by byte: one control stream that arrives *)
(* in arbitrary pieces, recv_buffer of BUFFER_SIZE bytes, and the loop for *)
(* multi-line replies.  ControlConnection abstracts its outcomes to        *)
(* FirstChunk, CollectMore and GetResponseFails.                           *)
(***************************************************************************)
EXTENDS Integers, Sequences

CONSTANTS
  BufferSize,  \* BUFFER_SIZE
  Streams      \* what the server may send in a run

Digits == {"0", "1", "2", "7"}
\* "NUL" ends a C string and "end" stands for the CR LF of a line.
Chars == Digits \cup {"-", " ", "(", ",", ")", "text", "end"}
Bytes == Chars \cup {"NUL"}

ASSUME BufferAssumption == BufferSize \in Nat /\ BufferSize >= 4
ASSUME StreamsAssumption == Streams \subseteq Seq(Chars)

VARIABLES
  stream,       \* the bytes that have not been received yet
  recv_buffer,  \* the static buffer, indexed as in C
  highest,      \* history: the highest index written by this call
  taken,        \* history: the bytes received by this call
  length,       \* the length of the first piece
  total_len,    \* the length of all pieces
  code,         \* the code of the multi-line reply
  result,       \* what the last call returned
  pc            \* in which recv the call is: the first one or the loop's

vars == <<stream, recv_buffer, highest, taken, length, total_len, code, result, pc>>

Buffers == [0..BufferSize - 1 -> Bytes]

\* Every variable has its type.
TypeOK ==
  /\ stream \in Seq(Chars)
  /\ recv_buffer \in Buffers
  /\ highest \in Nat
  /\ taken \in Seq(Chars)
  /\ length \in Nat /\ total_len \in Nat
  /\ code \in [1..3 -> Bytes]
  /\ result \in Int
  /\ pc \in {"first", "loop", "returned"}

Cleared == [i \in 0..BufferSize - 1 |-> "NUL"]

\* A static buffer is zero.
Init ==
  /\ stream \in Streams
  /\ recv_buffer = Cleared
  /\ highest = 0
  /\ taken = <<>>
  /\ length = 0 /\ total_len = 0
  /\ code = [i \in 1..3 |-> "NUL"]
  /\ result = 0
  /\ pc = "returned"

-----------------------------------------------------------------------------

\* A piece is copied to an index and terminated by NUL. What would lie beyond
\* the buffer only shows in `highest'.
Store(buffer, at, piece) ==
  [i \in 0..BufferSize - 1 |->
     IF i \in at..at + Len(piece) - 1 THEN piece[i - at + 1]
     ELSE IF i = at + Len(piece) THEN "NUL" ELSE buffer[i]]

\* Mutant: recv may fill the buffer.
PiecesFilling == {k \in 1..Len(stream) : k <= BufferSize}

\* How many bytes one recv may return.
Pieces == {k \in 1..Len(stream) : k <= BufferSize - 1}

Receive(k) ==
  /\ stream' = SubSeq(stream, k + 1, Len(stream))
  /\ taken' = taken \o SubSeq(stream, 1, k)

IsMultiResponse(buffer) ==
  (\A i \in 0..2 : buffer[i] \in Digits) /\ buffer[3] = "-"

\* Mutant: the end line is looked for one byte earlier.
IsMultiResponseEndEarlier(buffer, total, c) ==
  /\ \A i \in 0..2 : buffer[total - 4 + i] = c[i + 1]
  /\ buffer[total - 1] = " "

\* The end line is compared with the last three bytes and the NUL after them.
IsMultiResponseEnd(buffer, total, c) ==
  /\ \A i \in 0..2 : buffer[total - 3 + i] = c[i + 1]
  /\ buffer[total] = " "

-----------------------------------------------------------------------------

\* The next command, or the next reply of the same one.
Call ==
  /\ pc = "returned"
  /\ recv_buffer' = Cleared
  /\ taken' = <<>>
  /\ highest' = 0
  /\ pc' = "first"
  /\ UNCHANGED <<stream, length, total_len, code, result>>

\* The first piece is the response, unless it starts a multi-line one.
FirstReceive ==
  /\ pc = "first"
  /\ \E k \in Pieces :
       /\ Receive(k)
       /\ recv_buffer' = Store(recv_buffer, 0, SubSeq(stream, 1, k))
       /\ highest' = k
       /\ length' = k /\ total_len' = k
  /\ code' = [i \in 1..3 |-> recv_buffer'[i - 1]]
  /\ IF IsMultiResponse(recv_buffer')
        /\ ~IsMultiResponseEnd(recv_buffer', total_len', code')
     THEN pc' = "loop" /\ result' = result
     ELSE pc' = "returned" /\ result' = length'

\* Mutant: nothing is compared with the size of the buffer.
AnotherReceiveUnchecked ==
  /\ pc = "loop"
  /\ \E k \in Pieces :
       /\ Receive(k)
       /\ total_len' = total_len + k
       /\ recv_buffer' = Store(recv_buffer, total_len, SubSeq(stream, 1, k))
       /\ highest' = total_len + k
  /\ pc' = "loop" /\ result' = result
  /\ UNCHANGED <<length, code>>

\* Mutant: a piece is stored over the NUL's successor.
AnotherReceiveSkipping ==
  /\ pc = "loop"
  /\ \E k \in Pieces :
       /\ Receive(k)
       /\ total_len + k < BufferSize - 1
       /\ total_len' = total_len + k
       /\ recv_buffer' = Store(recv_buffer, total_len + 1, SubSeq(stream, 1, k))
       /\ highest' = total_len + 1 + k
  /\ pc' = "loop" /\ result' = result
  /\ UNCHANGED <<length, code>>

\* One turn of the loop. A piece that does not fit is thrown away; the length
\* returned is that of the first piece.
AnotherReceive ==
  /\ pc = "loop"
  /\ \E k \in Pieces :
       /\ Receive(k)
       /\ IF total_len + k >= BufferSize - 1
          THEN /\ pc' = "returned" /\ result' = -1
               /\ UNCHANGED <<recv_buffer, highest, total_len>>
          ELSE /\ total_len' = total_len + k
               /\ recv_buffer' = Store(recv_buffer, total_len, SubSeq(stream, 1, k))
               /\ highest' = total_len + k
               /\ IF IsMultiResponseEnd(recv_buffer', total_len', code)
                  THEN pc' = "returned" /\ result' = length
                  ELSE pc' = "loop" /\ result' = result
  /\ UNCHANGED <<length, code>>

\* recv reports the end of the connection or an error, or the bytes are late.
ReceiveFails ==
  /\ pc \in {"first", "loop"}
  /\ pc' = "returned" /\ result' = -1
  /\ UNCHANGED <<stream, recv_buffer, highest, taken, length, total_len, code>>

Next == Call \/ FirstReceive \/ AnotherReceive \/ ReceiveFails

Spec == Init /\ [][Next]_vars

-----------------------------------------------------------------------------
(* Properties.                                                              *)

\* No call writes outside recv_buffer, however the stream is cut into pieces.
WritesInBounds == highest < BufferSize

\* While a call collects, and after it has succeeded, the buffer is the string
\* of the bytes received, in order and terminated: what the commands then look
\* for in it is what the server said.
BufferIsString ==
  pc = "loop" \/ (pc = "returned" /\ result > 0) =>
    /\ \A i \in 1..Len(taken) : recv_buffer[i - 1] = taken[i]
    /\ recv_buffer[Len(taken)] = "NUL"

\* Once a call is in the loop it can only fail. ControlConnection relies on it:
\* CollectMore never ends the loop, only GetResponseFails does.
LoopOnlyFails ==
  [][pc = "loop" /\ pc' = "returned" => result' = -1]_vars

\* A multi-line reply that has been received to its last line.
CompleteMultiline(s) ==
  /\ Len(s) >= 4 /\ \A i \in 1..3 : s[i] \in Digits
  /\ s[4] = "-" /\ s[Len(s)] = "end"
  /\ \E i \in 5..Len(s) - 4 :
       /\ s[i - 1] = "end" /\ s[i + 3] = " "
       /\ \A j \in 0..2 : s[i + j] = s[j + 1]
       /\ \A j \in i..Len(s) - 1 : s[j] # "end"

\* get_response supports multi-line replies (ftp_client_funcs.c:281): it does
\* not fail on one that it has received completely.
MultilineUnderstood ==
  pc = "returned" /\ CompleteMultiline(taken) /\ Len(taken) < BufferSize =>
    result # -1

-----------------------------------------------------------------------------
(* The inductive invariant behind the properties: total_len counts what has *)
(* been received and leaves room for a NUL (ResponseFramingProofs).         *)

FramingInv ==
  /\ TypeOK
  /\ WritesInBounds
  /\ pc = "first" => recv_buffer = Cleared /\ taken = <<>>
  /\ pc = "loop" => total_len = Len(taken) /\ 3 < total_len /\ total_len < BufferSize
  /\ BufferIsString
  /\ pc = "returned" /\ result > 0 => Len(taken) < BufferSize
=============================================================================
