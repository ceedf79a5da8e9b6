----------------------- MODULE ResponseFramingProofs -----------------------
(***************************************************************************)
(* What get_response does to recv_buffer, for every size of the buffer and *)
(* every stream.                                                           *)
(***************************************************************************)
EXTENDS ResponseFraming, TLAPS

USE BufferAssumption

\* The piece of the stream that one recv returns.
LEMMA PieceIs ==
  ASSUME NEW s \in Seq(Chars), NEW k \in 1..Len(s)
  PROVE  /\ SubSeq(s, 1, k) \in Seq(Chars) /\ Len(SubSeq(s, 1, k)) = k
         /\ SubSeq(s, k + 1, Len(s)) \in Seq(Chars)
  OBVIOUS

LEMMA Concatenation ==
  ASSUME NEW s \in Seq(Chars), NEW t \in Seq(Chars)
  PROVE  /\ s \o t \in Seq(Chars)
         /\ Len(s \o t) = Len(s) + Len(t)
         /\ \A i \in 1..Len(s) : (s \o t)[i] = s[i]
         /\ \A i \in (Len(s) + 1)..(Len(s) + Len(t)) :
              i - Len(s) \in 1..Len(t) /\ (s \o t)[i] = t[i - Len(s)]
  OBVIOUS

\* Storing a piece that fits behind a string appends it to the string.
HoldsString(buffer, s) ==
  /\ \A i \in 1..Len(s) : buffer[i - 1] = s[i]
  /\ buffer[Len(s)] = "NUL"

LEMMA StoreType ==
  ASSUME NEW buffer \in Buffers, NEW piece \in Seq(Chars), NEW at \in Nat
  PROVE  Store(buffer, at, piece) \in Buffers
<1>1. \A i \in 0..BufferSize - 1 :
        i \in at..at + Len(piece) - 1 => i - at + 1 \in 1..Len(piece)
  OBVIOUS
<1>2. \A i \in 0..BufferSize - 1 :
        i \in at..at + Len(piece) - 1 => piece[i - at + 1] \in Bytes
  BY <1>1 DEF Bytes
<1>3. QED
  BY <1>2 DEF Store, Buffers, Bytes

LEMMA StoreAppends ==
  ASSUME NEW buffer \in Buffers, NEW s \in Seq(Chars), NEW piece \in Seq(Chars),
         HoldsString(buffer, s), Len(s) + Len(piece) < BufferSize
  PROVE  HoldsString(Store(buffer, Len(s), piece), s \o piece)
<1> DEFINE stored == Store(buffer, Len(s), piece)
<1>1. Len(s) \in Nat /\ Len(piece) \in Nat
  OBVIOUS
<1>2. \A i \in 0..BufferSize - 1 :
        stored[i] = IF i \in Len(s)..Len(s) + Len(piece) - 1
                    THEN piece[i - Len(s) + 1]
                    ELSE IF i = Len(s) + Len(piece) THEN "NUL" ELSE buffer[i]
  BY DEF Store
<1> HIDE DEF stored
<1>3. stored[Len(s) + Len(piece)] = "NUL"
  BY <1>1, <1>2
<1>4. ASSUME NEW i \in 1..Len(s) + Len(piece)
      PROVE  stored[i - 1] = (s \o piece)[i]
  <2>1. i - 1 \in 0..BufferSize - 1
    BY <1>1
  <2>2. CASE i \in 1..Len(s)
    <3>1. stored[i - 1] = buffer[i - 1]
      BY <1>1, <1>2, <2>1, <2>2
    <3>2. QED
      BY <2>2, <3>1, Concatenation DEF HoldsString
  <2>3. CASE i \in (Len(s) + 1)..(Len(s) + Len(piece))
    <3>1. stored[i - 1] = piece[i - 1 - Len(s) + 1]
      BY <1>1, <1>2, <2>1, <2>3
    <3>2. i - 1 - Len(s) + 1 = i - Len(s)
      BY <1>1
    <3>3. QED
      BY <2>3, <3>1, <3>2, Concatenation
  <2>4. QED
    BY <1>1, <2>2, <2>3
<1>5. HoldsString(stored, s \o piece)
  BY <1>3, <1>4, Concatenation DEF HoldsString
<1>6. QED
  BY <1>5 DEF stored

-----------------------------------------------------------------------------

LEMMA InitInv == Init => FramingInv
<1>1. SUFFICES ASSUME Init PROVE FramingInv
  OBVIOUS
<1>2. Cleared \in Buffers /\ [i \in 1..3 |-> "NUL"] \in [1..3 -> Bytes]
  BY DEF Cleared, Buffers, Bytes
<1>3. <<>> \in Seq(Chars) /\ stream \in Seq(Chars)
  BY <1>1, StreamsAssumption DEF Init
<1>4. TypeOK
  BY <1>1, <1>2, <1>3 DEF Init, TypeOK
<1>5. QED
  BY <1>1, <1>4 DEF Init, FramingInv, WritesInBounds, BufferIsString

LEMMA CallInv ==
  ASSUME FramingInv, Call
  PROVE  FramingInv'
<1>1. Cleared \in Buffers /\ <<>> \in Seq(Chars)
  BY DEF Cleared, Buffers, Bytes
<1>2. TypeOK'
  BY <1>1 DEF Call, FramingInv, TypeOK
<1>3. QED
  BY <1>2 DEF Call, FramingInv, WritesInBounds, BufferIsString

\* The buffer after a receive that stores its piece behind what it holds.
LEMMA StoredInv ==
  ASSUME TypeOK, NEW k \in Pieces, Receive(k), HoldsString(recv_buffer, taken),
         Len(taken) + k < BufferSize,
         recv_buffer' = Store(recv_buffer, Len(taken), SubSeq(stream, 1, k))
  PROVE  /\ recv_buffer' \in Buffers
         /\ stream' \in Seq(Chars) /\ taken' \in Seq(Chars)
         /\ Len(taken') = Len(taken) + k
         /\ HoldsString(recv_buffer', taken')
<1> DEFINE piece == SubSeq(stream, 1, k)
<1>1. k \in 1..Len(stream) /\ stream \in Seq(Chars) /\ taken \in Seq(Chars)
  BY DEF Pieces, TypeOK
<1>2. /\ piece \in Seq(Chars) /\ Len(piece) = k
      /\ SubSeq(stream, k + 1, Len(stream)) \in Seq(Chars)
  BY <1>1, PieceIs
<1>3. taken' = taken \o piece /\ recv_buffer' = Store(recv_buffer, Len(taken), piece)
  BY DEF Receive
<1>4. stream' \in Seq(Chars)
  BY <1>2 DEF Receive
<1> HIDE DEF piece
<1>5. taken' \in Seq(Chars) /\ Len(taken') = Len(taken) + k
  BY <1>1, <1>2, <1>3, Concatenation
<1>6. recv_buffer' \in Buffers
  BY <1>1, <1>2, <1>3, StoreType DEF TypeOK
<1>7. HoldsString(recv_buffer', taken')
  BY <1>1, <1>2, <1>3, StoreAppends DEF TypeOK
<1>8. QED
  BY <1>4, <1>5, <1>6, <1>7

LEMMA FirstReceiveInv ==
  ASSUME FramingInv, FirstReceive
  PROVE  FramingInv'
<1>1. PICK k \in Pieces :
        /\ Receive(k)
        /\ recv_buffer' = Store(recv_buffer, 0, SubSeq(stream, 1, k))
        /\ highest' = k /\ length' = k /\ total_len' = k
  BY DEF FirstReceive
<1>2. TypeOK /\ recv_buffer = Cleared /\ taken = <<>> /\ Len(taken) = 0
  BY DEF FirstReceive, FramingInv
<1>3. k \in Nat /\ 0 < k /\ k <= BufferSize - 1
  BY DEF Pieces
<1>4. HoldsString(recv_buffer, taken)
  BY <1>2 DEF HoldsString, Cleared
<1>5. /\ recv_buffer' \in Buffers
      /\ stream' \in Seq(Chars) /\ taken' \in Seq(Chars) /\ Len(taken') = k
      /\ HoldsString(recv_buffer', taken')
  BY <1>1, <1>2, <1>3, <1>4, StoredInv
<1>6. code' \in [1..3 -> Bytes]
  <2>1. \A i \in 1..3 : recv_buffer'[i - 1] \in Bytes
    BY <1>5 DEF Buffers
  <2>2. QED
    BY <2>1 DEF FirstReceive
<1>7. \/ pc' = "loop" /\ result' = result /\ IsMultiResponse(recv_buffer')
      \/ pc' = "returned" /\ result' = k
  BY <1>1 DEF FirstReceive
<1>8. TypeOK'
  BY <1>1, <1>2, <1>3, <1>5, <1>6, <1>7 DEF TypeOK
<1>9. pc' = "loop" => 3 < total_len'
  <2>1. SUFFICES ASSUME pc' = "loop", k \in 1..3 PROVE FALSE
    BY <1>1, <1>3
  <2>2. recv_buffer'[k] = "NUL"
    BY <1>5 DEF HoldsString
  <2>3. recv_buffer'[k] \in Digits \cup {"-"}
    BY <1>7, <2>1 DEF IsMultiResponse
  <2>4. QED
    BY <2>2, <2>3 DEF Digits
<1>10. QED
  BY <1>1, <1>3, <1>5, <1>7, <1>8, <1>9
  DEF FramingInv, WritesInBounds, BufferIsString, HoldsString

\* The end line is never found: where its blank should be there is the NUL.
LEMMA NoEndFound ==
  ASSUME NEW buffer, NEW s, NEW c, HoldsString(buffer, s)
  PROVE  ~IsMultiResponseEnd(buffer, Len(s), c)
  BY DEF HoldsString, IsMultiResponseEnd

LEMMA AnotherReceiveInv ==
  ASSUME FramingInv, AnotherReceive
  PROVE  FramingInv' /\ (pc' = "returned" => result' = -1)
<1>1. PICK k \in Pieces :
        /\ Receive(k)
        /\ IF total_len + k >= BufferSize - 1
           THEN /\ pc' = "returned" /\ result' = -1
                /\ UNCHANGED <<recv_buffer, highest, total_len>>
           ELSE /\ total_len' = total_len + k
                /\ recv_buffer' = Store(recv_buffer, total_len, SubSeq(stream, 1, k))
                /\ highest' = total_len + k
                /\ IF IsMultiResponseEnd(recv_buffer', total_len', code)
                   THEN pc' = "returned" /\ result' = length
                   ELSE pc' = "loop" /\ result' = result
  BY DEF AnotherReceive
<1>2. /\ TypeOK /\ total_len = Len(taken) /\ total_len \in Nat /\ 3 < total_len
      /\ HoldsString(recv_buffer, taken) /\ highest < BufferSize
  BY DEF AnotherReceive, FramingInv, BufferIsString, HoldsString, TypeOK, WritesInBounds
<1>3. k \in Nat
  BY DEF Pieces
<1>4. CASE total_len + k >= BufferSize - 1
  <2>1. k \in 1..Len(stream) /\ stream \in Seq(Chars) /\ taken \in Seq(Chars)
    BY <1>2 DEF Pieces, TypeOK
  <2>2. stream' \in Seq(Chars) /\ taken' \in Seq(Chars)
    BY <1>1, <2>1, PieceIs, Concatenation DEF Receive
  <2>3. /\ pc' = "returned" /\ result' = -1
        /\ UNCHANGED <<recv_buffer, highest, total_len, length, code>>
    BY <1>1, <1>4 DEF AnotherReceive
  <2>4. TypeOK'
    BY <1>2, <2>2, <2>3 DEF TypeOK
  <2>5. QED
    BY <1>2, <2>3, <2>4 DEF FramingInv, WritesInBounds, BufferIsString
<1>5. CASE ~(total_len + k >= BufferSize - 1)
  <2>1. Len(taken) + k < BufferSize
    BY <1>2, <1>3, <1>5
  <2>2. recv_buffer' = Store(recv_buffer, Len(taken), SubSeq(stream, 1, k))
    BY <1>1, <1>2, <1>5
  <2>3. /\ recv_buffer' \in Buffers
        /\ stream' \in Seq(Chars) /\ taken' \in Seq(Chars)
        /\ Len(taken') = Len(taken) + k
        /\ HoldsString(recv_buffer', taken')
    BY <1>1, <1>2, <2>1, <2>2, StoredInv
  <2>4. total_len' = Len(taken') /\ highest' = total_len + k
    BY <1>1, <1>2, <1>5, <2>3
  <2>5. ~IsMultiResponseEnd(recv_buffer', total_len', code)
    BY <2>3, <2>4, NoEndFound
  <2>6. pc' = "loop" /\ result' = result /\ UNCHANGED <<length, code>>
    BY <1>1, <1>5, <2>5 DEF AnotherReceive
  <2>7. TypeOK'
    BY <1>2, <1>3, <2>3, <2>4, <2>6 DEF TypeOK
  <2>8. QED
    BY <1>2, <1>3, <2>1, <2>3, <2>4, <2>6, <2>7
    DEF FramingInv, WritesInBounds, BufferIsString, HoldsString
<1>6. QED
  BY <1>4, <1>5

LEMMA ReceiveFailsInv ==
  ASSUME FramingInv, ReceiveFails
  PROVE  FramingInv'
<1>1. TypeOK'
  BY DEF ReceiveFails, FramingInv, TypeOK
<1>2. QED
  BY <1>1 DEF ReceiveFails, FramingInv, WritesInBounds, BufferIsString

\* FramingInv holds in every run of get_response_with_timeout.
THEOREM FramingInvariant == Spec => []FramingInv
<1>1. FramingInv /\ [Next]_vars => FramingInv'
  <2>1. SUFFICES ASSUME FramingInv, [Next]_vars PROVE FramingInv'
    OBVIOUS
  <2>2. CASE UNCHANGED vars
    BY <2>1, <2>2 DEF vars, FramingInv, TypeOK, WritesInBounds, BufferIsString
  <2>3. QED
    BY <2>1, <2>2, CallInv, FirstReceiveInv, AnotherReceiveInv, ReceiveFailsInv
    DEF Next
<1>2. QED
  BY <1>1, InitInv, PTL DEF Spec

\* recv_buffer is never written beyond its end, whatever its size, the replies
\* and the pieces they arrive in.
THEOREM NoOverflow == Spec => []WritesInBounds
<1>1. FramingInv => WritesInBounds
  BY DEF FramingInv
<1>2. QED
  BY <1>1, FramingInvariant, PTL

\* What get_response leaves in recv_buffer is the terminated string of what it
\* has received.
THEOREM ResponseIsString == Spec => []BufferIsString
<1>1. FramingInv => BufferIsString
  BY DEF FramingInv
<1>2. QED
  BY <1>1, FramingInvariant, PTL

\* The loop for multi-line replies only ends by a failure: the abstraction that
\* ControlConnection makes of it is the code's.
THEOREM MultilineFails == Spec => LoopOnlyFails
<1>1. FramingInv /\ [Next]_vars => [pc = "loop" /\ pc' = "returned" => result' = -1]_vars
  <2>1. SUFFICES ASSUME FramingInv, Next, pc = "loop", pc' = "returned"
                 PROVE  result' = -1
    BY DEF vars
  <2>2. QED
    BY <2>1, AnotherReceiveInv DEF Next, Call, FirstReceive, ReceiveFails
<1>2. QED
  BY <1>1, FramingInvariant, PTL DEF Spec, LoopOnlyFails
=============================================================================
