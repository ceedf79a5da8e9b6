------------------------- MODULE DataTransferProofs -------------------------
(***************************************************************************)
(* DataTransfer implements FileCopy, for every size of the file, of the    *)
(* blocks and of the socket buffers.  First what the pieces of a sequence  *)
(* are, then that CopyInv is inductive, then the refinement.               *)
(***************************************************************************)
EXTENDS DataTransfer, TLAPS

Units == 1..FileSize

-----------------------------------------------------------------------------
(* Sequences.                                                               *)

LEMMA NoUnits == <<>> \in Seq(Units) /\ Len(<<>>) = 0
  OBVIOUS

LEMMA Concatenation ==
  ASSUME NEW s \in Seq(Units), NEW t \in Seq(Units)
  PROVE  /\ s \o t \in Seq(Units)
         /\ Len(s \o t) = Len(s) + Len(t)
         /\ \A i \in 1..Len(s) : (s \o t)[i] = s[i]
         /\ \A i \in 1..Len(t) : (s \o t)[Len(s) + i] = t[i]
         /\ \A i \in (Len(s) + 1)..(Len(s) + Len(t)) :
              i - Len(s) \in 1..Len(t) /\ (s \o t)[i] = t[i - Len(s)]
  OBVIOUS

LEMMA JoinedLength ==
  ASSUME NEW s \in Seq(Units), NEW t \in Seq(Units)
  PROVE  s \o t \in Seq(Units) /\ Len(s \o t) = Len(s) + Len(t)
  OBVIOUS

LEMMA FirstUnits ==
  ASSUME NEW s \in Seq(Units), NEW n \in 0..Len(s)
  PROVE  /\ First(n, s) \in Seq(Units)
         /\ Len(First(n, s)) = n
         /\ \A i \in 1..n : First(n, s)[i] = s[i]
  BY DEF First

LEMMA RestUnits ==
  ASSUME NEW s \in Seq(Units), NEW n \in 0..Len(s)
  PROVE  /\ Rest(n, s) \in Seq(Units)
         /\ Len(Rest(n, s)) = Len(s) - n
         /\ \A i \in 1..Len(s) - n : Rest(n, s)[i] = s[n + i]
  BY DEF Rest

LEMMA FollowsConcatenation ==
  ASSUME NEW s \in Seq(Units), NEW t \in Seq(Units), NEW a \in Nat,
         Follows(s, a), Follows(t, a + Len(s))
  PROVE  Follows(s \o t, a)
<1>1. SUFFICES ASSUME NEW i \in 1..Len(s \o t)
               PROVE  (s \o t)[i] = a + i
  BY DEF Follows
<1>2. CASE i \in 1..Len(s)
  BY <1>2, Concatenation DEF Follows
<1>3. CASE i \in (Len(s) + 1)..(Len(s) + Len(t))
  <2>1. i - Len(s) \in 1..Len(t) /\ (s \o t)[i] = t[i - Len(s)]
    BY <1>3, Concatenation
  <2>2. t[i - Len(s)] = a + Len(s) + (i - Len(s))
    BY <2>1 DEF Follows
  <2>3. QED
    BY <2>1, <2>2
<1>4. QED
  BY <1>2, <1>3, Concatenation

LEMMA FollowsFirst ==
  ASSUME NEW s \in Seq(Units), NEW a \in Nat, NEW n \in 0..Len(s), Follows(s, a)
  PROVE  Follows(First(n, s), a)
  BY FirstUnits DEF Follows

LEMMA FollowsRest ==
  ASSUME NEW s \in Seq(Units), NEW a \in Nat, NEW n \in 0..Len(s), Follows(s, a)
  PROVE  Follows(Rest(n, s), a + n)
<1>1. Len(Rest(n, s)) = Len(s) - n /\ \A i \in 1..Len(s) - n : Rest(n, s)[i] = s[n + i]
  BY RestUnits
<1>2. \A i \in 1..Len(s) - n : n + i \in 1..Len(s)
  OBVIOUS
<1>3. QED
  BY <1>1, <1>2 DEF Follows

LEMMA AscendingConcatenation ==
  ASSUME NEW s \in Seq(Units), NEW t \in Seq(Units),
         Ascending(s), Ascending(t),
         \A i \in 1..Len(s), j \in 1..Len(t) : s[i] < t[j]
  PROVE  Ascending(s \o t)
<1>1. SUFFICES ASSUME NEW i \in 1..Len(s \o t), NEW j \in 1..Len(s \o t), i < j
               PROVE  (s \o t)[i] < (s \o t)[j]
  BY DEF Ascending
<1>2. CASE j \in 1..Len(s)
  BY <1>1, <1>2, Concatenation DEF Ascending
<1>3. CASE i \in 1..Len(s) /\ j \in (Len(s) + 1)..(Len(s) + Len(t))
  BY <1>3, Concatenation
<1>4. CASE i \in (Len(s) + 1)..(Len(s) + Len(t)) /\ j \in (Len(s) + 1)..(Len(s) + Len(t))
  BY <1>1, <1>4, Concatenation DEF Ascending
<1>5. QED
  BY <1>1, <1>2, <1>3, <1>4, Concatenation

LEMMA FollowsAscends ==
  ASSUME NEW s \in Seq(Units), NEW a \in Nat, Follows(s, a)
  PROVE  Ascending(s)
  BY DEF Follows, Ascending

-----------------------------------------------------------------------------
(* Every variable keeps its type.                                           *)

USE SizesAssumption, KindsAssumption DEF Units

LEMMA FirstOfFirst ==
  ASSUME NEW s \in Seq(Units), NEW m \in 0..Len(s), NEW n \in 0..m
  PROVE  First(n, First(m, s)) = First(n, s)
<1>1. /\ First(m, s) \in Seq(Units) /\ Len(First(m, s)) = m
      /\ \A i \in 1..m : First(m, s)[i] = s[i]
  BY FirstUnits
<1>2. n \in 0..Len(s) /\ n \in 0..Len(First(m, s))
  BY <1>1
<1>3. /\ First(n, s) \in Seq(Units) /\ Len(First(n, s)) = n
      /\ \A i \in 1..n : First(n, s)[i] = s[i]
  BY <1>2, FirstUnits
<1>4. /\ First(n, First(m, s)) \in Seq(Units) /\ Len(First(n, First(m, s))) = n
      /\ \A i \in 1..n : First(n, First(m, s))[i] = First(m, s)[i]
  BY <1>1, <1>2, FirstUnits
<1>5. ASSUME NEW i \in 1..n
      PROVE  First(n, First(m, s))[i] = First(n, s)[i]
  <2>1. i \in 1..m
    OBVIOUS
  <2>2. First(n, First(m, s))[i] = First(m, s)[i]
    BY <1>4
  <2>3. First(m, s)[i] = s[i]
    BY <1>1, <2>1
  <2>4. First(n, s)[i] = s[i]
    BY <1>3
  <2>5. QED
    BY <2>2, <2>3, <2>4
<1>6. QED
  BY <1>3, <1>4, <1>5

\* A cut text is a beginning of the text, and the text if there is no trouble.
LEMMA CutText ==
  ASSUME NEW s \in Seq(Units), NEW problem, NEW text \in CutBy(problem, s)
  PROVE  \E n \in 0..Len(s) :
           /\ text = First(n, s) /\ text \in Seq(Units) /\ Len(text) = n
           /\ problem \notin trouble => n = Len(s)
<1>1. Len(s) \in 0..Len(s)
  OBVIOUS
<1>2. PICK n \in 0..Len(s) : text = First(n, s) /\ (problem \notin trouble => n = Len(s))
  BY <1>1 DEF CutBy
<1>3. First(n, s) \in Seq(Units) /\ Len(First(n, s)) = n
  BY FirstUnits
<1>4. QED
  BY <1>2, <1>3

LEMMA FlushWrites ==
  ASSUME TypeOK, Flush
  PROVE  \E n \in 0..Len(held) : /\ copy' = copy \o First(n, held)
                                 /\ ~FlushLoses => n = Len(held)
<1>1. held \in Seq(Units)
  BY DEF TypeOK
<1>2. PICK text \in Brought(held) : copy' = copy \o text
  BY DEF Flush
<1>3. CASE kind = "GET"
  BY <1>1, <1>2, <1>3, CutText DEF Brought, FlushLoses
<1>4. CASE kind # "GET"
  <2>1. PICK converted \in CutBy("charset", held) : text \in CutBy("pipe", converted)
    BY <1>2, <1>4 DEF Brought, CodeConvert
  <2>2. PICK m \in 0..Len(held) :
          /\ converted = First(m, held) /\ converted \in Seq(Units) /\ Len(converted) = m
          /\ "charset" \notin trouble => m = Len(held)
    BY <1>1, <2>1, CutText
  <2>3. PICK n \in 0..m : text = First(n, converted) /\ ("pipe" \notin trouble => n = m)
    BY <2>1, <2>2, CutText
  <2>4. First(n, First(m, held)) = First(n, held)
    BY <1>1, FirstOfFirst
  <2>5. m \in Nat /\ n \in 0..Len(held)
    BY <1>1
  <2>6. ~FlushLoses => n = Len(held)
    <3>1. ~FlushLoses => "charset" \notin trouble /\ "pipe" \notin trouble
      BY <1>4 DEF FlushLoses
    <3>2. QED
      BY <2>2, <2>3, <3>1
  <2>7. copy' = copy \o First(n, held)
    BY <1>2, <2>2, <2>3, <2>4
  <2>8. QED
    BY <2>5, <2>6, <2>7
<1>5. QED
  BY <1>3, <1>4

LEMMA FlushType ==
  ASSUME TypeOK, Flush
  PROVE  copy' \in Seq(Units) /\ held' \in Seq(Units)
<1>1. PICK n \in 0..Len(held) : copy' = copy \o First(n, held)
  BY FlushWrites
<1>2. First(n, held) \in Seq(Units)
  BY <1>1, FirstUnits DEF TypeOK
<1>3. copy' \in Seq(Units)
  BY <1>1, <1>2, Concatenation DEF TypeOK
<1>4. QED
  BY <1>3 DEF Flush

\* What the child of get or ls has received, and what stays in the buffers.
LEMMA ReceivedType ==
  ASSUME TypeOK, NEW k \in 1..Lesser(Len(wire), ReadLimit)
  PROVE  /\ k \in 0..Len(wire)
         /\ held \o First(k, wire) \in Seq(Units)
         /\ Rest(k, wire) \in Seq(Units)
         /\ Len(Rest(k, wire)) <= Capacity
<1>1. Len(wire) \in Nat /\ ReadLimit \in Nat
  BY DEF TypeOK, ReadLimit
<1>2. k \in 0..Len(wire)
  BY <1>1 DEF Lesser
<1>3. held \o First(k, wire) \in Seq(Units)
  BY <1>2, FirstUnits, Concatenation DEF TypeOK
<1>4. Rest(k, wire) \in Seq(Units) /\ Len(Rest(k, wire)) = Len(wire) - k
  BY <1>2, RestUnits DEF TypeOK
<1>5. QED
  BY <1>1, <1>2, <1>3, <1>4 DEF TypeOK

LEMMA BlockType ==
  ASSUME TypeOK, next < FileSize
  PROVE  /\ Block \in Seq(Units)
         /\ Len(Block) = Lesser(BlockSize, FileSize - next)
         /\ next + Len(Block) \in 0..FileSize
         /\ \A i \in 1..Len(Block) : Block[i] = next + i
<1>1. DEFINE size == Lesser(BlockSize, FileSize - next)
<1>2. size \in Nat /\ next + size \in 0..FileSize /\ next \in Nat
  BY DEF TypeOK, Lesser
<1>3. \A i \in 1..size : next + i \in Units
  BY <1>2
<1>4. Block = [i \in 1..size |-> next + i]
  BY DEF Block
<1>5. Block \in Seq(Units) /\ Len(Block) = size
  <2>1. HIDE DEF size
  <2>2. QED
    BY <1>2, <1>3, <1>4
<1>6. QED
  BY <1>2, <1>4, <1>5

LEMMA ReceiveType ==
  ASSUME TypeOK, Receive
  PROVE  TypeOK'
<1>1. PICK k \in 1..Lesser(Len(wire), ReadLimit) :
        /\ wire' = Rest(k, wire)
        /\ IF kind = "GET" THEN Fwrite(held \o First(k, wire))
                           ELSE Collect(held \o First(k, wire))
  BY DEF Receive
<1>2. DEFINE units == held \o First(k, wire)
<1>3. units \in Seq(Units)
  BY ReceivedType
<1>4. wire' \in Seq(Units) /\ Len(wire') <= Capacity
  BY <1>1, ReceivedType
<1>5. Fwrite(units) \/ Collect(units)
  BY <1>1
<1> HIDE DEF units
<1>6. /\ copy' \in Seq(Units) /\ held' \in Seq(Units)
      /\ child' \in {"run", "fail"}
  <2>1. CASE Collect(units)
    BY <1>3, <2>1, NoUnits DEF Collect, TypeOK
  <2>2. CASE Fwrite(units)
    <3>1. PICK n \in 0..Len(units) :
            /\ copy' = copy \o First(n, units)
            /\ \/ held' = Rest(n, units) /\ child' = "run"
               \/ "disk" \in trouble /\ held' = <<>> /\ child' = "fail"
      BY <2>2 DEF Fwrite
    <3>2. First(n, units) \in Seq(Units) /\ Rest(n, units) \in Seq(Units)
      BY <1>3, FirstUnits, RestUnits
    <3>3. copy' \in Seq(Units)
      BY <3>1, <3>2, Concatenation DEF TypeOK
    <3>4. QED
      BY <3>1, <3>2, <3>3, NoUnits
  <2>3. QED
    BY <1>5, <2>1, <2>2
<1>7. QED
  BY <1>4, <1>6 DEF Receive, TypeOK

LEMMA SendBlockType ==
  ASSUME TypeOK, SendBlock
  PROVE  TypeOK'
<1>1. PICK n : /\ n \in IF Capacity - Len(wire) = 0 THEN {0}
                        ELSE 1..Lesser(Len(Block), Capacity - Len(wire))
               /\ wire' = wire \o First(n, Block)
  BY DEF SendBlock
<1>2. /\ Block \in Seq(Units) /\ Len(Block) \in Nat
      /\ next + Len(Block) \in 0..FileSize
  BY BlockType DEF SendBlock
<1>3. n \in 0..Len(Block) /\ Len(wire) + n <= Capacity
  BY <1>1, <1>2 DEF Lesser, TypeOK
<1>4. First(n, Block) \in Seq(Units) /\ Len(First(n, Block)) = n
  BY <1>2, <1>3, FirstUnits
<1>5. wire' \in Seq(Units) /\ Len(wire') <= Capacity
  BY <1>1, <1>3, <1>4, Concatenation DEF TypeOK
<1>6. QED
  BY <1>2, <1>5 DEF SendBlock, TypeOK

\* What arrives at the server is taken from the buffers.
LEMMA ArrivalType ==
  ASSUME TypeOK, NEW k \in 0..Len(wire)
  PROVE  /\ First(k, wire) \in Seq(Units) /\ Len(First(k, wire)) <= Capacity
         /\ Rest(k, wire) \in Seq(Units) /\ Len(Rest(k, wire)) <= Capacity
         /\ copy \o First(k, wire) \in Seq(Units)
<1>1. First(k, wire) \in Seq(Units) /\ Len(First(k, wire)) = k
  BY FirstUnits DEF TypeOK
<1>2. Rest(k, wire) \in Seq(Units) /\ Len(Rest(k, wire)) = Len(wire) - k
  BY RestUnits DEF TypeOK
<1>3. copy \o First(k, wire) \in Seq(Units)
  BY <1>1, Concatenation DEF TypeOK
<1>4. QED
  BY <1>1, <1>2, <1>3 DEF TypeOK

LEMMA ServerSendsType ==
  ASSUME TypeOK, ServerSends
  PROVE  TypeOK'
<1>1. next + 1 \in Units /\ next + 1 \in 0..FileSize
  BY DEF ServerSends, TypeOK
<1>2. wire' \in Seq(Units) /\ Len(wire') = Len(wire) + 1
  BY <1>1 DEF ServerSends, TypeOK
<1>3. Len(wire') <= Capacity
  BY <1>2 DEF ServerSends, TypeOK
<1>4. QED
  BY <1>1, <1>2, <1>3 DEF ServerSends, TypeOK

\* Every step preserves TypeOK.
LEMMA StepType ==
  ASSUME TypeOK, [Next]_vars
  PROVE  TypeOK'
<1>1. CASE OpenFile
  BY <1>1 DEF OpenFile, TypeOK
<1>2. CASE Receive
  BY <1>2, ReceiveType
<1>3. CASE EndOfData
  BY <1>3, FlushType DEF EndOfData, TypeOK
<1>4. CASE ReceiveFails
  <2>1. copy' \in Seq(Units) /\ held' \in Seq(Units)
    <3>1. CASE Flush
      BY <3>1, FlushType
    <3>2. CASE held' = <<>> /\ copy' = copy
      BY <3>2 DEF TypeOK
    <3>3. QED
      BY <1>4, <3>1, <3>2 DEF ReceiveFails
  <2>2. QED
    BY <1>4, <2>1 DEF ReceiveFails, TypeOK
<1>5. CASE SendBlock
  BY <1>5, SendBlockType
<1>6. CASE SendFails \/ UploadEnds \/ ServerCloses \/ ServerReceivesEnd
  BY <1>6 DEF SendFails, UploadEnds, ServerCloses, ServerReceivesEnd, TypeOK
<1>7. CASE ServerSends
  BY <1>7, ServerSendsType
<1>8. CASE ServerReceives
  <2>1. PICK k \in 1..Len(wire) :
          copy' = copy \o First(k, wire) /\ wire' = Rest(k, wire)
    BY <1>8 DEF ServerReceives
  <2>2. QED
    BY <1>8, <2>1, k \in 0..Len(wire), ArrivalType DEF ServerReceives, TypeOK
<1>9. CASE Reset
  <2>1. PICK k \in 0..Len(wire) : wire' = First(k, wire)
    BY <1>9 DEF Reset
  <2>2. QED
    BY <1>9, <2>1, ArrivalType DEF Reset, TypeOK
<1>10. CASE GetResponse
  BY <1>10 DEF GetResponse, TypeOK
<1>11. CASE UNCHANGED vars
  BY <1>11 DEF vars, TypeOK
<1>12. QED
  BY <1>1, <1>2, <1>3, <1>4, <1>5, <1>6, <1>7, <1>8, <1>9, <1>10, <1>11
  DEF Next, Child, Server, Ended

-----------------------------------------------------------------------------
(* The copy only grows; the command and its troubles stay what they are.    *)

LEMMA StepKeepsKind ==
  ASSUME [Next]_vars
  PROVE  UNCHANGED <<kind, trouble>>
  BY DEF Next, Child, Server, Ended, OpenFile, Receive, EndOfData, ReceiveFails,
         SendBlock, SendFails, UploadEnds, ServerSends, ServerCloses,
         ServerReceives, ServerReceivesEnd, Reset, GetResponse, vars

LEMMA KindDecides ==
  ASSUME UNCHANGED <<kind, trouble>>
  PROVE  /\ Upload' = Upload
         /\ FlushLoses' = FlushLoses
         /\ Reliable' = Reliable
  BY DEF Upload, FlushLoses, Reliable

-----------------------------------------------------------------------------
(* DownloadInv is inductive.                                                *)

\* Writing a part of the units that follow the copy extends the copy.
LEMMA WriteFollows ==
  ASSUME NEW u \in Seq(Units), NEW c \in Seq(Units), NEW n \in 0..Len(u),
         Follows(c, 0), Follows(u, Len(c))
  PROVE  /\ Follows(c \o First(n, u), 0)
         /\ Len(c \o First(n, u)) = Len(c) + n
         /\ Follows(Rest(n, u), Len(c) + n)
         /\ Len(Rest(n, u)) = Len(u) - n
<1>1. Len(c) \in Nat
  OBVIOUS
<1>2. /\ First(n, u) \in Seq(Units) /\ Len(First(n, u)) = n
      /\ Follows(First(n, u), Len(c))
  BY <1>1, FirstUnits, FollowsFirst
<1>3. Follows(Rest(n, u), Len(c) + n) /\ Len(Rest(n, u)) = Len(u) - n
  BY <1>1, RestUnits, FollowsRest
<1>4. Len(c \o First(n, u)) = Len(c) + n
  BY <1>2, JoinedLength
<1>5. Follows(c \o First(n, u), 0)
  BY <1>1, <1>2, FollowsConcatenation
<1>6. QED
  BY <1>3, <1>4, <1>5

\* A flush that loses nothing writes all that was held.
LEMMA FlushFollows ==
  ASSUME TypeOK, Flush, Follows(copy, 0), Follows(held, Len(copy))
  PROVE  /\ Follows(copy', 0)
         /\ ~FlushLoses => Len(copy') = Len(copy) + Len(held)
<1>1. PICK n \in 0..Len(held) : /\ copy' = copy \o First(n, held)
                                /\ ~FlushLoses => n = Len(held)
  BY FlushWrites
<1>2. copy \in Seq(Units) /\ held \in Seq(Units)
  BY DEF TypeOK
<1>3. QED
  BY <1>1, <1>2, WriteFollows

\* Units that move from one place to another are as many as before.
LEMMA UnitsMove ==
  \A a, b, c, d, e, k \in Nat : d + e = a + b + k => d + e + (c - k) = a + b + c
  OBVIOUS

LEMMA ReceiveDownload ==
  ASSUME TypeOK, DownloadInv, Receive
  PROVE  DownloadInv'
<1>1. PICK k \in 1..Lesser(Len(wire), ReadLimit) :
        /\ wire' = Rest(k, wire)
        /\ IF kind = "GET" THEN Fwrite(held \o First(k, wire))
                           ELSE Collect(held \o First(k, wire))
  BY DEF Receive
<1> DEFINE units == held \o First(k, wire)
<1>2. /\ Follows(copy, 0) /\ Follows(held, Len(copy))
      /\ Follows(wire, Len(copy) + Len(held))
      /\ end # "rst" => Len(copy) + Len(held) + Len(wire) = next
  BY DEF DownloadInv, Receive
<1>3. /\ copy \in Seq(Units) /\ held \in Seq(Units) /\ wire \in Seq(Units)
      /\ Len(copy) \in Nat /\ Len(held) \in Nat /\ Len(wire) \in Nat
  BY DEF TypeOK
<1>4. k \in 0..Len(wire) /\ units \in Seq(Units)
  BY ReceivedType
<1>5. /\ First(k, wire) \in Seq(Units) /\ Len(First(k, wire)) = k
      /\ Follows(First(k, wire), Len(copy) + Len(held))
  BY <1>2, <1>3, <1>4, FirstUnits, FollowsFirst
<1>6. Len(units) = Len(held) + k /\ Follows(units, Len(copy))
  <2>1. Len(units) = Len(held) + k
    BY <1>3, <1>5, JoinedLength
  <2>2. Follows(units, Len(copy))
    BY <1>2, <1>3, <1>5, FollowsConcatenation
  <2>3. QED
    BY <2>1, <2>2
<1>7. /\ Follows(wire', Len(copy) + Len(held) + k)
      /\ Len(wire') = Len(wire) - k
  <2>1. Len(copy) + Len(held) \in Nat
    BY <1>3
  <2>2. Follows(Rest(k, wire), Len(copy) + Len(held) + k)
    BY <1>2, <1>3, <1>4, <2>1, FollowsRest
  <2>3. Len(Rest(k, wire)) = Len(wire) - k
    BY <1>3, <1>4, RestUnits
  <2>4. QED
    BY <1>1, <2>2, <2>3
<1>8. Fwrite(units) \/ Collect(units)
  BY <1>1
<1> HIDE DEF units
<1>9. /\ Follows(copy', 0) /\ child' \in {"run", "fail"}
      /\ child' = "run" => /\ Follows(held', Len(copy'))
                           /\ Len(copy') + Len(held') = Len(copy) + Len(units)
  <2>1. CASE Collect(units)
    BY <1>2, <1>6, <2>1 DEF Collect
  <2>2. CASE Fwrite(units)
    <3>1. PICK n \in 0..Len(units) :
            /\ copy' = copy \o First(n, units)
            /\ \/ held' = Rest(n, units) /\ child' = "run"
               \/ "disk" \in trouble /\ held' = <<>> /\ child' = "fail"
      BY <2>2 DEF Fwrite
    <3>2. /\ Follows(copy', 0) /\ Len(copy') = Len(copy) + n
          /\ Follows(Rest(n, units), Len(copy) + n)
          /\ Len(Rest(n, units)) = Len(units) - n
      <4>1. n \in 0..Len(units) /\ Follows(copy, 0) /\ Follows(units, Len(copy))
        BY <1>2, <1>6, <3>1
      <4>2. /\ Follows(copy \o First(n, units), 0)
            /\ Len(copy \o First(n, units)) = Len(copy) + n
            /\ Follows(Rest(n, units), Len(copy) + n)
            /\ Len(Rest(n, units)) = Len(units) - n
        BY <1>3, <1>4, <4>1, WriteFollows
      <4>3. QED
        BY <3>1, <4>2
    <3>3. CASE held' = Rest(n, units) /\ child' = "run"
      <4>1. Len(copy') + Len(held') = Len(copy) + Len(units)
        <5>1. Len(copy') = Len(copy) + n /\ Len(held') = Len(units) - n
          BY <3>2, <3>3
        <5>2. Len(units) \in Nat /\ n \in Nat
          BY <1>4, <3>1
        <5>3. QED
          BY <1>3, <5>1, <5>2
      <4>2. QED
        BY <3>2, <3>3, <4>1
    <3>4. QED
      BY <3>1, <3>2, <3>3
  <2>3. QED
    BY <1>8, <2>1, <2>2
<1>10. child' = "run" =>
         /\ Follows(wire', Len(copy') + Len(held'))
         /\ end' # "rst" => Len(copy') + Len(held') + Len(wire') = next'
  <2>1. SUFFICES ASSUME child' = "run"
                 PROVE  /\ Follows(wire', Len(copy') + Len(held'))
                        /\ end' # "rst" =>
                             Len(copy') + Len(held') + Len(wire') = next'
    OBVIOUS
  <2>2. Len(copy') + Len(held') = Len(copy) + Len(held) + k
    BY <1>3, <1>4, <1>6, <1>9, <2>1
  <2>3. Follows(wire', Len(copy') + Len(held'))
    BY <1>7, <2>2
  <2>4. end' = end /\ next' = next
    BY DEF Receive
  <2>5. end # "rst" => Len(copy') + Len(held') + Len(wire') = next
    <3>1. Len(wire') = Len(wire) - k /\ k \in Nat
      BY <1>4, <1>7
    <3>2. end # "rst" => Len(copy) + Len(held) + Len(wire) = next
      BY <1>2
    <3>3. Len(copy') \in Nat /\ Len(held') \in Nat
      BY ReceiveType DEF TypeOK
    <3>4. Len(copy') + Len(held') + Len(wire') = Len(copy) + Len(held) + Len(wire)
      <4>1. Len(copy') + Len(held') = Len(copy) + Len(held) + k
        BY <2>2
      <4>2. /\ Len(copy') \in Nat /\ Len(held') \in Nat /\ k \in Nat
            /\ Len(copy) \in Nat /\ Len(held) \in Nat /\ Len(wire) \in Nat
        BY <1>3, <3>1, <3>3
      <4>3. Len(copy') + Len(held') + (Len(wire) - k) = Len(copy) + Len(held) + Len(wire)
        BY <4>1, <4>2, UnitsMove
      <4>4. QED
        BY <4>3, <3>1
    <3>5. QED
      BY <3>2, <3>4
  <2>6. QED
    BY <2>3, <2>4, <2>5
<1>11. QED
  BY <1>9, <1>10 DEF Receive, DownloadInv

LEMMA EndDownload ==
  ASSUME TypeOK, DownloadInv, EndOfData \/ ReceiveFails
  PROVE  DownloadInv'
<1>1. /\ Follows(copy, 0) /\ Follows(held, Len(copy))
      /\ end # "rst" => Len(copy) + Len(held) + Len(wire) = next
  BY DEF DownloadInv, EndOfData, ReceiveFails
<1>2. Follows(copy', 0)
  BY <1>1, FlushFollows DEF EndOfData, ReceiveFails
<1>3. CASE EndOfData
  <2>1. Len(copy) + Len(held) = next
    BY <1>1, <1>3 DEF EndOfData, TypeOK
  <2>2. ~FlushLoses => Len(copy') = next
    BY <1>1, <1>3, <2>1, FlushFollows DEF EndOfData
  <2>3. Reliable' => ~FlushLoses
    BY <1>3, KindDecides DEF EndOfData, Reliable
  <2>4. QED
    BY <1>2, <1>3, <2>2, <2>3 DEF EndOfData, DownloadInv
<1>4. CASE ReceiveFails
  BY <1>2, <1>4 DEF ReceiveFails, DownloadInv
<1>5. QED
  BY <1>3, <1>4

LEMMA ServerSendsDownload ==
  ASSUME TypeOK, DownloadInv, ServerSends
  PROVE  DownloadInv'
<1>1. /\ wire \in Seq(Units) /\ next + 1 \in Units
      /\ Len(copy) \in Nat /\ Len(held) \in Nat /\ Len(wire) \in Nat
  BY DEF ServerSends, TypeOK
<1>2. /\ Len(wire') = Len(wire) + 1 /\ wire'[Len(wire) + 1] = next + 1
      /\ \A i \in 1..Len(wire) : wire'[i] = wire[i]
  BY <1>1 DEF ServerSends
<1>3. child \in {"start", "run"} =>
        /\ Follows(wire', Len(copy) + Len(held))
        /\ Len(copy) + Len(held) + Len(wire') = next'
  <2>1. SUFFICES ASSUME child \in {"start", "run"}
                 PROVE  /\ Follows(wire', Len(copy) + Len(held))
                        /\ Len(copy) + Len(held) + Len(wire') = next'
    OBVIOUS
  <2>2. /\ Len(copy) + Len(held) + Len(wire) = next /\ next' = next + 1
        /\ Follows(wire, Len(copy) + Len(held))
    BY <2>1 DEF ServerSends, DownloadInv
  <2>3. \A i \in 1..Len(wire) : wire'[i] = Len(copy) + Len(held) + i
    BY <1>2, <2>2 DEF Follows
  <2>4. wire'[Len(wire) + 1] = Len(copy) + Len(held) + (Len(wire) + 1)
    BY <1>1, <1>2, <2>2
  <2>5. \A i \in 1..Len(wire') : i \in 1..Len(wire) \/ i = Len(wire) + 1
    BY <1>1, <1>2
  <2>6. Follows(wire', Len(copy) + Len(held))
    BY <2>3, <2>4, <2>5 DEF Follows
  <2>7. QED
    BY <1>1, <1>2, <2>2, <2>6
<1>4. child # "ok" /\ verdict = "none"
  BY DEF ServerSends, DownloadInv
<1>5. QED
  BY <1>3, <1>4 DEF ServerSends, DownloadInv

LEMMA ResetDownload ==
  ASSUME TypeOK, DownloadInv, Reset
  PROVE  DownloadInv'
<1>1. PICK k \in 0..Len(wire) : wire' = First(k, wire)
  BY DEF Reset
<1>2. child \in {"start", "run"} => Follows(wire', Len(copy) + Len(held))
  BY <1>1, FollowsFirst DEF DownloadInv, TypeOK
<1>3. Reliable' = Reliable
  BY KindDecides DEF Reset
<1>4. QED
  BY <1>2, <1>3 DEF Reset, DownloadInv

LEMMA StepDownload ==
  ASSUME TypeOK, DownloadInv, ~Upload, [Next]_vars
  PROVE  DownloadInv'
<1>1. Reliable' = Reliable
  BY StepKeepsKind, KindDecides
<1>2. CASE OpenFile
  BY <1>1, <1>2 DEF OpenFile, DownloadInv
<1>3. CASE Receive
  BY <1>3, ReceiveDownload
<1>4. CASE EndOfData \/ ReceiveFails
  BY <1>4, EndDownload
<1>5. CASE ServerSends
  BY <1>5, ServerSendsDownload
<1>6. CASE ServerCloses
  BY <1>1, <1>6 DEF ServerCloses, DownloadInv
<1>7. CASE Reset
  BY <1>7, ResetDownload
<1>8. CASE GetResponse \/ UNCHANGED vars
  BY <1>1, <1>8 DEF GetResponse, vars, DownloadInv
<1>9. QED
  BY <1>2, <1>3, <1>4, <1>5, <1>6, <1>7, <1>8
  DEF Next, Child, Server, Ended, SendBlock, SendFails, UploadEnds,
      ServerReceives, ServerReceivesEnd

-----------------------------------------------------------------------------
(* UploadInv is inductive.                                                  *)

\* A block goes out behind what is under way, whatever part of it fits.
LEMMA SendBlockUpload ==
  ASSUME TypeOK, UploadInv, SendBlock
  PROVE  UploadInv'
<1>1. PICK n : /\ n \in IF Capacity - Len(wire) = 0 THEN {0}
                        ELSE 1..Lesser(Len(Block), Capacity - Len(wire))
               /\ wire' = wire \o First(n, Block)
  BY DEF SendBlock
<1>2. /\ Block \in Seq(Units) /\ Len(Block) \in Nat
      /\ \A i \in 1..Len(Block) : Block[i] = next + i
  BY BlockType DEF SendBlock
<1>3. n \in 0..Len(Block)
  BY <1>1, <1>2 DEF Lesser, TypeOK
<1> DEFINE sending == First(n, Block)
<1>4. /\ sending \in Seq(Units) /\ Len(sending) = n
      /\ \A i \in 1..n : sending[i] = next + i
  BY <1>2, <1>3, FirstUnits
<1>5. /\ wire \in Seq(Units) /\ copy \in Seq(Units) /\ next \in Nat
      /\ \A i \in 1..Len(wire) : wire[i] \in Nat
      /\ \A i \in 1..Len(copy) : copy[i] \in Nat
  BY DEF TypeOK
<1> HIDE DEF sending
<1>6. Ascending(sending)
  BY <1>3, <1>4, <1>5 DEF Ascending
<1>6a. \A j \in 1..Len(sending) : sending[j] = next + j
  BY <1>4
<1>7. \A i \in 1..Len(wire), j \in 1..Len(sending) : wire[i] < sending[j]
  <2>1. TAKE i \in 1..Len(wire), j \in 1..Len(sending)
  <2>2. wire[i] \in Nat /\ wire[i] <= next
    BY <1>5 DEF UploadInv
  <2>3. QED
    BY <1>5, <1>6a, <2>2
<1>8. \A i \in 1..Len(copy), j \in 1..Len(sending) : copy[i] < sending[j]
  <2>1. TAKE i \in 1..Len(copy), j \in 1..Len(sending)
  <2>2. copy[i] \in Nat /\ copy[i] <= next
    BY <1>5 DEF UploadInv
  <2>3. QED
    BY <1>5, <1>6a, <2>2
<1>9. wire' = wire \o sending
  BY <1>1 DEF sending
<1>10. Ascending(wire')
  BY <1>4, <1>5, <1>6, <1>7, <1>9, AscendingConcatenation DEF UploadInv
<1>11. \A j \in 1..Len(wire') : \/ j \in 1..Len(wire) /\ wire'[j] = wire[j]
                                \/ /\ j - Len(wire) \in 1..n
                                   /\ wire'[j] = sending[j - Len(wire)]
  BY <1>4, <1>5, <1>9, Concatenation
<1>12. \A i \in 1..Len(copy), j \in 1..Len(wire') : copy[i] < wire'[j]
  BY <1>4, <1>8, <1>11 DEF UploadInv
<1>13. next' = next + Len(Block)
  BY DEF SendBlock
<1>14. \A j \in 1..Len(wire') : wire'[j] <= next'
  <2>1. SUFFICES ASSUME NEW j \in 1..Len(wire')
                 PROVE  wire'[j] <= next'
    OBVIOUS
  <2>2. CASE j \in 1..Len(wire) /\ wire'[j] = wire[j]
    BY <1>2, <1>5, <1>13, <2>2 DEF UploadInv
  <2>3. CASE j - Len(wire) \in 1..n /\ wire'[j] = sending[j - Len(wire)]
    BY <1>2, <1>3, <1>4, <1>5, <1>13, <2>3
  <2>4. QED
    BY <1>11, <2>1, <2>2, <2>3
<1>15. \A i \in 1..Len(copy) : copy[i] <= next'
  BY <1>2, <1>5, <1>13 DEF UploadInv
<1>16. verdict # "226" /\ verdict # "426"
  BY DEF SendBlock, UploadInv
<1>17. QED
  BY <1>10, <1>12, <1>14, <1>15, <1>16 DEF SendBlock, UploadInv

LEMMA ReceivesUpload ==
  ASSUME TypeOK, UploadInv, ServerReceives
  PROVE  UploadInv'
<1>1. PICK k \in 1..Len(wire) :
        copy' = copy \o First(k, wire) /\ wire' = Rest(k, wire)
  BY DEF ServerReceives
<1>2. k \in 0..Len(wire)
  OBVIOUS
<1>3. /\ copy \in Seq(Units) /\ wire \in Seq(Units)
      /\ Len(copy) \in Nat /\ Len(wire) \in Nat
  BY DEF TypeOK
<1> DEFINE arriving == First(k, wire)
<1>4. /\ arriving \in Seq(Units) /\ Len(arriving) = k
      /\ \A i \in 1..k : arriving[i] = wire[i]
  BY <1>2, <1>3, FirstUnits
<1>5. /\ Len(wire') = Len(wire) - k
      /\ \A i \in 1..Len(wire) - k : wire'[i] = wire[k + i]
  BY <1>1, <1>2, <1>3, RestUnits
<1> HIDE DEF arriving
<1>6. \A i \in 1..k : i \in 1..Len(wire)
  OBVIOUS
<1>7. Ascending(arriving)
  BY <1>4, <1>6 DEF Ascending, UploadInv
<1>8. \A i \in 1..Len(copy), j \in 1..Len(arriving) : copy[i] < arriving[j]
  BY <1>4, <1>6 DEF UploadInv
<1>9. copy' = copy \o arriving
  BY <1>1 DEF arriving
<1>10. Ascending(copy')
  BY <1>3, <1>4, <1>7, <1>8, <1>9, AscendingConcatenation DEF UploadInv
<1>11. \A i \in 1..Len(copy') : \/ i \in 1..Len(copy) /\ copy'[i] = copy[i]
                                \/ /\ i - Len(copy) \in 1..k
                                   /\ copy'[i] = wire[i - Len(copy)]
  BY <1>3, <1>4, <1>9, Concatenation
<1>12. \A j \in 1..Len(wire') : k + j \in 1..Len(wire) /\ wire'[j] = wire[k + j]
  BY <1>3, <1>5
<1>13. Ascending(wire')
  <2>1. SUFFICES ASSUME NEW i \in 1..Len(wire'), NEW j \in 1..Len(wire'), i < j
                 PROVE  wire'[i] < wire'[j]
    BY DEF Ascending
  <2>2. k + i \in 1..Len(wire) /\ k + j \in 1..Len(wire) /\ k + i < k + j
    BY <1>5, <1>12, <2>1
  <2>3. wire[k + i] < wire[k + j]
    BY <2>2 DEF UploadInv, Ascending
  <2>4. QED
    BY <1>12, <2>3
<1>14. \A i \in 1..Len(copy'), j \in 1..Len(wire') : copy'[i] < wire'[j]
  <2>1. SUFFICES ASSUME NEW i \in 1..Len(copy'), NEW j \in 1..Len(wire')
                 PROVE  copy'[i] < wire'[j]
    OBVIOUS
  <2>2. k + j \in 1..Len(wire) /\ wire'[j] = wire[k + j]
    BY <1>12
  <2>3. CASE i \in 1..Len(copy) /\ copy'[i] = copy[i]
    BY <2>2, <2>3 DEF UploadInv
  <2>4. CASE i - Len(copy) \in 1..k /\ copy'[i] = wire[i - Len(copy)]
    <3>1. i - Len(copy) \in 1..Len(wire) /\ i - Len(copy) < k + j
      BY <1>3, <1>6, <2>4
    <3>2. wire[i - Len(copy)] < wire[k + j]
      BY <2>2, <3>1 DEF UploadInv, Ascending
    <3>3. QED
      BY <2>2, <2>4, <3>2
  <2>5. QED
    BY <1>11, <2>3, <2>4
<1>15. \A i \in 1..Len(copy') : copy'[i] <= next
  BY <1>6, <1>11 DEF UploadInv
<1>16. \A j \in 1..Len(wire') : wire'[j] <= next
  BY <1>12 DEF UploadInv
<1>17. verdict # "226"
  BY <1>1, <1>3 DEF UploadInv
<1>18. QED
  BY <1>10, <1>13, <1>14, <1>15, <1>16, <1>17 DEF ServerReceives, UploadInv

LEMMA ResetUpload ==
  ASSUME TypeOK, UploadInv, Upload, Reset
  PROVE  UploadInv'
<1>1. PICK k \in 0..Len(wire) : wire' = First(k, wire)
  BY DEF Reset
<1>2. /\ Len(wire') = k
      /\ \A i \in 1..k : wire'[i] = wire[i] /\ i \in 1..Len(wire)
  BY <1>1, FirstUnits DEF TypeOK
<1>3. /\ Ascending(wire')
      /\ \A i \in 1..Len(copy), j \in 1..Len(wire') : copy[i] < wire'[j]
      /\ \A j \in 1..Len(wire') : wire'[j] <= next
  BY <1>2 DEF UploadInv, Ascending
<1>4. verdict' = "426"
  BY DEF Reset
<1>5. QED
  BY <1>3, <1>4 DEF Reset, UploadInv

LEMMA StepUpload ==
  ASSUME TypeOK, UploadInv, Upload, [Next]_vars
  PROVE  UploadInv'
<1>1. CASE OpenFile
  BY <1>1 DEF OpenFile, UploadInv
<1>2. CASE SendBlock
  BY <1>2, SendBlockUpload
<1>3. CASE SendFails
  BY <1>3 DEF SendFails, UploadInv
<1>4. CASE UploadEnds
  BY <1>4 DEF UploadEnds, UploadInv
<1>5. CASE ServerReceives
  BY <1>5, ReceivesUpload
<1>6. CASE ServerReceivesEnd
  BY <1>6 DEF ServerReceivesEnd, UploadInv
<1>7. CASE Reset
  BY <1>7, ResetUpload
<1>8. CASE GetResponse \/ UNCHANGED vars
  BY <1>8 DEF GetResponse, vars, UploadInv
<1>9. QED
  BY <1>1, <1>2, <1>3, <1>4, <1>5, <1>6, <1>7, <1>8
  DEF Next, Child, Server, Ended, Receive, EndOfData, ReceiveFails,
      ServerSends, ServerCloses

-----------------------------------------------------------------------------
(* The invariant and the refinement.                                        *)

LEMMA InitInv == Init => CopyInv
<1>1. SUFFICES ASSUME Init PROVE CopyInv
  OBVIOUS
<1>2. /\ wire = <<>> /\ held = <<>> /\ copy = <<>>
      /\ Len(wire) = 0 /\ Len(held) = 0 /\ Len(copy) = 0
  BY <1>1, NoUnits DEF Init
<1>3. TypeOK
  BY <1>1, <1>2, NoUnits DEF Init, TypeOK
<1>4. Follows(copy, 0) /\ Follows(held, Len(copy)) /\ Follows(wire, 0)
  BY <1>2 DEF Follows
<1>5. DownloadInv
  BY <1>1, <1>2, <1>4 DEF Init, DownloadInv
<1>6. UploadInv
  BY <1>1, <1>2 DEF Init, UploadInv, Ascending
<1>7. heard = "none"
  BY <1>1 DEF Init
<1>8. QED
  BY <1>3, <1>5, <1>6, <1>7 DEF CopyInv

\* The server does not take back what it has said.
LEMMA VerdictStays ==
  ASSUME CopyInv, [Next]_vars, verdict # "none"
  PROVE  verdict' = verdict
<1>1. ~ServerCloses
  BY DEF ServerCloses, CopyInv, DownloadInv
<1>2. QED
  BY <1>1
  DEF Next, Child, Server, Ended, OpenFile, Receive, EndOfData, ReceiveFails,
      SendBlock, SendFails, UploadEnds, ServerSends, ServerReceives,
      ServerReceivesEnd, Reset, GetResponse, vars

\* The parent asks once.
LEMMA HeardStays ==
  ASSUME [Next]_vars, heard # "none"
  PROVE  heard' = heard
  BY DEF Next, Child, Server, Ended, OpenFile, Receive, EndOfData, ReceiveFails,
         SendBlock, SendFails, UploadEnds, ServerSends, ServerCloses,
         ServerReceives, ServerReceivesEnd, Reset, GetResponse, vars

LEMMA StepHeard ==
  ASSUME CopyInv, [Next]_vars
  PROVE  heard' \in {"none", "lost", verdict'}
<1>1. CASE heard # "none"
  <2>1. heard' = heard /\ heard \in {"lost", verdict}
    BY <1>1, HeardStays DEF CopyInv
  <2>2. heard = verdict => verdict' = verdict
    BY <1>1, VerdictStays
  <2>3. QED
    BY <2>1, <2>2
<1>2. CASE heard = "none" /\ GetResponse
  BY <1>2 DEF GetResponse
<1>3. CASE heard = "none" /\ ~GetResponse
  <2>1. heard' = heard
    BY <1>3
    DEF Next, Child, Server, Ended, OpenFile, Receive, EndOfData, ReceiveFails,
        SendBlock, SendFails, UploadEnds, ServerSends, ServerCloses,
        ServerReceives, ServerReceivesEnd, Reset, vars
  <2>2. QED
    BY <1>3, <2>1
<1>4. QED
  BY <1>1, <1>2, <1>3

LEMMA StepInv == CopyInv /\ [Next]_vars => CopyInv'
<1>1. SUFFICES ASSUME CopyInv, [Next]_vars PROVE CopyInv'
  OBVIOUS
<1>2. TypeOK /\ TypeOK'
  BY <1>1, StepType DEF CopyInv
<1>3. Upload' = Upload
  BY <1>1, StepKeepsKind, KindDecides
<1>4. heard' \in {"none", "lost", verdict'}
  BY <1>1, StepHeard
<1>5. CASE Upload
  BY <1>1, <1>2, <1>3, <1>4, <1>5, StepUpload DEF CopyInv
<1>6. CASE ~Upload
  BY <1>1, <1>2, <1>3, <1>4, <1>6, StepDownload DEF CopyInv
<1>7. QED
  BY <1>5, <1>6

\* CopyInv holds in every run: what is written, held and under way of a
\* download are consecutive pieces of the source, what is written and under
\* way of an upload is in order (the loops of get, ls and put).
THEOREM CopyInvariant == Spec => []CopyInv
<1>1. QED
  BY InitInv, StepInv, PTL DEF Spec

\* Every variable keeps its type, and the socket buffers are never overfull.
THEOREM TypesAreKept == Spec => []TypeOK
<1>1. CopyInv => TypeOK
  BY DEF CopyInv
<1>2. QED
  BY <1>1, CopyInvariant, PTL

\* The copy is never taken back or rewritten.
LEMMA CopyGrows ==
  ASSUME CopyInv, [Next]_vars
  PROVE  /\ Len(copy) <= Len(copy')
         /\ \A i \in 1..Len(copy) : copy'[i] = copy[i]
<1>1. copy \in Seq(Units) /\ held \in Seq(Units) /\ wire \in Seq(Units)
  BY DEF CopyInv, TypeOK
<1>2. ASSUME NEW s \in Seq(Units), NEW n \in 0..Len(s), copy' = copy \o First(n, s)
      PROVE  /\ Len(copy) <= Len(copy')
             /\ \A i \in 1..Len(copy) : copy'[i] = copy[i]
  <2>1. First(n, s) \in Seq(Units) /\ Len(First(n, s)) \in Nat
    BY <1>2, FirstUnits
  <2>2. QED
    BY <1>1, <1>2, <2>1, Concatenation
<1>3. CASE copy' = copy
  BY <1>1, <1>3
<1>4. CASE Receive
  <2>1. PICK k \in 1..Lesser(Len(wire), ReadLimit) :
          IF kind = "GET" THEN Fwrite(held \o First(k, wire))
                          ELSE Collect(held \o First(k, wire))
    BY <1>4 DEF Receive
  <2>2. held \o First(k, wire) \in Seq(Units)
    BY ReceivedType DEF CopyInv
  <2>3. CASE Fwrite(held \o First(k, wire))
    BY <1>2, <2>2, <2>3 DEF Fwrite
  <2>4. CASE Collect(held \o First(k, wire))
    BY <1>3, <2>4 DEF Collect
  <2>5. QED
    BY <2>1, <2>3, <2>4
<1>5. CASE Flush
  <2>1. PICK n \in 0..Len(held) : copy' = copy \o First(n, held)
    BY <1>5, FlushWrites DEF CopyInv
  <2>2. QED
    BY <1>1, <1>2, <2>1
<1>6. CASE ServerReceives
  <2>1. PICK k \in 1..Len(wire) : copy' = copy \o First(k, wire)
    BY <1>6 DEF ServerReceives
  <2>2. QED
    BY <1>1, <1>2, <2>1
<1>7. QED
  BY <1>3, <1>4, <1>5, <1>6
  DEF Next, Child, Server, Ended, OpenFile, EndOfData, ReceiveFails, SendBlock,
      SendFails, UploadEnds, ServerSends, ServerCloses, ServerReceivesEnd, Reset,
      GetResponse, vars

\* What the user has been told stays.
LEMMA OutcomeStays ==
  ASSUME CopyInv, [Next]_vars, Outcome # "running"
  PROVE  Outcome' = Outcome
<1>1. child \notin {"start", "run"} /\ (heard # "none" \/ (Upload /\ child = "fail"))
  BY DEF Outcome, Waiting
<1>2. child' = child
  BY <1>1
  DEF Next, Child, Server, Ended, OpenFile, Receive, EndOfData, ReceiveFails,
      SendBlock, SendFails, UploadEnds, ServerSends, ServerCloses,
      ServerReceives, ServerReceivesEnd, Reset, GetResponse, vars
<1>3. Upload' = Upload
  BY StepKeepsKind, KindDecides
<1>4. CASE heard # "none"
  BY <1>2, <1>3, <1>4, HeardStays DEF Outcome, Waiting
<1>5. CASE heard = "none"
  BY <1>1, <1>2, <1>3, <1>5, StepHeard DEF Outcome, Waiting
<1>6. QED
  BY <1>4, <1>5

\* Nothing arrives any more when the user has been told of success.
LEMMA SuccessIsFinal ==
  ASSUME CopyInv, [Next]_vars, Outcome = "ok"
  PROVE  copy' = copy
<1>1. child = "ok" /\ verdict = "226"
  BY DEF Outcome, Waiting, CopyInv
<1>2. ~ServerReceives
  BY <1>1 DEF ServerReceives, CopyInv, UploadInv, TypeOK
<1>3. QED
  BY <1>1, <1>2
  DEF Next, Child, Server, Ended, OpenFile, Receive, EndOfData, ReceiveFails,
      SendBlock, SendFails, UploadEnds, ServerSends, ServerCloses,
      ServerReceivesEnd, Reset, GetResponse, vars

\* What the invariant says of the copy, and of a transfer reported complete.
Faithful ==
  /\ copy \in Seq(1..FileSize)
  /\ Promise!Ascending(copy)
  /\ Reliable => Promise!Gapless(copy)
  /\ Outcome = "ok" /\ Reliable => Len(copy) = FileSize

LEMMA CopyIsFaithful == CopyInv => Faithful
<1> SUFFICES ASSUME CopyInv PROVE Faithful
  OBVIOUS
<1>1. copy \in Seq(Units)
  BY DEF CopyInv, TypeOK
<1>2. Ascending(copy)
  BY <1>1, FollowsAscends DEF CopyInv, UploadInv, DownloadInv
<1>3. Promise!Ascending(copy)
  BY <1>2 DEF Ascending, Promise!Ascending
<1>4. Reliable => ~Upload /\ DownloadInv
  BY DEF Reliable, CopyInv
<1>5. Reliable => Promise!Gapless(copy)
  BY <1>1, <1>4 DEF DownloadInv, Follows, Promise!Gapless
<1>6. Outcome = "ok" => child = "ok" /\ verdict = "226"
  BY DEF Outcome, CopyInv
<1>7. Outcome = "ok" /\ Reliable => Len(copy) = FileSize
  BY <1>4, <1>6 DEF DownloadInv
<1>8. QED
  BY <1>1, <1>3, <1>5, <1>7 DEF Faithful

LEMMA InitCopies == Init => Promise!Init
  BY DEF Init, Promise!Init, Outcome, Waiting, Reliable, Upload, FlushLoses

LEMMA StepCopies ==
  CopyInv /\ [Next]_vars => [Promise!Next]_<<copy, Outcome, Reliable>>
<1>1. SUFFICES ASSUME CopyInv, [Next]_vars
               PROVE  [Promise!Next]_<<copy, Outcome, Reliable>>
  OBVIOUS
<1>2. Reliable' = Reliable
  BY <1>1, StepKeepsKind, KindDecides
<1>3. CASE Outcome = "ok"
  <2>1. Outcome' = Outcome /\ copy' = copy
    BY <1>1, <1>3, OutcomeStays, SuccessIsFinal
  <2>2. QED
    BY <1>2, <2>1
<1>4. CASE Outcome # "ok"
  <2>1. CopyInv'
    BY <1>1, StepInv
  <2>2. /\ copy' \in Seq(1..FileSize)
        /\ Promise!Ascending(copy')
        /\ Reliable' => Promise!Gapless(copy')
        /\ Outcome' = "ok" /\ Reliable' => Len(copy') = FileSize
    <3>1. Faithful'
      BY <2>1, CopyIsFaithful, PTL
    <3>2. QED
      BY <3>1 DEF Faithful, Promise!Ascending, Promise!Gapless
  <2>3. Promise!Grow
    BY <1>1, <1>2, <2>2, CopyGrows DEF Promise!Grow
  <2>4. Outcome' \in {"running", "ok", "failed"}
    BY DEF Outcome
  <2>5. CASE Outcome = "running"
    BY <1>2, <2>2, <2>3, <2>4, <2>5
    DEF Promise!Next, Promise!Progress, Promise!Succeed, Promise!Fail
  <2>6. CASE Outcome # "running"
    <3>1. Outcome' = Outcome
      BY <1>1, <2>6, OutcomeStays
    <3>2. QED
      BY <1>4, <2>3, <3>1 DEF Promise!Next, Promise!Progress
  <2>7. QED
    BY <2>5, <2>6
<1>5. QED
  BY <1>3, <1>4

\* DataTransfer implements FileCopy, for every size of file, block and socket
\* buffer: a download is a prefix of its source and the whole of it when it is
\* reported complete; an upload has its blocks in order and none twice.
THEOREM CopiesAreFaithful == Spec => CopyPromise
<1>1. Spec => []CopyInv
  BY CopyInvariant
<1>2. QED
  BY <1>1, InitCopies, StepCopies, PTL DEF Spec, CopyPromise, Promise!Spec

-----------------------------------------------------------------------------
(* Every step brings the end of a transfer nearer.                          *)

\* The parts of Remaining.
ChildToDo == CASE child = "start" -> 2 [] child = "run" -> 1 [] OTHER -> 0
EndToDo   == CASE end = "open" -> 2 [] end = "fin" -> 1 [] OTHER -> 0
VerdictToDo == IF verdict = "none" THEN 1 ELSE 0
HeardToDo == IF heard = "none" THEN 1 ELSE 0

\* What is left to do is the sum of these numbers: now,
RemainingFacts ==
  /\ next \in Nat /\ next <= FileSize /\ Len(wire) \in Nat
  /\ ChildToDo \in Nat /\ EndToDo \in Nat /\ VerdictToDo \in Nat /\ HeardToDo \in Nat
  /\ Remaining = 2 * (FileSize - next) + Len(wire) + ChildToDo + EndToDo + VerdictToDo
                 + HeardToDo

LEMMA RemainingIs == TypeOK => RemainingFacts
<1> SUFFICES ASSUME TypeOK PROVE RemainingFacts
  OBVIOUS
<1>1. next \in Nat /\ FileSize \in Nat /\ next <= FileSize /\ Len(wire) \in Nat
  BY SizesAssumption DEF TypeOK
<1>2. ChildToDo \in Nat /\ EndToDo \in Nat /\ VerdictToDo \in Nat /\ HeardToDo \in Nat
  BY DEF ChildToDo, EndToDo, VerdictToDo, HeardToDo
<1>3. Remaining = 2 * (FileSize - next) + Len(wire) + ChildToDo + EndToDo + VerdictToDo
                  + HeardToDo
  BY DEF Remaining, ChildToDo, EndToDo, VerdictToDo, HeardToDo
<1>4. QED
  BY <1>1, <1>2, <1>3 DEF RemainingFacts

\* and after a step.
LEMMA RemainingIsNext == TypeOK' => RemainingFacts'
BY RemainingIs, PTL

\* Two units less to send outweigh one more on the wire.
LEMMA SumDecreases ==
  ASSUME NEW size \in Nat, NEW n \in Nat, NEW w \in Nat, NEW c \in Nat, NEW e \in Nat,
         NEW v \in Nat, NEW h \in Nat, NEW n2 \in Nat, NEW w2 \in Nat, NEW c2 \in Nat,
         NEW e2 \in Nat, NEW v2 \in Nat, NEW h2 \in Nat, n2 <= size,
         c2 <= c, e2 <= e, v2 <= v, h2 <= h, n <= n2, w2 + n <= w + n2,
         c2 < c \/ e2 < e \/ v2 < v \/ h2 < h \/ n < n2 \/ w2 < w
  PROVE  2 * (size - n2) + w2 + c2 + e2 + v2 + h2 \in
           0..2 * (size - n) + w + c + e + v + h - 1
  OBVIOUS

\* Units that move are taken off the wire; a step that moves none ends
\* something.
LEMMA LessToDo ==
  ASSUME TypeOK, TypeOK',
         ChildToDo' <= ChildToDo, EndToDo' <= EndToDo, VerdictToDo' <= VerdictToDo,
         HeardToDo' <= HeardToDo,
         next <= next', Len(wire') + next <= Len(wire) + next',
         \/ ChildToDo' < ChildToDo \/ EndToDo' < EndToDo \/ VerdictToDo' < VerdictToDo
         \/ HeardToDo' < HeardToDo
         \/ next < next' \/ Len(wire') < Len(wire)
  PROVE  Remaining' \in 0..Remaining - 1
<1>1. RemainingFacts /\ RemainingFacts'
  BY RemainingIs, RemainingIsNext
<1>2. /\ next' \in Nat /\ next' <= FileSize /\ Len(wire') \in Nat /\ FileSize \in Nat
      /\ ChildToDo' \in Nat /\ EndToDo' \in Nat /\ VerdictToDo' \in Nat
      /\ HeardToDo' \in Nat
      /\ Remaining' = 2 * (FileSize - next') + Len(wire') + ChildToDo' + EndToDo'
                      + VerdictToDo' + HeardToDo'
  BY <1>1, SizesAssumption DEF RemainingFacts
<1>3. /\ next \in Nat /\ Len(wire) \in Nat
      /\ ChildToDo \in Nat /\ EndToDo \in Nat /\ VerdictToDo \in Nat
      /\ HeardToDo \in Nat
      /\ Remaining = 2 * (FileSize - next) + Len(wire) + ChildToDo + EndToDo
                     + VerdictToDo + HeardToDo
  BY <1>1 DEF RemainingFacts
<1>4. ASSUME NEW n \in Nat, n = next, NEW w \in Nat, w = Len(wire), NEW c \in Nat, c = ChildToDo,
             NEW e \in Nat, e = EndToDo, NEW v \in Nat, v = VerdictToDo,
             NEW h \in Nat, h = HeardToDo,
             NEW n2 \in Nat, n2 = next', NEW w2 \in Nat, w2 = Len(wire'),
             NEW c2 \in Nat, c2 = ChildToDo', NEW e2 \in Nat, e2 = EndToDo',
             NEW v2 \in Nat, v2 = VerdictToDo', NEW h2 \in Nat, h2 = HeardToDo'
      PROVE  Remaining' \in 0..Remaining - 1
  <2>1. /\ c2 <= c /\ e2 <= e /\ v2 <= v /\ h2 <= h
        /\ n <= n2 /\ w2 + n <= w + n2 /\ n2 <= FileSize
        /\ c2 < c \/ e2 < e \/ v2 < v \/ h2 < h \/ n < n2 \/ w2 < w
    BY <1>2, <1>4
  <2>2. /\ Remaining' = 2 * (FileSize - n2) + w2 + c2 + e2 + v2 + h2
        /\ Remaining = 2 * (FileSize - n) + w + c + e + v + h
    BY <1>2, <1>3, <1>4
  <2>3. QED
    BY <2>1, <2>2, SumDecreases, SizesAssumption
<1>5. QED
  BY <1>2, <1>3, <1>4

LEMMA StepAdvances ==
  ASSUME TypeOK, TypeOK', [Next]_vars
  PROVE  [Remaining' \in 0..Remaining - 1]_vars
<1> SUFFICES ASSUME ~UNCHANGED vars PROVE Remaining' \in 0..Remaining - 1
  OBVIOUS
<1> USE DEF ChildToDo, EndToDo, VerdictToDo, HeardToDo
<1>1. /\ wire \in Seq(Units) /\ Len(wire) \in Nat /\ next \in Nat /\ Capacity \in Nat
      /\ child \in {"start", "run", "ok", "fail"} /\ end \in {"open", "fin", "rst"}
  BY SizesAssumption DEF TypeOK
<1>2. CASE OpenFile
  <2>1. child = "start" /\ child' \in {"run", "fail"} /\ UNCHANGED <<next, wire, verdict, heard>>
        /\ end' \in {end, "fin"} /\ (end' # end => end = "open")
    BY <1>2 DEF OpenFile
  <2>2. QED
    BY <1>1, <2>1, LessToDo
<1>3. CASE Receive
  <2>1. PICK k \in 1..Lesser(Len(wire), ReadLimit) :
          /\ wire' = Rest(k, wire)
          /\ IF kind = "GET" THEN Fwrite(held \o First(k, wire))
                             ELSE Collect(held \o First(k, wire))
    BY <1>3 DEF Receive
  <2>2. k \in 0..Len(wire) /\ k # 0
    BY <2>1, ReceivedType
  <2>3. Len(wire') = Len(wire) - k
    BY <1>1, <2>1, <2>2, RestUnits
  <2>4. child = "run" /\ child' \in {"run", "fail"} /\ UNCHANGED <<next, end, verdict, heard>>
    BY <1>3, <2>1 DEF Receive, Fwrite, Collect
  <2>5. Len(wire') < Len(wire)
    BY <1>1, <2>2, <2>3
  <2>6. QED
    BY <1>1, <2>4, <2>5, LessToDo
<1>4. CASE EndOfData \/ ReceiveFails
  <2>1. child = "run" /\ child' \in {"ok", "fail"} /\ UNCHANGED <<next, wire, end, verdict, heard>>
    BY <1>4 DEF EndOfData, ReceiveFails
  <2>2. QED
    BY <1>1, <2>1, LessToDo
<1>5. CASE SendBlock
  <2>1. PICK n : /\ n \in IF Capacity - Len(wire) = 0 THEN {0}
                          ELSE 1..Lesser(Len(Block), Capacity - Len(wire))
                 /\ wire' = wire \o First(n, Block)
    BY <1>5 DEF SendBlock
  <2>2. /\ Block \in Seq(Units) /\ Len(Block) \in Nat /\ Len(Block) # 0
        /\ next' = next + Len(Block)
        /\ UNCHANGED <<child, end, verdict, heard>>
    <3>1. next < FileSize
      BY <1>5 DEF SendBlock
    <3>2. Len(Block) = Lesser(BlockSize, FileSize - next)
      BY <3>1, BlockType
    <3>3. Len(Block) # 0
      BY <1>1, <3>1, <3>2, SizesAssumption DEF Lesser
    <3>4. QED
      BY <1>5, <3>1, <3>3, BlockType DEF SendBlock
  <2>3. n \in 0..Len(Block)
    BY <1>1, <2>1, <2>2 DEF Lesser
  <2>4. First(n, Block) \in Seq(Units) /\ Len(First(n, Block)) = n
    BY <2>2, <2>3, FirstUnits
  <2>5. Len(wire') = Len(wire) + n
    BY <1>1, <2>1, <2>4, JoinedLength
  <2>6. next < next' /\ Len(wire') + next <= Len(wire) + next'
    BY <1>1, <2>2, <2>3, <2>5
  <2>7. QED
    BY <1>1, <2>2, <2>6, LessToDo
<1>6. CASE SendFails \/ UploadEnds
  <2>1. child = "run" /\ child' \in {"ok", "fail"} /\ UNCHANGED <<next, wire, verdict, heard>>
        /\ end' \in {end, "fin"} /\ (end' # end => end = "open")
    BY <1>6 DEF SendFails, UploadEnds
  <2>2. QED
    BY <1>1, <2>1, LessToDo
<1>7. CASE ServerSends
  <2>1. next' = next + 1 /\ UNCHANGED <<child, end, verdict, heard>>
    BY <1>7 DEF ServerSends
  <2>2. Len(wire') = Len(wire) + 1
    BY <1>1, <1>7 DEF ServerSends
  <2>3. next < next' /\ Len(wire') + next <= Len(wire) + next'
    BY <1>1, <2>1, <2>2
  <2>4. QED
    BY <1>1, <2>1, <2>3, LessToDo
<1>8. CASE ServerCloses
  <2>1. end = "open" /\ end' = "fin" /\ verdict' # "none" /\ UNCHANGED <<next, wire, child, heard>>
    BY <1>8 DEF ServerCloses
  <2>2. QED
    BY <1>1, <2>1, LessToDo
<1>9. CASE ServerReceives
  <2>1. PICK k \in 1..Len(wire) : wire' = Rest(k, wire)
    BY <1>9 DEF ServerReceives
  <2>2. k \in 0..Len(wire) /\ k # 0
    BY <2>1
  <2>3. Len(wire') = Len(wire) - k
    BY <1>1, <2>1, <2>2, RestUnits
  <2>4. Len(wire') < Len(wire) /\ UNCHANGED <<next, child, end, verdict, heard>>
    BY <1>1, <1>9, <2>2, <2>3 DEF ServerReceives
  <2>5. QED
    BY <1>1, <2>4, LessToDo
<1>10. CASE ServerReceivesEnd
  <2>1. verdict = "none" /\ verdict' = "226" /\ UNCHANGED <<next, wire, child, end, heard>>
    BY <1>10 DEF ServerReceivesEnd
  <2>2. QED
    BY <1>1, <2>1, LessToDo
<1>11. CASE Reset
  <2>1. PICK k \in 0..Len(wire) : wire' = First(k, wire)
    BY <1>11 DEF Reset
  <2>2. Len(wire') = k
    BY <1>1, <2>1, FirstUnits
  <2>3. end # "rst" /\ end' = "rst" /\ verdict' # "none" /\ UNCHANGED <<next, child, heard>>
    BY <1>11 DEF Reset
  <2>4. Len(wire') <= Len(wire)
    BY <1>1, <2>1, <2>2
  <2>5. QED
    BY <1>1, <2>3, <2>4, LessToDo
<1>12. CASE GetResponse
  <2>1. heard = "none" /\ UNCHANGED <<next, wire, child, end, verdict>>
    BY <1>12 DEF GetResponse
  <2>2. heard' # "none"
    BY <1>12 DEF GetResponse
  <2>3. QED
    BY <1>1, <2>1, <2>2, LessToDo
<1>13. QED
  BY <1>2, <1>3, <1>4, <1>5, <1>6, <1>7, <1>8, <1>9, <1>10, <1>11, <1>12
  DEF Next, Child, Server, Ended

\* A transfer takes a bounded number of steps, whatever the sizes and the
\* troubles: nothing is read, sent, ended or reported twice. What is left of
\* TransferEnds is that a step that can be taken is taken.
THEOREM TransfersAdvance == Spec => TransferAdvances
<1>1. TypeOK /\ TypeOK' /\ [Next]_vars => [Remaining' \in 0..Remaining - 1]_vars
  BY StepAdvances
<1>2. QED
  BY <1>1, TypesAreKept, PTL DEF Spec, TransferAdvances
=============================================================================
