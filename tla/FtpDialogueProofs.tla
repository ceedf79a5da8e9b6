------------------------- MODULE FtpDialogueProofs -------------------------
(***************************************************************************)
(* The dialogue of the session with a server that answers in time, in      *)
(* whole segments: no response is taken for another command's answer, the  *)
(* session implements FtpDialogue, and no transfer waits for a completion  *)
(* that has passed, for every number of commands and of descriptors.       *)
(***************************************************************************)
EXTENDS FtpSessionSafetyProofs, FiniteSetTheorems

\* A server that answers in time and in whole one-line segments, forks that
\* succeed, children that fail only with the connection, and no Ctrl-C.  Replies
\* may still be coalesced, connections refused, lost or closed with a 421; and
\* downloads may be broken off.  put, whose child fails then, leaves the 426
\* unread, so it must not be among the commands if the server does that.
TimelyServer ==
  /\ Faults \cap {"late", "split", "multiline", "fork", "child", "sigint"} = {}
  /\ "abort" \in Faults => "PUT" \notin Commands

\* The server breaks off no upload.
LEMMA UploadsNotAborted ==
  ASSUME TypeOK, TimelyServer, cmd = "PUT" PROVE "abort" \notin Faults
BY DEF TimelyServer, TypeOK, ProgramTypeOK

-----------------------------------------------------------------------------
(* What is unread.                                                          *)

LEMMA UnreadIsLength ==
  ASSUME TypeOK
  PROVE  /\ Unread \in Nat /\ Len(stream) \in Nat /\ Unread <= Len(stream)
         /\ Len(stream) <= Unread + 1
         /\ stream = <<>> => Unread = 0 /\ Len(stream) = 0
         /\ Len(stream) = 0 => stream = <<>>
  BY DEF Unread, TypeOK, ConnectionTypeOK, ControlTypeOK

\* With the server there, everything in the stream answers a command.
LEMMA UnreadWhileUp ==
  ASSUME TypeOK, StreamInv, peer = "up"
  PROVE  Unread = Len(stream)
  BY UnreadIsLength DEF StreamInv

LEMMA UnreadTaken ==
  ASSUME TypeOK, NEW k \in 1..Len(stream), TakeFromStream(k)
  PROVE  /\ Len(stream') = Len(stream) - k
         /\ \A i \in 1..Len(stream') : stream'[i] = stream[i + k]
         /\ Unread' = (IF k < Unread THEN Unread - k ELSE 0)
         /\ Unread' < Len(stream') => Unread < Len(stream)
                                      /\ stream'[Len(stream')] = stream[Len(stream)]
<1>1. stream \in Seq(Replies) /\ Len(stream) \in Nat
  BY DEF TypeOK, ConnectionTypeOK, ControlTypeOK
<1>2. /\ Len(stream') = Len(stream) - k
      /\ \A i \in 1..Len(stream') : stream'[i] = stream[i + k]
  BY <1>1 DEF TakeFromStream
<1>3. CASE k = Len(stream)
  <2>1. stream' = <<>>
    BY <1>1, <1>3 DEF TakeFromStream
  <2>2. Len(stream') = 0
    BY <2>1
  <2>3. QED
    BY <1>1, <1>2, <1>3, <2>1, <2>2 DEF Unread
<1>4. CASE k < Len(stream)
  <2>1. stream' # <<>> /\ stream # <<>>
    BY <1>1, <1>2, <1>4
  <2>2. stream'[Len(stream')] = stream[Len(stream)]
    BY <1>1, <1>2, <1>4
  <2>3. QED
    BY <1>1, <1>2, <1>4, <2>1, <2>2 DEF Unread
<1>5. QED
  BY <1>1, <1>3, <1>4

LEMMA UnreadAppended ==
  ASSUME TypeOK, NEW reply \in Replies, stream' = Append(stream, reply)
  PROVE  /\ Len(stream') = Len(stream) + 1 /\ stream'[Len(stream')] = reply
         /\ \A i \in 1..Len(stream) : stream'[i] = stream[i]
         /\ Unread' = (IF reply.of = 0 THEN Len(stream) ELSE Len(stream) + 1)
<1>1. stream \in Seq(Replies) /\ Len(stream) \in Nat
  BY DEF TypeOK, ConnectionTypeOK, ControlTypeOK
<1>2. /\ Len(stream') = Len(stream) + 1 /\ stream'[Len(stream')] = reply
      /\ \A i \in 1..Len(stream) : stream'[i] = stream[i]
  BY <1>1
<1>3. stream' # <<>>
  BY <1>1
<1>4. QED
  BY <1>1, <1>2, <1>3 DEF Unread

LEMMA UnreadNothing == ASSUME stream' = <<>> PROVE Unread' = 0 /\ Len(stream') = 0
<1>1. Len(<<>>) = 0
  OBVIOUS
<1>2. QED
  BY <1>1 DEF Unread

LEMMA UnreadSame == ASSUME stream' = stream PROVE Unread' = Unread
  BY DEF Unread

-----------------------------------------------------------------------------
(* What the pieces of the actions leave unread.                             *)

TurnsInv == RequestInv /\ JobInv /\ TurnInv /\ DataInv /\ CompletionInv

USE FaultsAssumption

LEMMA StreamKept ==
  ASSUME StreamInv, UNCHANGED <<stream, collecting, sent, client_cmd_socket>>,
         peer = "none" => peer' = "none", peer # "up" => peer' # "up"
  PROVE  StreamInv' /\ Unread' = Unread
<1>1. Unread' = Unread
  BY UnreadSame
<1>2. QED
  BY <1>1 DEF StreamInv

LEMMA StreamEmptied ==
  ASSUME stream' = <<>>, collecting' = FALSE,
         client_cmd_socket' = Closed => peer' = "none"
  PROVE  StreamInv' /\ Unread' = 0
<1>1. Unread' = 0 /\ Len(stream') = 0
  BY UnreadNothing
<1>2. QED
  BY <1>1 DEF StreamInv

\* A response is the first k replies of the stream.
LEMMA ReceivedStream ==
  ASSUME TypeOK, StreamInv, RequestInv, Received, StayConnected
  PROVE  /\ StreamInv' /\ toServer = <<>> /\ peer' = peer
         /\ Unread = 0 => peer # "up"
         /\ \E k \in 1..Len(stream) :
              /\ recv_buffer' = SubSeq(stream, 1, k) /\ Len(recv_buffer') = k
              /\ \A i \in 1..k : recv_buffer'[i] = stream[i]
              /\ Unread' = (IF k < Unread THEN Unread - k ELSE 0)
<1>1. PICK k \in ChunkSizes : FirstChunk(k) /\ TakeFromStream(k)
  BY DEF Received, GetResponseOk
<1>2. stream \in Seq(Replies) /\ Len(stream) \in Nat
  BY DEF TypeOK, ConnectionTypeOK, ControlTypeOK
<1>3. k \in 1..Len(stream)
  BY <1>1, <1>2, ChunkType
<1>4. /\ recv_buffer' = SubSeq(stream, 1, k) /\ Len(recv_buffer') = k
      /\ \A i \in 1..k : recv_buffer'[i] = stream[i]
  BY <1>1, <1>2, <1>3 DEF FirstChunk
<1>5. UNCHANGED <<collecting, peer, sent, client_cmd_socket>>
  BY <1>1 DEF FirstChunk, Received, GetResponseOk, StayConnected
<1>6. /\ Len(stream') = Len(stream) - k
      /\ \A i \in 1..Len(stream') : stream'[i] = stream[i + k]
      /\ Unread' = (IF k < Unread THEN Unread - k ELSE 0)
      /\ Unread' < Len(stream') => Unread < Len(stream)
                                   /\ stream'[Len(stream')] = stream[Len(stream)]
  BY <1>1, <1>3, UnreadTaken
<1>7. Unread \in Nat /\ Unread <= Len(stream)
  BY UnreadIsLength
<1>8. StreamInv'
  <2>1. \A i \in 1..Len(stream') : ~stream'[i].multi
    <3>1. SUFFICES ASSUME NEW i \in 1..Len(stream') PROVE ~stream'[i].multi
      OBVIOUS
    <3>2. i + k \in 1..Len(stream) /\ stream'[i] = stream[i + k]
      BY <1>2, <1>3, <1>6
    <3>3. QED
      BY <3>2 DEF StreamInv
  <2>2. \A i \in 1..Unread' : stream'[i].of = sent' /\ sent' > 0
    <3>1. SUFFICES ASSUME NEW i \in 1..Unread'
                   PROVE  stream'[i].of = sent' /\ sent' > 0
      OBVIOUS
    <3>2. i + k \in 1..Unread /\ i \in 1..Len(stream')
      BY <1>2, <1>3, <1>6, <1>7
    <3>3. QED
      BY <1>5, <1>6, <3>2 DEF StreamInv
  <2>3. Unread' < Len(stream') => peer' # "up" /\ stream'[Len(stream')].code = 421
    BY <1>5, <1>6 DEF StreamInv
  <2>4. client_cmd_socket' # Closed
    <3>1. stream # <<>>
      BY <1>2, <1>3
    <3>2. QED
      BY <1>5, <3>1 DEF StreamInv
  <2>5. QED
    BY <1>5, <2>1, <2>2, <2>3, <2>4 DEF StreamInv
<1>9. Unread = 0 => peer # "up"
  BY <1>2, <1>3 DEF StreamInv
<1>10. toServer = <<>>
  <2>1. toServer # <<>> => Unread = 0 /\ peer = "up"
    BY DEF RequestInv
  <2>2. QED
    BY <1>9, <2>1
<1>11. QED
  BY <1>3, <1>4, <1>5, <1>6, <1>8, <1>9, <1>10

\* A wait fails only when nothing is there and nothing is coming.
LEMMA FailedStream ==
  ASSUME TypeOK, StreamInv, TimelyServer, FailedKeeping, StayConnected
  PROVE  /\ StreamInv' /\ stream = <<>> /\ Unread = 0 /\ Unread' = 0
         /\ peer' = "up" <=> peer = "up"
         /\ peer = "up" => ~ReplyComing
<1>1. "late" \notin Faults
  BY DEF TimelyServer
<1>2. stream = <<>> /\ (peer = "up" => ~ReplyComing) /\ collecting' = FALSE
  BY <1>1 DEF FailedKeeping, GetResponseFails, StreamInv
<1>3. UNCHANGED <<stream, sent, client_cmd_socket>>
      /\ peer' = (IF peer = "rst" THEN "dead" ELSE peer)
  BY <1>2 DEF FailedKeeping, LeaveAfterFailure, StayConnected
<1>4. collecting' = collecting
  <2>1. collecting \in BOOLEAN /\ ~collecting
    BY DEF StreamInv, TypeOK, ConnectionTypeOK, ControlTypeOK
  <2>2. QED
    BY <1>2, <2>1
<1>5. QED
  BY <1>2, <1>3, <1>4, StreamKept, UnreadIsLength

\* Hanging up leaves nothing.
LEMMA HungUp ==
  ASSUME HangUp
  PROVE  /\ Unread' = 0 /\ toServer' = <<>> /\ job'.kind = "none" /\ accepted' = 0
         /\ collecting' = FALSE => StreamInv'
<1>1. stream' = <<>> /\ peer' = "none"
  BY DEF HangUp, CloseCmdSocket
<1>2. QED
  BY <1>1, StreamEmptied, UnreadNothing DEF HangUp, CloseCmdSocket, ForgetSession, NoJob

LEMMA FailedCollecting ==
  ASSUME NEW coming, GetResponseFails(coming) PROVE collecting' = FALSE
  BY DEF GetResponseFails

-----------------------------------------------------------------------------
(* Where nothing is owed.                                                   *)

LEMMA NothingOwed ==
  ASSUME TurnsInv,
         pc \in UserCalls \cup {"dispatch", "connect", "exited", "dataconn",
                               "request", "retr"}
  PROVE  /\ ~(Unread > 0) /\ toServer = <<>> /\ job.kind = "none"
         /\ accepted # 0 => pc \in {"request", "retr"}
  BY DEF TurnsInv, RequestInv, JobInv, TurnInv, DataInv, Awaiting, UserCalls

LEMMA AtRest ==
  ASSUME Unread' = 0, toServer' = <<>>, job'.kind = "none", accepted' = 0,
         pc' \in UserCalls \cup {"dispatch", "connect", "exited"},
         pc' = "connect" => client_cmd_socket' = Closed
  PROVE  TurnsInv'
  BY DEF TurnsInv, RequestInv, JobInv, TurnInv, DataInv, CompletionInv, Awaiting,
         UserCalls, TransferCalls

\* The program stays, or goes on, where nothing is owed.
LEMMA QuietKept ==
  ASSUME StreamInv, TurnsInv, pc \in UserCalls \cup {"dispatch", "connect", "dataconn"},
         UNCHANGED <<stream, collecting, sent, client_cmd_socket, toServer, job, accepted>>,
         peer = "none" => peer' = "none", peer # "up" => peer' # "up",
         pc' \in UserCalls \cup {"dispatch", "connect", "exited"},
         pc' = "connect" => client_cmd_socket = Closed, Unread \in Nat
  PROVE  StreamInv' /\ TurnsInv'
<1>1. Unread = 0 /\ toServer = <<>> /\ job.kind = "none" /\ accepted = 0
  BY NothingOwed DEF UserCalls
<1>2. StreamInv' /\ Unread' = Unread
  BY StreamKept
<1>3. QED
  BY <1>1, <1>2, AtRest

\* It hangs up.
LEMMA QuietHungUp ==
  ASSUME HangUp, collecting' = FALSE, pc' \in UserCalls \cup {"dispatch", "connect", "exited"}
  PROVE  StreamInv' /\ TurnsInv'
<1>1. client_cmd_socket' = Closed
  BY DEF HangUp, CloseCmdSocket
<1>2. QED
  BY <1>1, HungUp, AtRest

\* A command is sent where nothing is owed.
LEMMA SentTurns ==
  ASSUME TypeOK, StreamInv, NEW verb \in Verbs, SendOk(verb), UNCHANGED collecting,
         Unread = 0, toServer = <<>>, job.kind = "none", job' = job,
         pc' \in Awaiting \ {"complete"}, verb \in TransferVerbs <=> pc' = "xfer",
         verb = "QUIT" => pc' = "quit",
         pc' = "xfer" => verb = (CASE cmd' = "PUT" -> "STOR"
                                   [] cmd' = "LS"  -> "LIST"
                                   [] OTHER        -> "RETR")
  PROVE  /\ StreamInv' /\ RequestInv' /\ JobInv' /\ TurnInv' /\ CompletionInv'
         /\ peer' = "up" => peer = "up" /\ toServer' # <<>>
<1>1. Unread' = 0 /\ stream' = stream
  BY UnreadSame DEF SendOk
<1>2. sent \in Nat /\ sent' = sent + 1
  BY DEF SendOk, TypeOK, ConnectionTypeOK, ControlTypeOK
<1>3. sent' > 0
  BY <1>2
<1>4. \/ /\ peer = "up" /\ peer' = "up"
         /\ toServer' = <<[of |-> sent', verb |-> verb]>>
      \/ peer = "fin" /\ peer' \in {"fin", "rst"} /\ toServer' = <<>>
  <2>1. toServer' = Append(<<>>, [of |-> sent', verb |-> verb]) \/ peer # "up"
    BY <1>2 DEF SendOk
  <2>2. QED
    BY <2>1 DEF SendOk
<1>5. StreamInv'
  BY <1>1, <1>4 DEF StreamInv, SendOk
<1>6. toServer' # <<>> =>
        /\ Len(toServer') = 1 /\ toServer'[1].of = sent' /\ toServer'[1].verb = verb
        /\ peer' = "up"
  BY <1>4
<1>7. RequestInv'
  BY <1>1, <1>3, <1>6 DEF RequestInv
<1>8. peer' = "up" => peer = "up" /\ toServer' # <<>>
  BY <1>4
<1>9. JobInv'
  BY DEF JobInv
<1>10. TurnInv' /\ CompletionInv'
  BY <1>1, <1>8 DEF TurnInv, CompletionInv, Awaiting
<1>11. QED
  BY <1>5, <1>7, <1>8, <1>9, <1>10

\* A reply other than that to a request for a transfer leaves nothing owed.
LEMMA ReceivedTurns ==
  ASSUME TypeOK, StreamInv, TurnsInv, Received, StayConnected,
         pc \in Awaiting \ {"xfer", "complete"}
  PROVE  /\ StreamInv' /\ Unread' = 0 /\ toServer' = <<>> /\ job'.kind = "none"
         /\ accepted' = accepted /\ (accepted # 0 => pc = "size")
         /\ peer' = peer
<1>1. Unread \in Nat /\ Len(stream) \in Nat /\ ~(Unread > 1)
  BY UnreadIsLength DEF TurnsInv, TurnInv
<1>2. job.kind = "none"
  BY DEF TurnsInv, JobInv, Awaiting
<1>3. UNCHANGED <<toServer, job, accepted>>
  BY DEF StayConnected, serverVars
<1>4. StreamInv' /\ toServer = <<>> /\ peer' = peer
  BY ReceivedStream DEF TurnsInv
<1>5. PICK k \in 1..Len(stream) : Unread' = (IF k < Unread THEN Unread - k ELSE 0)
  BY ReceivedStream DEF TurnsInv
<1>6. Unread' = 0
  BY <1>1, <1>5
<1>7. accepted # 0 => pc = "size"
  BY DEF TurnsInv, DataInv, Awaiting
<1>8. QED
  BY <1>2, <1>3, <1>4, <1>6, <1>7

\* A wait for a reply to a command fails only with the connection.
LEMMA FailedTurns ==
  ASSUME TypeOK, StreamInv, TurnsInv, TimelyServer, FailedKeeping, StayConnected,
         pc \in Awaiting \ {"complete"}
  PROVE  /\ StreamInv' /\ Unread' = 0 /\ toServer' = <<>> /\ job'.kind = "none"
         /\ accepted' = 0 /\ peer # "up"
<1>1. StreamInv' /\ Unread = 0 /\ Unread' = 0 /\ (peer = "up" => ~ReplyComing)
  BY FailedStream
<1>2. peer # "up"
  <2>1. SUFFICES ASSUME peer = "up" PROVE FALSE
    OBVIOUS
  <2>2. toServer # <<>> /\ job.kind = "none"
    BY <1>1, <2>1 DEF TurnsInv, TurnInv, RequestInv
  <2>3. QED
    BY <1>1, <2>1, <2>2 DEF ReplyComing
<1>3. toServer = <<>> /\ job.kind = "none" /\ accepted = 0
  BY <1>2 DEF TurnsInv, RequestInv, JobInv, DataInv
<1>4. QED
  BY <1>1, <1>2, <1>3 DEF StayConnected, serverVars

-----------------------------------------------------------------------------
(* Connecting and logging in.                                               *)

LEMMA NotCollecting ==
  ASSUME TypeOK, StreamInv PROVE collecting = FALSE /\ Unread \in Nat
<1>1. collecting \in BOOLEAN /\ ~collecting
  BY DEF StreamInv, TypeOK, ConnectionTypeOK, ControlTypeOK
<1>2. QED
  BY <1>1, UnreadIsLength

\* A wait that fails, the caller hanging up, leaves nothing.
LEMMA FailedQuiet ==
  ASSUME FailedHangingUp, pc' \in UserCalls \cup {"exited"}
  PROVE  StreamInv' /\ TurnsInv'
BY FailedCollecting, QuietHungUp DEF FailedHangingUp

LEMMA DialogueConnect ==
  ASSUME TypeOK, StreamInv, TurnsInv, Connect
  PROVE  StreamInv' /\ TurnsInv'
<1>1. /\ stream' = <<>> /\ peer' = "up" /\ pc' = "greeting" /\ collecting' = FALSE
      /\ sent' = sent + 1 /\ toServer' = <<[of |-> sent', verb |-> "CONNECT"]>>
      /\ client_cmd_socket' # Closed /\ accepted' = 0 /\ job' = NoJob
  BY NotCollecting
  DEF Connect, ConnectTo, ForgetSession, Goto, Closed, Descriptor
<1>2. sent' > 0
  BY <1>1 DEF TypeOK, ConnectionTypeOK, ControlTypeOK
<1>3. StreamInv' /\ Unread' = 0
  BY <1>1, StreamEmptied
<1>4. /\ toServer' # <<>> /\ Len(toServer') = 1
      /\ toServer'[1].of = sent' /\ toServer'[1].verb = "CONNECT"
  BY <1>1
<1>5. RequestInv'
  BY <1>1, <1>2, <1>3, <1>4 DEF RequestInv, Awaiting, TransferVerbs, NoJob
<1>6. JobInv'
  BY <1>1 DEF JobInv, NoJob
<1>7. TurnInv' /\ DataInv' /\ CompletionInv'
  BY <1>1, <1>3, <1>4
  DEF TurnInv, DataInv, CompletionInv, Awaiting, TransferCalls
<1>8. QED
  BY <1>3, <1>5, <1>6, <1>7 DEF TurnsInv

LEMMA DialogueConnectFails ==
  ASSUME TypeOK, StreamInv, TurnsInv, ConnectFails
  PROVE  StreamInv' /\ TurnsInv'
<1>1. pc = "connect" /\ pc' \in {"exited", "prompt"}
  BY DEF ConnectFails, LeaveLogin, Goto, Return
<1>2. UNCHANGED <<controlVars, serverVars>>
  BY DEF ConnectFails
<1>3. QED
  BY <1>1, <1>2, NotCollecting, QuietKept DEF controlVars, serverVars, UserCalls

\* A reply after which the user is asked something.
LEMMA ReceivedQuiet ==
  ASSUME TypeOK, StreamInv, TurnsInv, Received, StayConnected,
         pc \in Awaiting \ {"size", "xfer", "complete"}, pc' \in UserCalls
  PROVE  StreamInv' /\ TurnsInv'
<1>1. /\ StreamInv' /\ Unread' = 0 /\ toServer' = <<>> /\ job'.kind = "none"
      /\ accepted' = 0
  BY ReceivedTurns
<1>2. QED
  BY <1>1, AtRest DEF UserCalls

LEMMA DialogueReceive ==
  ASSUME TypeOK, StreamInv, TurnsInv, Greeting \/ UserReply \/ PassReply
  PROVE  StreamInv' /\ TurnsInv'
<1>1. pc \in Awaiting \ {"size", "xfer", "complete"}
  BY DEF Greeting, UserReply, PassReply, Awaiting
<1>2. \/ Received /\ StayConnected /\ pc' \in UserCalls
      \/ LoginReceiveFails
  BY DEF Greeting, UserReply, PassReply, GotoConnected, ReturnConnected, Goto,
         Return, UserCalls
<1>3. LoginReceiveFails => FailedHangingUp /\ pc' \in UserCalls \cup {"exited"}
  BY DEF LoginReceiveFails, LeaveLogin, Goto, Return, UserCalls
<1>4. QED
  BY <1>1, <1>2, <1>3, ReceivedQuiet, FailedQuiet

\* A command other than a request for a transfer goes out.
LEMMA SentElsewhere ==
  ASSUME TypeOK, StreamInv, TurnsInv, NEW verb \in Verbs \ (TransferVerbs \cup {"QUIT"}),
         NEW call \in Awaiting \ (TransferCalls \cup {"complete"}),
         SendThenAwait(verb, call), pc \in UserCalls \cup {"dispatch"}
  PROVE  StreamInv' /\ TurnsInv'
<1>1. Unread = 0 /\ toServer = <<>> /\ job.kind = "none" /\ accepted = 0
  BY NothingOwed, NotCollecting DEF UserCalls
<1>2. SendOk(verb) /\ pc' = call /\ UNCHANGED <<collecting, job, accepted>>
  BY DEF SendThenAwait, Goto, serverVars
<1>3. StreamInv' /\ RequestInv' /\ JobInv' /\ TurnInv' /\ CompletionInv'
  BY <1>1, <1>2, SentTurns DEF TransferCalls
<1>4. DataInv'
  BY <1>1, <1>2 DEF DataInv, Awaiting, TransferCalls
<1>5. QED
  BY <1>3, <1>4 DEF TurnsInv

LEMMA DialogueAnswer ==
  ASSUME TypeOK, StreamInv, TurnsInv, Username \/ Password
  PROVE  StreamInv' /\ TurnsInv'
<1>1. pc \in UserCalls
  BY DEF Username, Password, UserAnswers, UserCalls
<1>2. \/ SendThenAwait("USER", "user")
      \/ SendThenAwait("PASS", "pass")
      \/ HangUp /\ UNCHANGED collecting /\ pc' \in UserCalls \cup {"exited"}
  BY DEF Username, Password, UserAnswers, LeaveLogin, Goto, Return, UserCalls
<1>3. /\ {"USER", "PASS"} \subseteq Verbs \ (TransferVerbs \cup {"QUIT"})
      /\ "user" \in Awaiting \ (TransferCalls \cup {"complete"})
      /\ "pass" \in Awaiting \ (TransferCalls \cup {"complete"})
  BY DEF Verbs, TransferVerbs, Awaiting, TransferCalls
<1>4. QED
  BY <1>1, <1>2, <1>3, SentElsewhere, QuietHungUp, NotCollecting

-----------------------------------------------------------------------------
(* The command loop.                                                        *)

LEMMA DialogueReadCommand ==
  ASSUME TypeOK, StreamInv, TurnsInv, NEW c \in Commands, ReadCommand(c)
  PROVE  StreamInv' /\ TurnsInv'
<1>1. pc = "prompt" /\ (Refuse(c) \/ Accept(c))
  BY DEF ReadCommand
<1>2. CASE Refuse(c)
  <2>1. UNCHANGED <<controlVars, serverVars, pc>>
    BY <1>2 DEF Refuse
  <2>2. QED
    BY <1>1, <2>1, NotCollecting, QuietKept DEF controlVars, serverVars, UserCalls
<1>3. CASE Accept(c) /\ HangUp
  BY <1>3, NotCollecting, QuietHungUp DEF Accept
<1>4. CASE Accept(c) /\ ~HangUp
  <2>1. /\ pc' = "dispatch" /\ StayConnected /\ UNCHANGED <<stream, collecting>>
        /\ PeekConsumesError \/ UNCHANGED peer
    BY <1>4 DEF Accept
  <2>2. (peer = "none" => peer' = "none") /\ (peer # "up" => peer' # "up")
    BY <2>1 DEF PeekConsumesError
  <2>3. QED
    BY <1>1, <2>1, <2>2, NotCollecting, QuietKept
    DEF StayConnected, serverVars, UserCalls
<1>5. QED
  BY <1>1, <1>2, <1>3, <1>4

LEMMA DialogueReturn ==
  ASSUME TypeOK, StreamInv, TurnsInv, ReturnAtOnce \/ NoDataSocket \/ DataConnectFails
  PROVE  StreamInv' /\ TurnsInv'
<1>1. pc \in {"dispatch", "dataconn"} /\ pc' = "prompt" /\ StayConnected /\ NoControlIO
  BY DEF ReturnAtOnce, NoDataSocket, DataConnectFails, ReturnConnected, Return
<1>2. QED
  BY <1>1, NotCollecting, QuietKept
  DEF StayConnected, NoControlIO, serverVars, UserCalls

LEMMA DialogueSendFails ==
  ASSUME TypeOK, StreamInv, TurnsInv, SendFailsThenReturn,
         pc \in {"dispatch", "request", "retr"}
  PROVE  StreamInv' /\ TurnsInv'
<1>1. /\ pc' = "prompt" /\ collecting' = FALSE
      /\ accepted' = 0 /\ job'.kind = "none"
  BY NotCollecting DEF SendFailsThenReturn, Return, ForgetSession, NoJob
<1>2. stream' = <<>> /\ toServer' = <<>> /\ peer' = "none"
  <2>1. CASE client_cmd_socket = Closed
    BY <2>1, NothingOwed
    DEF SendFailsThenReturn, SendFails, StreamInv
  <2>2. CASE client_cmd_socket # Closed
    BY <2>2 DEF SendFailsThenReturn, SendFails, CloseCmdSocket
  <2>3. QED
    BY <2>1, <2>2
<1>3. StreamInv' /\ Unread' = 0
  BY <1>1, <1>2, StreamEmptied
<1>4. QED
  BY <1>1, <1>2, <1>3, AtRest DEF UserCalls

LEMMA DialogueSimple ==
  ASSUME TypeOK, StreamInv, TurnsInv, TimelyServer, SimpleCommand \/ SimpleReply
  PROVE  StreamInv' /\ TurnsInv'
<1>1. CASE SimpleCommand
  <2>1. pc = "dispatch" /\ cmd \in SimpleCommands
        /\ (SendThenAwait(VerbOf(cmd), "simple") \/ SendFailsThenReturn)
    BY <1>1 DEF SimpleCommand
  <2>2. VerbOf(cmd) \in Verbs \ (TransferVerbs \cup {"QUIT"})
    BY DEF VerbOf, Verbs, TransferVerbs
  <2>3. "simple" \in Awaiting \ (TransferCalls \cup {"complete"})
    BY DEF Awaiting, TransferCalls
  <2>4. QED
    BY <2>1, <2>2, <2>3, SentElsewhere, DialogueSendFails
<1>2. CASE SimpleReply
  <2>1. pc = "simple" /\ pc' = "prompt" /\ StayConnected /\ (Received \/ FailedKeeping)
    BY <1>2 DEF SimpleReply, ReturnConnected, Return
  <2>2. pc \in Awaiting \ {"size", "xfer", "complete"} /\ pc' \in UserCalls
    BY <2>1 DEF Awaiting, UserCalls
  <2>3. CASE Received
    BY <2>1, <2>2, <2>3, ReceivedQuiet
  <2>4. CASE FailedKeeping
    BY <2>1, <2>2, <2>4, FailedTurns, AtRest
  <2>5. QED
    BY <2>1, <2>3, <2>4
<1>3. QED
  BY <1>1, <1>2

LEMMA DialogueOpen ==
  ASSUME TypeOK, StreamInv, TurnsInv, FlagAndSocketAgree, OpenCommand
  PROVE  StreamInv' /\ TurnsInv'
<1>1. pc = "dispatch" /\ pc' \in {"connect", "prompt"} /\ UNCHANGED collecting
  BY DEF OpenCommand, Goto, Return
<1>2. CASE server_connected
  BY <1>1, <1>2, NotCollecting, QuietHungUp DEF OpenCommand, UserCalls
<1>3. CASE ~server_connected
  <2>1. client_cmd_socket = Closed
    BY <1>3 DEF FlagAndSocketAgree
  <2>2. StayConnected /\ UNCHANGED <<peer, stream>>
    BY <1>3 DEF OpenCommand
  <2>3. QED
    BY <1>1, <2>1, <2>2, NotCollecting, QuietKept
    DEF StayConnected, serverVars, UserCalls
<1>4. QED
  BY <1>2, <1>3

LEMMA DialogueExit ==
  ASSUME TypeOK, StreamInv, TurnsInv, Exit
  PROVE  StreamInv' /\ TurnsInv'
<1>1. pc \in {"dispatch", "prompt"} /\ ExitCmd
  BY DEF Exit
<1>2. CASE ~server_connected
  <2>1. pc' = "exited" /\ UNCHANGED <<controlVars, serverVars>>
    BY <1>1, <1>2 DEF ExitCmd
  <2>2. QED
    BY <1>1, <2>1, NotCollecting, QuietKept DEF controlVars, serverVars, UserCalls
<1>3. CASE HangUp /\ pc' = "exited" /\ UNCHANGED collecting
  BY <1>3, NotCollecting, QuietHungUp
<1>4. CASE SendOk("QUIT") /\ pc' = "quit" /\ collecting' = FALSE /\ UNCHANGED serverVars
  <2>1. Unread = 0 /\ toServer = <<>> /\ job.kind = "none" /\ accepted = 0
    BY <1>1, NothingOwed, NotCollecting DEF UserCalls
  <2>2. UNCHANGED <<collecting, job, accepted>>
    BY <1>4, NotCollecting DEF serverVars
  <2>3. "QUIT" \in Verbs /\ "QUIT" \notin TransferVerbs
    BY DEF Verbs, TransferVerbs
  <2>4. StreamInv' /\ RequestInv' /\ JobInv' /\ TurnInv' /\ CompletionInv'
    BY <1>4, <2>1, <2>2, <2>3, SentTurns DEF Awaiting
  <2>5. DataInv'
    BY <1>4, <2>1, <2>2 DEF DataInv, TransferCalls
  <2>6. QED
    BY <2>4, <2>5 DEF TurnsInv
<1>5. QED
  BY <1>1, <1>2, <1>3, <1>4 DEF ExitCmd

LEMMA DialogueQuit ==
  ASSUME TypeOK, StreamInv, QuitReply
  PROVE  StreamInv' /\ TurnsInv'
<1>1. HangUp /\ pc' = "exited"
  BY DEF QuitReply, Goto
<1>2. collecting' = FALSE
  <2>1. (\E k \in ChunkSizes : FirstChunk(k)) => UNCHANGED collecting
    BY DEF FirstChunk
  <2>2. QED
    BY <2>1, NotCollecting, FailedCollecting DEF QuitReply
<1>3. QED
  BY <1>1, <1>2, QuietHungUp

-----------------------------------------------------------------------------
(* The data connection, up to the request for the transfer.                 *)

LEMMA DialoguePassive ==
  ASSUME TypeOK, StreamInv, TurnsInv, EnterPassiveMode
  PROVE  StreamInv' /\ TurnsInv'
<1>1. pc = "dispatch" /\ cmd \in TransferCommands
  BY DEF EnterPassiveMode
<1>2. CASE HangUp /\ Return /\ UNCHANGED collecting
  BY <1>2, NotCollecting, QuietHungUp DEF Return, UserCalls
<1>3. CASE SendThenAwait("PASV", "pasv") /\ data_eof' = FALSE
  <2>1. Unread = 0 /\ toServer = <<>> /\ job.kind = "none" /\ accepted = 0
    BY <1>1, NothingOwed, NotCollecting
  <2>2. SendOk("PASV") /\ pc' = "pasv" /\ cmd' = cmd
        /\ UNCHANGED <<collecting, job, accepted>>
    BY <1>3 DEF SendThenAwait, Goto, serverVars
  <2>3. "PASV" \in Verbs /\ "PASV" \notin TransferVerbs
    BY DEF Verbs, TransferVerbs
  <2>4. StreamInv' /\ RequestInv' /\ JobInv' /\ TurnInv' /\ CompletionInv'
    BY <2>1, <2>2, <2>3, SentTurns DEF Awaiting
  <2>5. DataInv'
    BY <1>1, <1>3, <2>1, <2>2 DEF DataInv
  <2>6. QED
    BY <2>4, <2>5 DEF TurnsInv
<1>4. QED
  BY <1>2, <1>3 DEF EnterPassiveMode

\* Within a transfer, between two calls, nothing is owed.
LEMMA BetweenCalls ==
  ASSUME Unread' = 0, toServer' = <<>>, job'.kind = "none",
         pc' \in {"dataconn", "request", "retr"}
  PROVE  RequestInv' /\ JobInv' /\ TurnInv' /\ CompletionInv'
BY DEF RequestInv, JobInv, TurnInv, CompletionInv, Awaiting

LEMMA DialoguePasvReply ==
  ASSUME TypeOK, StreamInv, TurnsInv, PasvReply
  PROVE  StreamInv' /\ TurnsInv'
<1>1. pc = "pasv"
  BY DEF PasvReply
<1>2. CASE FailedHangingUp /\ Return
  BY <1>2, FailedQuiet DEF Return, UserCalls
<1>3. CASE Received /\ ReturnConnected
  BY <1>1, <1>3, ReceivedQuiet DEF ReturnConnected, Return, UserCalls, Awaiting
<1>4. CASE Received /\ GotoConnected("dataconn") /\ UNCHANGED dataVars
  <2>1. pc' = "dataconn" /\ cmd' = cmd /\ StayConnected /\ UNCHANGED data_eof
    BY <1>4 DEF GotoConnected, Goto, dataVars
  <2>2. /\ StreamInv' /\ Unread' = 0 /\ toServer' = <<>> /\ job'.kind = "none"
        /\ accepted' = 0 /\ peer' = peer
    BY <1>1, <1>4, <2>1, ReceivedTurns DEF Awaiting
  <2>3. RequestInv' /\ JobInv' /\ TurnInv' /\ CompletionInv'
    BY <2>1, <2>2, BetweenCalls
  <2>4. DataInv'
    BY <1>1, <2>1, <2>2 DEF TurnsInv, DataInv, TransferCalls
  <2>5. QED
    BY <2>2, <2>3, <2>4 DEF TurnsInv
<1>5. QED
  BY <1>2, <1>3, <1>4 DEF PasvReply

LEMMA DialogueDataConnect ==
  ASSUME TypeOK, StreamInv, TurnsInv, DataConnect
  PROVE  StreamInv' /\ TurnsInv'
<1>1. /\ pc = "dataconn" /\ peer = "up" /\ accepted' = data_socket /\ pc' = "request"
      /\ cmd' = cmd
      /\ UNCHANGED <<client_cmd_socket, sent, toServer, job, collecting, peer, stream,
                     data_socket, data_eof>>
  BY DEF DataConnect, PortIsOpen, Goto, NoControlIO, dataVars
<1>2. Unread = 0 /\ toServer = <<>> /\ job.kind = "none"
  BY <1>1, NothingOwed, NotCollecting
<1>3. StreamInv' /\ Unread' = Unread
  BY <1>1, StreamKept
<1>4. RequestInv' /\ JobInv' /\ TurnInv' /\ CompletionInv'
  BY <1>1, <1>2, <1>3, BetweenCalls
<1>5. DataInv'
  BY <1>1 DEF TurnsInv, DataInv, TransferCalls
<1>6. QED
  BY <1>3, <1>4, <1>5 DEF TurnsInv

LEMMA DialogueSendRequest ==
  ASSUME TypeOK, StreamInv, TurnsInv, SendRequest
  PROVE  StreamInv' /\ TurnsInv'
<1>1. /\ pc \in {"request", "retr"} /\ cmd \in TransferCommands
      /\ SendFailsThenReturn \/ UNCHANGED dataVars
  BY DEF SendRequest, TurnsInv, DataInv, TransferCalls
<1>2. CASE SendFailsThenReturn
  BY <1>1, <1>2, DialogueSendFails
<1>3. CASE ~SendFailsThenReturn
  <2>1. PICK verb \in Verbs, call \in {"size", "xfer"} :
          /\ SendThenAwait(verb, call)
          /\ verb \in TransferVerbs <=> call = "xfer"
          /\ verb # "QUIT"
          /\ call = "xfer" => verb = (CASE cmd = "PUT" -> "STOR"
                                        [] cmd = "LS"  -> "LIST"
                                        [] OTHER       -> "RETR")
    <3>1. /\ {"STOR", "LIST", "RETR", "SIZE"} \subseteq Verbs
          /\ {"STOR", "LIST", "RETR"} \subseteq TransferVerbs
          /\ "SIZE" \notin TransferVerbs
      BY DEF Verbs, TransferVerbs
    <3>2. CASE cmd = "PUT" /\ SendThenAwait("STOR", "xfer")
      BY <3>1, <3>2
    <3>3. CASE cmd = "LS" /\ SendThenAwait("LIST", "xfer")
      BY <3>1, <3>3
    <3>4. CASE cmd = "GET" /\ SendThenAwait("RETR", "xfer")
      BY <3>1, <3>4
    <3>5. CASE SendThenAwait("SIZE", "size")
      BY <3>1, <3>5
    <3>6. \/ cmd = "PUT" /\ SendThenAwait("STOR", "xfer")
          \/ cmd = "LS" /\ SendThenAwait("LIST", "xfer")
          \/ cmd = "GET" /\ SendThenAwait("RETR", "xfer")
          \/ SendThenAwait("SIZE", "size")
      BY <1>3 DEF SendRequest
    <3>7. QED
      BY <3>2, <3>3, <3>4, <3>5, <3>6
  <2>2. Unread = 0 /\ toServer = <<>> /\ job.kind = "none"
    BY <1>1, <1>3, NothingOwed, NotCollecting
  <2>3. SendOk(verb) /\ pc' = call /\ cmd' = cmd
        /\ UNCHANGED <<collecting, job, accepted>>
    BY <2>1 DEF SendThenAwait, Goto, serverVars
  <2>4. /\ StreamInv' /\ RequestInv' /\ JobInv' /\ TurnInv' /\ CompletionInv'
        /\ peer' = "up" => peer = "up" /\ toServer' # <<>>
    BY <2>1, <2>2, <2>3, SentTurns DEF Awaiting
  <2>5. peer = "up" => peer' = "up"
    BY <2>3 DEF SendOk
  <2>6. UNCHANGED <<data_socket, data_eof>>
    BY <1>1, <1>3 DEF dataVars
  <2>7. DataInv'
    BY <1>1, <1>3, <2>3, <2>4, <2>5, <2>6 DEF TurnsInv, DataInv, TransferCalls
  <2>8. QED
    BY <2>4, <2>7 DEF TurnsInv
<1>4. QED
  BY <1>2, <1>3

LEMMA DialogueSizeReply ==
  ASSUME TypeOK, StreamInv, TurnsInv, TimelyServer, SizeReply
  PROVE  StreamInv' /\ TurnsInv'
<1>1. pc = "size" /\ StayConnected
  BY DEF SizeReply, GotoConnected, ReturnConnected
<1>2. CASE FailedKeeping /\ pc' = "prompt"
  BY <1>1, <1>2, FailedTurns, AtRest DEF Awaiting, UserCalls
<1>3. CASE Received /\ pc' = "retr" /\ cmd' = cmd /\ UNCHANGED <<data_socket, data_eof>>
  <2>1. /\ StreamInv' /\ Unread' = 0 /\ toServer' = <<>> /\ job'.kind = "none"
        /\ accepted' = accepted /\ peer' = peer
    BY <1>1, <1>3, ReceivedTurns DEF Awaiting
  <2>2. RequestInv' /\ JobInv' /\ TurnInv' /\ CompletionInv'
    BY <1>3, <2>1, BetweenCalls
  <2>3. DataInv'
    BY <1>1, <1>3, <2>1 DEF TurnsInv, DataInv, TransferCalls
  <2>4. QED
    BY <2>1, <2>2, <2>3 DEF TurnsInv
<1>4. QED
  BY <1>2, <1>3
  DEF SizeReply, GotoConnected, ReturnConnected, Goto, Return, dataVars, CloseData

-----------------------------------------------------------------------------
(* The transfer: its reply, the fork, and the two waits after it.           *)

LEMMA DialogueTransferReply ==
  ASSUME TypeOK, StreamInv, TurnsInv, TimelyServer, TransferReply
  PROVE  StreamInv' /\ TurnsInv'
<1>1. pc = "xfer" /\ StayConnected
  BY DEF TransferReply, GotoConnected, ReturnConnected
<1>2. CASE FailedKeeping /\ pc' = "prompt"
  BY <1>1, <1>2, FailedTurns, AtRest DEF Awaiting, UserCalls
<1>3. CASE Received
  <2>1. StreamInv' /\ toServer = <<>> /\ peer' = peer
    BY <1>1, <1>3, ReceivedStream DEF TurnsInv
  <2>2. PICK k \in 1..Len(stream) :
          /\ recv_buffer' = SubSeq(stream, 1, k) /\ Len(recv_buffer') = k
          /\ \A i \in 1..k : recv_buffer'[i] = stream[i]
          /\ Unread' = (IF k < Unread THEN Unread - k ELSE 0)
    BY <1>1, <1>3, ReceivedStream DEF TurnsInv
  <2>3. Unread \in Nat /\ Len(stream) \in Nat /\ Unread <= Len(stream)
    BY UnreadIsLength
  <2>4. UNCHANGED <<sent, toServer, job, accepted>>
    BY <1>1 DEF StayConnected, serverVars
  <2>5. accepted = 0
    BY <1>1, <2>1 DEF TurnsInv, DataInv
  <2>6. recv_buffer'[1] = stream[1] /\ recv_buffer' # <<>>
    BY <2>2, <2>3, LenProperties
  <2>7. Unread > 1 => /\ Unread = 2 /\ cmd # "PUT"
                      /\ stream[1].code = 150 /\ stream[2].code \in {226, 426}
    BY DEF TurnsInv, TurnInv
  <2>8. job.kind # "none" => peer = "up" /\ Unread = 1 /\ stream[1].code = 150
    BY <1>1 DEF TurnsInv, JobInv
  <2>9. peer = "up" => Unread = Len(stream)
    BY UnreadWhileUp
  <2>10. CASE pc' = "prompt" /\ ~RespondWithCode(recv_buffer', 150)
    <3>1. stream[1].code # 150
      BY <2>6, <2>10 DEF RespondWithCode
    <3>2. Unread' = 0 /\ job.kind = "none"
      BY <2>2, <2>3, <2>7, <2>8, <3>1
    <3>3. QED
      BY <2>1, <2>4, <2>5, <2>10, <3>2, AtRest DEF UserCalls
  <2>11. CASE /\ pc' = "fork" /\ cmd' = cmd /\ RespondWithCode(recv_buffer', 150)
              /\ UNCHANGED <<data_socket, data_eof>>
    <3>1. stream[1].code = 150
      BY <2>6, <2>11 DEF RespondWithCode
    <3>2. Unread' \in {0, 1} /\ (cmd = "PUT" => Unread' = 0)
      BY <2>2, <2>3, <2>7
    <3>3. RequestInv'
      BY <2>1, <2>4 DEF RequestInv
    <3>4. job.kind # "none" => Unread' = 0 /\ k = 1
      BY <2>2, <2>3, <2>8, <2>9
    <3>5. JobInv'
      BY <1>1, <2>1, <2>4, <2>11, <3>4 DEF TurnsInv, JobInv
    <3>6. RespondExistsCode(recv_buffer', 226) => Unread' = 0 /\ job.kind = "none"
      <4>1. RespondExistsCode(recv_buffer', 226) => k > 1
        BY <2>2 DEF RespondExistsCode
      <4>2. QED
        BY <2>2, <2>3, <2>7, <3>4, <4>1
    <3>7. TurnInv'
      BY <2>4, <2>11, <3>2, <3>6 DEF TurnInv, Awaiting
    <3>8. DataInv'
      BY <1>1, <2>4, <2>5, <2>11 DEF TurnsInv, DataInv, TransferCalls
    <3>9. peer = "up" /\ Unread' = 0 /\ job.kind = "none" =>
            /\ cmd # "PUT"
            /\ RespondExistsCode(recv_buffer', 226) \/ RespondExistsCode(recv_buffer', 426)
      <4>1. SUFFICES ASSUME peer = "up", Unread' = 0, job.kind = "none"
                     PROVE  /\ cmd # "PUT"
                            /\ \/ RespondExistsCode(recv_buffer', 226)
                               \/ RespondExistsCode(recv_buffer', 426)
        OBVIOUS
      <4>2. Unread # 1
        BY <1>1, <3>1, <4>1 DEF TurnsInv, TurnInv
      <4>3. Unread = 2 /\ k = 2
        BY <2>2, <2>3, <2>7, <2>9, <4>1, <4>2
      <4>4. recv_buffer'[2] = stream[2] /\ 2 \in 2..Len(recv_buffer')
        BY <2>2, <4>3
      <4>5. QED
        BY <2>7, <4>3, <4>4 DEF RespondExistsCode
    <3>10. CompletionInv'
      BY <2>1, <2>4, <2>11, <3>9 DEF CompletionInv
    <3>11. QED
      BY <2>1, <3>3, <3>5, <3>7, <3>8, <3>10 DEF TurnsInv
  <2>12. QED
    BY <1>3, <2>10, <2>11, <1>2
    DEF TransferReply, GotoConnected, ReturnConnected, Goto, Return, dataVars
<1>4. QED
  BY <1>2, <1>3 DEF TransferReply, ReturnConnected, Return

LEMMA DialogueFork ==
  ASSUME TypeOK, StreamInv, TurnsInv, Fork
  PROVE  StreamInv' /\ TurnsInv'
<1>1. /\ pc = "fork" /\ child' = "run" /\ cmd' = cmd /\ pc' = AfterFork
      /\ UNCHANGED <<client_cmd_socket, sent, toServer, job, accepted, data_socket,
                     data_eof, recv_buffer, collecting, peer, stream>>
      /\ cmd = "PUT" => data_socket \notin dataFds'
  BY DEF Fork, GotoConnected, Goto, StayConnected, NoControlIO, serverVars
<1>2. StreamInv' /\ Unread' = Unread
  BY <1>1, StreamKept
<1>3. toServer = <<>> /\ accepted = 0
  BY <1>1 DEF TurnsInv, RequestInv, DataInv, Awaiting
<1>4. RequestInv'
  BY <1>1, <1>3 DEF RequestInv
<1>5. pc' \in {"wait", "complete"}
  BY <1>1 DEF AfterFork
<1>6. JobInv'
  BY <1>1, <1>2, <1>5 DEF TurnsInv, JobInv
<1>7. TurnInv'
  <2>1. pc' = "wait" /\ cmd # "PUT" => RespondExistsCode(recv_buffer, 226)
    BY <1>1 DEF AfterFork
  <2>2. QED
    BY <1>1, <1>2, <1>5, <2>1 DEF TurnsInv, TurnInv, Awaiting
<1>8. DataInv'
  BY <1>1, <1>3, <1>5 DEF TurnsInv, DataInv, TransferCalls
<1>9. CompletionInv'
  <2>1. pc' = "complete" /\ cmd = "LS" => ~RespondExistsCode(recv_buffer, 226)
    BY <1>1 DEF AfterFork
  <2>2. RespondExistsCode(recv_buffer', 226) = RespondExistsCode(recv_buffer, 226)
        /\ RespondExistsCode(recv_buffer', 426) = RespondExistsCode(recv_buffer, 426)
    BY <1>1
  <2>3. QED
    BY <1>1, <1>2, <1>5, <2>1, <2>2 DEF TurnsInv, CompletionInv
<1>10. QED
  BY <1>2, <1>4, <1>6, <1>7, <1>8, <1>9 DEF TurnsInv

LEMMA DialogueComplete ==
  ASSUME TypeOK, StreamInv, TurnsInv, TimelyServer, Complete
  PROVE  StreamInv' /\ TurnsInv'
<1>1. pc = "complete"
  BY DEF Complete
<1>2. CASE FailedHangingUp /\ Return
  BY <1>2, FailedQuiet DEF Return, UserCalls
<1>3. CASE StayConnected /\ (Received \/ (cmd # "PUT" /\ FailedKeeping))
  <2>1. Unread \in Nat /\ Len(stream) \in Nat /\ ~(Unread > 1)
    BY <1>1, UnreadIsLength DEF TurnsInv, TurnInv
  <2>2. UNCHANGED <<toServer, job, accepted, sent>>
    BY <1>3 DEF StayConnected, serverVars
  <2>3. job.kind # "none" => peer = "up" /\ Unread = 0 /\ ~data_eof
    BY <1>1 DEF TurnsInv, JobInv
  <2>4. toServer = <<>> /\ accepted = 0
    BY <1>1 DEF TurnsInv, RequestInv, DataInv
  <2>5. StreamInv' /\ Unread' = 0 /\ job.kind = "none"
    <3>1. CASE Received
      <4>1. StreamInv' /\ (Unread = 0 => peer # "up")
        BY <1>3, <3>1, ReceivedStream DEF TurnsInv
      <4>2. PICK k \in 1..Len(stream) : Unread' = (IF k < Unread THEN Unread - k ELSE 0)
        BY <1>3, <3>1, ReceivedStream DEF TurnsInv
      <4>3. QED
        BY <2>1, <2>3, <4>1, <4>2
    <3>2. CASE cmd # "PUT" /\ FailedKeeping
      <4>1. StreamInv' /\ Unread' = 0 /\ (peer = "up" => ~ReplyComing)
        BY <1>3, <3>2, FailedStream
      <4>2. child # "run" => data_eof
        BY <1>1, <3>2 DEF TurnsInv, DataInv
      <4>3. QED
        BY <2>3, <4>1, <4>2 DEF ReplyComing
    <3>3. QED
      BY <1>3, <3>1, <3>2
  <2>6. CASE pc' = "prompt"
    BY <2>2, <2>4, <2>5, <2>6, AtRest DEF UserCalls
  <2>7. CASE pc' = "wait" /\ cmd' = cmd /\ cmd # "PUT" /\ UNCHANGED dataVars
    <3>1. RequestInv' /\ JobInv'
      BY <2>2, <2>4, <2>5 DEF RequestInv, JobInv
    <3>2. TurnInv' /\ CompletionInv'
      BY <2>2, <2>5, <2>7 DEF TurnInv, CompletionInv, Awaiting
    <3>3. DataInv'
      BY <1>1, <2>2, <2>4, <2>7 DEF TurnsInv, DataInv, TransferCalls, dataVars
    <3>4. QED
      BY <2>5, <3>1, <3>2, <3>3 DEF TurnsInv
  <2>8. pc' = "prompt" \/ (pc' = "wait" /\ cmd' = cmd /\ cmd # "PUT" /\ UNCHANGED dataVars)
    BY DEF Complete, GotoConnected, ReturnConnected, Goto, Return
  <2>9. QED
    BY <2>6, <2>7, <2>8
<1>4. \/ FailedHangingUp /\ Return
      \/ (Received \/ (cmd # "PUT" /\ FailedKeeping))
         /\ (GotoConnected("wait") \/ ReturnConnected)
  BY DEF Complete
<1>5. GotoConnected("wait") \/ ReturnConnected => StayConnected
  BY DEF GotoConnected, ReturnConnected
<1>6. QED
  BY <1>2, <1>3, <1>4, <1>5

LEMMA DialogueWait ==
  ASSUME TypeOK, StreamInv, TurnsInv, Wait
  PROVE  StreamInv' /\ TurnsInv'
<1>1. /\ pc = "wait" /\ child \in {"ok", "fail"} /\ child' = "none"
      /\ UNCHANGED <<client_cmd_socket, sent, toServer, job, accepted, data_socket,
                     dataFds, data_eof, recv_buffer, collecting, peer, stream>>
  BY DEF Wait, GotoConnected, ReturnConnected, StayConnected, NoControlIO, serverVars
<1>2. StreamInv' /\ Unread' = Unread /\ Unread \in Nat
  BY <1>1, StreamKept, NotCollecting
<1>3. toServer = <<>> /\ accepted = 0
  BY <1>1 DEF TurnsInv, RequestInv, DataInv, Awaiting
<1>4. CASE pc' = "prompt" /\ ~(cmd = "PUT" /\ child = "ok")
  <2>1. ~(Unread > 0) /\ job.kind = "none"
    BY <1>1, <1>2, <1>4 DEF TurnsInv, TurnInv
  <2>2. QED
    BY <1>1, <1>2, <1>3, <1>4, <2>1, AtRest DEF UserCalls
<1>5. CASE pc' = "complete" /\ cmd' = cmd /\ cmd = "PUT" /\ child = "ok"
  <2>1. RequestInv'
    BY <1>1, <1>3 DEF RequestInv
  <2>2. JobInv'
    BY <1>1, <1>2, <1>5 DEF TurnsInv, JobInv
  <2>3. TurnInv'
    BY <1>1, <1>2, <1>5 DEF TurnsInv, TurnInv, Awaiting
  <2>4. DataInv'
    BY <1>1, <1>3, <1>5 DEF TurnsInv, DataInv, TransferCalls, TransferCommands
  <2>5. CompletionInv'
    BY <1>1, <1>2, <1>5 DEF TurnsInv, CompletionInv
  <2>6. QED
    BY <1>2, <2>1, <2>2, <2>3, <2>4, <2>5 DEF TurnsInv
<1>6. QED
  BY <1>4, <1>5 DEF Wait, GotoConnected, ReturnConnected, Goto, Return

-----------------------------------------------------------------------------
(* The server and the child.                                                *)

LEMMA OneElement ==
  ASSUME NEW S, NEW s \in Seq(S), Len(s) = 1
  PROVE  s[1] \in S /\ Head(s) = s[1] /\ Tail(s) = <<>>
<1>1. s[1] \in S
  OBVIOUS
<1>2. Head(s) = s[1]
  OBVIOUS
<1>3. Tail(s) \in Seq(S) /\ Len(Tail(s)) = 0
  OBVIOUS
<1>4. Tail(s) = <<>>
  BY <1>3, EmptySeq
<1>5. QED
  BY <1>1, <1>2, <1>4

LEMMA WholeAnswer ==
  ASSUME TypeOK, TimelyServer, NEW number \in Nat, NEW code \in Codes,
         Answer(number, code)
  PROVE  \E reply \in Replies : /\ stream' = Append(stream, reply)
                                /\ reply.of = number /\ reply.code = code /\ ~reply.multi
<1>1. stream' = Append(stream, [of |-> number, code |-> code, multi |-> FALSE])
  BY DEF TimelyServer, Answer
<1>2. [of |-> number, code |-> code, multi |-> FALSE] \in Replies
  BY DEF Replies
<1>3. QED
  BY <1>1, <1>2

\* An answer joins what is unread.
LEMMA AnsweredStream ==
  ASSUME TypeOK, StreamInv, NEW reply \in Replies, stream' = Append(stream, reply),
         peer = "up", reply.of = sent, sent > 0, ~reply.multi,
         UNCHANGED <<client_cmd_socket, collecting, sent>>
  PROVE  /\ StreamInv' /\ Unread' = Unread + 1
         /\ stream'[Unread'] = reply /\ (Unread = 1 => stream'[1] = stream[1])
<1>1. Unread = Len(stream) /\ Len(stream) \in Nat /\ sent \in Nat
  BY UnreadWhileUp, UnreadIsLength DEF TypeOK, ConnectionTypeOK, ControlTypeOK
<1>2. reply.of # 0
  BY <1>1
<1>3. /\ Len(stream') = Len(stream) + 1 /\ stream'[Len(stream')] = reply
      /\ \A i \in 1..Len(stream) : stream'[i] = stream[i]
      /\ Unread' = Len(stream) + 1
  BY <1>2, UnreadAppended
<1>4. \A i \in 1..Len(stream') : ~stream'[i].multi /\ stream'[i].of = sent
  <2>1. SUFFICES ASSUME NEW i \in 1..Len(stream')
                 PROVE  ~stream'[i].multi /\ stream'[i].of = sent
    OBVIOUS
  <2>2. CASE i \in 1..Len(stream)
    BY <1>1, <1>3, <2>2 DEF StreamInv
  <2>3. CASE i = Len(stream')
    BY <1>3, <2>3
  <2>4. QED
    BY <1>1, <1>3, <2>2, <2>3
<1>5. StreamInv'
  <2>1. client_cmd_socket # Closed
    BY DEF StreamInv
  <2>2. Unread' = Len(stream')
    BY <1>3
  <2>3. QED
    BY <1>1, <1>3, <1>4, <2>1, <2>2 DEF StreamInv
<1>6. QED
  BY <1>1, <1>3, <1>5

LEMMA DialogueServerReplies ==
  ASSUME TypeOK, StreamInv, TurnsInv, TimelyServer, ServerReplies, UNCHANGED <<pc, cmd>>
  PROVE  StreamInv' /\ TurnsInv'
<1>1. peer = "up" /\ job.kind = "none" /\ toServer # <<>>
  BY DEF ServerReplies
<1>2. /\ Len(toServer) = 1 /\ toServer[1].of = sent /\ sent > 0
      /\ pc \in Awaiting \ {"complete"} /\ Unread = 0
      /\ toServer[1].verb \in TransferVerbs => pc = "xfer"
      /\ toServer[1].verb = "QUIT" => pc = "quit"
      /\ pc = "xfer" => toServer[1].verb = (CASE cmd = "PUT" -> "STOR"
                                              [] cmd = "LS"  -> "LIST"
                                              [] OTHER       -> "RETR")
  BY <1>1 DEF TurnsInv, RequestInv
<1>3. /\ toServer \in Seq(Requests) /\ sent \in Nat /\ accepted \in Nat
      /\ data_eof \in BOOLEAN
  BY DEF TypeOK, ConnectionTypeOK, ControlTypeOK, ServerTypeOK, DataTypeOK
<1>4. toServer[1] \in Requests /\ Head(toServer) = toServer[1] /\ Tail(toServer) = <<>>
  <2>1. Len(toServer) = 1
    BY <1>2
  <2>2. QED
    BY <1>3, <2>1, OneElement
<1>5. PICK verb \in Verbs : verb = toServer[1].verb
  BY <1>4 DEF Requests
<1>6. PICK code \in ReplyCodes(verb) :
        /\ Answer(sent, code)
        /\ DataPort(verb, code)
        /\ IF code = 150
           THEN \E big \in BOOLEAN :
                  job' = [kind |-> IF verb = "STOR" THEN "recv" ELSE "send",
                          of |-> sent, conn |-> accepted, big |-> big]
           ELSE job' = job
        /\ peer' = IF code = 221 THEN "fin" ELSE "up"
  BY <1>2, <1>4, <1>5 DEF ServerReplies
<1>7. code \in Codes
  BY <1>5, <1>6, ReplyCodesType
<1>8. PICK reply \in Replies : /\ stream' = Append(stream, reply)
                               /\ reply.of = sent /\ reply.code = code /\ ~reply.multi
  BY <1>3, <1>6, <1>7, WholeAnswer
<1>9. /\ UNCHANGED <<client_cmd_socket, recv_buffer, collecting, sent,
                     data_socket, dataFds, child, pc, cmd>>
      /\ toServer' = <<>>
  BY <1>4 DEF ServerReplies
<1>10. StreamInv' /\ Unread' = 1 /\ stream'[1] = reply
  BY <1>1, <1>2, <1>8, <1>9, AnsweredStream
<1>11. RequestInv'
  BY <1>9 DEF RequestInv
<1>12. code = 150 => verb \in TransferVerbs /\ accepted # 0
  BY <1>6 DEF ReplyCodes, TransferVerbs, Verbs
<1>13. code = 221 => verb = "QUIT"
  BY <1>6 DEF ReplyCodes, TransferVerbs, Verbs
<1>14. code = 150 => /\ pc = "xfer" /\ accepted = data_socket /\ ~data_eof
                     /\ data_eof' = data_eof /\ peer' = "up"
                     /\ verb = "STOR" <=> cmd = "PUT"
                     /\ job'.kind = (IF cmd = "PUT" THEN "recv" ELSE "send")
                     /\ job'.of = sent /\ job'.conn = data_socket
  <2>1. SUFFICES ASSUME code = 150
                 PROVE  /\ pc = "xfer" /\ accepted = data_socket /\ ~data_eof
                        /\ data_eof' = data_eof /\ peer' = "up"
                        /\ verb = "STOR" <=> cmd = "PUT"
                        /\ job'.kind = (IF cmd = "PUT" THEN "recv" ELSE "send")
                        /\ job'.of = sent /\ job'.conn = data_socket
    OBVIOUS
  <2>2. pc = "xfer" /\ accepted = data_socket /\ ~data_eof
    BY <1>2, <1>5, <1>12, <2>1 DEF TurnsInv, DataInv
  <2>3. data_eof' = data_eof
    <3>1. data_eof' = (data_eof \/ FALSE)
      BY <1>6, <1>12, <2>1 DEF DataPort
    <3>2. QED
      BY <1>3, <3>1
  <2>4. verb = "STOR" <=> cmd = "PUT"
    BY <1>2, <1>5, <2>2
  <2>5. QED
    BY <1>6, <2>1, <2>2, <2>3, <2>4
<1>15. JobInv'
  <2>1. job'.kind # "none" => code = 150
    BY <1>1, <1>6
  <2>2. QED
    BY <1>2, <1>8, <1>9, <1>10, <1>14, <2>1 DEF JobInv
<1>16. TurnInv'
  <2>1. pc = "xfer" /\ stream'[1].code = 150 => job'.kind # "none"
    BY <1>8, <1>10, <1>14
  <2>2. QED
    BY <1>2, <1>9, <1>10, <2>1 DEF TurnInv, Awaiting
<1>17. DataInv'
  <2>1. accepted' # 0 => /\ verb \notin TransferVerbs /\ code # 227
                         /\ accepted' = accepted /\ data_eof' = data_eof
    BY <1>6 DEF DataPort
  <2>2. accepted' # 0 => /\ peer' = "up" /\ accepted' = data_socket /\ ~data_eof'
                         /\ pc \in {"request", "size", "retr"}
    <3>1. SUFFICES ASSUME accepted' # 0
                   PROVE  /\ peer' = "up" /\ accepted' = data_socket /\ ~data_eof'
                          /\ pc \in {"request", "size", "retr"}
      OBVIOUS
    <3>2. accepted = data_socket /\ ~data_eof /\ pc \in {"request", "size", "retr", "xfer"}
      BY <2>1, <3>1 DEF TurnsInv, DataInv
    <3>3. pc # "xfer"
      BY <1>2, <1>5, <2>1, <3>1 DEF TransferVerbs
    <3>4. code # 221
      BY <1>2, <1>5, <1>13, <3>2
    <3>5. QED
      BY <1>6, <2>1, <3>1, <3>2, <3>3, <3>4
  <2>3. pc = "pasv" => data_eof' = data_eof
    <3>1. SUFFICES ASSUME pc = "pasv" PROVE data_eof' = data_eof
      OBVIOUS
    <3>2. accepted = 0
      BY <3>1 DEF TurnsInv, DataInv
    <3>3. data_eof' = (data_eof \/ FALSE) \/ data_eof' = data_eof
      BY <1>6, <3>2 DEF DataPort
    <3>4. QED
      BY <1>3, <3>3
  <2>4. QED
    BY <1>1, <1>2, <1>9, <2>2, <2>3 DEF TurnsInv, DataInv, Awaiting, TransferCalls
<1>18. CompletionInv'
  BY <1>10 DEF CompletionInv
<1>19. QED
  BY <1>10, <1>11, <1>15, <1>16, <1>17, <1>18 DEF TurnsInv

LEMMA DialogueServerFinishes ==
  ASSUME TypeOK, SocketsInv, ChildInv, StreamInv, TurnsInv, TimelyServer, ServerFinishes,
         UNCHANGED <<pc, cmd>>
  PROVE  StreamInv' /\ TurnsInv'
<1>1. peer = "up" /\ job.kind # "none"
  BY DEF ServerFinishes
<1>2. /\ pc \in {"xfer", "fork", "complete", "wait"}
      /\ job.of = sent /\ sent > 0 /\ job.conn = data_socket /\ ~data_eof
      /\ job.kind = (IF cmd = "PUT" THEN "recv" ELSE "send")
      /\ Unread = (IF pc = "xfer" THEN 1 ELSE 0)
      /\ pc = "xfer" => stream[1].code = 150
  BY <1>1 DEF TurnsInv, JobInv
<1>3. toServer = <<>>
  BY <1>1 DEF TurnsInv, RequestInv
<1>4. accepted = 0
  BY <1>2, <1>3 DEF TurnsInv, DataInv
<1>5. PICK code \in {226, 426} : /\ JobCanFinish \/ "abort" \in Faults
                               /\ Answer(sent, code)
  BY <1>2 DEF ServerFinishes
<1>6. sent \in Nat /\ code \in Codes
  BY DEF Codes, TypeOK, ConnectionTypeOK, ControlTypeOK
<1>7. PICK reply \in Replies : /\ stream' = Append(stream, reply)
                               /\ reply.of = sent /\ reply.code = code /\ ~reply.multi
  BY <1>5, <1>6, WholeAnswer
<1>8. /\ UNCHANGED <<client_cmd_socket, recv_buffer, collecting, sent, peer, toServer,
                     accepted, data_socket, dataFds, child, pc, cmd>>
      /\ job'.kind = "none" /\ data_eof'
  BY <1>2 DEF ServerFinishes, NoJob
<1>9. /\ StreamInv' /\ Unread' = Unread + 1 /\ stream'[Unread'] = reply
      /\ Unread = 1 => stream'[1] = stream[1]
  BY <1>1, <1>2, <1>7, <1>8, AnsweredStream
<1>10. RequestInv' /\ JobInv'
  BY <1>3, <1>8 DEF RequestInv, JobInv
\* An upload ends only when put's child has ended it, or the program has no end
\* of its socket left.
<1>11. cmd = "PUT" => pc \notin {"xfer", "fork"} /\ ~(pc = "wait" /\ child # "ok")
  <2>1. SUFFICES ASSUME cmd = "PUT"
                 PROVE  pc \notin {"xfer", "fork"} /\ ~(pc = "wait" /\ child # "ok")
    OBVIOUS
  <2>2. CASE child = "ok"
    BY <2>2 DEF ChildInv
  <2>3. CASE child # "ok"
    <3>1. data_socket \notin dataFds /\ child # "run"
      BY <1>2, <1>5, <2>1, <2>3, UploadsNotAborted DEF JobCanFinish, HeldByClient
    <3>2. pc \notin {"xfer", "fork"}
      BY <3>1 DEF SocketsInv, TransferCalls
    <3>3. pc = "wait" => child \notin {"none", "fail"}
      BY <1>1, <2>1 DEF TurnsInv, TurnInv, DataInv
    <3>4. child \in {"none", "run", "ok", "fail"}
      BY DEF TypeOK, DataTypeOK
    <3>5. QED
      BY <2>3, <3>1, <3>2, <3>3, <3>4
  <2>4. QED
    BY <2>2, <2>3
<1>12. TurnInv'
  <2>1. Unread' > 1 => /\ Unread' = 2 /\ pc = "xfer" /\ cmd # "PUT"
                       /\ stream'[1].code = 150 /\ stream'[2].code \in {226, 426}
    BY <1>2, <1>5, <1>7, <1>9, <1>11
  <2>2. ~(pc = "fork" /\ RespondExistsCode(recv_buffer, 226))
    BY <1>1 DEF TurnsInv, TurnInv
  <2>3. ~(pc = "wait" /\ cmd # "PUT")
    BY <1>1 DEF TurnsInv, TurnInv
  <2>4. pc = "xfer" => Unread' # 1
    BY <1>2, <1>9
  <2>5. RespondExistsCode(recv_buffer', 226) = RespondExistsCode(recv_buffer, 226)
    BY <1>8
  <2>6. QED
    BY <1>2, <1>8, <1>9, <1>11, <2>1, <2>2, <2>3, <2>4, <2>5 DEF TurnInv, Awaiting
<1>13. DataInv'
  BY <1>2, <1>4, <1>8 DEF TurnsInv, DataInv, TransferCalls
<1>14. CompletionInv'
  BY <1>2, <1>9 DEF CompletionInv
<1>15. QED
  BY <1>9, <1>10, <1>12, <1>13, <1>14 DEF TurnsInv

LEMMA DialogueServerGoes ==
  ASSUME TypeOK, StreamInv, TurnsInv, ServerGoes, UNCHANGED <<pc, cmd>>
  PROVE  StreamInv' /\ TurnsInv'
<1>1. /\ peer = "up" /\ peer' \in {"fin", "rst"} /\ toServer' = <<>>
      /\ job'.kind = "none" /\ accepted' = 0 /\ data_eof' = (data_eof \/ data_socket # 0)
      /\ UNCHANGED <<client_cmd_socket, recv_buffer, collecting, sent,
                     data_socket, dataFds, child, pc, cmd>>
  BY DEF ServerGoes, ForgetSession, NoJob
<1>2. /\ StreamInv' /\ Unread' = Unread
      /\ \A i \in 1..Unread : stream'[i] = stream[i]
  <2>1. CASE stream' = stream
    BY <1>1, <2>1, StreamKept
  <2>2. CASE stream' = Append(stream, [of |-> 0, code |-> 421, multi |-> FALSE])
    <3>1. [of |-> 0, code |-> 421, multi |-> FALSE] \in Replies
      BY DEF Replies, Codes
    <3>2. /\ Len(stream') = Len(stream) + 1
          /\ stream'[Len(stream')] = [of |-> 0, code |-> 421, multi |-> FALSE]
          /\ \A i \in 1..Len(stream) : stream'[i] = stream[i]
          /\ Unread' = Len(stream)
      BY <2>2, <3>1, UnreadAppended
    <3>3. Unread = Len(stream) /\ Len(stream) \in Nat
      BY <1>1, UnreadWhileUp, UnreadIsLength
    <3>4. \A i \in 1..Len(stream') : ~stream'[i].multi
      <4>1. SUFFICES ASSUME NEW i \in 1..Len(stream') PROVE ~stream'[i].multi
        OBVIOUS
      <4>2. CASE i \in 1..Len(stream)
        BY <3>2, <4>2 DEF StreamInv
      <4>3. CASE i = Len(stream')
        BY <3>2, <4>3
      <4>4. QED
        BY <3>2, <3>3, <4>2, <4>3
    <3>5. \A i \in 1..Unread' : stream'[i].of = sent' /\ sent' > 0
      BY <1>1, <3>2, <3>3 DEF StreamInv
    <3>6. client_cmd_socket' # Closed
      BY <1>1 DEF StreamInv
    <3>7. StreamInv'
      BY <1>1, <3>2, <3>4, <3>5, <3>6 DEF StreamInv
    <3>8. QED
      BY <3>2, <3>3, <3>7
  <2>3. QED
    BY <2>1, <2>2 DEF ServerGoes
<1>3. RequestInv' /\ JobInv' /\ CompletionInv'
  BY <1>1 DEF RequestInv, JobInv, CompletionInv
<1>4. TurnInv'
  <2>1. Unread > 1 => /\ Unread = 2 /\ pc = "xfer" /\ cmd # "PUT"
                      /\ stream[1].code = 150 /\ stream[2].code \in {226, 426}
    BY DEF TurnsInv, TurnInv
  <2>2. Unread > 1 => stream'[1] = stream[1] /\ stream'[2] = stream[2]
    BY <1>2, <2>1
  <2>3. RespondExistsCode(recv_buffer', 226) = RespondExistsCode(recv_buffer, 226)
    BY <1>1
  <2>4. QED
    BY <1>1, <1>2, <2>1, <2>2, <2>3 DEF TurnsInv, TurnInv
<1>5. DataInv'
  BY <1>1 DEF TurnsInv, DataInv
<1>6. QED
  BY <1>2, <1>3, <1>4, <1>5 DEF TurnsInv

LEMMA DialogueChild ==
  ASSUME TypeOK, ChildInv, StreamInv, TurnsInv, TimelyServer, ChildEnds \/ ChildFails
  PROVE  StreamInv' /\ TurnsInv'
<1>1. /\ child = "run"
      /\ \/ child' = "ok" /\ (cmd = "PUT" \/ data_eof)
         \/ child' = "fail" /\ data_eof
      /\ UNCHANGED <<controlVars, serverVars, data_socket, dataFds, data_eof, pc, cmd>>
  BY DEF ChildEnds, ChildFails, TimelyServer
<1>2. StreamInv' /\ Unread' = Unread
  BY <1>1, StreamKept DEF controlVars
<1>3. UNCHANGED <<toServer, job, accepted, sent, peer, stream, recv_buffer,
                  client_cmd_socket>>
  BY <1>1 DEF controlVars, serverVars
<1>4. RequestInv' /\ JobInv'
  BY <1>1, <1>2, <1>3 DEF TurnsInv, RequestInv, JobInv
<1>5. TurnInv'
  <2>1. data_eof => job.kind = "none"
    BY DEF TurnsInv, JobInv
  <2>2. RespondExistsCode(recv_buffer', 226) = RespondExistsCode(recv_buffer, 226)
    BY <1>3
  <2>3. QED
    BY <1>1, <1>2, <1>3, <2>1, <2>2 DEF TurnsInv, TurnInv
<1>6. DataInv'
  BY <1>1, <1>3 DEF TurnsInv, DataInv
<1>7. CompletionInv'
  <2>1. RespondExistsCode(recv_buffer', 226) = RespondExistsCode(recv_buffer, 226)
        /\ RespondExistsCode(recv_buffer', 426) = RespondExistsCode(recv_buffer, 426)
    BY <1>3
  <2>2. QED
    BY <1>1, <1>2, <1>3, <2>1 DEF TurnsInv, CompletionInv
<1>8. QED
  BY <1>2, <1>4, <1>5, <1>6, <1>7 DEF TurnsInv

LEMMA DialogueStutter ==
  ASSUME TypeOK, StreamInv, TurnsInv, UNCHANGED vars
  PROVE  StreamInv' /\ TurnsInv'
<1>1. UNCHANGED <<client_cmd_socket, recv_buffer, collecting, sent, peer, toServer,
                  stream, job, accepted, data_socket, dataFds, data_eof, child, pc, cmd>>
  BY DEF vars, controlVars, serverVars, dataVars
<1>2. StreamInv' /\ Unread' = Unread
  BY <1>1, StreamKept
<1>3. RequestInv' /\ JobInv' /\ DataInv'
  BY <1>1, <1>2 DEF TurnsInv, RequestInv, JobInv, DataInv
<1>4. RespondExistsCode(recv_buffer', 226) = RespondExistsCode(recv_buffer, 226)
      /\ RespondExistsCode(recv_buffer', 426) = RespondExistsCode(recv_buffer, 426)
  BY <1>1
<1>5. TurnInv' /\ CompletionInv'
  BY <1>1, <1>2, <1>4 DEF TurnsInv, TurnInv, CompletionInv
<1>6. QED
  BY <1>2, <1>3, <1>5 DEF TurnsInv

\* What such a server, such children and such a user never do.
LEMMA DialogueNever ==
  ASSUME TypeOK, StreamInv, TimelyServer, MultilineLoop \/ ForkFails \/ Interrupt
  PROVE  FALSE
<1>1. ~ForkFails /\ ~Interrupt
  BY DEF TimelyServer, ForkFails, Interrupt
<1>2. ASSUME MultilineLoop PROVE FALSE
  <2>1. PICK k \in ChunkSizes : collecting \/ stream[1].multi
    BY <1>2 DEF MultilineLoop, CollectMore
  <2>2. stream \in Seq(Replies) /\ Len(stream) \in Nat
    BY DEF TypeOK, ConnectionTypeOK, ControlTypeOK
  <2>3. 1 \in 1..Len(stream)
    BY <2>2, ChunkType
  <2>4. QED
    BY <2>1, <2>3 DEF StreamInv
<1>3. QED
  BY <1>1, <1>2

-----------------------------------------------------------------------------
(* The invariant.                                                           *)

LEMMA DialogueClient ==
  ASSUME TypeOK, FlagAndSocketAgree, StreamInv, TurnsInv, TimelyServer, Client
  PROVE  StreamInv' /\ TurnsInv'
<1>1. CASE Connect \/ ConnectFails \/ Greeting \/ UserReply \/ PassReply
  BY <1>1, DialogueConnect, DialogueConnectFails, DialogueReceive
<1>2. CASE ReturnAtOnce \/ SimpleCommand \/ SimpleReply \/ OpenCommand
  BY <1>2, DialogueReturn, DialogueSimple, DialogueOpen
<1>3. CASE NoDataSocket \/ EnterPassiveMode \/ PasvReply
  BY <1>3, DialogueReturn, DialoguePassive, DialoguePasvReply
<1>4. CASE DataConnect \/ DataConnectFails \/ SendRequest \/ SizeReply
  BY <1>4, DialogueDataConnect, DialogueReturn, DialogueSendRequest, DialogueSizeReply
<1>5. CASE TransferReply \/ Fork \/ Complete \/ Wait
  BY <1>5, DialogueTransferReply, DialogueFork, DialogueComplete, DialogueWait
<1>6. CASE Exit \/ QuitReply
  BY <1>6, DialogueExit, DialogueQuit
<1>7. CASE ForkFails \/ MultilineLoop
  BY <1>7, DialogueNever
<1>8. QED
  BY <1>1, <1>2, <1>3, <1>4, <1>5, <1>6, <1>7 DEF Client

LEMMA DialogueUser ==
  ASSUME TypeOK, StreamInv, TurnsInv, TimelyServer, User
  PROVE  StreamInv' /\ TurnsInv'
BY DialogueReadCommand, DialogueAnswer, DialogueNever, DialogueExit DEF User

LEMMA DialogueOthers ==
  ASSUME SessionInv, StreamInv, TurnsInv, TimelyServer,
         ChildEnds \/ ChildFails \/ Server \/ Terminated \/ UNCHANGED vars
  PROVE  StreamInv' /\ TurnsInv'
<1>1. TypeOK /\ SocketsInv /\ ChildInv
  BY DEF SessionInv
<1>2. Server => /\ ServerReplies \/ ServerFinishes \/ ServerGoes
                /\ UNCHANGED <<pc, cmd>>
  BY DEF Server
<1>3. Terminated => UNCHANGED vars
  BY DEF Terminated
<1>4. QED
  BY <1>1, <1>2, <1>3, DialogueServerReplies, DialogueServerFinishes,
     DialogueServerGoes, DialogueChild, DialogueStutter

LEMMA DialogueInit == ASSUME Init PROVE DialogueInv
<1>1. SessionInv
  BY SessionInit
<1>2. /\ stream = <<>> /\ toServer = <<>> /\ ~collecting /\ peer = "none"
      /\ client_cmd_socket = Closed /\ pc = "connect" /\ job.kind = "none"
      /\ accepted = 0
  BY DEF Init, ControlInit, ServerInit, NoJob
<1>3. Unread = 0 /\ Len(stream) = 0
  BY <1>2 DEF Unread
<1>4. StreamInv
  BY <1>2, <1>3 DEF StreamInv
<1>5. RequestInv /\ JobInv
  BY <1>2 DEF RequestInv, JobInv
<1>6. TurnInv /\ DataInv /\ CompletionInv
  BY <1>2, <1>3 DEF TurnInv, DataInv, CompletionInv, Awaiting, TransferCalls
<1>7. QED
  BY <1>1, <1>4, <1>5, <1>6 DEF DialogueInv

LEMMA DialogueStep ==
  ASSUME DialogueInv, TimelyServer, [Next]_vars
  PROVE  DialogueInv'
<1>1. SessionInv /\ StreamInv /\ TurnsInv
  BY DEF DialogueInv, TurnsInv
<1>2. TypeOK /\ FlagAndSocketAgree
  BY <1>1 DEF SessionInv
<1>3. SessionInv'
  BY <1>1, SessionStep
<1>4. StreamInv' /\ TurnsInv'
  BY <1>1, <1>2, DialogueClient, DialogueUser, DialogueOthers DEF Next
<1>5. QED
  BY <1>3, <1>4 DEF DialogueInv, TurnsInv

\* With a server in time, what is unread, what the server is doing and where
\* the program is always fit together, for every number of commands.
THEOREM DialogueInvariant ==
  ASSUME TimelyServer
  PROVE  Spec => []DialogueInv
<1>1. Init => DialogueInv
  BY DialogueInit
<1>2. DialogueInv /\ [Next]_vars => DialogueInv'
  BY DialogueStep
<1>3. QED
  BY <1>1, <1>2, PTL DEF Spec

\* With a server in time no transfer waits for a completion that will not
\* come, unless it came with 150 and was overlooked.
THEOREM CompletionsCome ==
  ASSUME TimelyServer
  PROVE  Spec => []CompletionIsComing
<1>1. DialogueInv => CompletionIsComing
  <2>1. SUFFICES ASSUME DialogueInv, pc = "complete", peer = "up",
                        ~OverlookedCompletion, stream = <<>>
                 PROVE  ReplyComing
    BY DEF CompletionIsComing
  <2>2. TypeOK /\ SocketsInv /\ JobInv /\ DataInv /\ CompletionInv
    BY <2>1 DEF DialogueInv, SessionInv
  <2>3. Unread = 0
    BY <2>1, <2>2, UnreadIsLength
  <2>4. cmd \in TransferCommands
    BY <2>1, <2>2 DEF DataInv
  <2>5. job.kind # "none"
    <3>1. SUFFICES ASSUME job.kind = "none" PROVE FALSE
      OBVIOUS
    <3>2. /\ cmd # "PUT"
          /\ RespondExistsCode(recv_buffer, 226) \/ RespondExistsCode(recv_buffer, 426)
          /\ cmd = "LS" => ~RespondExistsCode(recv_buffer, 226)
      BY <2>1, <2>2, <2>3, <3>1 DEF CompletionInv
    <3>3. QED
      BY <2>1, <2>4, <3>2 DEF OverlookedCompletion, TransferCommands
  <2>6. /\ job.kind = (IF cmd = "PUT" THEN "recv" ELSE "send")
        /\ job.conn = data_socket /\ ~data_eof
    BY <2>2, <2>5 DEF JobInv
  <2>7. CASE cmd = "PUT"
    <3>1. child = "none" /\ data_socket \notin dataFds
      BY <2>1, <2>2, <2>7 DEF DialogueInv, SessionInv, ChildInv, DataInv
    <3>2. QED
      BY <2>1, <2>5, <2>6, <2>7, <3>1 DEF ReplyComing, JobCanFinish, HeldByClient
  <2>8. CASE cmd # "PUT"
    <3>1. child = "run"
      BY <2>1, <2>2, <2>6, <2>8 DEF DataInv
    <3>2. QED
      BY <2>1, <2>5, <3>1 DEF ReplyComing
  <2>9. QED
    BY <2>7, <2>8
<1>2. QED
  BY <1>1, DialogueInvariant, PTL

-----------------------------------------------------------------------------
(* What a step reads, and what it does to the socket.                       *)

\* The stream only loses replies.
StreamShrinks ==
  \/ stream' \in {stream, <<>>}
  \/ \E k \in ChunkSizes : TakeFromStream(k)

\* The socket is not opened.
SocketNotOpened == client_cmd_socket' \in {client_cmd_socket, Closed}

\* The buffer holds what it held, nothing, or the beginning of the stream.
BufferReads ==
  \/ recv_buffer' \in {recv_buffer, <<>>}
  \/ \E k \in ChunkSizes : FirstChunk(k)

ClientReads == StreamShrinks /\ SocketNotOpened /\ BufferReads

LEMMA ReceivedReads ==
  ASSUME Received, StayConnected PROVE ClientReads
<1>1. PICK k \in ChunkSizes : FirstChunk(k) /\ TakeFromStream(k)
  BY DEF Received, GetResponseOk
<1>2. QED
  BY <1>1
  DEF ClientReads, StreamShrinks, SocketNotOpened, BufferReads, StayConnected

LEMMA FailedReads ==
  ASSUME FailedKeeping, StayConnected PROVE ClientReads
BY DEF FailedKeeping, GetResponseFails, LeaveAfterFailure, ClientReads, StreamShrinks,
       SocketNotOpened, BufferReads, StayConnected

LEMMA HungUpReads ==
  ASSUME HangUp, BufferReads PROVE ClientReads
BY DEF HangUp, CloseCmdSocket, ClientReads, StreamShrinks, SocketNotOpened

LEMMA FailedHangingUpReads ==
  ASSUME FailedHangingUp PROVE ClientReads
<1>1. BufferReads /\ HangUp
  BY DEF FailedHangingUp, GetResponseFails, BufferReads
<1>2. QED
  BY <1>1, HungUpReads

LEMMA SentReads ==
  ASSUME NEW verb, SendOk(verb), UNCHANGED recv_buffer PROVE ClientReads
BY DEF SendOk, ClientReads, StreamShrinks, SocketNotOpened, BufferReads

LEMMA SendFailsReads == ASSUME SendFailsThenReturn PROVE ClientReads
BY DEF SendFailsThenReturn, SendFails, CloseCmdSocket, ClientReads, StreamShrinks,
       SocketNotOpened, BufferReads

LEMMA KeptReads ==
  ASSUME UNCHANGED <<client_cmd_socket, stream, recv_buffer>> PROVE ClientReads
BY DEF ClientReads, StreamShrinks, SocketNotOpened, BufferReads

LEMMA ExitReads == ASSUME ExitCmd PROVE ClientReads
<1>1. CASE UNCHANGED controlVars
  BY <1>1, KeptReads DEF controlVars
<1>2. CASE SendOk("QUIT") /\ UNCHANGED recv_buffer
  BY <1>2, SentReads
<1>3. CASE HangUp /\ UNCHANGED recv_buffer
  BY <1>3, HungUpReads DEF BufferReads
<1>4. QED
  BY <1>1, <1>2, <1>3 DEF ExitCmd

LEMMA ClientSteps ==
  ASSUME TypeOK, StreamInv, TimelyServer, Client, ~Connect PROVE ClientReads
<1>1. CASE ConnectFails
  BY <1>1, KeptReads DEF ConnectFails, controlVars
<1>2. CASE Greeting \/ UserReply \/ PassReply
  <2>1. (Received /\ StayConnected) \/ FailedHangingUp
    BY <1>2 DEF Greeting, UserReply, PassReply, LoginReceiveFails, GotoConnected,
                ReturnConnected
  <2>2. QED
    BY <2>1, ReceivedReads, FailedHangingUpReads
<1>3. CASE ReturnAtOnce \/ NoDataSocket \/ DataConnectFails \/ Fork \/ ForkFails \/ Wait
  <2>1. StayConnected /\ NoControlIO
    BY <1>3 DEF ReturnAtOnce, NoDataSocket, DataConnectFails, Fork, ForkFails, Wait,
                GotoConnected, ReturnConnected
  <2>2. QED
    BY <2>1, KeptReads DEF StayConnected, NoControlIO
<1>4. CASE DataConnect
  BY <1>4, KeptReads DEF DataConnect, NoControlIO
<1>5. CASE SimpleCommand \/ SendRequest \/ EnterPassiveMode
  <2>1. \/ \E verb \in Verbs, call \in Awaiting : SendThenAwait(verb, call)
        \/ SendFailsThenReturn
        \/ HangUp /\ UNCHANGED recv_buffer
    BY <1>5 DEF SimpleCommand, SendRequest, EnterPassiveMode, VerbOf, Verbs, Awaiting
  <2>2. ASSUME NEW verb \in Verbs, NEW call \in Awaiting, SendThenAwait(verb, call)
        PROVE  ClientReads
    BY <2>2, SentReads DEF SendThenAwait
  <2>3. QED
    BY <2>1, <2>2, SendFailsReads, HungUpReads DEF BufferReads
<1>6. CASE SimpleReply \/ PasvReply \/ SizeReply \/ TransferReply \/ Complete
  <2>1. \/ Received /\ StayConnected
        \/ FailedKeeping /\ StayConnected
        \/ FailedHangingUp
    BY <1>6 DEF SimpleReply, PasvReply, SizeReply, TransferReply, Complete,
                GotoConnected, ReturnConnected
  <2>2. QED
    BY <2>1, ReceivedReads, FailedReads, FailedHangingUpReads
<1>7. CASE OpenCommand
  <2>1. \/ HangUp /\ UNCHANGED recv_buffer
        \/ StayConnected /\ UNCHANGED <<stream, recv_buffer>>
    BY <1>7 DEF OpenCommand
  <2>2. QED
    BY <2>1, HungUpReads, KeptReads DEF BufferReads, StayConnected
<1>8. CASE Exit
  BY <1>8, ExitReads DEF Exit
<1>9. CASE QuitReply
  <2>1. HangUp /\ ((\E k \in ChunkSizes : FirstChunk(k)) \/ GetResponseFails(ReplyComing))
    BY <1>9 DEF QuitReply
  <2>2. BufferReads
    BY <2>1 DEF BufferReads, GetResponseFails
  <2>3. QED
    BY <2>1, <2>2, HungUpReads
<1>10. CASE MultilineLoop
  BY <1>10, DialogueNever
<1>11. QED
  BY <1>1, <1>2, <1>3, <1>4, <1>5, <1>6, <1>7, <1>8, <1>9, <1>10 DEF Client

LEMMA UserSteps == ASSUME User PROVE ClientReads
<1>1. ASSUME NEW c \in Commands, ReadCommand(c) PROVE ClientReads
  <2>1. \/ HangUp /\ UNCHANGED recv_buffer
        \/ UNCHANGED <<client_cmd_socket, stream, recv_buffer>>
    BY <1>1 DEF ReadCommand, Refuse, Accept, StayConnected, controlVars
  <2>2. QED
    BY <2>1, HungUpReads, KeptReads DEF BufferReads
<1>2. CASE Username \/ Password
  <2>1. \/ SendOk("USER") /\ UNCHANGED recv_buffer
        \/ SendOk("PASS") /\ UNCHANGED recv_buffer
        \/ HangUp /\ UNCHANGED recv_buffer
    BY <1>2 DEF Username, Password, UserAnswers, SendThenAwait
  <2>2. QED
    BY <2>1, SentReads, HungUpReads DEF BufferReads
<1>3. CASE Interrupt \/ Exit
  BY <1>3, ExitReads DEF Interrupt, Exit
<1>4. QED
  BY <1>1, <1>2, <1>3 DEF User

LEMMA OtherSteps ==
  ASSUME ChildEnds \/ ChildFails \/ Server \/ Terminated \/ UNCHANGED vars
  PROVE  /\ UNCHANGED <<client_cmd_socket, recv_buffer>>
         /\ UNCHANGED stream \/ Server
BY DEF ChildEnds, ChildFails, Server, ServerReplies, ServerFinishes, ServerGoes,
       Terminated, vars, controlVars

\* What is first in the stream answers the last command, or nothing.
LEMMA FirstUnread ==
  ASSUME TypeOK, StreamInv, stream # <<>>
  PROVE  stream[1].of \in {0, sent}
<1>1. /\ Unread \in Nat /\ Len(stream) \in Nat /\ Len(stream) # 0
      /\ Len(stream) <= Unread + 1
  BY UnreadIsLength
<1>2. CASE Unread > 0
  BY <1>1, <1>2 DEF StreamInv
<1>3. CASE Unread = 0
  BY <1>1, <1>3 DEF Unread
<1>4. QED
  BY <1>1, <1>2, <1>3

LEMMA LockstepStep ==
  ASSUME DialogueInv, TimelyServer, [Next]_vars, recv_buffer' # recv_buffer,
         recv_buffer' # <<>>
  PROVE  recv_buffer'[1].of \in {0, sent}
<1>1. TypeOK /\ StreamInv
  BY DEF DialogueInv, SessionInv
<1>2. ~Connect
  BY DEF Connect
<1>3. BufferReads
  BY <1>1, <1>2, ClientSteps, UserSteps, OtherSteps DEF Next, ClientReads
<1>4. PICK k \in ChunkSizes : FirstChunk(k)
  BY <1>3 DEF BufferReads
<1>5. stream \in Seq(Replies) /\ Len(stream) \in Nat
  BY <1>1 DEF TypeOK, ConnectionTypeOK, ControlTypeOK
<1>6. k \in 1..Len(stream)
  BY <1>5, ChunkType
<1>7. recv_buffer'[1] = stream[1] /\ stream # <<>>
  BY <1>4, <1>5, <1>6 DEF FirstChunk
<1>8. QED
  BY <1>1, <1>7, FirstUnread

\* With a server in time the client never takes a response to an earlier
\* command for the answer to the last one.
THEOREM ResponsesInLockstep ==
  ASSUME TimelyServer
  PROVE  Spec => Lockstep
<1>1. DialogueInv /\ [Next]_vars =>
        [recv_buffer' # recv_buffer /\ recv_buffer' # <<>> =>
           recv_buffer'[1].of \in {0, sent}]_vars
  BY LockstepStep
<1>2. QED
  BY <1>1, DialogueInvariant, PTL DEF Spec, Lockstep

-----------------------------------------------------------------------------
(* The refinement of FtpDialogue.                                           *)

LEMMA AnswersAreUnread ==
  ASSUME TypeOK, StreamInv
  PROVE  Cardinality({i \in 1..Len(stream) : stream[i].of # 0}) = Unread
<1>1. /\ Unread \in Nat /\ Len(stream) \in Nat /\ Unread <= Len(stream)
      /\ Len(stream) <= Unread + 1
  BY UnreadIsLength
<1>2. \A i \in 1..Unread : stream[i].of # 0
  <2>1. SUFFICES ASSUME NEW i \in 1..Unread PROVE stream[i].of # 0
    OBVIOUS
  <2>2. stream[i].of = sent /\ sent > 0
    BY DEF StreamInv
  <2>3. sent \in Nat
    BY DEF TypeOK, ConnectionTypeOK, ControlTypeOK
  <2>4. QED
    BY <2>2, <2>3
<1>3. Unread < Len(stream) => Len(stream) = Unread + 1 /\ stream[Len(stream)].of = 0
  <2>1. SUFFICES ASSUME Unread < Len(stream)
                 PROVE  Len(stream) = Unread + 1 /\ stream[Len(stream)].of = 0
    OBVIOUS
  <2>2. Len(stream) = Unread + 1
    BY <1>1, <2>1
  <2>3. stream[Len(stream)].of = 0
    BY <1>1, <2>1 DEF Unread
  <2>4. QED
    BY <2>2, <2>3
<1>4. {i \in 1..Len(stream) : stream[i].of # 0} = 1..Unread
  <2>1. ASSUME NEW i \in 1..Len(stream), stream[i].of # 0 PROVE i \in 1..Unread
    <3>1. i # Len(stream) \/ Unread = Len(stream)
      BY <1>1, <1>3, <2>1
    <3>2. QED
      BY <1>1, <1>3, <3>1
  <2>2. ASSUME NEW i \in 1..Unread
        PROVE  i \in 1..Len(stream) /\ stream[i].of # 0
    BY <1>1, <1>2
  <2>3. QED
    BY <2>1, <2>2
<1>5. Cardinality(1..Unread) = Unread
  <2>1. Cardinality(1..Unread) = IF 1 > Unread THEN 0 ELSE Unread - 1 + 1
    BY <1>1, FS_Interval
  <2>2. QED
    BY <1>1, <2>1
<1>6. QED
  BY <1>4, <1>5

\* What the server owes, where the invariant holds: now,
OwedFacts ==
  /\ Owed \in 0..2
  /\ toServer # <<>> => Owed = 1
  /\ toServer = <<>> => Owed = (IF job.kind = "none" THEN 0 ELSE 1) + Unread
  /\ client_cmd_socket = Closed => Owed = 0

LEMMA OwedIs == DialogueInv => OwedFacts
<1> SUFFICES ASSUME DialogueInv PROVE OwedFacts
  OBVIOUS
<1>1. TypeOK /\ StreamInv /\ RequestInv /\ JobInv /\ TurnInv
  BY DEF DialogueInv, SessionInv
<1>2. Owed = Len(toServer) + (IF job.kind = "none" THEN 0 ELSE 1) + Unread
  BY <1>1, AnswersAreUnread DEF Owed
<1>3. Unread \in Nat /\ (stream = <<>> => Unread = 0)
  BY <1>1, UnreadIsLength
<1>4. CASE toServer # <<>>
  <2>1. /\ Len(toServer) = 1 /\ Unread = 0 /\ job.kind = "none"
        /\ client_cmd_socket # Closed
    BY <1>1, <1>4 DEF RequestInv, StreamInv
  <2>2. Owed = 1
    BY <1>2, <2>1
  <2>3. QED
    BY <1>4, <2>1, <2>2 DEF OwedFacts
<1>5. CASE toServer = <<>>
  <2>1. Len(toServer) = 0
    BY <1>5
  <2>2. Owed = (IF job.kind = "none" THEN 0 ELSE 1) + Unread
    BY <1>2, <1>3, <2>1
  <2>3. Unread \in {0, 1, 2} /\ (job.kind # "none" => Unread \in {0, 1})
    BY <1>1, <1>3 DEF TurnInv, JobInv
  <2>4. client_cmd_socket = Closed => Unread = 0 /\ job.kind = "none"
    BY <1>1, <1>3 DEF StreamInv, JobInv
  <2>5. Owed \in 0..2
    BY <2>2, <2>3
  <2>6. client_cmd_socket = Closed => Owed = 0
    BY <2>2, <2>4
  <2>7. QED
    BY <1>5, <2>2, <2>5, <2>6 DEF OwedFacts
<1>6. QED
  BY <1>4, <1>5

\* and after a step.
LEMMA OwedIsNext == DialogueInv' => OwedFacts'
BY OwedIs, PTL

\* Nothing owed, nothing comes but what is asked for.
LEMMA NothingComes ==
  ASSUME DialogueInv, DialogueInv', TimelyServer, [Next]_vars, Owed = 0,
         client_cmd_socket # Closed
  PROVE  Owed' \in {0, 1}
<1>1. TypeOK /\ StreamInv /\ TypeOK' /\ JobInv' /\ RequestInv'
  BY DEF DialogueInv, SessionInv
<1>2. /\ Owed' \in 0..2
      /\ toServer' # <<>> => Owed' = 1
      /\ toServer' = <<>> => Owed' = (IF job'.kind = "none" THEN 0 ELSE 1) + Unread'
  BY OwedIsNext DEF OwedFacts
<1>3. toServer = <<>> /\ job.kind = "none" /\ Unread = 0
  BY <1>1, OwedIs, UnreadIsLength DEF OwedFacts
<1>4. Unread' = 0
  <2>1. CASE UNCHANGED stream
    BY <1>3, <2>1, UnreadSame
  <2>2. CASE stream' = <<>>
    BY <2>2, UnreadNothing
  <2>3. ASSUME NEW k \in ChunkSizes, TakeFromStream(k) PROVE Unread' = 0
    <3>1. stream \in Seq(Replies)
      BY <1>1 DEF TypeOK, ConnectionTypeOK, ControlTypeOK
    <3>2. k \in 1..Len(stream)
      BY <3>1, ChunkType
    <3>3. Unread' = (IF k < Unread THEN Unread - k ELSE 0) /\ k \in Nat /\ k > 0
      BY <1>1, <2>3, <3>1, <3>2, UnreadTaken
    <3>4. QED
      BY <1>3, <3>3
  <2>4. CASE Server
    <3>1. ServerGoes
      BY <1>3, <2>4 DEF Server, ServerReplies, ServerFinishes
    <3>2. CASE UNCHANGED stream
      BY <1>3, <3>2, UnreadSame
    <3>3. CASE stream' = Append(stream, [of |-> 0, code |-> 421, multi |-> FALSE])
      <4>1. [of |-> 0, code |-> 421, multi |-> FALSE] \in Replies
        BY DEF Replies, Codes
      <4>2. Unread' = Len(stream)
        BY <1>1, <3>3, <4>1, UnreadAppended
      <4>3. Unread = Len(stream)
        BY <1>1, <3>1, UnreadWhileUp DEF ServerGoes
      <4>4. QED
        BY <1>3, <4>2, <4>3
    <3>4. QED
      BY <3>1, <3>2, <3>3 DEF ServerGoes
  <2>5. ~Connect
    <3>1. pc # "connect"
      BY DEF DialogueInv, DataInv
    <3>2. QED
      BY <3>1 DEF Connect
  <2>6. \/ stream' \in {stream, <<>>}
        \/ \E k \in ChunkSizes : TakeFromStream(k)
        \/ Server
    BY <1>1, <2>5, ClientSteps, UserSteps, OtherSteps DEF Next, ClientReads, StreamShrinks
  <2>7. QED
    BY <2>1, <2>2, <2>3, <2>4, <2>6
<1>5. QED
  BY <1>2, <1>4

\* A session is a half-duplex dialogue: the client speaks only when no reply
\* is owed to it, and a connection starts with the server's greeting.
THEOREM SessionIsDialogue ==
  ASSUME TimelyServer
  PROVE  Spec => HalfDuplex
<1>1. Init => Dialogue!Init
  <2>1. SUFFICES ASSUME Init PROVE Dialogue!Init
    OBVIOUS
  <2>2. client_cmd_socket = Closed
    BY <2>1 DEF Init, ControlInit
  <2>3. Owed = 0
    BY <2>1, <2>2, DialogueInit, OwedIs DEF OwedFacts
  <2>4. QED
    BY <2>2, <2>3 DEF Dialogue!Init
<1>2. DialogueInv /\ DialogueInv' /\ [Next]_vars =>
        [Dialogue!Next]_<<client_cmd_socket # Closed, Owed>>
  <2>1. SUFFICES ASSUME DialogueInv, DialogueInv', [Next]_vars
                 PROVE  \/ Dialogue!Next
                        \/ UNCHANGED <<client_cmd_socket # Closed, Owed>>
    OBVIOUS
  <2>2. Owed \in 0..2 /\ (client_cmd_socket = Closed => Owed = 0)
    BY <2>1, OwedIs DEF OwedFacts
  <2>3. Owed' \in 0..2 /\ (client_cmd_socket' = Closed => Owed' = 0)
    BY <2>1, OwedIsNext DEF OwedFacts
  <2>4. CASE client_cmd_socket' = Closed
    BY <2>2, <2>3, <2>4 DEF Dialogue!Next, Dialogue!Close
  <2>5. CASE client_cmd_socket = Closed /\ client_cmd_socket' # Closed
    <3>1. TypeOK /\ StreamInv
      BY <2>1 DEF DialogueInv, SessionInv
    <3>2. Connect
      BY <2>1, <2>5, <3>1, ClientSteps, UserSteps, OtherSteps
      DEF Next, ClientReads, SocketNotOpened
    <3>3. toServer' # <<>>
      BY <3>2 DEF Connect, ConnectTo
    <3>4. Owed' = 1
      BY <2>1, <3>3, OwedIsNext DEF OwedFacts
    <3>5. QED
      BY <2>2, <2>5, <3>4 DEF Dialogue!Next, Dialogue!Open
  <2>6. CASE client_cmd_socket # Closed /\ client_cmd_socket' # Closed
    <3>1. CASE Owed = 0
      <4>1. Owed' \in {0, 1}
        BY <2>1, <2>6, <3>1, NothingComes
      <4>2. QED
        BY <2>6, <3>1, <4>1 DEF Dialogue!Next, Dialogue!Request
    <3>2. CASE Owed = 1
      BY <2>3, <2>6, <3>2 DEF Dialogue!Next, Dialogue!Announce, Dialogue!Settle
    <3>3. CASE Owed = 2
      BY <2>3, <2>6, <3>3 DEF Dialogue!Next, Dialogue!Settle
    <3>4. QED
      BY <2>2, <3>1, <3>2, <3>3
  <2>7. QED
    BY <2>4, <2>5, <2>6
<1>3. QED
  BY <1>1, <1>2, DialogueInvariant, PTL DEF Spec, HalfDuplex, Dialogue!Spec
=============================================================================
