------------------------ MODULE FtpSessionTypeProofs ------------------------
(***************************************************************************)
(* Type correctness of FtpSession, for every set of faults and of commands *)
(* and for every bound.                                                    *)
(***************************************************************************)
EXTENDS FtpSession, SequenceTheorems, TLAPS

\* What one recv returns is a first part of the stream; it and what it leaves
\* are sequences of replies.
LEMMA ChunkType ==
  ASSUME stream \in Seq(Replies), NEW k \in ChunkSizes
  PROVE  /\ k \in 1..Len(stream)
         /\ SubSeq(stream, 1, k) \in Seq(Replies)
         /\ SubSeq(stream, k + 1, Len(stream)) \in Seq(Replies)
<1>1. k \in 1..Len(stream)
  <2>1. CASE "coalesce" \in Faults
    BY <2>1 DEF ChunkSizes
  <2>2. CASE "coalesce" \notin Faults
    <3>1. stream # <<>> /\ k = 1
      BY <2>2 DEF ChunkSizes
    <3>2. QED
      BY <3>1, EmptySeq, LenProperties
  <2>3. QED
    BY <2>1, <2>2
<1>2. Len(stream) \in Nat
  BY LenProperties
<1>3. SubSeq(stream, 1, k) \in Seq(Replies)
  BY <1>1, <1>2, SubSeqProperties
<1>4. SubSeq(stream, k + 1, Len(stream)) \in Seq(Replies)
  BY <1>1, <1>2, SubSeqProperties
<1>5. QED
  BY <1>1, <1>3, <1>4

-----------------------------------------------------------------------------
(* Type correctness. The pieces of the actions first: what each leaves of   *)
(* the connection is well typed.                                            *)

\* freecommand leaves a pointer of one of the known kinds.
LEMMA FreeCommandType ==
  ASSUME NEW pointer \in Pointers PROVE FreeCommand(pointer) \in Pointers
BY DEF FreeCommand, Pointers

\* A reply, or a failed wait, on a connection that is kept.
LEMMA ReceivedType ==
  ASSUME ConnectionTypeOK, Received, StayConnected, server_ip' \in Pointers
  PROVE  ConnectionTypeOK'
<1>1. PICK k \in ChunkSizes : FirstChunk(k) /\ TakeFromStream(k)
  BY DEF Received, GetResponseOk
<1>2. QED
  BY <1>1, ChunkType
  DEF FirstChunk, TakeFromStream, Received, GetResponseOk, StayConnected,
      serverVars, ConnectionTypeOK, ControlTypeOK, ServerTypeOK

LEMMA FailedBufferType ==
  ASSUME ConnectionTypeOK, NEW coming, GetResponseFails(coming)
  PROVE  recv_buffer' \in Seq(Replies) /\ collecting' \in BOOLEAN
BY EmptySeq DEF GetResponseFails, ConnectionTypeOK, ControlTypeOK, ServerTypeOK

LEMMA FailedKeepingType ==
  ASSUME ConnectionTypeOK, FailedKeeping, StayConnected, server_ip' \in Pointers
  PROVE  ConnectionTypeOK'
<1>1. recv_buffer' \in Seq(Replies) /\ collecting' \in BOOLEAN
  BY FailedBufferType DEF FailedKeeping
<1>2. stream' \in Seq(Replies) /\ peer' \in Peers
  <2>1. CASE stream = <<>>
    BY <2>1 DEF FailedKeeping, LeaveAfterFailure, ConnectionTypeOK,
                ControlTypeOK, ServerTypeOK, Peers
  <2>2. CASE stream # <<>>
    BY <2>2, ChunkType DEF FailedKeeping, LeaveAfterFailure, TakeFromStream,
                           ConnectionTypeOK, ControlTypeOK, ServerTypeOK
  <2>3. QED
    BY <2>1, <2>2
<1>3. QED
  BY <1>1, <1>2 DEF StayConnected, serverVars, ConnectionTypeOK, ControlTypeOK, ServerTypeOK

\* Hanging up, with or without a failed wait before it.
LEMMA HangUpType ==
  ASSUME ConnectionTypeOK, HangUp,
         recv_buffer' \in Seq(Replies), collecting' \in BOOLEAN
  PROVE  ConnectionTypeOK'
BY EmptySeq DEF HangUp, CloseCmdSocket, ForgetSession, NoJob, Jobs, Closed,
                Pointers, Peers, ConnectionTypeOK, ControlTypeOK, ServerTypeOK

LEMMA FailedHangingUpType ==
  ASSUME ConnectionTypeOK, FailedHangingUp
  PROVE  ConnectionTypeOK'
BY FailedBufferType, HangUpType DEF FailedHangingUp

\* send_cmd.
LEMMA SendOkType ==
  ASSUME ConnectionTypeOK, NEW verb \in Verbs, SendOk(verb)
  PROVE  /\ client_cmd_socket' = client_cmd_socket /\ stream' = stream
         /\ sent' \in Nat /\ peer' \in Peers /\ toServer' \in Seq(Requests)
<1>1. sent \in Nat /\ toServer \in Seq(Requests)
  BY DEF ConnectionTypeOK, ControlTypeOK, ServerTypeOK
<1>2. [of |-> sent + 1, verb |-> verb] \in Requests
  BY <1>1 DEF Requests
<1>3. Append(toServer, [of |-> sent + 1, verb |-> verb]) \in Seq(Requests)
  BY <1>1, <1>2, AppendProperties
<1>4. QED
  BY <1>1, <1>3 DEF SendOk, Peers

LEMMA SendThenAwaitType ==
  ASSUME ConnectionTypeOK, NEW verb \in Verbs, NEW call, SendThenAwait(verb, call)
  PROVE  ConnectionTypeOK'
BY SendOkType DEF SendThenAwait, serverVars, ConnectionTypeOK, ControlTypeOK, ServerTypeOK

LEMMA SendFailsType ==
  ASSUME ConnectionTypeOK, SendFailsThenReturn
  PROVE  ConnectionTypeOK'
<1>1. CASE client_cmd_socket = Closed
  BY <1>1, FreeCommandType
  DEF SendFailsThenReturn, SendFails, ForgetSession, NoJob, Jobs,
      ConnectionTypeOK, ControlTypeOK, ServerTypeOK
<1>2. CASE client_cmd_socket # Closed
  BY <1>2, EmptySeq
  DEF SendFailsThenReturn, SendFails, CloseCmdSocket, ForgetSession, NoJob,
      Jobs, Closed, Pointers, Peers, ConnectionTypeOK, ControlTypeOK, ServerTypeOK
<1>3. QED
  BY <1>1, <1>2

\* The pieces that keep the connection as it is.
LEMMA KeepType ==
  ASSUME ConnectionTypeOK, StayConnected, server_ip' \in Pointers,
         peer' \in Peers, UNCHANGED <<recv_buffer, collecting, stream>>
  PROVE  ConnectionTypeOK'
BY DEF StayConnected, serverVars, ConnectionTypeOK, ControlTypeOK, ServerTypeOK

LEMMA PointerType ==
  ASSUME ConnectionTypeOK
  PROVE  server_ip \in Pointers /\ FreeCommand(server_ip) \in Pointers
BY FreeCommandType DEF ConnectionTypeOK, ControlTypeOK, ServerTypeOK

\* The session starts well typed.
LEMMA TypeInit == ASSUME Init PROVE TypeOK
<1>1. ControlTypeOK
  BY EmptySeq DEF Init, ControlInit, ControlTypeOK, Closed, Pointers, Peers
<1>2. ServerTypeOK /\ DataTypeOK
  BY DEF Init, ServerInit, ServerTypeOK, DataTypeOK, NoJob, Jobs
<1>3. ProgramTypeOK /\ server_connected \in BOOLEAN
  BY DEF Init, ProgramTypeOK, ProgramCounters
<1>4. QED
  BY <1>1, <1>2, <1>3 DEF TypeOK, ConnectionTypeOK

-----------------------------------------------------------------------------
(* Connecting and logging in.                                               *)

LEMMA ConnectType == ASSUME TypeOK, Connect PROVE TypeOK'
<1>1. sent \in Nat
  BY DEF TypeOK, ConnectionTypeOK, ControlTypeOK
<1>2. <<[of |-> sent + 1, verb |-> "CONNECT"]>> \in Seq(Requests)
  <2>1. [of |-> sent + 1, verb |-> "CONNECT"] \in Requests
    BY <1>1 DEF Requests, Verbs
  <2>2. QED
    BY <2>1
<1>3. ConnectionTypeOK'
  BY <1>1, <1>2, EmptySeq
  DEF Connect, ConnectTo, ForgetSession, NoJob, Jobs, Descriptor, Pointers, Peers,
      TypeOK, ConnectionTypeOK, ControlTypeOK, ServerTypeOK
<1>4. DataTypeOK' /\ ProgramTypeOK'
  BY DEF Connect, Goto, TypeOK, DataTypeOK, ProgramTypeOK, dataVars,
         ProgramCounters, Awaiting
<1>5. QED
  BY <1>3, <1>4 DEF TypeOK

\* Either step of the program counter is well typed.
LEMMA StepType ==
  ASSUME ProgramTypeOK, NEW call \in ProgramCounters, Goto(call) \/ Return,
         echo' \in BOOLEAN, UNCHANGED <<typed, downloads>>
  PROVE  ProgramTypeOK'
BY DEF Goto, Return, ProgramTypeOK, ProgramCounters, UserCalls

\* The connection stays as it is, or freecommand has been called.
LEMMA ReceivedThenType ==
  ASSUME ConnectionTypeOK, Received \/ FailedKeeping, NEW call,
         GotoConnected(call) \/ ReturnConnected
  PROVE  ConnectionTypeOK'
BY ReceivedType, FailedKeepingType, PointerType DEF GotoConnected, ReturnConnected

LEMMA NoControlIOType ==
  ASSUME ConnectionTypeOK, NoControlIO, NEW call,
         GotoConnected(call) \/ ReturnConnected
  PROVE  ConnectionTypeOK'
<1>1. peer' \in Peers
  BY DEF NoControlIO, ConnectionTypeOK, ControlTypeOK
<1>2. QED
  BY <1>1, KeepType, PointerType DEF NoControlIO, GotoConnected, ReturnConnected

LEMMA KeptType ==
  ASSUME ConnectionTypeOK, HangUp, UNCHANGED <<recv_buffer, collecting>>
  PROVE  ConnectionTypeOK'
BY HangUpType DEF ConnectionTypeOK, ControlTypeOK

LEMMA UnchangedType ==
  ASSUME TypeOK, UNCHANGED vars
  PROVE  TypeOK'
BY DEF TypeOK, ConnectionTypeOK, ControlTypeOK, ServerTypeOK, DataTypeOK,
       ProgramTypeOK, vars, controlVars, serverVars, dataVars, uiVars

\* The data socket is closed, or nothing about the data connection changes.
LEMMA DataType ==
  ASSUME DataTypeOK, CloseData \/ UNCHANGED dataVars
  PROVE  DataTypeOK'
BY DEF DataTypeOK, CloseData, dataVars

LEMMA ConnectFailsType == ASSUME TypeOK, ConnectFails PROVE TypeOK'
<1>1. ConnectionTypeOK' /\ DataTypeOK'
  BY DEF ConnectFails, TypeOK, ConnectionTypeOK, ControlTypeOK, ServerTypeOK,
         DataTypeOK, controlVars, serverVars, dataVars, uiVars
<1>2. ProgramTypeOK'
  BY StepType DEF ConnectFails, LeaveLogin, TypeOK, ProgramTypeOK, uiVars,
                  ProgramCounters
<1>3. QED
  BY <1>1, <1>2 DEF TypeOK

LEMMA GreetingType == ASSUME TypeOK, Greeting PROVE TypeOK'
<1>1. ConnectionTypeOK'
  BY ReceivedThenType, FailedHangingUpType
  DEF Greeting, LoginReceiveFails, TypeOK
<1>2. DataTypeOK'
  BY DataType DEF Greeting, TypeOK
<1>3. ProgramTypeOK'
  BY StepType DEF Greeting, LoginReceiveFails, LeaveLogin, GotoConnected,
                  TypeOK, ProgramTypeOK, ProgramCounters, UserCalls
<1>4. QED
  BY <1>1, <1>2, <1>3 DEF TypeOK

LEMMA UserAnswersType ==
  ASSUME TypeOK, NEW question, NEW verb \in Verbs, NEW reply \in Awaiting,
         UserAnswers(question, verb, reply), echo' \in BOOLEAN
  PROVE  TypeOK'
<1>1. ConnectionTypeOK'
  BY SendThenAwaitType, KeptType DEF UserAnswers, TypeOK
<1>2. DataTypeOK'
  BY DataType DEF UserAnswers, TypeOK
<1>3. ProgramTypeOK'
  BY StepType DEF UserAnswers, SendThenAwait, LeaveLogin, TypeOK, ProgramCounters
<1>4. QED
  BY <1>1, <1>2, <1>3 DEF TypeOK

LEMMA UsernameType == ASSUME TypeOK, Username PROVE TypeOK'
BY UserAnswersType DEF Username, Verbs, Awaiting, TypeOK, ProgramTypeOK

LEMMA PasswordType == ASSUME TypeOK, Password PROVE TypeOK'
BY UserAnswersType DEF Password, Verbs, Awaiting

LEMMA UserReplyType == ASSUME TypeOK, UserReply PROVE TypeOK'
<1>1. ConnectionTypeOK'
  BY ReceivedThenType, FailedHangingUpType
  DEF UserReply, LoginReceiveFails, TypeOK
<1>2. DataTypeOK'
  BY DataType DEF UserReply, TypeOK
<1>3. ProgramTypeOK'
  BY StepType DEF UserReply, LoginReceiveFails, LeaveLogin, GotoConnected,
                  ReturnConnected, TypeOK, ProgramTypeOK, ProgramCounters, UserCalls
<1>4. QED
  BY <1>1, <1>2, <1>3 DEF TypeOK

LEMMA PassReplyType == ASSUME TypeOK, PassReply PROVE TypeOK'
<1>1. ConnectionTypeOK'
  BY ReceivedThenType, FailedHangingUpType
  DEF PassReply, LoginReceiveFails, TypeOK
<1>2. DataTypeOK'
  BY DataType DEF PassReply, TypeOK
<1>3. ProgramTypeOK'
  BY StepType DEF PassReply, LoginReceiveFails, LeaveLogin, ReturnConnected,
                  TypeOK, ProgramTypeOK, ProgramCounters
<1>4. QED
  BY <1>1, <1>2, <1>3 DEF TypeOK

-----------------------------------------------------------------------------
(* The command loop.                                                        *)

LEMMA ReadCommandType ==
  ASSUME TypeOK, NEW c \in Commands, ReadCommand(c)
  PROVE  TypeOK'
<1>1. ConnectionTypeOK'
  <2>1. CASE Refuse(c)
    BY <2>1 DEF Refuse, TypeOK, ConnectionTypeOK, ControlTypeOK, ServerTypeOK,
                controlVars, serverVars
  <2>2. CASE Accept(c)
    <3>1. CASE HangUp
      BY <2>2, <3>1, KeptType DEF Accept, TypeOK
    <3>2. CASE ~HangUp
      <4>1. StayConnected /\ UNCHANGED <<server_ip, stream, recv_buffer, collecting>>
        BY <2>2, <3>2 DEF Accept
      <4>2. peer' \in Peers
        BY <2>2, <3>2 DEF Accept, PeekConsumesError, TypeOK, ConnectionTypeOK,
                          ControlTypeOK, Peers
      <4>3. QED
        BY <4>1, <4>2, KeepType, PointerType DEF TypeOK
    <3>3. QED
      BY <3>1, <3>2
  <2>3. QED
    BY <2>1, <2>2 DEF ReadCommand
<1>2. DataTypeOK'
  BY DataType DEF ReadCommand, TypeOK
<1>3. ProgramTypeOK'
  BY DEF ReadCommand, Refuse, Accept, TypeOK, ProgramTypeOK, ProgramCounters
<1>4. QED
  BY <1>1, <1>2, <1>3 DEF TypeOK

LEMMA ReturnAtOnceType == ASSUME TypeOK, ReturnAtOnce PROVE TypeOK'
<1>1. ConnectionTypeOK' /\ DataTypeOK'
  BY NoControlIOType, DataType DEF ReturnAtOnce, TypeOK
<1>2. ProgramTypeOK'
  BY DEF ReturnAtOnce, ReturnConnected, Return, TypeOK, ProgramTypeOK,
         ProgramCounters, UserCalls
<1>3. QED
  BY <1>1, <1>2 DEF TypeOK

LEMMA SimpleCommandType == ASSUME TypeOK, SimpleCommand PROVE TypeOK'
<1>1. VerbOf(cmd) \in Verbs
  BY DEF VerbOf, Verbs
<1>2. ConnectionTypeOK' /\ DataTypeOK'
  BY <1>1, SendThenAwaitType, SendFailsType, DataType DEF SimpleCommand, TypeOK
<1>3. ProgramTypeOK'
  BY StepType DEF SimpleCommand, SendThenAwait, SendFailsThenReturn, TypeOK,
                  ProgramTypeOK, ProgramCounters, Awaiting
<1>4. QED
  BY <1>2, <1>3 DEF TypeOK

LEMMA SimpleReplyType == ASSUME TypeOK, SimpleReply PROVE TypeOK'
<1>1. ConnectionTypeOK' /\ DataTypeOK'
  BY ReceivedThenType, DataType DEF SimpleReply, TypeOK
<1>2. ProgramTypeOK'
  BY DEF SimpleReply, ReturnConnected, Return, TypeOK, ProgramTypeOK,
         ProgramCounters, UserCalls
<1>3. QED
  BY <1>1, <1>2 DEF TypeOK

LEMMA OpenCommandType == ASSUME TypeOK, OpenCommand PROVE TypeOK'
<1>1. ConnectionTypeOK'
  <2>1. CASE server_connected
    BY <2>1, KeptType DEF OpenCommand, TypeOK
  <2>2. CASE ~server_connected
    BY <2>2 DEF OpenCommand, StayConnected, serverVars, TypeOK,
                ConnectionTypeOK, ControlTypeOK, ServerTypeOK
  <2>3. QED
    BY <2>1, <2>2
<1>2. DataTypeOK'
  BY DataType DEF OpenCommand, TypeOK
<1>3. ProgramTypeOK'
  BY StepType DEF OpenCommand, TypeOK, ProgramTypeOK, ProgramCounters
<1>4. QED
  BY <1>1, <1>2, <1>3 DEF TypeOK

-----------------------------------------------------------------------------
(* Transfers.                                                               *)

LEMMA NoDataSocketType == ASSUME TypeOK, NoDataSocket PROVE TypeOK'
<1>1. ConnectionTypeOK' /\ DataTypeOK'
  BY NoControlIOType, DataType DEF NoDataSocket, TypeOK
<1>2. ProgramTypeOK'
  BY DEF NoDataSocket, ReturnConnected, Return, TypeOK, ProgramTypeOK,
         ProgramCounters, UserCalls
<1>3. QED
  BY <1>1, <1>2 DEF TypeOK

LEMMA EnterPassiveModeType == ASSUME TypeOK, EnterPassiveMode PROVE TypeOK'
<1>1. ConnectionTypeOK'
  BY SendThenAwaitType, KeptType DEF EnterPassiveMode, Verbs, TypeOK
<1>2. sent' \in Nat
  BY <1>1 DEF ConnectionTypeOK, ControlTypeOK
<1>3. DataTypeOK'
  BY <1>2 DEF EnterPassiveMode, TypeOK, DataTypeOK, dataVars
<1>4. ProgramTypeOK'
  BY StepType DEF EnterPassiveMode, SendThenAwait, TypeOK, ProgramTypeOK,
                  ProgramCounters, Awaiting
<1>5. QED
  BY <1>1, <1>3, <1>4 DEF TypeOK

LEMMA PasvReplyType == ASSUME TypeOK, PasvReply PROVE TypeOK'
<1>1. ConnectionTypeOK'
  BY ReceivedThenType, FailedHangingUpType DEF PasvReply, TypeOK
<1>2. DataTypeOK'
  BY DataType DEF PasvReply, TypeOK
<1>3. ProgramTypeOK'
  BY StepType DEF PasvReply, GotoConnected, ReturnConnected, TypeOK,
                  ProgramTypeOK, ProgramCounters
<1>4. QED
  BY <1>1, <1>2, <1>3 DEF TypeOK

LEMMA DataConnectType == ASSUME TypeOK, DataConnect PROVE TypeOK'
<1>1. ConnectionTypeOK'
  BY DEF DataConnect, NoControlIO, TypeOK, ConnectionTypeOK, ControlTypeOK,
         ServerTypeOK, DataTypeOK
<1>2. DataTypeOK'
  BY DataType DEF DataConnect, TypeOK
<1>3. ProgramTypeOK'
  BY StepType DEF DataConnect, TypeOK, ProgramTypeOK, ProgramCounters
<1>4. QED
  BY <1>1, <1>2, <1>3 DEF TypeOK

LEMMA DataConnectFailsType == ASSUME TypeOK, DataConnectFails PROVE TypeOK'
<1>1. ConnectionTypeOK' /\ DataTypeOK'
  BY NoControlIOType, DataType DEF DataConnectFails, TypeOK
<1>2. ProgramTypeOK'
  BY StepType DEF DataConnectFails, ReturnConnected, TypeOK, ProgramTypeOK
<1>3. QED
  BY <1>1, <1>2 DEF TypeOK

LEMMA SendRequestType == ASSUME TypeOK, SendRequest PROVE TypeOK'
<1>1. ConnectionTypeOK'
  BY SendThenAwaitType, SendFailsType DEF SendRequest, Verbs, TypeOK
<1>2. DataTypeOK'
  BY DataType DEF SendRequest, TypeOK
<1>3. ProgramTypeOK'
  BY StepType DEF SendRequest, SendThenAwait, SendFailsThenReturn, TypeOK,
                  ProgramTypeOK, ProgramCounters, Awaiting
<1>4. QED
  BY <1>1, <1>2, <1>3 DEF TypeOK

LEMMA SizeReplyType == ASSUME TypeOK, SizeReply PROVE TypeOK'
<1>1. ConnectionTypeOK' /\ DataTypeOK'
  BY ReceivedThenType, DataType DEF SizeReply, TypeOK
<1>2. ProgramTypeOK'
  BY StepType DEF SizeReply, GotoConnected, ReturnConnected, TypeOK,
                  ProgramTypeOK, ProgramCounters
<1>3. QED
  BY <1>1, <1>2 DEF TypeOK

LEMMA TransferReplyType == ASSUME TypeOK, TransferReply PROVE TypeOK'
<1>1. ConnectionTypeOK' /\ DataTypeOK'
  BY ReceivedThenType, DataType DEF TransferReply, TypeOK
<1>2. ProgramTypeOK'
  BY StepType DEF TransferReply, GotoConnected, ReturnConnected, TypeOK,
                  ProgramTypeOK, ProgramCounters
<1>3. QED
  BY <1>1, <1>2 DEF TypeOK

LEMMA ForkType == ASSUME TypeOK, Fork PROVE TypeOK'
<1>1. ConnectionTypeOK'
  BY NoControlIOType DEF Fork, TypeOK
<1>2. DataTypeOK'
  BY DEF Fork, TypeOK, DataTypeOK
<1>3. ProgramTypeOK'
  <2>1. downloads' \subseteq Nat
    BY DEF Fork, TypeOK, DataTypeOK, ProgramTypeOK
  <2>2. AfterFork \in ProgramCounters
    BY DEF AfterFork, ProgramCounters, Awaiting
  <2>3. QED
    BY <2>1, <2>2 DEF Fork, GotoConnected, Goto, TypeOK, ProgramTypeOK
<1>4. QED
  BY <1>1, <1>2, <1>3 DEF TypeOK

LEMMA ForkFailsType == ASSUME TypeOK, ForkFails PROVE TypeOK'
<1>1. ConnectionTypeOK' /\ DataTypeOK'
  BY NoControlIOType, DataType DEF ForkFails, TypeOK
<1>2. ProgramTypeOK'
  BY StepType DEF ForkFails, ReturnConnected, TypeOK, ProgramTypeOK
<1>3. QED
  BY <1>1, <1>2 DEF TypeOK

LEMMA CompleteType == ASSUME TypeOK, Complete PROVE TypeOK'
<1>1. ConnectionTypeOK'
  BY ReceivedThenType, FailedHangingUpType DEF Complete, TypeOK
<1>2. DataTypeOK'
  BY DataType DEF Complete, TypeOK
<1>3. ProgramTypeOK'
  BY StepType DEF Complete, GotoConnected, ReturnConnected, TypeOK,
                  ProgramTypeOK, ProgramCounters
<1>4. QED
  BY <1>1, <1>2, <1>3 DEF TypeOK

LEMMA WaitType == ASSUME TypeOK, Wait PROVE TypeOK'
<1>1. ConnectionTypeOK'
  BY NoControlIOType DEF Wait, TypeOK
<1>2. DataTypeOK'
  BY DEF Wait, TypeOK, DataTypeOK
<1>3. ProgramTypeOK'
  BY StepType DEF Wait, GotoConnected, ReturnConnected, TypeOK,
                  ProgramTypeOK, ProgramCounters, Awaiting
<1>4. QED
  BY <1>1, <1>2, <1>3 DEF TypeOK

LEMMA ChildType == ASSUME TypeOK, ChildEnds \/ ChildFails PROVE TypeOK'
BY DEF ChildEnds, ChildFails, TypeOK, ConnectionTypeOK, ControlTypeOK,
       ServerTypeOK, DataTypeOK, ProgramTypeOK, controlVars, serverVars, uiVars

-----------------------------------------------------------------------------
(* Leaving, and the multi-line loop.                                        *)

LEMMA ExitCmdType ==
  ASSUME TypeOK, ExitCmd
  PROVE  ConnectionTypeOK' /\ pc' \in {"quit", "exited"}
<1>1. CASE ~server_connected
  BY <1>1 DEF ExitCmd, TypeOK, ConnectionTypeOK, ControlTypeOK, ServerTypeOK,
              controlVars, serverVars
<1>2. CASE server_connected /\ SendOk("QUIT") /\ ~HangUp
  <2>1. "QUIT" \in Verbs
    BY DEF Verbs
  <2>2. /\ client_cmd_socket' = client_cmd_socket /\ stream' = stream
        /\ sent' \in Nat /\ peer' \in Peers /\ toServer' \in Seq(Requests)
    BY <1>2, <2>1, SendOkType DEF TypeOK
  <2>3. QED
    BY <1>2, <2>2 DEF ExitCmd, serverVars, TypeOK, ConnectionTypeOK,
                      ControlTypeOK, ServerTypeOK
<1>3. CASE server_connected /\ HangUp /\ UNCHANGED <<recv_buffer, collecting>>
           /\ pc' = "exited"
  BY <1>3, KeptType DEF TypeOK
<1>4. CASE server_connected /\ SendOk("QUIT") /\ HangUp
  BY <1>4, SendOkType DEF ExitCmd, SendOk, HangUp, CloseCmdSocket, Closed
<1>5. QED
  BY <1>1, <1>2, <1>3, <1>4 DEF ExitCmd

LEMMA LeavingType ==
  ASSUME TypeOK, Exit \/ Interrupt
  PROVE  TypeOK'
<1>1. ExitCmd
  BY DEF Exit, Interrupt
<1>2. ConnectionTypeOK' /\ DataTypeOK'
  BY <1>1, ExitCmdType, DataType DEF Exit, Interrupt, TypeOK
<1>3. ProgramTypeOK'
  BY <1>1, ExitCmdType DEF Exit, Interrupt, TypeOK, ProgramTypeOK,
     ProgramCounters, Awaiting
<1>4. QED
  BY <1>2, <1>3 DEF TypeOK

LEMMA QuitReplyType == ASSUME TypeOK, QuitReply PROVE TypeOK'
<1>1. recv_buffer' \in Seq(Replies) /\ collecting' \in BOOLEAN
  BY ChunkType, FailedBufferType
  DEF QuitReply, FirstChunk, TypeOK, ConnectionTypeOK, ControlTypeOK
<1>2. ConnectionTypeOK' /\ DataTypeOK'
  BY <1>1, HangUpType, DataType DEF QuitReply, TypeOK
<1>3. ProgramTypeOK'
  BY StepType DEF QuitReply, TypeOK, ProgramTypeOK, ProgramCounters
<1>4. QED
  BY <1>2, <1>3 DEF TypeOK

LEMMA MultilineLoopType == ASSUME TypeOK, MultilineLoop PROVE TypeOK'
<1>1. PICK k \in ChunkSizes :
        /\ recv_buffer' = (IF collecting THEN recv_buffer ELSE <<>>)
                          \o SubSeq(stream, 1, k)
        /\ TakeFromStream(k)
  BY DEF MultilineLoop, CollectMore
<1>2. stream \in Seq(Replies) /\ recv_buffer \in Seq(Replies)
  BY DEF TypeOK, ConnectionTypeOK, ControlTypeOK
<1>3. SubSeq(stream, 1, k) \in Seq(Replies) /\ stream' \in Seq(Replies)
  BY <1>1, <1>2, ChunkType DEF TakeFromStream
<1>4. (IF collecting THEN recv_buffer ELSE <<>>) \in Seq(Replies)
  BY <1>2, EmptySeq
<1>5. recv_buffer' \in Seq(Replies)
  BY <1>1, <1>3, <1>4, ConcatProperties
<1>6. ConnectionTypeOK'
  BY <1>3, <1>5 DEF MultilineLoop, CollectMore, StayConnected, serverVars,
                    TypeOK, ConnectionTypeOK, ControlTypeOK, ServerTypeOK
<1>7. DataTypeOK' /\ ProgramTypeOK'
  BY DataType, StepType DEF MultilineLoop, TypeOK, ProgramTypeOK
<1>8. QED
  BY <1>6, <1>7 DEF TypeOK

-----------------------------------------------------------------------------
(* The server.                                                              *)

\* A reply may be any of the known codes.
LEMMA ReplyCodesType == \A verb \in Verbs : ReplyCodes(verb) \subseteq Codes
BY DEF ReplyCodes, Verbs, TransferVerbs, Codes

LEMMA AnswerType ==
  ASSUME stream \in Seq(Replies), NEW number \in Nat, NEW code \in Codes,
         Answer(number, code)
  PROVE  stream' \in Seq(Replies)
<1>1. PICK multi \in BOOLEAN :
        LET reply == [of |-> number, code |-> code, multi |-> multi]
            rest  == [of |-> number, code |-> 0, multi |-> FALSE]
        IN \/ stream' = Append(stream, reply)
           \/ stream' = stream \o <<reply, rest>>
  BY DEF Answer
<1> DEFINE reply == [of |-> number, code |-> code, multi |-> multi]
           rest  == [of |-> number, code |-> 0, multi |-> FALSE]
<1>2. reply \in Replies /\ rest \in Replies
  BY DEF Replies, Codes
<1>3. Append(stream, reply) \in Seq(Replies)
  BY <1>2, AppendProperties
<1>4. <<reply, rest>> \in Seq(Replies)
  BY <1>2
<1>5. stream \o <<reply, rest>> \in Seq(Replies)
  BY <1>4, ConcatProperties
<1>6. QED
  BY <1>1, <1>3, <1>5

LEMMA ServerRepliesType ==
  ASSUME TypeOK, ServerReplies, UNCHANGED <<pc, cmd, uiVars, downloads>>
  PROVE  TypeOK'
<1>1. /\ toServer \in Seq(Requests) /\ toServer # <<>>
      /\ toServer' = Tail(toServer)
  BY DEF ServerReplies, TypeOK, ConnectionTypeOK, ControlTypeOK
<1>2. Head(toServer) \in Requests /\ toServer' \in Seq(Requests)
  BY <1>1, HeadTailProperties
<1> DEFINE request == Head(toServer)
<1>3. request.of \in Nat /\ request.verb \in Verbs
  BY <1>2 DEF Requests
<1>4. PICK code \in ReplyCodes(request.verb) :
        /\ Answer(request.of, code)
        /\ listener' = IF code = 227 THEN request.of ELSE listener
        /\ DataPort(request.verb, code)
        /\ IF code = 150
           THEN \E big \in BOOLEAN :
                  job' = [kind |-> IF request.verb = "STOR" THEN "recv" ELSE "send",
                          of |-> request.of, conn |-> accepted, big |-> big]
           ELSE job' = job
        /\ peer' = IF code = 221 THEN "fin" ELSE "up"
  BY DEF ServerReplies
<1>5. stream' \in Seq(Replies)
  <2>1. code \in Codes
    BY <1>3, <1>4, ReplyCodesType
  <2>2. QED
    BY <1>3, <1>4, <2>1, AnswerType DEF TypeOK, ConnectionTypeOK, ControlTypeOK
<1>6. job' \in Jobs
  BY <1>3, <1>4 DEF Jobs, TypeOK, ConnectionTypeOK, ServerTypeOK
<1>7. listener' \in Nat
  BY <1>3, <1>4 DEF TypeOK, ConnectionTypeOK, ServerTypeOK
<1>8. accepted' \in Nat /\ data_eof' \in BOOLEAN
  <2>1. accepted' = 0 \/ accepted' = accepted
    BY <1>4 DEF DataPort
  <2>2. \/ data_eof' = data_eof
        \/ data_eof' = (data_eof \/ (code # 150 /\ accepted # 0
                                               /\ accepted = data_socket))
    BY <1>4 DEF DataPort
  <2>3. data_eof \in BOOLEAN /\ accepted \in Nat
    BY DEF TypeOK, ConnectionTypeOK, ServerTypeOK, DataTypeOK
  <2>4. data_eof' \in BOOLEAN
    BY <2>2, <2>3
  <2>5. QED
    BY <2>1, <2>3, <2>4
<1>9. peer' \in Peers
  BY <1>4 DEF Peers
<1>10. ConnectionTypeOK'
  BY <1>2, <1>5, <1>6, <1>7, <1>8, <1>9
  DEF ServerReplies, uiVars, TypeOK, ConnectionTypeOK, ControlTypeOK, ServerTypeOK
<1>11. DataTypeOK' /\ ProgramTypeOK'
  BY <1>8 DEF ServerReplies, uiVars, TypeOK, DataTypeOK, ProgramTypeOK
<1>12. QED
  BY <1>10, <1>11 DEF TypeOK

LEMMA ServerFinishesType ==
  ASSUME TypeOK, ServerFinishes, UNCHANGED <<pc, cmd, uiVars, downloads>>
  PROVE  TypeOK'
<1>1. stream' \in Seq(Replies)
  <2>1. PICK code \in {226, 426} : Answer(job.of, code)
    BY DEF ServerFinishes
  <2>2. job.of \in Nat
    BY DEF TypeOK, ConnectionTypeOK, ServerTypeOK, Jobs
  <2>3. code \in Codes
    BY DEF Codes
  <2>4. QED
    BY <2>1, <2>2, <2>3, AnswerType DEF TypeOK, ConnectionTypeOK, ControlTypeOK
<1>2. job' \in Jobs
  BY DEF ServerFinishes, NoJob, Jobs
<1>3. ConnectionTypeOK'
  BY <1>1, <1>2 DEF ServerFinishes, uiVars, TypeOK, ConnectionTypeOK,
                    ControlTypeOK, ServerTypeOK
<1>4. DataTypeOK' /\ ProgramTypeOK'
  BY DEF ServerFinishes, uiVars, TypeOK, DataTypeOK, ProgramTypeOK
<1>5. QED
  BY <1>3, <1>4 DEF TypeOK

LEMMA ServerGoesType ==
  ASSUME TypeOK, ServerGoes, UNCHANGED <<pc, cmd, uiVars, downloads>>
  PROVE  TypeOK'
<1>1. stream' \in Seq(Replies)
  <2>1. [of |-> 0, code |-> 421, multi |-> FALSE] \in Replies
    BY DEF Replies, Codes
  <2>2. Append(stream, [of |-> 0, code |-> 421, multi |-> FALSE]) \in Seq(Replies)
    BY <2>1, AppendProperties DEF TypeOK, ConnectionTypeOK, ControlTypeOK
  <2>3. QED
    BY <2>2 DEF ServerGoes, TypeOK, ConnectionTypeOK, ControlTypeOK
<1>2. ConnectionTypeOK'
  BY <1>1, EmptySeq
  DEF ServerGoes, ForgetSession, NoJob, Jobs, Peers, uiVars, TypeOK,
      ConnectionTypeOK, ControlTypeOK, ServerTypeOK
<1>3. DataTypeOK' /\ ProgramTypeOK'
  BY DEF ServerGoes, uiVars, TypeOK, DataTypeOK, ProgramTypeOK
<1>4. QED
  BY <1>2, <1>3 DEF TypeOK

-----------------------------------------------------------------------------

\* Every step of the client, of the user, of the child and of the server keeps
\* every variable in its type.
LEMMA TypeStep == ASSUME TypeOK, [Next]_vars PROVE TypeOK'
<1>1. CASE Client
  BY <1>1, ConnectType, ConnectFailsType, GreetingType, UserReplyType,
     PassReplyType, ReturnAtOnceType, SimpleCommandType, SimpleReplyType,
     OpenCommandType, NoDataSocketType, EnterPassiveModeType, PasvReplyType,
     DataConnectType, DataConnectFailsType, SendRequestType, SizeReplyType,
     TransferReplyType, ForkType, ForkFailsType, CompleteType, WaitType,
     LeavingType, QuitReplyType, MultilineLoopType
  DEF Client
<1>2. CASE User
  BY <1>2, ReadCommandType, UsernameType, PasswordType, LeavingType,
     CommandsAssumption DEF User
<1>3. CASE ChildEnds \/ ChildFails
  BY <1>3, ChildType
<1>4. CASE Server
  BY <1>4, ServerRepliesType, ServerFinishesType, ServerGoesType DEF Server
<1>5. CASE Terminated \/ UNCHANGED vars
  BY <1>5, UnchangedType DEF Terminated
<1>6. QED
  BY <1>1, <1>2, <1>3, <1>4, <1>5 DEF Next

\* Type correctness, for every run of the client with any server.
THEOREM TypeCorrect == Spec => []TypeOK
<1>1. Init => TypeOK
  BY TypeInit
<1>2. TypeOK /\ [Next]_vars => TypeOK'
  BY TypeStep
<1>3. QED
  BY <1>1, <1>2, PTL DEF Spec

=============================================================================
