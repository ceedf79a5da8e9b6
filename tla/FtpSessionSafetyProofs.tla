----------------------- MODULE FtpSessionSafetyProofs -----------------------
(***************************************************************************)
(* The safety invariants of FtpSession, for every set of faults and of     *)
(* commands and for every bound.  They follow from SessionInv, which every *)
(* step preserves.                                                         *)
(***************************************************************************)
EXTENDS FtpSessionTypeProofs

-----------------------------------------------------------------------------
(* The flag and the socket.                                                 *)

\* A connection that is kept stays as known to the command loop as it was.
LEMMA FlagKept ==
  ASSUME FlagAndSocketAgree, pc # "prompt",
         UNCHANGED <<client_cmd_socket, server_connected>>
  PROVE  FlagAndSocketAgree'
BY DEF FlagAndSocketAgree

\* A connection that is hung up is closed and forgotten.
LEMMA FlagHangUp == ASSUME HangUp PROVE FlagAndSocketAgree'
BY DEF HangUp, CloseCmdSocket, FlagAndSocketAgree

LEMMA FlagSend ==
  ASSUME FlagAndSocketAgree, pc # "prompt", NEW verb, NEW call,
         SendThenAwait(verb, call)
  PROVE  FlagAndSocketAgree'
BY FlagKept DEF SendThenAwait, SendOk

LEMMA FlagSendFails ==
  ASSUME FlagAndSocketAgree, SendFailsThenReturn
  PROVE  FlagAndSocketAgree'
BY DEF SendFailsThenReturn, SendFails, CloseCmdSocket, Return, FlagAndSocketAgree

LEMMA FlagStay ==
  ASSUME FlagAndSocketAgree, pc # "prompt", NEW call,
         GotoConnected(call) \/ ReturnConnected \/ StayConnected
  PROVE  FlagAndSocketAgree'
BY FlagKept DEF GotoConnected, ReturnConnected, StayConnected

LEMMA FlagExit ==
  ASSUME FlagAndSocketAgree, ExitCmd
  PROVE  FlagAndSocketAgree'
<1>1. CASE ~server_connected
  <2>1. UNCHANGED <<client_cmd_socket, server_connected>>
    BY <1>1 DEF ExitCmd, controlVars
  <2>2. QED
    BY <1>1, <2>1 DEF FlagAndSocketAgree
<1>2. CASE server_connected /\ SendOk("QUIT") /\ UNCHANGED server_connected
  <2>1. UNCHANGED client_cmd_socket /\ client_cmd_socket # Closed
    BY <1>2 DEF SendOk
  <2>2. QED
    BY <1>2, <2>1 DEF FlagAndSocketAgree
<1>3. CASE HangUp
  BY <1>3, FlagHangUp
<1>4. QED
  BY <1>1, <1>2, <1>3 DEF ExitCmd

LEMMA FlagClient ==
  ASSUME FlagAndSocketAgree, Client
  PROVE  FlagAndSocketAgree'
<1>1. CASE Connect
  BY <1>1 DEF Connect, ConnectTo, Closed, Descriptor, FlagAndSocketAgree
<1>2. CASE ConnectFails
  BY <1>2, FlagKept DEF ConnectFails, controlVars, uiVars
<1>3. CASE Greeting \/ UserReply \/ PassReply
  BY <1>3, FlagStay, FlagHangUp
  DEF Greeting, UserReply, PassReply, LoginReceiveFails, FailedHangingUp
<1>4. CASE SimpleCommand \/ SendRequest
  BY <1>4, FlagSend, FlagSendFails DEF SimpleCommand, SendRequest
<1>5. CASE ReturnAtOnce \/ SimpleReply \/ NoDataSocket \/ DataConnectFails
  BY <1>5, FlagStay DEF ReturnAtOnce, SimpleReply, NoDataSocket, DataConnectFails
<1>6. CASE OpenCommand
  BY <1>6, FlagStay, FlagHangUp DEF OpenCommand
<1>7. CASE EnterPassiveMode
  BY <1>7, FlagSend, FlagHangUp DEF EnterPassiveMode
<1>8. CASE PasvReply \/ SizeReply \/ TransferReply \/ Complete
  BY <1>8, FlagStay, FlagHangUp
  DEF PasvReply, SizeReply, TransferReply, Complete, FailedHangingUp
<1>9. CASE DataConnect
  BY <1>9, FlagKept DEF DataConnect
<1>10. CASE Fork \/ ForkFails \/ Wait \/ MultilineLoop
  BY <1>10, FlagStay DEF Fork, ForkFails, Wait, MultilineLoop, Awaiting
<1>11. CASE pc = "dispatch" /\ Exit
  BY <1>11, FlagExit DEF Exit
<1>12. CASE QuitReply
  BY <1>12, FlagHangUp DEF QuitReply
<1>13. QED
  BY <1>1, <1>2, <1>3, <1>4, <1>5, <1>6, <1>7, <1>8, <1>9, <1>10, <1>11, <1>12
  DEF Client

LEMMA FlagUser ==
  ASSUME FlagAndSocketAgree, User
  PROVE  FlagAndSocketAgree'
<1>1. ASSUME NEW c \in Commands, ReadCommand(c) PROVE FlagAndSocketAgree'
  <2>1. CASE Refuse(c)
    BY <2>1 DEF Refuse, controlVars, FlagAndSocketAgree
  <2>2. CASE Accept(c) /\ server_connected /\ IsServerDisconnected
    BY <2>2, FlagHangUp DEF Accept
  <2>3. CASE Accept(c) /\ ~(server_connected /\ IsServerDisconnected)
    <3>1. UNCHANGED <<client_cmd_socket, server_connected>>
      BY <2>3 DEF Accept, StayConnected
    <3>2. server_connected => client_cmd_socket # Closed
      BY <2>3 DEF IsServerDisconnected
    <3>3. QED
      BY <3>1, <3>2 DEF FlagAndSocketAgree
  <2>4. QED
    BY <1>1, <2>1, <2>2, <2>3 DEF ReadCommand
<1>2. CASE Username \/ Password
  BY <1>2, FlagSend, FlagHangUp DEF Username, Password, UserAnswers
<1>3. CASE Interrupt \/ Exit
  BY <1>3, FlagExit DEF Interrupt, Exit
<1>4. QED
  BY <1>1, <1>2, <1>3 DEF User

\* The child and the server have no hand in it.
LEMMA FlagOthers ==
  ASSUME FlagAndSocketAgree,
         ChildEnds \/ ChildFails \/ Server \/ Terminated \/ UNCHANGED vars
  PROVE  FlagAndSocketAgree'
BY DEF ChildEnds, ChildFails, Server, ServerReplies, ServerFinishes, ServerGoes,
       Terminated, vars, controlVars, uiVars, FlagAndSocketAgree

-----------------------------------------------------------------------------
(* The data sockets.                                                        *)

\* Socket names are numbers of commands sent, and those only grow.
SentGrows == sent' \in {sent, sent + 1}

LEMMA OldSockets ==
  ASSUME TypeOK, SocketsInv, SentGrows, UNCHANGED <<data_socket, downloads>>
  PROVE  \A s \in (downloads \cup {data_socket})' : s <= sent'
<1>1. sent \in Nat /\ downloads \cup {data_socket} \subseteq Nat
  BY DEF TypeOK, ConnectionTypeOK, ControlTypeOK, DataTypeOK, ProgramTypeOK
<1>2. \A s \in downloads \cup {data_socket} : s <= sent
  BY DEF SocketsInv
<1>3. QED
  BY <1>1, <1>2 DEF SentGrows

\* Outside a transfer nothing happens to the data sockets.
LEMMA SocketsElsewhere ==
  ASSUME TypeOK, SocketsInv, SentGrows,
         UNCHANGED <<data_socket, dataFds, downloads>>,
         pc \notin TransferCalls \cup {"quit", "exited"}, pc' \notin TransferCalls
  PROVE  SocketsInv'
BY OldSockets DEF SocketsInv

\* Within one the socket is kept,
LEMMA SocketsHeld ==
  ASSUME TypeOK, SocketsInv, SentGrows, UNCHANGED <<dataVars, downloads>>,
         pc \in TransferCalls, pc' \in TransferCalls
  PROVE  SocketsInv'
BY OldSockets DEF SocketsInv, dataVars

\* and every way out of one before the fork gives it back.
LEMMA SocketsGivenBack ==
  ASSUME TypeOK, SocketsInv, SentGrows, CloseData, UNCHANGED downloads,
         pc \in TransferCalls, pc' \notin TransferCalls
  PROVE  SocketsInv'
BY OldSockets DEF SocketsInv, CloseData

LEMMA SocketsLeaving ==
  ASSUME TypeOK, SocketsInv, SentGrows, UNCHANGED <<data_socket, downloads>>,
         pc' \in {"quit", "exited"}
  PROVE  SocketsInv'
BY OldSockets DEF SocketsInv, TransferCalls

\* The pieces of the actions number the commands one by one.
LEMMA StaySent == ASSUME StayConnected \/ HangUp PROVE SentGrows
BY DEF StayConnected, HangUp, SentGrows

LEMMA GotoSent ==
  ASSUME NEW call, GotoConnected(call) \/ ReturnConnected PROVE SentGrows
BY StaySent DEF GotoConnected, ReturnConnected

LEMMA SendSent ==
  ASSUME NEW verb, NEW call, SendThenAwait(verb, call) PROVE SentGrows
BY DEF SendThenAwait, SendOk, SentGrows

LEMMA SendFailsSent == ASSUME SendFailsThenReturn PROVE SentGrows
BY DEF SendFailsThenReturn, SendFails, SentGrows

LEMMA ExitSent ==
  ASSUME ExitCmd PROVE SentGrows /\ pc' \in {"quit", "exited"}
BY StaySent DEF ExitCmd, SendOk, SentGrows, controlVars

LEMMA SocketsLogin ==
  ASSUME TypeOK, SocketsInv,
         Connect \/ ConnectFails \/ Greeting \/ Username \/ UserReply \/ Password
         \/ PassReply
  PROVE  SocketsInv'
<1>1. SentGrows
  <2>1. CASE Connect \/ ConnectFails
    BY <2>1 DEF Connect, ConnectTo, ConnectFails, controlVars, SentGrows
  <2>2. CASE Greeting \/ UserReply \/ PassReply
    BY <2>2, GotoSent, StaySent
    DEF Greeting, UserReply, PassReply, LoginReceiveFails, FailedHangingUp
  <2>3. CASE Username \/ Password
    BY <2>3, SendSent, StaySent DEF Username, Password, UserAnswers
  <2>4. QED
    BY <2>1, <2>2, <2>3
<1>2. UNCHANGED <<data_socket, dataFds, downloads>>
  BY DEF Connect, ConnectFails, Greeting, Username, UserReply, Password, PassReply,
         UserAnswers, dataVars
<1>3. pc \notin TransferCalls \cup {"quit", "exited"}
  BY DEF Connect, ConnectFails, Greeting, Username, UserReply, Password, PassReply,
         UserAnswers, TransferCalls
<1>4. pc' \notin TransferCalls
  BY DEF Connect, ConnectFails, Greeting, Username, UserReply, Password, PassReply,
         UserAnswers, LoginReceiveFails, LeaveLogin, SendThenAwait, GotoConnected,
         ReturnConnected, Goto, Return, TransferCalls
<1>5. QED
  BY <1>1, <1>2, <1>3, <1>4, SocketsElsewhere

LEMMA SocketsLoop ==
  ASSUME TypeOK, SocketsInv,
         (\E c \in Commands : ReadCommand(c)) \/ ReturnAtOnce \/ SimpleCommand
         \/ SimpleReply \/ OpenCommand \/ NoDataSocket
  PROVE  SocketsInv'
<1>1. SentGrows
  <2>1. ASSUME NEW c \in Commands, ReadCommand(c) PROVE SentGrows
    BY <2>1, StaySent
    DEF ReadCommand, Refuse, Accept, controlVars, SentGrows
  <2>2. CASE ReturnAtOnce \/ SimpleReply \/ NoDataSocket
    BY <2>2, GotoSent DEF ReturnAtOnce, SimpleReply, NoDataSocket
  <2>3. CASE SimpleCommand
    BY <2>3, SendSent, SendFailsSent DEF SimpleCommand
  <2>4. CASE OpenCommand
    BY <2>4, StaySent DEF OpenCommand
  <2>5. QED
    BY <2>1, <2>2, <2>3, <2>4
<1>2. UNCHANGED <<data_socket, dataFds, downloads>>
  BY DEF ReadCommand, ReturnAtOnce, SimpleCommand, SimpleReply, OpenCommand,
         NoDataSocket, dataVars
<1>3. pc \notin TransferCalls \cup {"quit", "exited"}
  BY DEF ReadCommand, ReturnAtOnce, SimpleCommand, SimpleReply, OpenCommand,
         NoDataSocket, TransferCalls
<1>4. pc' \notin TransferCalls
  BY DEF ReadCommand, Refuse, Accept, ReturnAtOnce, SimpleCommand, SimpleReply,
         OpenCommand, NoDataSocket, SendThenAwait, SendFailsThenReturn,
         ReturnConnected, Goto, Return, TransferCalls
<1>5. QED
  BY <1>1, <1>2, <1>3, <1>4, SocketsElsewhere

LEMMA SocketsPassive ==
  ASSUME TypeOK, SocketsInv, EnterPassiveMode
  PROVE  SocketsInv'
<1>1. pc = "dispatch" /\ dataFds = downloads /\ UNCHANGED downloads
  BY DEF EnterPassiveMode, SocketsInv, TransferCalls
<1>2. sent \in Nat /\ downloads \subseteq Nat
  BY DEF TypeOK, ConnectionTypeOK, ControlTypeOK, ProgramTypeOK
<1>3. CASE /\ SendThenAwait("PASV", "pasv")
           /\ data_socket' = sent' /\ dataFds' = dataFds \cup {sent'}
  <2>1. pc' = "pasv" /\ sent' = sent + 1
    BY <1>3 DEF SendThenAwait, SendOk, Goto
  <2>2. \A s \in downloads : s <= sent
    BY DEF SocketsInv
  <2>3. \A s \in downloads : s <= sent' /\ s # sent'
    BY <1>2, <2>1, <2>2
  <2>4. data_socket' \notin downloads' /\ dataFds' = downloads' \cup {data_socket'}
    BY <1>1, <1>3, <2>3
  <2>5. \A s \in downloads' \cup {data_socket'} : s <= sent'
    <3>1. sent' <= sent'
      BY <1>2, <2>1
    <3>2. downloads' = downloads /\ data_socket' = sent'
      BY <1>1, <1>3
    <3>3. QED
      BY <2>3, <3>1, <3>2
  <2>6. pc' \in TransferCalls
    BY <2>1 DEF TransferCalls
  <2>7. QED
    BY <2>4, <2>5, <2>6 DEF SocketsInv
<1>4. CASE HangUp /\ Return /\ UNCHANGED dataVars
  BY <1>1, <1>4, StaySent, SocketsElsewhere DEF Return, dataVars, TransferCalls
<1>5. QED
  BY <1>3, <1>4 DEF EnterPassiveMode

LEMMA SocketsTransfer ==
  ASSUME TypeOK, SocketsInv,
         PasvReply \/ DataConnect \/ DataConnectFails \/ SendRequest \/ SizeReply
         \/ TransferReply \/ ForkFails
  PROVE  SocketsInv'
<1>1. SentGrows
  <2>1. CASE PasvReply \/ DataConnectFails \/ SizeReply \/ TransferReply \/ ForkFails
    BY <2>1, GotoSent, StaySent
    DEF PasvReply, DataConnectFails, SizeReply, TransferReply, ForkFails,
        FailedHangingUp
  <2>2. CASE DataConnect
    BY <2>2 DEF DataConnect, SentGrows
  <2>3. CASE SendRequest
    BY <2>3, SendSent, SendFailsSent DEF SendRequest
  <2>4. QED
    BY <2>1, <2>2, <2>3
<1>2. pc \in TransferCalls /\ UNCHANGED downloads
  BY DEF PasvReply, DataConnect, DataConnectFails, SendRequest, SizeReply,
         TransferReply, ForkFails, TransferCalls
<1>3. \/ pc' \in TransferCalls /\ UNCHANGED dataVars
      \/ pc' \notin TransferCalls /\ CloseData
  BY DEF PasvReply, DataConnect, DataConnectFails, SendRequest, SizeReply,
         TransferReply, ForkFails, SendThenAwait, SendFailsThenReturn,
         GotoConnected, ReturnConnected, Goto, Return, TransferCalls
<1>4. QED
  BY <1>1, <1>2, <1>3, SocketsHeld, SocketsGivenBack

\* The fork turns the socket of a get or an ls into one that is kept for good.
LEMMA SocketsFork ==
  ASSUME TypeOK, SocketsInv, Fork
  PROVE  SocketsInv'
<1>1. data_socket \notin downloads /\ dataFds = downloads \cup {data_socket}
  BY DEF Fork, SocketsInv, TransferCalls
<1>2. pc' \notin TransferCalls
  BY DEF Fork, GotoConnected, Goto, AfterFork, TransferCalls
<1>3. dataFds' = downloads'
  BY <1>1 DEF Fork
<1>4. \A s \in (downloads \cup {data_socket})' : s <= sent'
  <2>1. sent' = sent
    BY DEF Fork, GotoConnected, StayConnected
  <2>2. (downloads \cup {data_socket})' \subseteq downloads \cup {data_socket}
    BY DEF Fork
  <2>3. QED
    BY <2>1, <2>2 DEF SocketsInv
<1>5. QED
  BY <1>2, <1>3, <1>4 DEF SocketsInv

LEMMA SocketsAfterFork ==
  ASSUME TypeOK, SocketsInv, Complete \/ Wait
  PROVE  SocketsInv'
<1>1. SentGrows
  BY GotoSent, StaySent DEF Complete, Wait, FailedHangingUp
<1>2. pc \in {"complete", "wait"} /\ pc' \in {"complete", "wait", "prompt"}
  BY DEF Complete, Wait, GotoConnected, ReturnConnected, Goto, Return
<1>3. UNCHANGED <<data_socket, dataFds, downloads>>
  BY DEF Complete, Wait, dataVars
<1>4. QED
  BY <1>1, <1>2, <1>3, SocketsElsewhere DEF TransferCalls

LEMMA SocketsExit ==
  ASSUME TypeOK, SocketsInv, Exit \/ Interrupt \/ QuitReply
  PROVE  SocketsInv'
<1>1. SentGrows /\ pc' \in {"quit", "exited"}
  BY ExitSent, StaySent DEF Exit, Interrupt, QuitReply, Goto
<1>2. UNCHANGED <<data_socket, downloads>>
  BY DEF Exit, Interrupt, QuitReply, dataVars
<1>3. QED
  BY <1>1, <1>2, SocketsLeaving

\* Steps of no interest: the program stays where it is.
LEMMA SocketsSamePlace ==
  ASSUME TypeOK, SocketsInv, SentGrows,
         UNCHANGED <<pc, data_socket, dataFds, downloads>>
  PROVE  SocketsInv'
BY OldSockets DEF SocketsInv

LEMMA SocketsOthers ==
  ASSUME TypeOK, SocketsInv,
         MultilineLoop \/ ChildEnds \/ ChildFails \/ Server \/ Terminated
         \/ UNCHANGED vars
  PROVE  SocketsInv'
<1>1. SentGrows
  BY StaySent
  DEF MultilineLoop, ChildEnds, ChildFails, Server, ServerReplies, ServerFinishes,
      ServerGoes, Terminated, vars, controlVars, SentGrows
<1>2. UNCHANGED <<pc, data_socket, dataFds, downloads>>
  BY DEF MultilineLoop, Goto, ChildEnds, ChildFails, Server, ServerReplies,
         ServerFinishes, ServerGoes, Terminated, vars, dataVars
<1>3. QED
  BY <1>1, <1>2, SocketsSamePlace

-----------------------------------------------------------------------------
(* The child.                                                               *)

\* Before the fork there is no child, and these steps make none.
LEMMA ChildNone ==
  ASSUME ChildInv, pc \notin {"complete", "wait", "quit", "exited"},
         UNCHANGED child
  PROVE  ChildInv'
BY DEF ChildInv

LEMMA ChildClient ==
  ASSUME ChildInv, Client
  PROVE  ChildInv'
<1>1. CASE Connect \/ ConnectFails \/ Greeting \/ UserReply \/ PassReply
  BY <1>1, ChildNone
  DEF Connect, ConnectFails, Greeting, UserReply, PassReply, dataVars
<1>2. CASE ReturnAtOnce \/ SimpleCommand \/ SimpleReply \/ OpenCommand
  BY <1>2, ChildNone
  DEF ReturnAtOnce, SimpleCommand, SimpleReply, OpenCommand, dataVars
<1>3. CASE NoDataSocket \/ EnterPassiveMode \/ PasvReply \/ DataConnect
  BY <1>3, ChildNone
  DEF NoDataSocket, EnterPassiveMode, PasvReply, DataConnect, CloseData, dataVars
<1>4. CASE DataConnectFails \/ SendRequest \/ SizeReply \/ TransferReply \/ ForkFails
  BY <1>4, ChildNone
  DEF DataConnectFails, SendRequest, SizeReply, TransferReply, ForkFails, CloseData,
      dataVars
<1>5. CASE Fork
  BY <1>5 DEF Fork, GotoConnected, Goto, AfterFork, ChildInv
<1>6. CASE Complete
  BY <1>6 DEF Complete, GotoConnected, Goto, ReturnConnected, Return, dataVars,
              ChildInv
<1>7. CASE Wait
  BY <1>7 DEF Wait, ChildInv
<1>8. CASE Exit \/ QuitReply
  BY <1>8, ExitSent DEF Exit, QuitReply, Goto, dataVars, ChildInv
<1>9. CASE MultilineLoop
  BY <1>9 DEF MultilineLoop, Goto, dataVars, ChildInv
<1>10. QED
  BY <1>1, <1>2, <1>3, <1>4, <1>5, <1>6, <1>7, <1>8, <1>9 DEF Client

LEMMA ChildUser ==
  ASSUME ChildInv, User
  PROVE  ChildInv'
<1>1. CASE (\E c \in Commands : ReadCommand(c)) \/ Username \/ Password
  BY <1>1, ChildNone
  DEF ReadCommand, Username, Password, UserAnswers, dataVars
<1>2. CASE Interrupt \/ Exit
  BY <1>2, ExitSent DEF Interrupt, Exit, dataVars, ChildInv
<1>3. QED
  BY <1>1, <1>2 DEF User

LEMMA ChildOthers ==
  ASSUME ChildInv,
         ChildEnds \/ ChildFails \/ Server \/ Terminated \/ UNCHANGED vars
  PROVE  ChildInv'
BY DEF ChildEnds, ChildFails, Server, ServerReplies, ServerFinishes, ServerGoes,
       Terminated, vars, dataVars, ChildInv

-----------------------------------------------------------------------------
(* The theorems.                                                            *)

\* The invariant holds when the program starts,
LEMMA SessionInit == ASSUME Init PROVE SessionInv
<1>1. FlagAndSocketAgree
  BY DEF Init, ControlInit, FlagAndSocketAgree
<1>2. SocketsInv /\ ChildInv
  BY DEF Init, ControlInit, ServerInit, SocketsInv, ChildInv, TransferCalls
<1>3. QED
  BY <1>1, <1>2, TypeInit DEF SessionInv

\* and every step, of whoever takes it, preserves it.
LEMMA SessionStep == ASSUME SessionInv, [Next]_vars PROVE SessionInv'
<1>1. TypeOK /\ FlagAndSocketAgree /\ SocketsInv /\ ChildInv
  BY DEF SessionInv
<1>2. TypeOK'
  BY <1>1, TypeStep
<1>3. FlagAndSocketAgree'
  BY <1>1, FlagClient, FlagUser, FlagOthers DEF Next
<1>4. SocketsInv'
  <2>1. CASE Client
    BY <1>1, <2>1, SocketsLogin, SocketsLoop, SocketsPassive, SocketsTransfer,
       SocketsFork, SocketsAfterFork, SocketsExit, SocketsOthers
    DEF Client
  <2>2. CASE User
    BY <1>1, <2>2, SocketsLogin, SocketsLoop, SocketsExit DEF User
  <2>3. CASE ChildEnds \/ ChildFails \/ Server \/ Terminated \/ UNCHANGED vars
    BY <1>1, <2>3, SocketsOthers
  <2>4. QED
    BY <2>1, <2>2, <2>3 DEF Next
<1>5. ChildInv'
  BY <1>1, ChildClient, ChildUser, ChildOthers DEF Next
<1>6. QED
  BY <1>2, <1>3, <1>4, <1>5 DEF SessionInv

\* SessionInv is an inductive invariant of the session.
THEOREM SessionInvariant == Spec => []SessionInv
<1>1. Init => SessionInv
  BY SessionInit
<1>2. SessionInv /\ [Next]_vars => SessionInv'
  BY SessionStep
<1>3. QED
  BY <1>1, <1>2, PTL DEF Spec

\* The command loop's flag tells the truth about the control socket whenever a
\* command runs, and no open socket is ever forgotten.
THEOREM FlagIsTrue == Spec => []FlagAndSocketAgree
<1>1. SessionInv => FlagAndSocketAgree
  BY DEF SessionInv
<1>2. QED
  BY <1>1, SessionInvariant, PTL

\* No command leaks a data socket but a get or an ls that has forked, which
\* always does.
THEOREM DataSocketsBalance == Spec => []OnlyDownloadsKeepSockets
<1>1. SessionInv => OnlyDownloadsKeepSockets
  BY DEF SessionInv, SocketsInv, OnlyDownloadsKeepSockets, TransferCalls
<1>2. QED
  BY <1>1, SessionInvariant, PTL

\* No command returns to the prompt before its child has been waited for.
THEOREM ChildrenReaped == Spec => []ChildReaped
<1>1. SessionInv => ChildReaped
  BY DEF SessionInv, ChildInv, ChildReaped
<1>2. QED
  BY <1>1, SessionInvariant, PTL

-----------------------------------------------------------------------------
(* The terminal, when nobody presses Ctrl-C.                                *)

EchoInv == ~echo => pc = "password"

LEMMA EchoStep ==
  ASSUME EchoInv, "sigint" \notin Faults, [Next]_vars
  PROVE  EchoInv'
<1>1. CASE Client
  <2>1. CASE UserReply
    BY <2>1 DEF UserReply, GotoConnected, Goto, ReturnConnected, Return, EchoInv
  <2>2. CASE ~UserReply
    <3>1. UNCHANGED echo
      BY <1>1, <2>2
      DEF Client, Connect, ConnectFails, Greeting, PassReply, ReturnAtOnce,
          SimpleCommand, SimpleReply, OpenCommand, NoDataSocket, EnterPassiveMode,
          PasvReply, DataConnect, DataConnectFails, SendRequest, SizeReply,
          TransferReply, Fork, ForkFails, Complete, Wait, Exit, QuitReply,
          MultilineLoop, uiVars
    <3>2. pc # "password"
      BY <1>1, <2>2
      DEF Client, Connect, ConnectFails, Greeting, PassReply, ReturnAtOnce,
          SimpleCommand, SimpleReply, OpenCommand, NoDataSocket, EnterPassiveMode,
          PasvReply, DataConnect, DataConnectFails, SendRequest, SizeReply,
          TransferReply, Fork, ForkFails, Complete, Wait, Exit, QuitReply,
          MultilineLoop, Awaiting
    <3>3. QED
      BY <3>1, <3>2 DEF EchoInv
  <2>3. QED
    BY <2>1, <2>2
<1>2. CASE User
  BY <1>2 DEF User, ReadCommand, Username, Password, UserAnswers, Interrupt, Exit,
              EchoInv
<1>3. CASE ChildEnds \/ ChildFails \/ Server \/ Terminated \/ UNCHANGED vars
  BY <1>3 DEF ChildEnds, ChildFails, Server, Terminated, vars, uiVars, EchoInv
<1>4. QED
  BY <1>1, <1>2, <1>3 DEF Next

\* Every way out of the password prompt, end of file and a failed send
\* included, switches the echo on again.
THEOREM EchoIsRestored ==
  ASSUME "sigint" \notin Faults
  PROVE  Spec => []EchoRestored
<1>1. Init => EchoInv
  BY DEF Init, EchoInv
<1>2. EchoInv /\ [Next]_vars => EchoInv'
  BY EchoStep
<1>3. EchoInv => EchoRestored
  BY DEF EchoInv, EchoRestored
<1>4. QED
  BY <1>1, <1>2, <1>3, PTL DEF Spec

-----------------------------------------------------------------------------
(* Every step of a command brings its end nearer.                           *)

\* Only a transfer gets as far as the data connection, and only get asks for a
\* size: this is what keeps SendRequest from going back to SIZE.
StageInv ==
  /\ pc \in {"pasv", "dataconn", "request"} => cmd \in TransferCommands
  /\ pc \in {"size", "retr"} => cmd = "GET"

\* A command goes on to a later call, or ends.
MovesOn == pc' # pc /\ (pc' \in UserCalls \cup {"exited"} \/ Stage' > Stage)

LEMMA LoginMoves ==
  ASSUME Connect \/ ConnectFails \/ Greeting \/ UserReply \/ PassReply
  PROVE  MovesOn /\ StageInv'
BY DEF Connect, ConnectFails, Greeting, UserReply, PassReply, LoginReceiveFails,
       LeaveLogin, GotoConnected, ReturnConnected, Goto, Return, UserCalls, Stage,
       MovesOn, StageInv

LEMMA LoopMoves ==
  ASSUME ReturnAtOnce \/ SimpleCommand \/ SimpleReply \/ OpenCommand
         \/ (pc = "dispatch" /\ Exit) \/ QuitReply
  PROVE  MovesOn /\ StageInv'
BY DEF ReturnAtOnce, SimpleCommand, SimpleReply, OpenCommand, Exit, ExitCmd, QuitReply,
       SendThenAwait, SendFailsThenReturn, ReturnConnected, Goto, Return, UserCalls,
       Stage, MovesOn, StageInv

LEMMA PassiveMoves ==
  ASSUME StageInv,
         NoDataSocket \/ EnterPassiveMode \/ PasvReply \/ DataConnect \/ DataConnectFails
  PROVE  MovesOn /\ StageInv'
BY DEF NoDataSocket, EnterPassiveMode, PasvReply, DataConnect, DataConnectFails,
       SendThenAwait, GotoConnected, ReturnConnected, Goto, Return, UserCalls, Stage,
       MovesOn, StageInv

LEMMA RequestMoves ==
  ASSUME StageInv, SendRequest \/ SizeReply \/ TransferReply
  PROVE  MovesOn /\ StageInv'
<1>1. CASE SendRequest
  <2>1. CASE SendFailsThenReturn
    BY <1>1, <2>1 DEF SendRequest, SendFailsThenReturn, Return, UserCalls, MovesOn, StageInv
  <2>2. CASE pc = "request" /\ cmd' = cmd
             /\ (pc' = "xfer" \/ (pc' = "size" /\ cmd \notin {"PUT", "LS"}))
    BY <2>2 DEF Stage, MovesOn, StageInv, TransferCommands
  <2>3. CASE pc = "retr" /\ cmd' = cmd /\ pc' = "xfer"
    BY <2>3 DEF Stage, MovesOn, StageInv
  <2>4. QED
    BY <1>1, <2>1, <2>2, <2>3 DEF SendRequest, SendThenAwait, Goto, StageInv
<1>2. CASE SizeReply \/ TransferReply
  BY <1>2
  DEF SizeReply, TransferReply, GotoConnected, ReturnConnected, Goto, Return, UserCalls,
      Stage, MovesOn, StageInv
<1>3. QED
  BY <1>1, <1>2

LEMMA ForkMoves ==
  ASSUME Fork \/ ForkFails \/ Complete \/ Wait
  PROVE  MovesOn /\ StageInv'
BY DEF Fork, AfterFork, ForkFails, Complete, Wait, GotoConnected, ReturnConnected, Goto,
       Return, UserCalls, Stage, MovesOn, StageInv

\* A turn of the multi-line loop takes something from the stream.
LEMMA LoopTakes ==
  ASSUME TypeOK, MultilineLoop
  PROVE  pc' = pc /\ cmd' = cmd /\ Len(stream') < Len(stream)
<1>1. PICK k \in ChunkSizes : stream' = SubSeq(stream, k + 1, Len(stream))
  BY DEF MultilineLoop, CollectMore, TakeFromStream
<1>2. stream \in Seq(Replies) /\ Len(stream) \in Nat
  BY LenProperties DEF TypeOK, ConnectionTypeOK, ControlTypeOK
<1>3. k \in 1..Len(stream)
  BY <1>2, ChunkType
<1>4. Len(stream') = Len(stream) - k
  BY <1>1, <1>2, <1>3, SubSeqProperties
<1>5. QED
  BY <1>2, <1>3, <1>4 DEF MultilineLoop, Goto

\* The user's steps start from a call that waits for the user, and the others
\* leave the program where it is, with the response that it has.
LEMMA UserMoves ==
  ASSUME StageInv, User
  PROVE  /\ StageInv'
         /\ pc \in UserCalls \/ pc' = "exited" \/ (pc' = "quit" /\ (pc' # pc => Stage' > Stage))
         /\ pc' = pc => recv_buffer' = recv_buffer
<1>1. ASSUME NEW c \in Commands, ReadCommand(c)
      PROVE  pc = "prompt" /\ StageInv' /\ recv_buffer' = recv_buffer
  BY <1>1 DEF ReadCommand, Refuse, Accept, controlVars, StageInv
<1>2. CASE Username \/ Password
  BY <1>2 DEF Username, Password, UserAnswers, SendThenAwait, LeaveLogin, Goto, Return,
              UserCalls, StageInv
<1>3. CASE Interrupt \/ (pc = "prompt" /\ Exit)
  BY <1>3 DEF Interrupt, Exit, ExitCmd, controlVars, UserCalls, Stage, StageInv
<1>4. QED
  BY <1>1, <1>2, <1>3 DEF User, UserCalls

LEMMA OthersStay ==
  ASSUME ChildEnds \/ ChildFails \/ Server \/ Terminated \/ UNCHANGED vars
  PROVE  UNCHANGED <<pc, cmd, recv_buffer>>
BY DEF ChildEnds, ChildFails, Server, ServerReplies, ServerFinishes, ServerGoes,
       Terminated, vars, controlVars

\* No step takes a command back to a call it has been in, or leaves it where it
\* is with something new received and nothing taken.
Advances ==
  /\ pc' # pc => pc \in UserCalls \/ pc' \in UserCalls \cup {"exited"} \/ Stage' > Stage
  /\ pc' = pc /\ recv_buffer' # recv_buffer => Len(stream') < Len(stream)

LEMMA StepMoves ==
  ASSUME TypeOK, StageInv, [Next]_vars
  PROVE  StageInv' /\ Advances
<1>1. CASE Client
  <2>1. CASE MultilineLoop
    BY <2>1, LoopTakes DEF StageInv, Advances
  <2>2. CASE ~MultilineLoop
    <3>1. MovesOn /\ StageInv'
      BY <1>1, <2>2, LoginMoves, LoopMoves, PassiveMoves, RequestMoves, ForkMoves
      DEF Client
    <3>2. QED
      BY <3>1 DEF MovesOn, Advances
  <2>3. QED
    BY <2>1, <2>2
<1>2. CASE User
  BY <1>2, UserMoves DEF UserCalls, Advances
<1>3. CASE ChildEnds \/ ChildFails \/ Server \/ Terminated \/ UNCHANGED vars
  BY <1>3, OthersStay DEF StageInv, Advances
<1>4. QED
  BY <1>1, <1>2, <1>3 DEF Next

\* Whatever the server, the network and the user do, a command passes through
\* each of its blocking calls at most once, and a call that goes on receiving
\* uses up the stream: nothing in the client can go round in circles.
THEOREM CommandsAreBounded == Spec => CommandsAdvance
<1>1. Init => StageInv
  BY DEF Init, StageInv
<1>2. TypeOK /\ StageInv /\ [Next]_vars => StageInv'
  BY StepMoves
<1>3. TypeOK /\ StageInv /\ [Next]_vars => [Advances]_vars
  BY StepMoves
<1>4. [Advances]_vars <=>
        [ /\ pc' # pc => \/ pc \in UserCalls
                         \/ pc' \in UserCalls \cup {"exited"}
                         \/ Stage' > Stage
          /\ pc' = pc /\ recv_buffer' # recv_buffer => Len(stream') < Len(stream)]_vars
  BY DEF Advances
<1>5. QED
  BY <1>1, <1>2, <1>3, <1>4, TypeCorrect, PTL DEF Spec, CommandsAdvance
=============================================================================
