----------------------------- MODULE FtpSession -----------------------------
(***************************************************************************)
(* The client: main's command loop, user_login, the commands of cmds.c and *)
(* enter_passive_mode, over one control connection.                        *)
(*                                                                         *)
(* The program is sequential; `pc' names the blocking call it is in, and   *)
(* an action runs from one blocking call to the next (a successful         *)
(* connect to a data port and the send that follows it are one action).    *)
(* `cmd' is the command being executed, so pc and cmd together say where   *)
(* in which function the program is.  Ctrl-C runs exit_cmd from any pc.    *)
(*                                                                         *)
(* Left out: arguments and texts, the progress display, the contents of a  *)
(* transfer, and the pointer-sized windows between an assignment to        *)
(* client_cmd_socket and the one to server_connected that follows it.      *)
(***************************************************************************)
EXTENDS FtpServer, FiniteSets

CONSTANTS
  Commands,      \* the commands the user may type in a run
  MaxCommands,   \* bound: how many commands the user types
  MaxDataFds     \* how many data sockets the process may hold open

SimpleCommands   == {"CD", "PWD", "MKDIR", "DELETE", "ASCII", "BINARY"}
TransferCommands == {"GET", "PUT", "LS"}
\* lls, lcd, lpwd, help and the commands main answers with "Unknown command."
LocalCommands    == {"LOCAL"}
ArgCommands      == {"CD", "MKDIR", "DELETE", "GET", "PUT", "OPEN"}
AllCommands == SimpleCommands \cup TransferCommands \cup LocalCommands
               \cup {"OPEN", "EXIT"}

ASSUME CommandsAssumption == Commands \subseteq AllCommands
ASSUME BoundsAssumption == MaxCommands \in Nat /\ MaxDataFds \in Nat

VARIABLES
  pc,                \* the blocking call the program is in
  cmd,               \* the command being executed
  server_connected,  \* the flag the command loop consults
  echo,              \* the terminal echoes what is typed
  typed,             \* number of commands typed so far
  downloads          \* history: the data sockets of forked get and ls

controlVars == <<client_cmd_socket, server_ip, recv_buffer, collecting, sent,
                 peer, toServer, stream>>
uiVars == <<server_connected, echo, typed>>
vars == <<controlVars, serverVars, dataVars, uiVars, pc, cmd, downloads>>

\* The calls of get_response, by the reply each of them waits for.
Awaiting == {"greeting", "user", "pass", "simple", "pasv", "size", "xfer",
             "complete", "quit"}
UserCalls == {"prompt", "username", "password"}
ProgramCounters == Awaiting \cup UserCalls
                   \cup {"connect", "dispatch", "dataconn", "request", "retr", "fork",
                       "wait", "exited"}

ConnectionTypeOK == ControlTypeOK /\ ServerTypeOK /\ server_connected \in BOOLEAN

ProgramTypeOK ==
  /\ pc \in ProgramCounters
  /\ cmd \in Commands \cup {"EXIT", "NONE", "START", "SIGINT"}
  /\ echo \in BOOLEAN
  /\ typed \in Nat
  /\ downloads \subseteq Nat

\* Every variable has its type.
TypeOK == ConnectionTypeOK /\ DataTypeOK /\ ProgramTypeOK

\* main has parsed its arguments and is about to connect.
Init ==
  /\ ControlInit
  /\ ServerInit
  /\ pc = "connect"
  /\ cmd = "START"
  /\ server_connected = FALSE
  /\ echo = TRUE
  /\ typed = 0
  /\ downloads = {}

-----------------------------------------------------------------------------
(* Pieces of the actions.                                                   *)

\* The control connection is not closed; what crosses it is said elsewhere.
StayConnected ==
  UNCHANGED <<client_cmd_socket, sent, toServer, serverVars, server_connected>>

\* The command function returns to the loop, which frees the command.
Return == pc' = "prompt" /\ cmd' = "NONE"

ReturnConnected ==
  Return /\ StayConnected /\ server_ip' = FreeCommand(server_ip)

Goto(call) == pc' = call /\ cmd' = cmd

GotoConnected(call) == Goto(call) /\ StayConnected /\ server_ip' = server_ip

\* close_cmd_socket together with server_connected = false.
HangUp ==
  CloseCmdSocket /\ ForgetSession /\ server_connected' = FALSE /\ sent' = sent

\* get_response returns a positive length, or -1 and the connection is kept,
\* or -1 and the caller hangs up.
Received         == GetResponseOk
FailedKeeping    == GetResponseFails(ReplyComing) /\ LeaveAfterFailure
FailedHangingUp  == GetResponseFails(ReplyComing) /\ HangUp

\* send_cmd succeeds and the program goes on to wait for the reply.
SendThenAwait(verb, call) ==
  /\ SendOk(verb)
  /\ Goto(call)
  /\ UNCHANGED <<server_ip, recv_buffer, collecting, serverVars, server_connected>>

\* send_cmd fails, having closed the socket or found it closed, and the
\* command returns. server_connected is left for the next turn of the loop.
SendFailsThenReturn ==
  /\ SendFails
  /\ ForgetSession
  /\ Return
  /\ UNCHANGED <<recv_buffer, collecting, server_connected>>

NoControlIO == UNCHANGED <<recv_buffer, collecting, peer, stream>>

CloseData == dataFds' = dataFds \ {data_socket}
             /\ UNCHANGED <<data_socket, data_eof, child>>

-----------------------------------------------------------------------------
(* Connecting and logging in: main, open_cmd, user_login.                   *)

Connect ==
  /\ pc = "connect"
  /\ \E pointer \in {"static", IF cmd = "START" THEN "argv" ELSE "cmd"} :
       ConnectTo(pointer)
  /\ ForgetSession
  /\ server_connected' = TRUE
  /\ Goto("greeting")
  /\ UNCHANGED <<recv_buffer, collecting, dataVars, echo, typed, downloads>>

\* main gives up; open_cmd, which has closed the old connection, returns.
LeaveLogin == IF cmd = "START" THEN Goto("exited") ELSE Return

ConnectFails ==
  /\ pc = "connect" /\ "refuse" \in Faults
  /\ LeaveLogin
  /\ UNCHANGED <<controlVars, serverVars, dataVars, uiVars, downloads>>

\* user_login fails with ERR_DISCONNECTED and its caller hangs up.
LoginReceiveFails == FailedHangingUp /\ LeaveLogin

Greeting ==
  /\ pc = "greeting"
  /\ \/ Received /\ GotoConnected("username")
     \/ LoginReceiveFails
  /\ UNCHANGED <<dataVars, echo, typed, downloads>>

\* The user answers a question of user_login and the answer is sent; or
\* standard input is at its end, or send_cmd fails: ERR_DISCONNECTED.
UserAnswers(question, verb, reply) ==
  /\ pc = question
  /\ \/ SendThenAwait(verb, reply)
     \/ /\ HangUp /\ LeaveLogin
        /\ UNCHANGED <<recv_buffer, collecting>>
  /\ UNCHANGED <<dataVars, typed, downloads>>

Username == UserAnswers("username", "USER", "user") /\ echo' = echo

\* 331 asks for a password, which is typed with echo off; any other reply,
\* login accepted or refused, ends user_login with the connection up.
UserReply ==
  /\ pc = "user"
  /\ \/ /\ Received
        /\ IF RespondWithCode(recv_buffer', 331)
           THEN GotoConnected("password") /\ echo' = FALSE
           ELSE ReturnConnected /\ echo' = echo
     \/ LoginReceiveFails /\ echo' = echo
  /\ UNCHANGED <<dataVars, typed, downloads>>

\* Mutant: at end of file the terminal is left as it is.
PasswordRestoringLate ==
  UserAnswers("password", "PASS", "pass") /\ echo' = (pc' = "pass")

Password == UserAnswers("password", "PASS", "pass") /\ echo' = TRUE

PassReply ==
  /\ pc = "pass"
  /\ \/ Received /\ ReturnConnected
     \/ LoginReceiveFails
  /\ UNCHANGED <<dataVars, echo, typed, downloads>>

-----------------------------------------------------------------------------
(* The command loop.                                                        *)

\* Without a connection only open, quit and exit are executed.
Refuse(c) ==
  /\ ~server_connected /\ c \notin {"OPEN", "EXIT"}
  /\ UNCHANGED <<controlVars, serverVars, server_connected, pc, cmd>>

\* Mutant: the loop does not check the connection.
AcceptUnchecked(c) ==
  /\ server_connected \/ c \in {"OPEN", "EXIT"}
  /\ pc' = "dispatch" /\ cmd' = c
  /\ StayConnected
  /\ UNCHANGED <<server_ip, stream, peer, recv_buffer, collecting>>

\* The check of the connection comes after that test, so a command whose
\* connection turns out to be lost is executed all the same.
Accept(c) ==
  /\ server_connected \/ c \in {"OPEN", "EXIT"}
  /\ pc' = "dispatch" /\ cmd' = c
  /\ IF server_connected /\ IsServerDisconnected
     THEN HangUp
     ELSE /\ StayConnected /\ UNCHANGED <<server_ip, stream>>
          /\ IF server_connected THEN PeekConsumesError ELSE UNCHANGED peer
  /\ UNCHANGED <<recv_buffer, collecting>>

ReadCommand(c) ==
  /\ pc = "prompt" /\ typed < MaxCommands
  /\ typed' = typed + 1
  /\ Refuse(c) \/ Accept(c)
  /\ UNCHANGED <<dataVars, echo, downloads>>

\* Local commands, and commands that print their usage for want of a path.
ReturnAtOnce ==
  /\ pc = "dispatch" /\ cmd \in LocalCommands \cup ArgCommands
  /\ ReturnConnected /\ NoControlIO
  /\ UNCHANGED <<dataVars, echo, typed, downloads>>

VerbOf(c) ==
  CASE c = "CD" -> "CWD" [] c = "PWD" -> "PWD" [] c = "MKDIR" -> "MKD"
    [] c = "DELETE" -> "DELE" [] OTHER -> "TYPE"

\* cd, pwd, create_dir, delete_cmd, ascii and binary have one shape: send,
\* wait for one reply, return. A failed wait leaves the connection up.
SimpleCommand ==
  /\ pc = "dispatch" /\ cmd \in SimpleCommands
  /\ \/ SendThenAwait(VerbOf(cmd), "simple")
     \/ SendFailsThenReturn
  /\ UNCHANGED <<dataVars, echo, typed, downloads>>

SimpleReply ==
  /\ pc = "simple"
  /\ Received \/ FailedKeeping
  /\ ReturnConnected
  /\ UNCHANGED <<dataVars, echo, typed, downloads>>

\* open_cmd closes the connection first, then resolves and connects.
OpenCommand ==
  /\ pc = "dispatch" /\ cmd = "OPEN"
  /\ IF server_connected THEN HangUp
     ELSE StayConnected /\ UNCHANGED <<server_ip, peer, stream>>
  /\ Goto("connect") \/ ("refuse" \in Faults /\ Return)
  /\ UNCHANGED <<recv_buffer, collecting, dataVars, echo, typed, downloads>>

-----------------------------------------------------------------------------
(* enter_passive_mode, and get, put and ls up to the fork.                  *)

\* put returns if its file does not exist, and every transfer does if the data
\* socket cannot be created or bound.
NoDataSocket ==
  /\ pc = "dispatch" /\ cmd \in TransferCommands
  /\ "local" \in Faults \/ Cardinality(dataFds) >= MaxDataFds
  /\ ReturnConnected /\ NoControlIO
  /\ UNCHANGED <<dataVars, echo, typed, downloads>>

\* The socket is bound and PASV sent; if that fails the socket is closed
\* again and ERR_DISCONNECTED makes the command hang up.
EnterPassiveMode ==
  /\ pc = "dispatch" /\ cmd \in TransferCommands
  /\ Cardinality(dataFds) < MaxDataFds
  /\ \/ /\ SendThenAwait("PASV", "pasv")
        /\ data_socket' = sent'
        /\ dataFds' = dataFds \cup {sent'}
        /\ data_eof' = FALSE
        /\ child' = child
     \/ /\ SendCannotSucceed
        /\ HangUp /\ Return
        /\ UNCHANGED <<recv_buffer, collecting, dataVars>>
  /\ UNCHANGED <<echo, typed, downloads>>

\* No reply: ERR_DISCONNECTED, and the command hangs up. A code other than
\* 227, or no port in the reply: the command returns.
PasvReply ==
  /\ pc = "pasv"
  /\ \/ /\ Received
        /\ RespondWithCode(recv_buffer', 227)
        /\ GotoConnected("dataconn")
        /\ UNCHANGED dataVars
     \/ Received /\ ReturnConnected /\ CloseData
     \/ FailedHangingUp /\ Return /\ CloseData
  /\ UNCHANGED <<echo, typed, downloads>>

\* The port leads somewhere only if the server still listens on it.
PortIsOpen == peer = "up" /\ listener = recv_buffer[1].of

\* connect_server with server_ip, which may be a dangling pointer by now: the
\* freed memory may still hold the address, or anything else.
DataConnect ==
  /\ pc = "dataconn" /\ PortIsOpen
  /\ accepted' = data_socket
  /\ Goto("request")
  /\ NoControlIO
  /\ UNCHANGED <<client_cmd_socket, server_ip, sent, toServer, job, listener,
                 server_connected, dataVars, echo, typed, downloads>>

DataConnectFails ==
  /\ pc = "dataconn"
  /\ "refuse" \in Faults \/ server_ip = "freed" \/ ~PortIsOpen
  /\ ReturnConnected /\ NoControlIO /\ CloseData
  /\ UNCHANGED <<echo, typed, downloads>>

\* get asks for the size first; the others ask for the transfer.
SendRequest ==
  /\ pc \in {"request", "retr"}
  /\ \/ /\ CASE cmd = "PUT" -> SendThenAwait("STOR", "xfer")
             [] cmd = "LS"  -> SendThenAwait("LIST", "xfer")
             [] cmd = "GET" /\ pc = "retr" -> SendThenAwait("RETR", "xfer")
             [] OTHER       -> SendThenAwait("SIZE", "size")
        /\ UNCHANGED dataVars
     \/ SendFailsThenReturn /\ CloseData
  /\ UNCHANGED <<echo, typed, downloads>>

\* get goes on whatever SIZE was answered.
SizeReply ==
  /\ pc = "size"
  /\ \/ Received /\ GotoConnected("retr") /\ UNCHANGED dataVars
     \/ FailedKeeping /\ ReturnConnected /\ CloseData
  /\ UNCHANGED <<echo, typed, downloads>>

\* Mutant: a refused transfer does not close the data socket.
TransferReplyLeaking ==
  /\ pc = "xfer"
  /\ \/ /\ Received
        /\ IF RespondWithCode(recv_buffer', 150) THEN GotoConnected("fork")
                                                 ELSE ReturnConnected
        /\ UNCHANGED dataVars
     \/ FailedKeeping /\ ReturnConnected /\ CloseData
  /\ UNCHANGED <<echo, typed, downloads>>

\* 150 (or 125) starts the transfer; any other reply, or none, ends it.
TransferReply ==
  /\ pc = "xfer"
  /\ \/ /\ Received
        /\ IF RespondWithCode(recv_buffer', 150)
           THEN GotoConnected("fork") /\ UNCHANGED dataVars
           ELSE ReturnConnected /\ CloseData
     \/ FailedKeeping /\ ReturnConnected /\ CloseData
  /\ UNCHANGED <<echo, typed, downloads>>

-----------------------------------------------------------------------------
(* The forked transfer: the parent's half and the child's.                  *)

\* Mutants: ls always waits for 226, and ls never does.
AfterForkAlways == IF cmd = "PUT" THEN "wait" ELSE "complete"
AfterForkNever  == IF cmd \in {"PUT", "LS"} THEN "wait" ELSE "complete"

\* Where the parent goes on: put waits for its child; get waits for 226; ls
\* does too, unless 226 came together with 150.
AfterFork ==
  IF cmd = "PUT" \/ (cmd = "LS" /\ RespondExistsCode(recv_buffer, 226))
  THEN "wait" ELSE "complete"

\* Mutant: the parent of put keeps its copy of the data socket.
ForkKeepingSocket ==
  /\ pc = "fork"
  /\ child' = "run"
  /\ dataFds' = dataFds
  /\ downloads' = IF cmd = "PUT" THEN downloads ELSE downloads \cup {data_socket}
  /\ GotoConnected(AfterFork)
  /\ NoControlIO
  /\ UNCHANGED <<data_socket, data_eof, echo, typed>>

\* put closes its copy of the data socket; get and ls never close theirs.
Fork ==
  /\ pc = "fork"
  /\ child' = "run"
  /\ IF cmd = "PUT"
     THEN dataFds' = dataFds \ {data_socket} /\ downloads' = downloads
     ELSE dataFds' = dataFds /\ downloads' = downloads \cup {data_socket}
  /\ GotoConnected(AfterFork)
  /\ NoControlIO
  /\ UNCHANGED <<data_socket, data_eof, echo, typed>>

ForkFails ==
  /\ pc = "fork" /\ "fork" \in Faults
  /\ ReturnConnected /\ NoControlIO /\ CloseData
  /\ UNCHANGED <<echo, typed, downloads>>

\* Mutant: without a reply get and ls return at once.
CompleteNotReaping ==
  /\ pc = "complete"
  /\ \/ cmd # "PUT" /\ Received /\ GotoConnected("wait")
     \/ cmd # "PUT" /\ FailedKeeping /\ ReturnConnected
     \/ cmd = "PUT" /\ Received /\ ReturnConnected
     \/ cmd = "PUT" /\ FailedHangingUp /\ Return
  /\ UNCHANGED <<dataVars, echo, typed, downloads>>

\* get and ls reap the child whatever the reply was; put, which has done so
\* already, hangs up if there is none.
Complete ==
  /\ pc = "complete"
  /\ \/ /\ cmd # "PUT"
        /\ Received \/ FailedKeeping
        /\ GotoConnected("wait")
     \/ cmd = "PUT" /\ Received /\ ReturnConnected
     \/ cmd = "PUT" /\ FailedHangingUp /\ Return
  /\ UNCHANGED <<dataVars, echo, typed, downloads>>

\* Mutant: put never asks for the server's verdict.
WaitOnly ==
  /\ pc = "wait" /\ child \in {"ok", "fail"}
  /\ child' = "none"
  /\ ReturnConnected
  /\ NoControlIO
  /\ UNCHANGED <<data_socket, dataFds, data_eof, echo, typed, downloads>>

\* Mutant: every command asks for the server's verdict, not only put.
WaitThenAsk ==
  /\ pc = "wait" /\ child \in {"ok", "fail"}
  /\ child' = "none"
  /\ IF child = "ok" THEN GotoConnected("complete") ELSE ReturnConnected
  /\ NoControlIO
  /\ UNCHANGED <<data_socket, dataFds, data_eof, echo, typed, downloads>>

\* waitpid. put asks for the server's verdict only if the child succeeded.
Wait ==
  /\ pc = "wait" /\ child \in {"ok", "fail"}
  /\ child' = "none"
  /\ IF cmd = "PUT" /\ child = "ok" THEN GotoConnected("complete") ELSE ReturnConnected
  /\ NoControlIO
  /\ UNCHANGED <<data_socket, dataFds, data_eof, echo, typed, downloads>>

\* Mutant: end of file is retried like EAGAIN.
ChildEndsNotAtEof ==
  /\ child = "run" /\ cmd = "PUT"
  /\ child' = "ok"
  /\ UNCHANGED <<controlVars, serverVars, data_socket, dataFds, data_eof,
                 uiVars, pc, cmd, downloads>>

\* The child of get and ls reads to end of file, without any time limit: its
\* socket is non-blocking and EAGAIN is retried at once. The child of put
\* reads its file to the end.
ChildEnds ==
  /\ child = "run" /\ (cmd = "PUT" \/ data_eof)
  /\ child' = "ok"
  /\ UNCHANGED <<controlVars, serverVars, data_socket, dataFds, data_eof,
                 uiVars, pc, cmd, downloads>>

\* Its file cannot be opened or written, memory is short, or the data
\* connection has been reset.
ChildFails ==
  /\ child = "run"
  /\ "child" \in Faults \/ (Faults \cap {"drop", "abort"} # {} /\ data_eof)
  /\ child' = "fail"
  /\ UNCHANGED <<controlVars, serverVars, data_socket, dataFds, data_eof,
                 uiVars, pc, cmd, downloads>>

-----------------------------------------------------------------------------
(* exit_cmd: the exit command, end of file at the prompt, or Ctrl-C.        *)

ExitCmd ==
  IF ~server_connected
  THEN /\ pc' = "exited"
       /\ UNCHANGED <<controlVars, serverVars, server_connected>>
  ELSE \/ /\ SendOk("QUIT")
          /\ pc' = "quit"
          /\ collecting' = FALSE
          /\ UNCHANGED <<server_ip, recv_buffer, serverVars, server_connected>>
       \/ /\ SendCannotSucceed
          /\ pc' = "exited"
          /\ HangUp
          /\ UNCHANGED <<recv_buffer, collecting>>

Exit ==
  /\ \/ pc = "dispatch" /\ cmd = "EXIT" /\ cmd' = cmd
     \/ pc = "prompt" /\ cmd' = "EXIT"
  /\ ExitCmd
  /\ UNCHANGED <<dataVars, echo, typed, downloads>>

\* The handler is installed once main is connected; it does not nest.
Interrupt ==
  /\ "sigint" \in Faults
  /\ pc # "exited" /\ cmd # "SIGINT" /\ ~(pc = "connect" /\ cmd = "START")
  /\ cmd' = "SIGINT"
  /\ ExitCmd
  /\ UNCHANGED <<dataVars, echo, typed, downloads>>

\* Whatever the answer to QUIT, or none.
QuitReply ==
  /\ pc = "quit"
  /\ (\E k \in ChunkSizes : FirstChunk(k)) \/ GetResponseFails(ReplyComing)
  /\ HangUp
  /\ Goto("exited")
  /\ UNCHANGED <<dataVars, echo, typed, downloads>>

-----------------------------------------------------------------------------

\* One turn of get_response's multi-line loop, in any of its calls.
MultilineLoop ==
  /\ pc \in Awaiting
  /\ CollectMore
  /\ Goto(pc)
  /\ StayConnected
  /\ UNCHANGED <<server_ip, dataVars, echo, typed, downloads>>

Server ==
  /\ ServerReplies \/ ServerFinishes \/ ServerGoes
  /\ UNCHANGED <<pc, cmd, uiVars, downloads>>

User ==
  \/ \E c \in Commands : ReadCommand(c)
  \/ Username \/ Password \/ Interrupt
  \/ pc = "prompt" /\ Exit

\* The steps the program takes by itself.
Client ==
  \/ Connect \/ ConnectFails \/ Greeting \/ UserReply \/ PassReply
  \/ ReturnAtOnce \/ SimpleCommand \/ SimpleReply \/ OpenCommand
  \/ NoDataSocket \/ EnterPassiveMode \/ PasvReply
  \/ DataConnect \/ DataConnectFails \/ SendRequest \/ SizeReply \/ TransferReply
  \/ Fork \/ ForkFails \/ Complete \/ Wait
  \/ pc = "dispatch" /\ Exit
  \/ QuitReply \/ MultilineLoop

\* The program has ended.
Terminated == pc = "exited" /\ UNCHANGED vars

Next == Client \/ User \/ ChildEnds \/ ChildFails \/ Server \/ Terminated

Spec == Init /\ [][Next]_vars

\* The scheduler runs the parent and the child; nothing is asked of the user,
\* and nothing of the server.
ClientFairness == WF_vars(Client) /\ WF_vars(ChildEnds)

\* A server that answers what it is asked and ends the transfers it can end.
ServerFairness ==
  /\ WF_vars(ServerReplies /\ UNCHANGED <<pc, cmd, uiVars, downloads>>)
  /\ WF_vars(ServerFinishes /\ UNCHANGED <<pc, cmd, uiVars, downloads>>)

SpecAnyServer  == Spec /\ ClientFairness
SpecFairServer == Spec /\ ClientFairness /\ ServerFairness

-----------------------------------------------------------------------------
(* Properties.                                                              *)

\* An open control socket is always known to the command loop, so that open
\* and exit close it; and while a command is executed the flag and the socket
\* agree, whatever earlier sends have done to the socket.
FlagAndSocketAgree ==
  /\ client_cmd_socket # Closed => server_connected
  /\ server_connected /\ client_cmd_socket = Closed => pc = "prompt"

\* Every path through get, put and ls gives back the data socket, except that
\* a get or ls that has forked keeps its socket open for good: those are the
\* data sockets the process holds at the prompt, and no others.
OnlyDownloadsKeepSockets == pc = "prompt" => dataFds = downloads

\* The prompt never comes back while a transfer child is still running.
ChildReaped == pc = "prompt" => child = "none"

\* Unless Ctrl-C ends the program, whoever looks at the terminal again, the
\* user at the prompt or the shell, finds echo switched on (user_login).
EchoRestored == pc \in {"prompt", "exited"} => echo

\* Between the reply that starts a transfer and the one that completes it, a
\* transfer waits for a reply only when one is there or will come. It may have
\* come already, together with 150: ls then looks for a 226, but not for a
\* 426, and get looks for neither.
OverlookedCompletion ==
  \/ RespondExistsCode(recv_buffer, 426)
  \/ cmd = "GET" /\ RespondExistsCode(recv_buffer, 226)

CompletionIsComing ==
  pc = "complete" /\ peer = "up" /\ ~OverlookedCompletion =>
    stream # <<>> \/ ReplyComing

\* A response the client acts upon answers the command it has just sent (or is
\* the server's unsolicited 421).
Lockstep ==
  [][recv_buffer' # recv_buffer /\ recv_buffer' # <<>> =>
       recv_buffer'[1].of \in {0, sent}]_vars

\* The session is a half-duplex dialogue: FtpDialogue, with the replies that
\* the server owes for the commands it was sent.
Owed == Len(toServer) + (IF job.kind = "none" THEN 0 ELSE 1)
        + Cardinality({i \in 1..Len(stream) : stream[i].of # 0})

Dialogue == INSTANCE FtpDialogue WITH link <- client_cmd_socket # Closed,
                                      owed <- Owed
HalfDuplex == Dialogue!Spec

\* The saved server address stays readable as long as it is saved.
ServerIpAlive == server_ip # "freed"

\* A connection that the server has closed is recognised as such at the prompt
\* (is_server_disconnected).
ClosedIsSeen ==
  pc = "prompt" /\ server_connected /\ peer # "up" => IsServerDisconnected

\* Every command ends: back to the user or out of the program.
CommandsEnd ==
  pc \notin UserCalls \cup {"exited"} ~> pc \in UserCalls \cup {"exited"}

\* How far a command has got: get and ls wait for the server before they wait
\* for the child, put the other way round.
Stage ==
  CASE pc = "connect"    -> 1
    [] pc \in {"greeting", "user", "pass", "simple", "pasv"} -> 2
    [] pc = "dataconn"   -> 3
    [] pc = "request"    -> 4
    [] pc = "size"       -> 5
    [] pc = "retr"       -> 6
    [] pc = "xfer"       -> 7
    [] pc = "fork"       -> 8
    [] pc = "complete"   -> IF cmd = "PUT" THEN 10 ELSE 9
    [] pc = "wait"       -> IF cmd = "PUT" THEN 9 ELSE 10
    [] pc = "quit"       -> 11
    [] OTHER             -> 0

\* No reply, failure or Ctrl-C takes a command back to a call that it has been
\* in before the user is asked again or the program ends; and a call that
\* receives on takes something from the connection each time. This is the part
\* of CommandsEnd that no fairness is needed for.
CommandsAdvance ==
  [][ /\ pc' # pc => \/ pc \in UserCalls
                     \/ pc' \in UserCalls \cup {"exited"}
                     \/ Stage' > Stage
      /\ pc' = pc /\ recv_buffer' # recv_buffer => Len(stream') < Len(stream)]_vars

-----------------------------------------------------------------------------
(* The inductive invariant behind the safety properties.                    *)

\* The data socket of a transfer is held, besides those of earlier downloads,
\* from PASV until the fork; socket names are never used again.
TransferCalls == {"pasv", "dataconn", "request", "size", "retr", "xfer", "fork"}

SocketsInv ==
  /\ \A s \in downloads \cup {data_socket} : s <= sent
  /\ pc \in TransferCalls =>
       data_socket \notin downloads /\ dataFds = downloads \cup {data_socket}
  /\ pc \notin TransferCalls \cup {"quit", "exited"} => dataFds = downloads

\* A child is running, or not reaped yet, only while a transfer waits for the
\* server or for the child; put has reaped it when it waits for the server.
ChildInv ==
  child # "none" =>
    /\ pc \in {"complete", "wait", "quit", "exited"}
    /\ ~(pc = "complete" /\ cmd = "PUT")

\* Every step of the client, of its user and of the server preserves the
\* conjunction (FtpSessionSafetyProofs).
SessionInv == TypeOK /\ FlagAndSocketAgree /\ SocketsInv /\ ChildInv

-----------------------------------------------------------------------------
(* The inductive invariant behind the dialogue with a server in time.       *)

\* How many unread replies answer a command: all but a 421 at the end.
Unread ==
  IF stream # <<>> /\ stream[Len(stream)].of = 0 THEN Len(stream) - 1 ELSE Len(stream)

\* What is unread answers the last command; behind a 421 the server is gone.
StreamInv ==
  /\ ~collecting /\ \A i \in 1..Len(stream) : ~stream[i].multi
  /\ \A i \in 1..Unread : stream[i].of = sent /\ sent > 0
  /\ Unread < Len(stream) => peer # "up" /\ stream[Len(stream)].code = 421
  /\ client_cmd_socket = Closed => peer = "none" /\ stream = <<>>

\* The server has one command to read at most, the last one, and while it has
\* it nothing else is owed.
RequestInv ==
  toServer # <<>> =>
    /\ Len(toServer) = 1 /\ toServer[1].of = sent /\ sent > 0
    /\ peer = "up" /\ pc \in Awaiting \ {"complete"}
    /\ toServer[1].verb \in TransferVerbs => pc = "xfer"
    /\ toServer[1].verb = "QUIT" => pc = "quit"
    /\ pc = "xfer" => toServer[1].verb = (CASE cmd = "PUT" -> "STOR"
                                           [] cmd = "LS"  -> "LIST"
                                           [] OTHER       -> "RETR")
    /\ Unread = 0 /\ job.kind = "none"

\* A transfer that the server is busy with is the one of the current command,
\* and its 150 is unread until the program goes on to fork.
JobInv ==
  job.kind # "none" =>
    /\ peer = "up" /\ pc \in {"xfer", "fork", "complete", "wait"}
    /\ job.of = sent /\ sent > 0 /\ job.conn = data_socket /\ ~data_eof
    /\ job.kind = (IF cmd = "PUT" THEN "recv" ELSE "send")
    /\ Unread = (IF pc = "xfer" THEN 1 ELSE 0)
    /\ pc = "xfer" => stream[1].code = 150

\* Whose turn it is: nothing is unread where the program is about to send, two
\* replies only where they are 150 and the completion of a download, and while
\* a reply to a command is waited for, it is owed.
TurnInv ==
  /\ Unread > 0 => pc \in Awaiting \cup {"fork", "wait"}
  /\ Unread > 1 => /\ Unread = 2 /\ pc = "xfer" /\ cmd # "PUT"
                   /\ stream[1].code = 150 /\ stream[2].code \in {226, 426}
  /\ pc \in Awaiting \ {"complete"} /\ peer = "up" => toServer # <<>> \/ Unread > 0
  /\ pc = "xfer" /\ peer = "up" /\ Unread = 1 /\ stream[1].code = 150 =>
       job.kind # "none"
  /\ pc = "fork" /\ RespondExistsCode(recv_buffer, 226) =>
       Unread = 0 /\ job.kind = "none"
  /\ pc = "wait" /\ cmd # "PUT" => Unread = 0 /\ job.kind = "none"
  /\ cmd = "PUT" /\ (pc = "fork" \/ (pc = "wait" /\ child # "ok")) => Unread = 0
  /\ cmd = "PUT" /\ pc = "wait" /\ child = "fail" => job.kind = "none"

\* The data connection is the current one; once it is at its end no transfer
\* uses it, and the child of a download has ended only then.
DataInv ==
  /\ pc = "connect" => client_cmd_socket = Closed
  /\ pc \in TransferCalls \cup {"complete", "wait"} => cmd \in TransferCommands
  /\ accepted # 0 =>
       /\ peer = "up" /\ accepted = data_socket /\ ~data_eof
       /\ \/ pc \in {"request", "size", "retr"}
          \/ pc = "xfer" /\ toServer # <<>>
  /\ pc \in {"pasv", "dataconn"} /\ peer = "up" => ~data_eof
  /\ pc = "wait" \/ (pc = "complete" /\ cmd # "PUT") =>
       child # "none" /\ (cmd # "PUT" /\ child # "run" => data_eof)
  /\ cmd = "PUT" /\ pc \in {"wait", "complete"} => data_socket \notin dataFds

\* Where the program goes on to wait for a completion, one is owed unless it
\* was overlooked.
CompletionInv ==
  /\ \/ pc \in {"fork", "complete"}
     \/ (pc = "wait" /\ cmd = "PUT" /\ child # "fail")
  /\ peer = "up" /\ Unread = 0 /\ job.kind = "none"
  => /\ cmd # "PUT"
     /\ RespondExistsCode(recv_buffer, 226) \/ RespondExistsCode(recv_buffer, 426)
     /\ pc = "complete" /\ cmd = "LS" => ~RespondExistsCode(recv_buffer, 226)

DialogueInv ==
  SessionInv /\ StreamInv /\ RequestInv /\ JobInv /\ TurnInv /\ DataInv /\ CompletionInv
=============================================================================
