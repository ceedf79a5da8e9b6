------------------------- MODULE ControlConnection -------------------------
(***************************************************************************)
(* The FTP control connection as ftp_client_funcs.c keeps it: the          *)
(* descriptor client_cmd_socket, the saved address server_ip, the receive  *)
(* buffer, and the operators the commands are built from (send_cmd,        *)
(* get_response, close_cmd_socket, is_server_disconnected).                *)
(*                                                                         *)
(* The other end is external: `peer' is the TCP state the kernel shows the *)
(* client, `toServer' the commands the server has not read yet, `stream'   *)
(* the replies the client has not read yet.  Texts are abstracted to the   *)
(* reply code and to the number of the command a reply answers; that       *)
(* number is never visible to the client, it only lets properties say      *)
(* which command a reply belongs to.                                       *)
(***************************************************************************)
EXTENDS Integers, Sequences

CONSTANT Faults   \* what the environment may do wrong in a run

FaultKinds == { "late",       \* a reply may take longer than RECV_TIMEOUT_SEC
                "coalesce",   \* one recv may return several replies
                "split",      \* a reply may arrive in two segments
                "multiline",  \* a reply may be a multi-line one (XXX-...)
                "drop",       \* the server may close or reset the connection
                "abort",      \* the server may break off a transfer with 426
                "idle421",    \* the server may send 421 and close when idle
                "refuse",     \* name resolution or connect() may fail
                "local",      \* socket(), bind() or stat() may fail
                "fork",       \* fork() may fail
                "child",      \* the transfer child may exit with a failure
                "sigint" }    \* the user may press Ctrl-C

ASSUME FaultsAssumption == Faults \subseteq FaultKinds

VARIABLES
  client_cmd_socket,  \* -1, or a descriptor
  server_ip,          \* where the saved `const char *server_ip' points
  recv_buffer,        \* the replies held by recv_buffer
  collecting,         \* get_response is in its multi-line loop
  sent,               \* number of the last command sent
  peer,               \* TCP state of the connection, as seen by the client
  toServer,           \* commands on their way to the server
  stream              \* replies on their way to the client

-----------------------------------------------------------------------------

Closed == -1
Descriptor == 3

\* "argv": argv[1]; "static": a static ip_str buffer; "cmd": paths[0] of the
\* command being executed; "freed": memory that freecommand has released.
Pointers == {"NULL", "argv", "static", "cmd", "freed"}

Verbs == {"CONNECT", "USER", "PASS", "PASV", "SIZE", "RETR", "STOR", "LIST",
          "CWD", "PWD", "MKD", "DELE", "TYPE", "QUIT"}

\* 0 stands for the second segment of a split reply: it has no code.
Codes == {0, 150, 200, 213, 220, 221, 226, 227, 230, 250, 257,
          331, 421, 425, 426, 530, 550}

Requests == [of : Nat, verb : Verbs]
Replies  == [of : Nat, code : Codes, multi : BOOLEAN]

\* "fin": the server has closed, sends are still accepted; "rst": reset, the
\* error not yet reported; "dead": reset and reported; "none": no connection.
Peers == {"none", "up", "fin", "rst", "dead"}

ControlTypeOK ==
  /\ client_cmd_socket \in {Closed, Descriptor}
  /\ server_ip \in Pointers
  /\ recv_buffer \in Seq(Replies)
  /\ collecting \in BOOLEAN
  /\ sent \in Nat
  /\ peer \in Peers
  /\ toServer \in Seq(Requests)
  /\ stream \in Seq(Replies)

ControlInit ==
  /\ client_cmd_socket = Closed
  /\ server_ip = "NULL"
  /\ recv_buffer = <<>>
  /\ collecting = FALSE
  /\ sent = 0
  /\ peer = "none"
  /\ toServer = <<>>
  /\ stream = <<>>

-----------------------------------------------------------------------------
(* get_server_connected_socket: a successful connect saves the address and  *)
(* the descriptor; the server owes a greeting, numbered like a command.     *)

\* Mutant: what the function returns, 1, is kept as the descriptor.
ConnectToKeepingResult(pointer) ==
  /\ client_cmd_socket' = 1
  /\ server_ip' = pointer
  /\ peer' = "up"
  /\ sent' = sent + 1
  /\ toServer' = <<[of |-> sent + 1, verb |-> "CONNECT"]>>
  /\ stream' = <<>>

ConnectTo(pointer) ==
  /\ client_cmd_socket' = Descriptor
  /\ server_ip' = pointer
  /\ peer' = "up"
  /\ sent' = sent + 1
  /\ toServer' = <<[of |-> sent + 1, verb |-> "CONNECT"]>>
  /\ stream' = <<>>

(* close_cmd_socket. What was in flight is never seen by the client again. *)
CloseCmdSocket ==
  /\ client_cmd_socket' = Closed
  /\ server_ip' = "NULL"
  /\ peer' = "none"
  /\ toServer' = <<>>
  /\ stream' = <<>>

(* freecommand, at the end of every turn of the command loop. *)
FreeCommand(pointer) == IF pointer = "cmd" THEN "freed" ELSE pointer

-----------------------------------------------------------------------------
(* send_cmd. A send on a connection the server has closed still succeeds    *)
(* and may provoke a reset; one on a reset connection fails, and send_cmd   *)
(* then closes the socket.                                                  *)

SendOk(verb) ==
  /\ client_cmd_socket # Closed
  /\ peer \in {"up", "fin"}
  /\ sent' = sent + 1
  /\ IF peer = "up"
     THEN /\ toServer' = Append(toServer, [of |-> sent + 1, verb |-> verb])
          /\ peer' = "up"
     ELSE /\ toServer' = toServer
          /\ peer' \in {"fin", "rst"}
  /\ UNCHANGED <<client_cmd_socket, stream>>

SendCannotSucceed == client_cmd_socket = Closed \/ peer \in {"rst", "dead"}

SendFails ==
  /\ SendCannotSucceed
  /\ IF client_cmd_socket = Closed
     THEN /\ server_ip' = FreeCommand(server_ip)
          /\ UNCHANGED <<client_cmd_socket, peer, toServer, stream>>
     ELSE CloseCmdSocket
  /\ UNCHANGED sent

-----------------------------------------------------------------------------
(* get_response_with_timeout over recv_with_timeout.                        *)

\* How much of the stream one recv returns.
ChunkSizes == IF "coalesce" \in Faults THEN 1..Len(stream)
                                       ELSE {k \in {1} : stream # <<>>}

TakeFromStream(k) == stream' = SubSeq(stream, k + 1, Len(stream))

\* A first chunk that is not a multi-line reply is the response.
FirstChunk(k) ==
  /\ ~collecting /\ ~stream[1].multi
  /\ recv_buffer' = SubSeq(stream, 1, k)
  /\ UNCHANGED collecting

GetResponseOk ==
  (\E k \in ChunkSizes : FirstChunk(k) /\ TakeFromStream(k)) /\ UNCHANGED peer

\* The loop looks for the end line at recv_buffer + total_len - 3, whose
\* fourth character is the terminating NUL: no chunk ever ends the loop.
CollectMore ==
  /\ \E k \in ChunkSizes :
       /\ collecting \/ stream[1].multi
       /\ recv_buffer' = (IF collecting THEN recv_buffer ELSE <<>>)
                         \o SubSeq(stream, 1, k)
       /\ TakeFromStream(k)
  /\ collecting' = TRUE
  /\ UNCHANGED peer

\* It fails with nothing to read (end of file, a reset, or 30 seconds of
\* silence) or when the loop's buffer overflows. The wait may only run out
\* while a reply is `coming' when the server may be late.
GetResponseFails(coming) ==
  /\ IF stream = <<>> THEN peer = "up" => "late" \in Faults \/ ~coming
                     ELSE collecting
  /\ recv_buffer' = IF collecting THEN recv_buffer ELSE <<>>
  /\ collecting' = FALSE

\* What a failed receive leaves of the connection: a reset has been reported,
\* or the chunk that did not fit has been thrown away.
LeaveAfterFailure ==
  IF stream = <<>>
  THEN peer' = (IF peer = "rst" THEN "dead" ELSE peer) /\ UNCHANGED stream
  ELSE (\E k \in ChunkSizes : TakeFromStream(k)) /\ UNCHANGED peer

\* respond_with_code looks at the start of the buffer, respond_exists_code
\* at the lines after the first.
RespondWithCode(buffer, code) == buffer # <<>> /\ buffer[1].code = code
RespondExistsCode(buffer, code) == \E i \in 2..Len(buffer) : buffer[i].code = code

-----------------------------------------------------------------------------
(* is_server_disconnected peeks one byte: end of file is seen only once the *)
(* stream is drained, and a reset makes recv return -1, which the function  *)
(* takes for "still connected" (and which clears the pending error).        *)

IsServerDisconnected ==
  \/ client_cmd_socket = Closed
  \/ stream = <<>> /\ peer \in {"fin", "dead"}

PeekConsumesError ==
  peer' = IF stream = <<>> /\ peer = "rst" THEN "dead" ELSE peer
=============================================================================
