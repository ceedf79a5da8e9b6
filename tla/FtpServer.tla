----------------------------- MODULE FtpServer -----------------------------
(***************************************************************************)
(* The environment of the client, all of it external: an FTP server that   *)
(* handles one command at a time, the passive-mode data connection, and    *)
(* what the network and the server may do wrong.  It is modelled from what *)
(* the commands of cmds.c expect of it: which replies they wait for, and   *)
(* that a transfer is announced by 150 (or 125) and completed by 226.      *)
(***************************************************************************)
EXTENDS ControlConnection

VARIABLES
  job,          \* the transfer the server is busy with
  listener,     \* the PASV command whose data port the server listens on
  accepted,     \* the data connection accepted there and not used yet, or 0
  data_socket,  \* the client's current data socket, named by its PASV, or 0
  dataFds,      \* the data sockets open in the client's parent process
  data_eof,     \* the server has closed its end of data_socket
  child         \* the forked transfer process

serverVars == <<job, listener, accepted>>
dataVars   == <<data_socket, dataFds, data_eof, child>>

\* kind: "send" for RETR and LIST, "recv" for STOR; big: more data than the
\* socket buffers hold, so that it needs a reader.
NoJob == [kind |-> "none", of |-> 0, conn |-> 0, big |-> FALSE]
Jobs  == [kind : {"none", "send", "recv"}, of : Nat, conn : Nat, big : BOOLEAN]

ServerTypeOK ==
  /\ job \in Jobs
  /\ listener \in Nat
  /\ accepted \in Nat

DataTypeOK ==
  /\ data_socket \in Nat
  /\ dataFds \subseteq Nat
  /\ data_eof \in BOOLEAN
  /\ child \in {"none", "run", "ok", "fail"}

ServerInit ==
  /\ job = NoJob
  /\ listener = 0
  /\ accepted = 0
  /\ data_socket = 0
  /\ dataFds = {}
  /\ data_eof = FALSE
  /\ child = "none"

\* A server that has lost its control connection, or got a new one.
ForgetSession == job' = NoJob /\ listener' = 0 /\ accepted' = 0

-----------------------------------------------------------------------------

TransferVerbs == {"RETR", "STOR", "LIST"}

\* The replies each command may get; a transfer needs a data connection.
ReplyCodes(verb) ==
  CASE verb = "CONNECT" -> {220}
    [] verb = "USER"    -> {230, 331, 530}
    [] verb = "PASS"    -> {230, 530}
    [] verb = "PASV"    -> {227, 425}
    [] verb = "SIZE"    -> {213, 550}
    [] verb \in TransferVerbs -> IF accepted = 0 THEN {425} ELSE {150, 550}
    [] verb \in {"CWD", "DELE"} -> {250, 550}
    [] verb \in {"PWD", "MKD"}  -> {257, 550}
    [] verb = "TYPE"    -> {200}
    [] verb = "QUIT"    -> {221}

\* A reply enters the stream, whole or as two segments.
Answer(number, code) ==
  \E multi \in {FALSE} \cup {b \in {TRUE} : "multiline" \in Faults} :
    LET reply == [of |-> number, code |-> code, multi |-> multi]
        rest  == [of |-> number, code |-> 0, multi |-> FALSE]
    IN \/ stream' = Append(stream, reply)
       \/ /\ "split" \in Faults
          /\ stream' = stream \o <<reply, rest>>

\* The accepted data connection is handed to the transfer that starts; one
\* that comes to nothing, or that a new PASV makes useless, is closed.
DataPort(verb, code) ==
  IF verb \in TransferVerbs \/ code = 227
  THEN /\ accepted' = 0
       /\ data_eof' = (data_eof \/ (code # 150 /\ accepted # 0
                                               /\ accepted = data_socket))
  ELSE UNCHANGED <<accepted, data_eof>>

\* The server reads its next command and answers it.
ServerReplies ==
  /\ peer = "up" /\ job.kind = "none" /\ toServer # <<>>
  /\ LET request == Head(toServer)
     IN \E code \in ReplyCodes(request.verb) :
          /\ Answer(request.of, code)
          /\ listener' = IF code = 227 THEN request.of ELSE listener
          /\ DataPort(request.verb, code)
          /\ IF code = 150
             THEN \E big \in BOOLEAN :
                    job' = [kind |-> IF request.verb = "STOR" THEN "recv" ELSE "send",
                            of |-> request.of, conn |-> accepted, big |-> big]
             ELSE job' = job
          /\ peer' = IF code = 221 THEN "fin" ELSE "up"
  /\ toServer' = Tail(toServer)
  /\ UNCHANGED <<client_cmd_socket, server_ip, recv_buffer, collecting, sent,
                 data_socket, dataFds, child>>

\* The data connections of which the client still holds an end.
HeldByClient == dataFds \cup {s \in {data_socket} : child = "run"}

\* Sending ends when the data fits in the socket buffers, when the child reads
\* it, or when the client's end is gone. Receiving ends when put's child has shut
\* its end down, which it does before it ends, whoever holds the socket still
\* (cmds.c:315), or when the client's end is gone.
JobCanFinish ==
  CASE job.kind = "send" -> \/ ~job.big
                            \/ child = "run" /\ data_socket = job.conn
                            \/ job.conn \notin HeldByClient
    [] job.kind = "recv" -> \/ child = "ok" /\ data_socket = job.conn
                            \/ job.conn \notin HeldByClient
    [] OTHER -> FALSE

\* The transfer ends, or is broken off: the server closes the data connection
\* and reports.
ServerFinishes ==
  /\ peer = "up" /\ job.kind # "none"
  /\ \E code \in {226, 426} :
       /\ JobCanFinish \/ ("abort" \in Faults /\ code = 426)
       /\ Answer(job.of, code)
  /\ job' = NoJob
  /\ data_eof' = (data_eof \/ job.conn = data_socket)
  /\ UNCHANGED <<client_cmd_socket, server_ip, recv_buffer, collecting, sent,
                 peer, toServer, listener, accepted,
                 data_socket, dataFds, child>>

\* The server, or the network, ends the control connection.
ServerGoes ==
  /\ peer = "up"
  /\ \/ "drop" \in Faults /\ peer' \in {"fin", "rst"} /\ UNCHANGED stream
     \/ /\ "idle421" \in Faults /\ job.kind = "none" /\ toServer = <<>>
        /\ peer' = "fin"
        /\ stream' = Append(stream, [of |-> 0, code |-> 421, multi |-> FALSE])
  /\ toServer' = <<>>
  /\ ForgetSession
  /\ data_eof' = (data_eof \/ data_socket # 0)
  /\ UNCHANGED <<client_cmd_socket, server_ip, recv_buffer, collecting, sent,
                 data_socket, dataFds, child>>

\* Whether the server will still send something without the client's help.
ReplyComing ==
  /\ peer = "up"
  /\ IF job.kind = "none" THEN toServer # <<>>
                          ELSE JobCanFinish \/ child = "run"
=============================================================================
