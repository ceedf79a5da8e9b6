# A verification model of flyf, a command-line FTP client

flyf is an FTP client in C: one process with a command loop, one control
connection, and one forked child for each transfer. This directory
holds TLA+ modules that model it, TLC configurations that check the modules on
small instances, and TLAPS proofs for every value of the constants. Paths below
are relative to the repository: `funcs.c` is `src/ftp_client_funcs.c`.

## 1. Inventory

| Component | Source | State | Operations |
|---|---|---|---|
| Control connection | `funcs.c`, `funcs.h` | `client_cmd_socket`, `server_ip`, `recv_buffer` (static) | `get_server_connected_socket`, `close_cmd_socket`, `send_cmd`, `get_response`, `is_server_disconnected`, `respond_with_code`, `respond_exists_code` |
| Passive data connection | `funcs.c:415-668` | a descriptor returned to the command | `get_binded_socket`, `cal_data_port`, `connect_server`, `enter_passive_mode` |
| Command loop | `ftp_client.c` | `server_connected`, the current `cmd` | connect, log in, read a line, check the connection, dispatch, free; SIGINT |
| Commands | `cmds.c` | the terminal's echo flag | `user_login`, `open`, `exit`, `cd`, `pwd`, `mkdir`, `delete`, `ascii`, `binary`, `ls`, `get`, `put`; local `lls`, `lcd`, `lpwd`, `help` |
| Transfer child | `cmds.c:139-193, 271-324, 397-447` | a file or the screen, the data socket, a block | receive loop (`get`, `ls`), send loop (`put`), exit status |
| Response framing | `funcs.c:208-402` | `recv_buffer` and a length | `recv_with_timeout`, multi-line loop, `is_multi_response_end` |
| Command line | `common.c`, `funcs.c:345-370` | `struct command` on the heap | `userinputtocommand`, `append_path`, `freecommand`, `fgets_wrapper` |
| Encoding | `encode.c` | none | `g2u`: `iconv` from GB2312 to UTF-8 for a listing |
| Server and network | external | the other end of both connections | replies, transfers, losses, delays |

**Interactions.** main calls the commands one at a time. Every command uses
the same `recv_buffer` and the same socket, so what one command leaves unread in
the connection is the next one's first answer. `server_connected` (main's) and
`client_cmd_socket` (funcs.c's) describe the same thing and are assigned
separately. A transfer forks; parent and child share the data socket's open
file, and the parent learns how the child fared only by `waitpid`. SIGINT runs
`exit_cmd` on top of whatever the program is doing.

**What is hard.** A reply can be late (30 s time-out), in the same segment as
another, in two segments, multi-line, unsolicited (421) or never come; a
connection may be closed or reset at any moment, and a send on it may still
succeed; every call between PASV and fork may fail and must give back one
descriptor; the 226 that ends a transfer races with 150, with the child and
with the end of the data; a download that lasts longer than the time-out is
given up by the parent while its child goes on; a child that fails is not seen
by the server, because the parent of `get` and `ls` keeps the data socket open.

**What makes it correct**, component by component:

- control connection: a response acted upon answers the last command; the client
  does not speak while a reply is owed to it; a lost connection is recognised;
- command loop: the flag agrees with the socket while a command runs; every
  command comes back to the prompt or ends the program;
- transfers: the parent waits for a completion only when one comes; the child is
  reaped on every path; every path gives back the data socket;
- login: the terminal echoes again whenever someone else looks at it;
- transfer child: what it writes is what was sent, in order, and all of it when
  it reports success;
- framing: a write into `recv_buffer` stays inside it; a complete multi-line
  reply is recognised;
- passive data connection: the port connected to is the one announced, however
  the reply arrives;
- command line: a command's paths are the words typed behind it, a line that
  fits is read whole, and whatever allocation fails, every block is freed once.

## 2. Modules

| Module | Role |
|---|---|
| `ControlConnection` | state and operators of the control connection, and the constant `Faults` |
| `FtpServer` | the server, the data connection and what may go wrong; external |
| `FtpSession` | composes the two with the program: main, login, all commands, the transfers; its properties, mutants and inductive invariant |
| `FtpDialogue` | abstract specification: what a session promises |
| `MCFtpSession` | values of the constants for TLC |
| `FtpSessionTypeProofs`, `FtpSessionSafetyProofs` | theorems about `FtpSession` in any environment |
| `FtpDialogueProofs` | theorems about `FtpSession` with a server in time |
| `DataTransfer` | one transfer block by block: the forked child, the socket buffers, the server; its properties, mutants and inductive invariant |
| `FileCopy` | abstract specification: what a transfer promises |
| `MCDataTransfer` | values of the constants for TLC |
| `DataTransferProofs` | theorems about `DataTransfer` |
| `ResponseFraming` | `get_response_with_timeout` byte by byte: `recv_buffer`, pieces of the stream, the multi-line loop; its properties, mutants and inductive invariant |
| `MCResponseFraming` | values of the constants for TLC |
| `ResponseFramingProofs` | theorems about `ResponseFraming` |
| `PassivePort` | extends `ResponseFraming`: `cal_data_port` on the buffer that `get_response` filled, and its property |
| `PassivePortProofs` | theorems about `PassivePort` |
| `CommandLine` | `fgets_wrapper`, `userinputtocommand`, `append_path`, `freecommand` and the heap; its properties, mutants and inductive invariant |
| `MCCommandLine` | values of the constants for TLC |
| `CommandLineProofs` | theorems about the heap of `CommandLine` |
| `CommandTextProofs` | theorems about the texts of `CommandLine` |

### How the state corresponds

`client_cmd_socket`, `server_ip`, `recv_buffer`, `server_connected` are the
variables of those names. `recv_buffer` is the sequence of replies it holds, a
reply being its code, whether it is multi-line, and the number `of` of the
command it answers. The client never reads `of`: it is there for properties to
say whose answer a reply is. 0 is an unsolicited reply. `server_ip` is *where the
saved pointer points*: `argv`, the static buffer of `getServerIpByHostname`, the
path of the current command, or memory `freecommand` has released. Data
sockets are named by the number of the PASV that made them. `child` is the
forked process: none, running, or ended with a status not collected yet.
`downloads` is a history variable, the data sockets of `get`s and `ls`s that
forked.

`pc` is the blocking call the program is in (a wait for a reply, a connect, a
prompt, `waitpid`, ...), and `cmd` the command; together they are the place in
the source. One action runs from one blocking call to the next, with every
close, flag assignment and free on the way. `get_response` with its time-out and
its multi-line loop is `GetResponseOk`, `CollectMore` (one more `recv` of the
loop) and `GetResponseFails`; send_cmd is `SendOk` and `SendFails`. SIGINT
(`Interrupt`) is enabled in every `pc` once main has installed the handler.

`DataTransfer` looks into what `FtpSession` leaves as two steps, the fork and
the end of the child. Its data is a sequence whose i-th unit is i, so a lost,
repeated or misplaced unit shows. `wire` is what the socket buffers of both ends
hold, `held` is the stdio buffer of `get`'s file or the listing `ls` collects,
`copy` what has reached its destination. One action is one turn of a child's
loop (`recv` and `fwrite`, `recv` and `realloc`, `fread` and `send`). `verdict`
is what the server has said of the transfer, `heard` what `get_response` has
brought the parent: the verdict, or nothing (`lost`). `get` and `ls` wait for the
reply first and for the child then; `put` waits for its child and asks for the
reply only if the child has succeeded (cmds.c:334). `Waiting` says when the parent
is in one of the two calls, and `Outcome` what it tells the user in the end: a
failure without a 226, whatever the child has done, and a failure as soon as
the child of `put` has failed.

`get_response` gives up in two cases. `"late"` among the troubles lets it do so at
any moment: the transfer takes longer than 30 seconds, the control connection is
lost, or the reply was overlooked beside 150. And it does so without any such
trouble when the child of a download has failed and the socket buffers are full
(`ServerStuck`): the server does not see that nobody reads, since the parent holds
the socket, and can neither go on nor report. The two modules agree on this
(`JobCanFinish` in `FtpServer`), and on when a child can end: at the end of the
data for `get` and `ls`, at the end of its file, whatever was lost, for `put`. An
upload is over for the server when `put`'s child has shut its end down
(cmds.c:315), whoever still holds the socket.

`FileCopy` therefore lets a copy grow, faithfully, after a failure was told - the
child of a download that was given up still writes, the server still takes what
a failed `put` has sent - but never after a success.

`ResponseFraming` looks into one call of `get_response`, which `ControlConnection`
gives as outcomes. `recv_buffer` is indexed as in C; a character is a digit,
`-`, a blank, a line's end, or any other (`text`), which is all the function
tells apart. `length`, `total_len` and `code` are its local variables. `taken`
(the bytes this call received) and `highest` (the highest index it wrote) are
history variables. A time-out, an error and the end of the connection are one
action, `ReceiveFails`: all three return -1. What `ControlConnection` takes over
is `LoopOnlyFails`: a call that enters the loop can only fail, so `CollectMore`
never ends it.

`PassivePort` reads that buffer the way `enter_passive_mode` does: the C string,
what stands between the first `(` and the first `)` as far as 63 bytes go, the
fields between commas, `atoi` of the fifth and sixth, and the 16 bits that
`connect` takes. The constant `Announced` says which ports the replies of a run
announce.

In `CommandLine` a text is a sequence of characters; the word of a command is one
character (`get`, and `mget`, which has a wildcard form), and a tab is a blank.
The heap is a set of blocks, each named by its kind, the line it belongs to and
its number; the array that `realloc` may move keeps its name. Every allocation
succeeds or fails by choice. One action is one turn of the loop over `strtok_r`.
`input_copy` says whether the variable still points to the copy of the line: the
loop sets it to NULL after its first turn. What the session makes of a command
is one step here (`Execute`), and its `freecommand`.

A listing is converted by `g2u` before it is printed (`CodeConvert`): all of it,
or what stands before the first character that `iconv` refuses.

The constant `Faults` selects what the environment may do in a run; the
definition `FaultKinds` names each. `MaxCommands` bounds what the user types,
`MaxDataFds` is the process's descriptor limit (data sockets only).
In `DataTransfer` the variable `trouble`, chosen at the start, says what may go
wrong in the run.

## 3. Runs

| Run | Faults | Bounds | Shows |
|---|---|---|---|
| `session_timely` | coalesced replies, losses, unsolicited 421, failing connects and local calls | 3 commands, 2 data sockets | `TypeOK`, `EchoRestored`, `CompletionIsComing`, `DialogueInv`, `Lockstep`, `HalfDuplex` |
| `session_faults` | all but replies in segments | 2 commands, 2 data sockets | `FlagAndSocketAgree`, `OnlyDownloadsKeepSockets`, `ChildReaped`, `SessionInv`, `CommandsAdvance` |
| `session_live` | all but coalesced and multi-line replies and 421 | 2 commands, 2 data sockets, a fair server | `CommandsEnd` |
| `session_stall` | late | 1 `get`, unfair server | violated: `CommandsEnd` |
| `session_server_ip` | none | `open`, `get` | violated: `ServerIpAlive` |
| `session_echo` | SIGINT | 1 command | violated: `EchoRestored` |
| `session_peek` | unsolicited 421 | 1 command | violated: `ClosedIsSeen` |
| `transfer_copies` | every set of troubles | 5 units, blocks of 3, buffers of 2 | `TypeOK`, `CopyInv`, `CopyPromise`, `TransferEnds`, `TransferAdvances`, `CleanDownloadSucceeds` |
| `transfer_upload` | any | 4 units, blocks of 3, buffers of 2 | violated: `UploadPromise` |
| `framing` | any receive fails | a buffer of 21; one-line, multi-line and 227 replies, in six streams | `FramingInv`, `WritesInBounds`, `BufferIsString`, `LoopOnlyFails`, `PortIsAnnounced` |
| `framing_multiline` | any receive fails | a buffer of 20, one multi-line reply of 11 bytes | violated: `MultilineUnderstood` |
| `command_line` | any allocation fails | a buffer of 8; every input of up to 5 characters, five longer ones | `CommandInv`, `TextInv`, `FreesAreValid`, `OnlyCopiesAndArraysLeak`, `CommandIsTyped`, `ShortLinesAreWhole` |

`session_timely` is the run that says when the dialogue is sound: with a server
that answers each command within 30 s, in whole segments, on a network that may
fail altogether, no response is ever taken for another command's answer
(`Lockstep`), nothing is asked while a reply is owed (`HalfDuplex`, the
refinement of `FtpDialogue` with `link` as the open socket and `owed` as the
replies the server still owes or the client has not read), and no transfer waits
for a completion that has passed (`CompletionIsComing`). The last has two
exemptions, stated as `OverlookedCompletion`, because the code overlooks a 426
that came with 150, and `get` also a 226 that did (cmds.c:195). Without the
assumptions `Lockstep` fails: a late reply, a reply in two segments, a failed
child of `put` and a failed fork each leave a reply unread. They are listed
under `hazards`, and `session_faults` and `session_live` then check what
survives them.

`transfer_copies` checks that `DataTransfer` implements `FileCopy`. The mapping
gives it `Outcome` and `Reliable`; the latter excludes uploads and the three
ways in which the code itself cuts a copy short without telling (a full disk
seen only by `fclose`, a listing `iconv` gives up on, a listing not printed to
a terminal): for these the promise is order and no duplicates.
`TransferEnds` says that the parent gets its answer in the end: from the server,
or by giving up. That alone would hold of a parent that always gives up at once;
`CleanDownloadSucceeds` says that it does not, and that a download in which
nothing goes wrong is reported complete, in whatever order the 226, the end of
the data and the end of the child come.
`transfer_upload` asks the full promise of `put`.

`CommandsAdvance` and `TransferAdvances` are the halves of `CommandsEnd` and
`TransferEnds` that need no fairness: no command goes back to a blocking call it
has been in, and no step of a transfer is done twice. What can go on for ever is
then only what is not a step at all: a wait that nobody ends, and the retried
`EAGAIN` of `session_stall`.

`framing` also asks what the data port becomes of a 227 reply that is cut
anywhere, follows another reply or is followed by one: the announced port, or
none, and none only when the response does not hold the whole address. The
response loses its rest then, which is the session's problem (`Lockstep`). That
the whole replies of its streams do announce a port, which the proof assumes
(`WholeRepliesAnnounce`), TLC evaluates as an ASSUME of the MC module.

`command_line` compares what the loop over `strtok_r` makes of a line with the
words of the line (`CommandIsTyped`), and what `fgets_wrapper` returns with the
lines that were typed (`ShortLinesAreWhole`). `OnlyCopiesAndArraysLeak` states
what leaks and excludes everything else: the copy of a line with a word in it,
because the loop has overwritten the pointer (common.c:104, 126), and the array
of a command whose first path could not be stored (common.c:58, 169).

**Why the bounds are enough.** Five units in blocks of three over buffers of two
give a block that does not fit, a last block that is short, a full and an empty
buffer, and a chunk boundary anywhere; the proof covers the other sizes. The
streams of `framing` have 12 to 25 bytes for a buffer of 21, so a reply fits,
fills the buffer or overflows it, a second piece can be cut anywhere, and one
call may find the rest of the previous reply; its proof has no bounds either.
The inputs of `command_line` hold every order of up to five words, blanks and
line ends, and lines that fill the buffer of 8 exactly, by one character more,
and with a carriage return at the boundary; with three paths every allocation
of a command can be the one that fails. One command of every shape is in
`MixedCommands`; `cd`, `pwd`, `mkdir`, `delete`, `ascii` and `binary` have the
same code shape (`SimpleCommand`), so one stands for all. What one command
can leave behind - an unread reply, a closed socket behind a set flag, a leaked
descriptor, a dangling `server_ip`, a busy server - takes one command, and a
second sees it; three commands allow an `open` between. Two data sockets let one
download leak and a second one run, and the third fail at the limit. The proofs
have no bounds. MaxCommands also bounds `sent`: there is no retry in the code.

**Fairness.** `ClientFairness` is weak fairness of the parent's steps and of
the child's end: the scheduler runs both processes, every blocking call returns
when it can, and a receive on the control connection has its time-out, so
`GetResponseFails` needs no help. The user and every failure are unfair.
`ServerFairness` adds that the server answers what it has read and ends the
transfers it can end; it is assumed in `session_live` only, and `session_stall`
shows why it is needed: without it `get` waits for ever, because its child spins
on `EAGAIN` without a limit (cmds.c:157), which the receive time-out set on the
data socket cannot end.

`DataTransfer` assumes weak fairness of the child, of `GetResponse` (the reply is
there, or its time is up) and of the server, which sends, receives and closes as
far as the socket buffers let it. Breaking off, a reset, and a child's failure are
never owed to anybody.

## 4. Proofs

`TypeCorrect` proves `TypeOK` for every `Faults`, `Commands` and bound.
`SessionInvariant` proves `SessionInv`, the conjunction of `TypeOK`,
`FlagAndSocketAgree`, `SocketsInv` and `ChildInv`, from the assumptions on the
constants alone. The strengthening is needed twice:

- "at the prompt the process holds exactly the downloads' sockets" says nothing
  of the eight calls between PASV and the fork, where the socket is held or not
  depending on `pc`; `SocketsInv` says what is held at each. Closing the socket
  removes exactly it only if it is not one of the earlier downloads', hence the
  conjunct that socket names never exceed `sent`, which only grows.
- "no child at the prompt" needs to know that a child exists only while the
  parent is in `complete` or `wait`, and that `put` has reaped it in `complete`
  (`ChildInv`); otherwise put's hang-up would return with a child running.

`FlagIsTrue`, `DataSocketsBalance` and `ChildrenReaped` follow.
`EchoIsRestored` proves `EchoRestored` when `"sigint"` is not in `Faults`
(`session_echo` shows that the assumption is needed), with its own invariant:
echo is off only at the password prompt. `CommandsAreBounded` proves `CommandsAdvance`; it needs
that only `get` asks for a size and only transfers reach the data connection
(`StageInv`), or `SendRequest` would go back to SIZE, and that every `recv` of the
multi-line loop takes at least one reply. Each step of a proof is one action of
`Next`; the shared pieces of the actions (`HangUp`, `SendOk`,
`GetResponseFails`, ...) have lemmas of their own.

`DialogueInvariant` proves `DialogueInv`, and from it `ResponsesInLockstep`,
`SessionIsDialogue` (the refinement of `FtpDialogue`) and `CompletionsCome`
follow, for any number of commands and of descriptors. They assume
`TimelyServer`: no late, split or multi-line replies, no failing fork, no child
failing by itself, no Ctrl-C, and no transfer broken off by the server if `put` is among the commands. What
`session_timely` allows is allowed here: replies in one segment, lost and refused
connections, an unsolicited 421, failing local calls. A broken-off `get` or `ls`
is harmless because both read the 426 before they look at the child; `put` does
not (cmds.c:334), and without it no job of the server can be an upload
(`UploadsNotAborted`). `Lockstep` looks at one
receive and says nothing of what is left to be received; the invariant has to
say at every `pc` what is owed and in which of three places it is - on its way to
the server (`RequestInv`), in the server's hands as a running transfer
(`JobInv`), or unread (`StreamInv`):

- two replies are unread only while the reply to RETR or LIST is waited for, and
  then they are 150 and the completion (`TurnInv`). The server cannot complete
  a STOR that early, because the program still holds the data socket
  (`SocketsInv`) and there is no child yet that could have shut it down
  (`ChildInv`);
- a wait for the answer to a command fails only with the connection, since
  `TurnInv` says the answer is owed. A wait for a completion may fail otherwise,
  but only when there is none;
- the child of a download has ended only if the data connection is at its end,
  so that the server has no transfer left when `waitpid` returns (`DataInv`);
- `CompletionInv` says when a completion is neither unread nor to come: it was
  read beside 150, and by `get` or by an `ls` that does not look for a 426.

`CopyInvariant` and `CopiesAreFaithful` prove that `DataTransfer` implements
`FileCopy` for every size of file, block and socket buffer, under every set of
troubles. `CopyPromise` alone is not inductive: that the copy is a prefix says
nothing of the next write. `DownloadInv` says that what is written, held and
under way are consecutive pieces of the source, and, unless the connection was
reset, all that was sent; a 226 means that all was sent, so a child that ended
well after it has all. `UploadInv` says that the copy, the buffers and the rest
of the file follow one another in order. The refinement then needs that the
copy only grows (`CopyGrows`), that what the user was told stays
(`OutcomeStays`) and nothing arrives any more after a success
(`SuccessIsFinal`), and `CopyIsFaithful` of the new state. The first conjunct of
`CopyInv` behind `TypeOK`, that what was heard is what the server said, links
`Outcome` with `verdict`: the server does not take it back (`VerdictStays`).
`TransfersAdvance` proves `TransferAdvances` for all sizes: a unit still to be sent
counts twice and one on the wire once, so sending and receiving both lower the
sum (`SumDecreases`), and every other step ends something that was open.

`FramingInvariant` proves `FramingInv` for every buffer of at least four bytes and
every set of streams. `WritesInBounds` says nothing of the next piece, which is
stored at `total_len`; the invariant adds that within the loop `total_len` is
the number of bytes received and smaller than the buffer, and that the buffer
is the terminated string of these bytes (`BufferIsString`). `NoOverflow` and
`ResponseIsString` follow, and `MultilineFails`: the character compared with
a blank is always the terminating NUL.

`CommandInvariant` proves `CommandInv` for every buffer size and every input.
`FreesAreValid` and `OnlyCopiesAndArraysLeak` are not inductive: a block of the
current line could have been left by an earlier one under the same name. The
invariant adds that no block belongs to a line still to come, and that a command
or a path on the heap is one that `freecommand` will free. `FreesValid` and
`LeaksAreKnown` follow. Neither uses what the texts are.

`TextInvariant` proves `TextInv`, which does, for every buffer size and input.
`ShortLinesAreWhole` and `CommandIsTyped` look at the end of a read and of the loop
over `strtok_r` and are not inductive. `ReadInv` adds that what `fgets` took lies
within one line and begins behind a line end or behind a full buffer
(`Begins`), so that a piece shorter than the buffer begins where its line does.
`ParseInv` adds that `strtok_r` stands between two words (`Splits`) and that the
command and its paths are the ones that the words passed so far make
(`CommandOf`); a path's number is the cardinality of the set of words before it,
so the proof counts with `FiniteSetTheorems`. `LinesAreWhole` and
`CommandsAreTyped` follow.

`CutReplyHasNoPort` proves of every text without a closing bracket that
`cal_data_port` returns 0. `PortsAreAnnounced` proves `PortIsAnnounced` from it for
every buffer and every set of streams, if their whole replies announce ports
(`WholeRepliesAnnounce`). That is a hypothesis about the server and `atoi`, on
replies as they were sent; the theorem carries it over to responses as they are
received. `Arrived` says that what a call has received and what is to come are
the end of a stream, so the response is a contiguous piece of it, beginning
where an earlier call left off. If the piece holds a `)`, `cal_data_port` sees in
it what it would see in the whole reply, because it looks no further than the
first `)` (`SameAddress`); if not, it gives up. It also needs `BufferIsString`:
the C string in the buffer is what was received, because a stream has no NUL.

Only model-checked: `TransferEnds`, `CleanDownloadSucceeds` and `CommandsEnd`,
since liveness is out of the prover's reach, and the numbers `atoi` reads, a fold over the digits that TLC
evaluates in `WholeRepliesAnnounce`. All other properties of the passing runs are
theorems.

## 5. What the checks found

- `session_stall`: a server that stops sending without closing hangs `get` and
  `ls` for ever; the parent has made the data socket non-blocking, to which its
  receive time-out does not apply.
- `session_server_ip`: `open <IP address>` saves a pointer into the command,
  which the loop frees; the next transfer reads freed memory.
- `session_echo`: Ctrl-C at the password prompt leaves the terminal without
  echo.
- `transfer_upload`: `put` sends each block once on a non-blocking socket and
  loses what the socket buffer does not take; the user is told of success.
- `framing_multiline`: the end of a multi-line reply is looked for three bytes
  before the end of what was received, and its fourth character is the NUL: a
  complete multi-line reply makes `get_response` receive on and return -1.
- `session_peek`: a closed connection with an unread 421, or a reset one, is
  reported as connected at the prompt.

## 6. Not modelled

- Names and the wording of replies, the progress display, percentages and rates.
  `FtpSession` has its own commands, without the texts of `CommandLine`.
- What `cal_data_port` should make of fields beyond 255 or below 0: they are
  translated, but nothing in the code or its documents says what is right.
- `printcommand` (never called), `get_rand_port` (any port will do) and
  `getServerIpByHostname`'s lookup, which fails or gives an address.
- The instants between an assignment to `client_cmd_socket` and the one to
  `server_connected` that follows it in the same function: SIGINT there would
  see them disagree.
- The child's copy of the SIGINT handler: Ctrl-C reaches the whole process
  group, so parent and child may both send QUIT. Both end.
- The server's state after the client has hung up.
- The bytes of GB2312 and UTF-8. In `encode.c` `iconv_open` is compared with 0
  instead of -1 and a failed conversion does not call `iconv_close`; both happen
  in a child that prints what there is and exits.
- `lls` and `lpwd` (output), `lcd` (local directory), build files.

## 7. Plan

Done: the session, the transferred data, the framing of responses, the data port
and the command line, and the theorems above. What is left: the child's copy of
the SIGINT handler (section 6), and a statement of the dialogue that survives
late and split replies, where `Lockstep` fails.
