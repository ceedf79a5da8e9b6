---------------------------- MODULE DataTransfer ----------------------------
(***************************************************************************)
(* One transfer over the data connection, block by block: the child that   *)
(* get, put or ls forks, the socket buffers, and the server (external).    *)
(* The data is a sequence of FileSize units, the i-th of which is i, so    *)
(* that a lost, repeated or misplaced one shows; a unit is a byte of a     *)
(* file or a character of a listing.                                       *)
(***************************************************************************)
EXTENDS Naturals, Sequences

CONSTANTS
  Kinds,      \* the commands of a run: get, put, ls
  FileSize,   \* how many units there are to transfer
  BlockSize,  \* BUFFER_SIZE (get, ls) or FILE_READ_BUFFER_SIZE (put)
  Capacity    \* how many units the socket buffers of both ends hold

ASSUME KindsAssumption == Kinds \subseteq {"GET", "PUT", "LS"}

ASSUME SizesAssumption ==
  /\ FileSize \in Nat
  /\ BlockSize \in Nat \ {0, 1}
  /\ Capacity \in Nat \ {0}

VARIABLES
  kind,     \* the command
  trouble,  \* what may go wrong in this transfer
  next,     \* how many units the source has given away
  wire,     \* the units in the socket buffers
  end,      \* how the source's end of the connection looks to the other
  held,     \* get: the stdio buffer of the file; ls: the listing so far
  copy,     \* what has reached the file, the screen or the server
  child,    \* the forked process
  verdict,  \* the reply that the server has sent to end the transfer
  heard     \* what get_response has brought the parent after the fork

vars == <<kind, trouble, next, wire, end, held, copy, child, verdict, heard>>

Troubles == { "abort",     \* the server may break off the transfer with 426
              "reset",     \* the data connection may be reset
              "open",      \* the local file cannot be opened
              "disk",      \* the local disk may be full
              "memory",    \* realloc may fail
              "charset",   \* the listing may have characters outside GB2312
              "pipe",      \* ls's output is not a terminal
              "late" }     \* the verdict may come too late for get_response, be
                           \* lost, or be overlooked beside 150

\* Every variable has its type, and the socket buffers their size.
TypeOK ==
  /\ kind \in Kinds
  /\ trouble \in SUBSET Troubles
  /\ next \in 0..FileSize
  /\ wire \in Seq(1..FileSize) /\ Len(wire) <= Capacity
  /\ end \in {"open", "fin", "rst"}
  /\ held \in Seq(1..FileSize)
  /\ copy \in Seq(1..FileSize)
  /\ child \in {"start", "run", "ok", "fail"}
  /\ verdict \in {"none", "226", "426"}
  /\ heard \in {"none", "226", "426", "lost"}

\* The parent has read 150 and forked.
Init ==
  /\ kind \in Kinds
  /\ trouble \in SUBSET Troubles
  /\ next = 0
  /\ wire = <<>>
  /\ end = "open"
  /\ held = <<>>
  /\ copy = <<>>
  /\ child = "start"
  /\ verdict = "none"
  /\ heard = "none"

Upload == kind = "PUT"

Lesser(a, b) == IF a < b THEN a ELSE b
First(n, s)  == SubSeq(s, 1, n)
Rest(n, s)   == SubSeq(s, n + 1, Len(s))

-----------------------------------------------------------------------------
(* The child of get and ls.                                                 *)

\* get and put open their file first. A put that cannot closes its end of the
\* connection, like one that has nothing to send.
OpenFile ==
  /\ child = "start"
  /\ \/ child' = "run" /\ end' = end
     \/ /\ "open" \in trouble /\ kind # "LS"
        /\ child' = "fail"
        /\ end' = IF Upload /\ end = "open" THEN "fin" ELSE end
  /\ UNCHANGED <<kind, trouble, next, wire, held, copy, verdict, heard>>

\* ls leaves room for a terminating NUL.
ReadLimit == IF kind = "LS" THEN BlockSize - 1 ELSE BlockSize

\* get: fwrite puts any part of what it holds on the disk, or comes up short;
\* fclose then tries once more.
Fwrite(units) ==
  \E n \in 0..Len(units) :
    /\ copy' = copy \o First(n, units)
    /\ \/ held' = Rest(n, units) /\ child' = "run"
       \/ "disk" \in trouble /\ held' = <<>> /\ child' = "fail"

\* ls: the listing is kept in memory until its end.
Collect(units) ==
  /\ copy' = copy
  /\ \/ held' = units /\ child' = "run"
     \/ "memory" \in trouble /\ held' = <<>> /\ child' = "fail"

\* Mutant: a listing's pieces are not appended to one another.
ReceiveOverwriting ==
  /\ ~Upload /\ child = "run"
  /\ \E k \in 1..Lesser(Len(wire), ReadLimit) :
       /\ wire' = Rest(k, wire)
       /\ IF kind = "GET" THEN Fwrite(held \o First(k, wire))
                          ELSE Collect(First(k, wire))
  /\ UNCHANGED <<kind, trouble, next, end, verdict, heard>>

\* EAGAIN, when there is nothing to read yet, only comes back here.
Receive ==
  /\ ~Upload /\ child = "run"
  /\ \E k \in 1..Lesser(Len(wire), ReadLimit) :
       /\ wire' = Rest(k, wire)
       /\ IF kind = "GET" THEN Fwrite(held \o First(k, wire))
                          ELSE Collect(held \o First(k, wire))
  /\ UNCHANGED <<kind, trouble, next, end, verdict, heard>>

\* All of a text, or what it begins with if there is trouble.
CutBy(problem, text) ==
  {First(n, text) : n \in IF problem \in trouble THEN 0..Len(text) ELSE {Len(text)}}

\* g2u: iconv goes as far as the first character that it cannot convert.
CodeConvert(text) == CutBy("charset", text)

\* What fclose or printf may bring to its destination. The results of fclose
\* and g2u are not looked at, and _exit does not flush the buffer that stdout
\* has unless it is a terminal.
Brought(text) ==
  IF kind = "GET" THEN CutBy("disk", text)
                  ELSE UNION {CutBy("pipe", converted) : converted \in CodeConvert(text)}

Flush ==
  /\ \E text \in Brought(held) : copy' = copy \o text
  /\ held' = <<>>

\* Mutant: the file is not closed before _exit.
EndOfDataUnflushed ==
  /\ ~Upload /\ child = "run" /\ wire = <<>> /\ end = "fin"
  /\ IF kind = "GET" THEN held' = <<>> /\ copy' = copy ELSE Flush
  /\ child' = "ok"
  /\ UNCHANGED <<kind, trouble, next, wire, end, verdict, heard>>

\* Mutant: end of file is taken for EAGAIN, which a stale errno may hold.
EndOfDataRetried ==
  /\ ~Upload /\ child = "run" /\ wire = <<>> /\ end = "fin"
  /\ UNCHANGED vars

EndOfData ==
  /\ ~Upload /\ child = "run" /\ wire = <<>> /\ end = "fin"
  /\ Flush
  /\ child' = "ok"
  /\ UNCHANGED <<kind, trouble, next, wire, end, verdict, heard>>

\* recv fails: get closes its file, ls has printed nothing.
ReceiveFails ==
  /\ ~Upload /\ child = "run" /\ end = "rst"
  /\ IF kind = "GET" THEN Flush ELSE held' = <<>> /\ copy' = copy
  /\ child' = "fail"
  /\ UNCHANGED <<kind, trouble, next, wire, end, verdict, heard>>

-----------------------------------------------------------------------------
(* The child of put.                                                        *)

\* The next block of the file.
Block == [i \in 1..Lesser(BlockSize, FileSize - next) |-> next + i]

\* Mutant: the block is taken to fit into the socket buffers.
SendBlockWhole ==
  /\ Upload /\ child = "run" /\ end = "open" /\ next < FileSize
  /\ wire' = wire \o Block
  /\ next' = next + Len(Block)
  /\ UNCHANGED <<kind, trouble, end, held, copy, child, verdict, heard>>

\* Mutant: a block of which send has not taken everything is sent again.
SendBlockAgain ==
  /\ Upload /\ child = "run" /\ end = "open" /\ next < FileSize
  /\ LET room == Capacity - Len(wire)
     IN \E n \in IF room = 0 THEN {0} ELSE 1..Lesser(Len(Block), room) :
          /\ wire' = wire \o First(n, Block)
          /\ next' = IF n < Len(Block) THEN next ELSE next + n
  /\ UNCHANGED <<kind, trouble, end, held, copy, child, verdict, heard>>

\* send takes what fits, or nothing (EAGAIN). Either way the loop reads the
\* next block.
SendBlock ==
  /\ Upload /\ child = "run" /\ end = "open" /\ next < FileSize
  /\ LET room == Capacity - Len(wire)
     IN \E n \in IF room = 0 THEN {0} ELSE 1..Lesser(Len(Block), room) :
          wire' = wire \o First(n, Block)
  /\ next' = next + Len(Block)
  /\ UNCHANGED <<kind, trouble, end, held, copy, child, verdict, heard>>

SendFails ==
  /\ Upload /\ child = "run" /\ end = "rst" /\ next < FileSize
  /\ child' = "fail"
  /\ UNCHANGED <<kind, trouble, next, wire, end, held, copy, verdict, heard>>

UploadEnds ==
  /\ Upload /\ child = "run" /\ next = FileSize
  /\ child' = "ok"
  /\ end' = IF end = "open" THEN "fin" ELSE end
  /\ UNCHANGED <<kind, trouble, next, wire, held, copy, verdict, heard>>

-----------------------------------------------------------------------------
(* The server and the network.                                              *)

ServerSends ==
  /\ ~Upload /\ end = "open" /\ next < FileSize /\ Len(wire) < Capacity
  /\ next' = next + 1
  /\ wire' = Append(wire, next + 1)
  /\ UNCHANGED <<kind, trouble, end, held, copy, child, verdict, heard>>

\* The server closes after the last unit, or breaks off. It does not learn that
\* the child has failed: the parent of get and ls keeps its copy of the socket.
ServerCloses ==
  /\ ~Upload /\ end = "open"
  /\ \/ next = FileSize /\ verdict' = "226"
     \/ "abort" \in trouble /\ verdict' = "426"
  /\ end' = "fin"
  /\ UNCHANGED <<kind, trouble, next, wire, held, copy, child, heard>>

ServerReceives ==
  /\ Upload /\ end # "rst"
  /\ \E k \in 1..Len(wire) :
       copy' = copy \o First(k, wire) /\ wire' = Rest(k, wire)
  /\ UNCHANGED <<kind, trouble, next, end, held, child, verdict, heard>>

ServerReceivesEnd ==
  /\ Upload /\ end = "fin" /\ wire = <<>> /\ verdict = "none"
  /\ verdict' = "226"
  /\ UNCHANGED <<kind, trouble, next, wire, end, held, copy, child, heard>>

\* The connection is reset, by the network or by a server that breaks off an
\* upload; some of what was under way is lost.
Reset ==
  /\ "reset" \in trouble \/ (Upload /\ "abort" \in trouble)
  /\ end # "rst" /\ (Upload => verdict = "none")
  /\ end' = "rst"
  /\ \E k \in 0..Len(wire) : wire' = First(k, wire)
  /\ verdict' = IF verdict = "none" THEN "426" ELSE verdict
  /\ UNCHANGED <<kind, trouble, next, held, copy, child, heard>>

-----------------------------------------------------------------------------

(* The parent.                                                              *)

\* Nobody reads any more and the socket buffers are full: without a reader the
\* server gets no further.
ServerStuck ==
  /\ ~Upload /\ child = "fail" /\ end = "open"
  /\ next < FileSize /\ Len(wire) = Capacity

\* Mutant: a reply that is not there yet is not waited for.
GetResponseImpatient ==
  /\ heard = "none" /\ (Upload => child = "ok")
  /\ heard' = IF verdict = "none" THEN "lost" ELSE verdict
  /\ UNCHANGED <<kind, trouble, next, wire, end, held, copy, child, verdict>>

\* get and ls wait for the verdict first and for the child then, put the other
\* way round, and only if its child has succeeded. After 30 seconds without a
\* reply, or when the control connection is lost, get_response gives up.
GetResponse ==
  /\ heard = "none" /\ (Upload => child = "ok")
  /\ \/ verdict # "none" /\ heard' = verdict
     \/ ("late" \in trouble \/ ServerStuck) /\ heard' = "lost"
  /\ UNCHANGED <<kind, trouble, next, wire, end, held, copy, child, verdict>>

\* The parent is in waitpid or in get_response.
Waiting ==
  \/ child \in {"start", "run"}
  \/ heard = "none" /\ ~(Upload /\ child = "fail")

\* What the parent tells the user in the end. Without a 226 it is a failure,
\* whatever the child has done (ls says nothing then).
Outcome ==
  IF Waiting THEN "running"
  ELSE IF child = "ok" /\ heard = "226" THEN "ok" ELSE "failed"

Child ==
  \/ OpenFile \/ Receive \/ EndOfData \/ ReceiveFails
  \/ SendBlock \/ SendFails \/ UploadEnds

Server == ServerSends \/ ServerCloses \/ ServerReceives \/ ServerReceivesEnd

Ended == Outcome # "running" /\ UNCHANGED vars

Next == Child \/ GetResponse \/ Server \/ Reset \/ Ended

Spec == Init /\ [][Next]_vars

\* The scheduler runs the child and the parent, whose get_response returns when
\* it can; the server goes on with the transfer as far as the buffers let it.
FairSpec == Spec /\ WF_vars(Child) /\ WF_vars(GetResponse) /\ WF_vars(Server)

-----------------------------------------------------------------------------
(* Properties.                                                              *)

\* Where Brought may be less than the text.
FlushLoses ==
  IF kind = "GET" THEN "disk" \in trouble
                  ELSE trouble \cap {"charset", "pipe"} # {}

\* The cases in which the code itself makes a copy without gaps.
Reliable == ~Upload /\ ~FlushLoses

Promise == INSTANCE FileCopy WITH Size <- FileSize, outcome <- Outcome,
                                  reliable <- Reliable

StrictPromise == INSTANCE FileCopy WITH Size <- FileSize, outcome <- Outcome,
                                        reliable <- TRUE

\* Whatever the sizes of blocks and buffers and wherever the transfer breaks,
\* a download is a prefix of its source, and all of it when the user is told
\* that it is complete; an upload has its blocks in order, none twice. The
\* exceptions are a full disk that only fclose notices, and a listing that
\* cannot be converted or is not printed to a terminal: these are cut short.
CopyPromise == Promise!Spec

\* put copies a file to the remote computer (README.md:24): all of it, when it
\* says so.
UploadPromise == StrictPromise!Spec

\* Every transfer ends, although the child asks a non-blocking socket again and
\* again, if the server goes on with it as far as it can. Where the child of a
\* download has failed and the server has got stuck, the time limit of
\* get_response ends it.
TransferEnds == <>(Outcome # "running")

\* A download in which nothing goes wrong is reported complete: neither the
\* order of 226, the end of the data and the child's end, nor a full buffer,
\* makes the parent give up (get, ls).
CleanDownloadSucceeds == ~Upload /\ trouble = {} ~> Outcome = "ok"

\* How much a transfer has still to do at most: every unit is sent and
\* received, the file opened, the child ended, the connection ended and
\* possibly reset, the verdict given and heard or given up.
Remaining ==
  2 * (FileSize - next) + Len(wire)
  + (CASE child = "start" -> 2 [] child = "run" -> 1 [] OTHER -> 0)
  + (CASE end = "open" -> 2 [] end = "fin" -> 1 [] OTHER -> 0)
  + (IF verdict = "none" THEN 1 ELSE 0) + (IF heard = "none" THEN 1 ELSE 0)

\* Nothing in a transfer is done twice: every turn of the child's loop that is
\* not just EAGAIN, and whatever the server and the network do, brings its end
\* nearer. This is the part of TransferEnds that no fairness is needed for.
TransferAdvances == [][Remaining' \in 0..Remaining - 1]_vars

-----------------------------------------------------------------------------
(* The inductive invariant behind CopyPromise.                              *)

\* s holds the units that follow the n-th one of the source.
Follows(s, n) == \A i \in 1..Len(s) : s[i] = n + i

Ascending(s) == \A i, j \in 1..Len(s) : i < j => s[i] < s[j]

\* What a download has written, holds and still has to read are consecutive
\* pieces of the source; without a reset they are all of what was sent.
DownloadInv ==
  /\ Follows(copy, 0)
  /\ child \in {"start", "run"} =>
       /\ Follows(held, Len(copy))
       /\ Follows(wire, Len(copy) + Len(held))
       /\ end # "rst" => Len(copy) + Len(held) + Len(wire) = next
  /\ end = "open" => verdict = "none" /\ child # "ok"
  /\ verdict = "226" => next = FileSize
  /\ child = "ok" /\ Reliable => Len(copy) = next

\* What the server has of an upload precedes what is under way to it, which
\* precedes what is still to be read; after a verdict nothing arrives.
UploadInv ==
  /\ Ascending(copy) /\ Ascending(wire)
  /\ \A i \in 1..Len(copy), j \in 1..Len(wire) : copy[i] < wire[j]
  /\ \A i \in 1..Len(copy) : copy[i] <= next
  /\ \A i \in 1..Len(wire) : wire[i] <= next
  /\ end = "fin" => child \in {"ok", "fail"}
  /\ verdict = "426" => end = "rst"
  /\ verdict = "226" => end = "fin" /\ wire = <<>>

\* Every step of the child, of the parent, of the server and of the network
\* preserves the conjunction (DataTransferProofs): what the parent has heard is
\* what the server has said.
CopyInv ==
  /\ TypeOK
  /\ heard \in {"none", "lost", verdict}
  /\ IF Upload THEN UploadInv ELSE DownloadInv
=============================================================================
