---------------------------- MODULE FtpDialogue ----------------------------
(***************************************************************************)
(* What a session promises: a half-duplex dialogue.  While a link is up    *)
(* the client speaks only when no reply is owed to it; a reply may announce *)
(* one more (the 150 of a transfer), and the end of the link cancels what  *)
(* is owed.                                                                *)
(***************************************************************************)
EXTENDS Naturals

VARIABLES link, owed

Init == link = FALSE /\ owed = 0

\* A new link: the server owes its greeting.
Open == ~link /\ link' = TRUE /\ owed' = 1

Request == link /\ owed = 0 /\ owed' = 1 /\ link' = link

Announce == link /\ owed = 1 /\ owed' = 2 /\ link' = link

\* Replies are read, one or several at once, or will never come.
Settle == link /\ owed > 0 /\ owed' \in 0..owed - 1 /\ link' = link

Close == link /\ link' = FALSE /\ owed' = 0

Next == Open \/ Request \/ Announce \/ Settle \/ Close

Spec == Init /\ [][Next]_<<link, owed>>
=============================================================================
