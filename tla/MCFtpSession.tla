--------------------------- MODULE MCFtpSession ---------------------------
(***************************************************************************)
(* FtpSession with the values TLC gives its constants.                     *)
(***************************************************************************)
EXTENDS FtpSession

\* A server that answers in time, on a network that may fail altogether.
TimelyFaults == {"coalesce", "drop", "idle421", "refuse", "local"}

\* Everything but replies in segments; replies in segments and no other shape.
RoughFaults == FaultKinds \ {"split"}
SegmentedFaults == FaultKinds \ {"coalesce", "multiline", "idle421"}

\* One command of every shape, and the ones that wait the longest.
MixedCommands == {"LS", "GET", "PUT", "CD", "LOCAL", "OPEN", "EXIT"}
LiveCommands == {"LS", "GET", "PUT", "OPEN", "EXIT"}

\* The smallest settings in which a disagreement shows.
NoFaults == {}
InterruptOnly == {"sigint"}
IdleOnly == {"idle421"}
LateOnly == {"late"}
TransfersOnly == {"GET"}
OpenAndGet == {"OPEN", "GET"}
=============================================================================
