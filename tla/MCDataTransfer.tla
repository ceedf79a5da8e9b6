--------------------------- MODULE MCDataTransfer ---------------------------
(***************************************************************************)
(* DataTransfer with the values TLC gives its constants.                   *)
(***************************************************************************)
EXTENDS DataTransfer

AllKinds == {"GET", "PUT", "LS"}
UploadsOnly == {"PUT"}
=============================================================================
