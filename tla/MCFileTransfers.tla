--------------------------- MODULE MCFileTransfers --------------------------
(***************************************************************************)
(* Model checking of FileTransfers.                                        *)
(***************************************************************************)
EXTENDS FileTransfersProperties
=============================================================================
