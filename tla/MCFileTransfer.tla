--------------------------- MODULE MCFileTransfer ---------------------------
(* FileTransfer on a small file, for TLC.                                  *)
EXTENDS FileTransfer
==============================================================================
