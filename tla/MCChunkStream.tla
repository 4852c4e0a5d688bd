---------------------------- MODULE MCChunkStream ----------------------------
(* ChunkStream on small files, for TLC.                                    *)
EXTENDS ChunkStream
==============================================================================
