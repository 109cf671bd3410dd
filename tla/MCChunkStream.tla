---------------------------- MODULE MCChunkStream ----------------------------
(* Small instances of ChunkStream: the index byte is scaled from 256 values  *)
(* and a window of 100 to a few values, so that chunks wrap around.          *)
EXTENDS ChunkStream
=============================================================================
