----------------------------- MODULE MCByteStream -----------------------------
(* Module ByteStream for TLC: a writer may push any string of up to MaxChunk  *)
(* letters, longer than the capacity included.                                *)
EXTENDS ByteStream, SequencesExt

CONSTANT MaxChunk

MCChunk == BoundedSeq(Byte, MaxChunk)
==============================================================================
