---------------------------- MODULE MCByteQueue -----------------------------
(* ByteQueue with a short and a long chunk: the queue fits three short ones. *)
EXTENDS ByteQueue, TLC

CONSTANTS short, long

MCSize == (short :> 1) @@ (long :> 2)
=============================================================================
