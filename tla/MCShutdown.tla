---------------------------- MODULE MCShutdown ------------------------------
(* A source and a rover of one mountpoint, and one whose clients are gone. *)
EXTENDS Shutdown

CONSTANTS base, near, busy, quiet

MCAt == [c \in Client |-> busy]
=============================================================================
