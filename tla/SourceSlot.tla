----------------------------- MODULE SourceSlot -----------------------------
(***************************************************************************)
(* What the caster promises about the uplink of a mountpoint: it is a slot *)
(* held by at most one connection, a connection holds at most one slot,    *)
(* and a slot passes from one connection to another only through being     *)
(* free (docs/ARCHITECTURE.md:4, README.md:94).                            *)
(***************************************************************************)
CONSTANTS
    Conn,        \* connections
    Mountpoint,  \* mountpoints
    None         \* nobody

VARIABLE owner   \* the connection that feeds each mountpoint, or None

Init == owner = [mp \in Mountpoint |-> None]

Acquire(c, mp) ==
    /\ owner[mp] = None
    /\ \A m \in Mountpoint : owner[m] # c
    /\ owner' = [owner EXCEPT ![mp] = c]

Release(mp) ==
    /\ owner[mp] # None
    /\ owner' = [owner EXCEPT ![mp] = None]

Next == \E mp \in Mountpoint : Release(mp) \/ \E c \in Conn : Acquire(c, mp)

Spec == Init /\ [][Next]_owner
=============================================================================
