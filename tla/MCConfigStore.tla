--------------------------- MODULE MCConfigStore ----------------------------
(* One user who may move between two tiers, one mountpoint, one geofence and *)
(* an editor of geofences.  What is saved from outside is a good file, one   *)
(* that names a tier it does not have, one with a security value that does   *)
(* not convert, and half a file.                                             *)
EXTENDS ConfigStore, TLC

CONSTANTS u1, t1, t2, m1, f1, e1

Good == [ users |-> u1 :> t1, tiers |-> (t1 :> Plain) @@ (t2 :> None),
          mountpoints |-> m1 :> Plain, disabled |-> m1 :> None,
          fences |-> f1 :> None, sound |-> TRUE ]

MCStart == {Good}
MCEdits == { [Good EXCEPT !.disabled[m1] = Plain, !.fences[f1] = e1],
             [Good EXCEPT !.users[u1] = t2],
             [Good EXCEPT !.fences[f1] = Plain, !.sound = FALSE],
             Garbage }
=============================================================================
