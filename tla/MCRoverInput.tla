---------------------------- MODULE MCRoverInput ----------------------------
(* Two sessions of one user.  A script reports twice, or shows the sky twice. *)
EXTENDS RoverInput

CONSTANTS old, new, user

Gga == [kind |-> "GGA", total |-> 1, num |-> 1]
Gsa == [kind |-> "GSA", total |-> 1, num |-> 1]
Rmc == [kind |-> "other", total |-> 1, num |-> 1]
Gsv(total_, num_) == [kind |-> "GSV", total |-> total_, num |-> num_]

MCDeviceOf == [s \in Session |-> user]
MCScripts == {<<Gga, Gsa, Gga>>,
              <<Gsv(2, 1), Gsv(2, 2), Gsv(2, 1), Gsv(2, 2), Rmc>>,
              <<Gsv(1, 1), Gsv(2, 1), Gsv(2, 2)>>}
=============================================================================
