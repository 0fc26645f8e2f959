-------------------------- MODULE MCCasterSessions --------------------------
(* CasterSessions with three connections from two clients, two mountpoints   *)
(* and a reload that lowers the limits and disables a mountpoint.           *)
EXTENDS CasterSessions, TLC

CONSTANTS c1, c2, c3, a1, a2, ip1, ip2, mp1, mp2

\* c1 and c2 come from the same address, one after the other.
MCAddrOf == (c1 :> a1) @@ (c2 :> a1) @@ (c3 :> a2)
MCIpOf == (a1 :> ip1) @@ (a2 :> ip2)

Wide   == [ maxRovers |-> 2, maxPerIp |-> 2, maxSources |-> 1,
            disabled |-> {}, mountpoints |-> {} ]
Narrow == [ maxRovers |-> 2, maxPerIp |-> 1, maxSources |-> 0,
            disabled |-> {mp1}, mountpoints |-> {mp1} ]
MCConfigs == {Wide, Narrow}
=============================================================================
