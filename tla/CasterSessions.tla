--------------------------- MODULE CasterSessions ---------------------------
(***************************************************************************)
(* The connection life cycle of NtripCaster: sources that claim a          *)
(* mountpoint, rovers admitted under the connection limits, and the ways   *)
(* either one leaves.                                                      *)
(*                                                                         *)
(* One action is one stretch of a handler between two points where asyncio *)
(* can switch tasks.  Every section under hub._lock is free of awaits, so  *)
(* the lock is never contended and `async with hub._lock` does not         *)
(* suspend: limit check, add_rover and the counters are one step, and so   *)
(* are the source limit check and attach_source.  The one suspension       *)
(* inside admission is the drain of the ICY answer when its write failed:  *)
(* StreamWriter.drain then yields once and raises.                         *)
(***************************************************************************)
EXTENDS Integers, FiniteSets

CONSTANTS
    Conn,        \* TCP connections, each made once
    Addr,        \* peer addresses "ip:port"; a closed connection frees its own
    Ip,          \* client IPs
    AddrOf,      \* address of a connection
    IpOf,        \* the part of an address before the ":"
    Mountpoint,
    Configs,     \* configurations a hot reload can bring into force
    None

ConfigType == [ maxRovers : Nat, maxPerIp : Nat, maxSources : Nat,
                disabled : SUBSET Mountpoint, mountpoints : SUBSET Mountpoint ]

ASSUME ConnAssumption == IsFiniteSet(Conn) /\ None \notin Conn
ASSUME AddrAssumption == /\ AddrOf \in [Conn -> Addr]
                         /\ IpOf \in [Addr -> Ip]
                         /\ None \notin Addr
ASSUME MountpointAssumption == IsFiniteSet(Mountpoint) /\ None \notin Mountpoint
ASSUME ConfigAssumption == Configs \subseteq ConfigType

VARIABLES
    cfg,            \* self.cfg and _disabled_mountpoints, as far as admission reads them
    sourceAddr,     \* hub._source_addr
    rovers,         \* hub._rovers: a session is named by its connection
    roverTotal,     \* _rover_total
    roverIpCounts,  \* _rover_ip_counts, 0 for a missing key
    pc,             \* where the handler of a connection stands
    at,             \* the mountpoint a connection was accepted for
    queueClosed,    \* rovers whose ByteQueue is closed
    writerClosing,  \* rovers whose writer is closing
    readEnded,      \* rovers whose read loop has returned or raised
    sendEnded       \* rovers whose send loop has returned or raised

vars == <<cfg, sourceAddr, rovers, roverTotal, roverIpCounts, pc, at,
          queueClosed, writerClosing, readEnded, sendEnded>>

hubVars  == <<sourceAddr, rovers>>
countVars == <<roverTotal, roverIpCounts>>
taskVars == <<queueClosed, writerClosing, readEnded, sendEnded>>

(***************************************************************************)
(* "sourceIcy" and "roverIcy": accepted, the write of ICY 200 OK failed,   *)
(* the handler is suspended in drain().  "aborted": the handler was left   *)
(* by that exception.                                                      *)
(***************************************************************************)
SourceStates == {"source", "sourceIcy"}
RoverStates  == {"rover", "roverIcy"}
Open(c)      == pc[c] \in SourceStates \cup RoverStates

TypeOK ==
    /\ cfg \in Configs
    /\ sourceAddr \in [Mountpoint -> Addr \cup {None}]
    /\ rovers \in [Mountpoint -> SUBSET Conn]
    /\ roverTotal \in Nat
    /\ roverIpCounts \in [Ip -> Nat]
    /\ pc \in [Conn -> {"absent", "closed", "aborted"} \cup SourceStates \cup RoverStates]
    /\ at \in [Conn -> Mountpoint \cup {None}]
    /\ queueClosed \subseteq Conn
    /\ writerClosing \subseteq Conn
    /\ readEnded \subseteq Conn
    /\ sendEnded \subseteq Conn

Init ==
    /\ cfg \in Configs
    /\ sourceAddr = [mp \in Mountpoint |-> None]
    /\ rovers = [mp \in Mountpoint |-> {}]
    /\ roverTotal = 0
    /\ roverIpCounts = [ip \in Ip |-> 0]
    /\ pc = [c \in Conn |-> "absent"]
    /\ at = [c \in Conn |-> None]
    /\ queueClosed = {}
    /\ writerClosing = {}
    /\ readEnded = {}
    /\ sendEnded = {}

-----------------------------------------------------------------------------
(* Requests *)

\* A limit of 0 is no limit.
Reached_OffByOne(n, max) == max > 0 /\ n > max
Reached(n, max) == max > 0 /\ n >= max

ClientIp(c) == IpOf[AddrOf[c]]

\* A new connection: its address is not that of a connection still open.
Fresh(c) ==
    /\ pc[c] = "absent"
    /\ \A d \in Conn : Open(d) => AddrOf[d] # AddrOf[c]

\* The first line is missing, unknown or a sourcetable request, the password or
\* the user is wrong, the address is denied: answered and closed, nothing kept.
Refuse(c) ==
    /\ Fresh(c)
    /\ pc' = [pc EXCEPT ![c] = "closed"]
    /\ UNCHANGED <<cfg, hubVars, countVars, at, taskVars>>

MountpointKnown(mp) == cfg.mountpoints = {} \/ mp \in cfg.mountpoints

Active == {mp \in Mountpoint : sourceAddr[mp] # None}

TooManySources(mp) ==
    sourceAddr[mp] = None /\ Reached(Cardinality(Active), cfg.maxSources)

\* attach_source re-accepts the address that holds the mountpoint.
Busy_NotChecked(c, mp) == FALSE
Busy(c, mp) == sourceAddr[mp] \notin {None, AddrOf[c]}

SourceRefused(c, mp) ==
    /\ Fresh(c)
    /\ ~MountpointKnown(mp) \/ TooManySources(mp) \/ Busy(c, mp)
    /\ pc' = [pc EXCEPT ![c] = "closed"]
    /\ UNCHANGED <<cfg, hubVars, countVars, at, taskVars>>

SourceAccepted(c, mp, icy) ==
    /\ Fresh(c)
    /\ MountpointKnown(mp) /\ ~TooManySources(mp) /\ ~Busy(c, mp)
    /\ sourceAddr' = [sourceAddr EXCEPT ![mp] = AddrOf[c]]
    /\ pc' = [pc EXCEPT ![c] = icy]
    /\ at' = [at EXCEPT ![c] = mp]
    /\ UNCHANGED <<cfg, rovers, countVars, taskVars>>

RoverLimitReached(c) ==
    \/ Reached(roverTotal, cfg.maxRovers)
    \/ Reached(roverIpCounts[ClientIp(c)], cfg.maxPerIp)

RoverRefused(c, mp) ==
    /\ Fresh(c)
    /\ mp \in cfg.disabled \/ RoverLimitReached(c)
    /\ pc' = [pc EXCEPT ![c] = "closed"]
    /\ UNCHANGED <<cfg, hubVars, countVars, at, taskVars>>

\* No source need be attached for a rover to be accepted.
RoverAccepted(c, mp, icy) ==
    /\ Fresh(c)
    /\ mp \notin cfg.disabled /\ ~RoverLimitReached(c)
    /\ rovers' = [rovers EXCEPT ![mp] = @ \cup {c}]
    /\ roverTotal' = roverTotal + 1
    /\ roverIpCounts' = [roverIpCounts EXCEPT ![ClientIp(c)] = @ + 1]
    /\ pc' = [pc EXCEPT ![c] = icy]
    /\ at' = [at EXCEPT ![c] = mp]
    /\ UNCHANGED <<cfg, sourceAddr, taskVars>>

\* drain() of the ICY answer raises: it stands outside every try of the two
\* handlers, so only _handle_conn's own except and finally run.
IcyRaises(c) ==
    /\ pc[c] \in {"sourceIcy", "roverIcy"}
    /\ pc' = [pc EXCEPT ![c] = "aborted"]
    /\ UNCHANGED <<cfg, hubVars, countVars, at, taskVars>>

-----------------------------------------------------------------------------
(* Sources *)

\* The read loop of a source ends (EOF, idle timeout, reset) and its finally
\* detaches: whatever the slot holds is cleared, and every session in the hub
\* at that moment is closed.  The sessions leave the hub in their own handlers.
SourceEnds_LeavesRovers(c) ==
    /\ pc[c] = "source"
    /\ sourceAddr' = [sourceAddr EXCEPT ![at[c]] = None]
    /\ pc' = [pc EXCEPT ![c] = "closed"]
    /\ UNCHANGED <<cfg, rovers, countVars, at, taskVars>>

SourceEnds_KeepsSlot(c) ==
    /\ pc[c] = "source"
    /\ queueClosed' = queueClosed \cup rovers[at[c]]
    /\ writerClosing' = writerClosing \cup rovers[at[c]]
    /\ pc' = [pc EXCEPT ![c] = "closed"]
    /\ UNCHANGED <<cfg, hubVars, countVars, at, readEnded, sendEnded>>

SourceEnds(c) ==
    /\ pc[c] = "source"
    /\ sourceAddr' = [sourceAddr EXCEPT ![at[c]] = None]
    /\ queueClosed' = queueClosed \cup rovers[at[c]]
    /\ writerClosing' = writerClosing \cup rovers[at[c]]
    /\ pc' = [pc EXCEPT ![c] = "closed"]
    /\ UNCHANGED <<cfg, rovers, countVars, at, readEnded, sendEnded>>

-----------------------------------------------------------------------------
(* Rovers *)

\* An administrator closes a session: only its queue and writer are touched.
Kick(c, mp) ==
    /\ c \in rovers[mp]
    /\ queueClosed' = queueClosed \cup {c}
    /\ writerClosing' = writerClosing \cup {c}
    /\ UNCHANGED <<cfg, hubVars, countVars, pc, at, readEnded, sendEnded>>

\* EOF, 60 s without a line, an overlong line or an exception end the read
\* loop; a geofence in block mode also closes the writer.
ReadLoopEnds(c, blocked) ==
    /\ pc[c] = "rover" /\ c \notin readEnded
    /\ readEnded' = readEnded \cup {c}
    /\ writerClosing' = IF blocked THEN writerClosing \cup {c} ELSE writerClosing
    /\ UNCHANGED <<cfg, hubVars, countVars, pc, at, queueClosed, sendEnded>>

\* get() returned None from a closed and drained queue, or a write failed.
SendLoopEnds(c, failed) ==
    /\ pc[c] = "rover" /\ c \notin sendEnded
    /\ failed \/ c \in queueClosed
    /\ sendEnded' = sendEnded \cup {c}
    /\ writerClosing' = IF failed THEN writerClosing \cup {c} ELSE writerClosing
    /\ UNCHANGED <<cfg, hubVars, countVars, pc, at, queueClosed, readEnded>>

\* asyncio.wait(..., FIRST_COMPLETED) returned: the rest of _handle_http, and
\* the finally of _handle_conn.
LoopEnded_Both(c) == c \in readEnded /\ c \in sendEnded
LoopEnded(c) == c \in readEnded \/ c \in sendEnded

Pred_Forgotten(n) == n
Pred_Twice(n) == n - 2
Pred(n) == IF n > 0 THEN n - 1 ELSE 0

\* The session's queue, writer and tasks are dropped with it.
RoverLeaves(c) ==
    /\ pc[c] = "rover" /\ LoopEnded(c)
    /\ queueClosed' = queueClosed \ {c}
    /\ writerClosing' = writerClosing \ {c}
    /\ readEnded' = readEnded \ {c}
    /\ sendEnded' = sendEnded \ {c}
    /\ rovers' = [rovers EXCEPT ![at[c]] = @ \ {c}]
    /\ roverTotal' = Pred(roverTotal)
    /\ roverIpCounts' = [roverIpCounts EXCEPT ![ClientIp(c)] = Pred(@)]
    /\ pc' = [pc EXCEPT ![c] = "closed"]
    /\ UNCHANGED <<cfg, sourceAddr, at>>

-----------------------------------------------------------------------------
\* reload_from_disk: the next admission reads the new limits; what is already
\* connected stays.
Reload(new) ==
    /\ new # cfg
    /\ cfg' = new
    /\ UNCHANGED <<hubVars, countVars, pc, at, taskVars>>

SourceStep(c) ==
    \/ \E mp \in Mountpoint : SourceRefused(c, mp)
    \/ \E mp \in Mountpoint, icy \in SourceStates : SourceAccepted(c, mp, icy)
    \/ SourceEnds(c)

RoverStep(c) ==
    \/ \E mp \in Mountpoint : RoverRefused(c, mp)
    \/ \E mp \in Mountpoint, icy \in RoverStates : RoverAccepted(c, mp, icy)
    \/ \E mp \in Mountpoint : Kick(c, mp)
    \/ \E blocked \in BOOLEAN : ReadLoopEnds(c, blocked)
    \/ \E failed \in BOOLEAN : SendLoopEnds(c, failed)
    \/ RoverLeaves(c)

Next ==
    \/ \E c \in Conn : Refuse(c) \/ SourceStep(c) \/ RoverStep(c) \/ IcyRaises(c)
    \/ \E new \in Configs : Reload(new)

(***************************************************************************)
(* The event loop runs every ready task: a suspended drain resumes, a      *)
(* finished wait is followed up, and a closing writer ends the read loop   *)
(* (EOF, or the 60 s of read_line).  Nothing makes a peer close, a source  *)
(* stop or a send loop that waits for its token bucket return.             *)
(***************************************************************************)
ReadLoopSeesClose(c) == c \in writerClosing /\ ReadLoopEnds(c, FALSE)

Fairness == \A c \in Conn : /\ WF_vars(IcyRaises(c))
                            /\ WF_vars(ReadLoopSeesClose(c))
                            /\ WF_vars(RoverLeaves(c))

Spec == Init /\ [][Next]_vars /\ Fairness

-----------------------------------------------------------------------------
(* Properties *)

Attached == {c \in Conn : \E mp \in Mountpoint : c \in rovers[mp]}
AttachedFrom(ip) == {c \in Attached : ClientIp(c) = ip}

\* The two admission counters agree with the hubs at every await: what the
\* limits compare is what is attached (_rover_total, _rover_ip_counts against
\* hub._rovers), although they are raised and lowered in different places.
CountersAgree ==
    /\ roverTotal = Cardinality(Attached)
    /\ \A ip \in Ip : roverIpCounts[ip] = Cardinality(AttachedFrom(ip))

\* Only the exception of the ICY answer can leave a session or a slot behind:
\* every attached session has a handler that will remove it or was aborted, and
\* every taken slot a connection that will free it or was aborted.
OnlyAbortsLeak ==
    /\ \A mp \in Mountpoint : \A c \in rovers[mp] :
          at[c] = mp /\ pc[c] \in RoverStates \cup {"aborted"}
    /\ \A mp \in Mountpoint : sourceAddr[mp] # None =>
          \E c \in Conn : /\ at[c] = mp /\ AddrOf[c] = sourceAddr[mp]
                          /\ pc[c] \in SourceStates \cup {"aborted"}

\* Everything the handlers still serve is known to the hub: a live source holds
\* its mountpoint's slot although any detach clears it unconditionally, and a
\* live rover is in its hub.
LiveAreAttached ==
    \A c \in Conn :
        /\ Open(c) => at[c] \in Mountpoint
        /\ pc[c] \in SourceStates => sourceAddr[at[c]] = AddrOf[c]
        /\ pc[c] \in RoverStates => c \in rovers[at[c]]

\* No admission takes a count over the limit in force, whatever reloads,
\* departures and leaks came before.
Raised(S) == Cardinality(S') > Cardinality(S)
LimitsRespected ==
    [][ /\ Raised(Attached) /\ cfg.maxRovers > 0 => Cardinality(Attached') <= cfg.maxRovers
        /\ \A ip \in Ip :
              Raised(AttachedFrom(ip)) /\ cfg.maxPerIp > 0 =>
                  Cardinality(AttachedFrom(ip)') <= cfg.maxPerIp
        /\ Raised(Active) /\ cfg.maxSources > 0 => Cardinality(Active') <= cfg.maxSources ]_vars

\* When a mountpoint loses its source, every rover attached at that moment has
\* its queue closed and its connection closing (docs/ARCHITECTURE.md:94).
DetachClosesRovers ==
    [][ \A mp \in Mountpoint :
          sourceAddr[mp] # None /\ sourceAddr'[mp] = None =>
              rovers[mp] \subseteq queueClosed' \cap writerClosing' ]_vars

\* A rover that was kicked, detached, blocked, failed a write or hung up leaves
\* the hub and gives its place back, whichever of its two loops notices first.
EndedRoversLeave ==
    \A c \in Conn :
        (pc[c] = "rover" /\ (c \in writerClosing \/ LoopEnded(c))) ~> (pc[c] = "closed")

\* One live uplink per mountpoint, passed on only through being free: the slot
\* of a mountpoint is the live source connection there.
Feeds(c, mp, p, a) == p[c] \in SourceStates /\ a[c] = mp
OwnerOf(p, a) ==
    [mp \in Mountpoint |-> IF \E c \in Conn : Feeds(c, mp, p, a)
                           THEN CHOOSE c \in Conn : Feeds(c, mp, p, a) ELSE None]
Slot == INSTANCE SourceSlot WITH owner <- OwnerOf(pc, at)
OneSourcePerMountpoint == Slot!Spec

\* What the limits count and what makes a mountpoint busy is there: an attached
\* session is an open connection, and a taken mountpoint has a source that feeds
\* it, so a source that lost its connection can come back (docs/PROTOCOL.md:57).
\* The ICY exception breaks both.
NoGhosts ==
    /\ \A c \in Attached : Open(c)
    /\ \A mp \in Active : \E c \in Conn : Feeds(c, mp, pc, at)
=============================================================================
