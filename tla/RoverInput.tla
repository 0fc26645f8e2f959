---------------------------- MODULE RoverInput ------------------------------
(***************************************************************************)
(* What a rover tells the caster: _rover_read_loop takes NMEA sentences    *)
(* one by one, keeps the last of each kind, assembles the GSV sentences of *)
(* one epoch, and writes positions, precision and sky view to the shadow   *)
(* of the device.  With Redis an upsert is a get, a merge, a set that drops *)
(* the key's TTL, an expire and, for a position, a row of history; in      *)
(* memory it is one step.  Every session of a user writes to one shadow.   *)
(*                                                                         *)
(* A sentence is a position in its session's script; what it says is not   *)
(* told apart.  A sentence with a wrong checksum is as good as lost.       *)
(***************************************************************************)
EXTENDS Integers, Sequences, FiniteSets, SequencesExt

CONSTANTS
    Session,
    Device,
    DeviceOf,    \* session.username, or the session itself
    Scripts,     \* what a session may send: sequences of sentences
    MaxHistory,  \* rows a device keeps in memory
    MaxTime      \* bound: milliseconds told apart

\* A GSV sentence is the num-th of total; the others have total 1.
Sentence == [kind : {"GGA", "GSA", "GSV", "other"}, total : Nat \ {0}, num : Nat \ {0}]

ASSUME InputAssumption ==
    /\ DeviceOf \in [Session -> Device]
    /\ Scripts \subseteq Seq(Sentence)
    /\ MaxHistory \in Nat \ {0} /\ MaxTime \in Nat

VARIABLES
    redis,       \* the shadow store has a Redis url; otherwise "memory"
    now,
    script,      \* what each session sends
    pos,         \* sentences it has sent
    heard,       \* those that parsed
    pending,     \* session._gsv_pending_sats: the sentences they came from
    total,       \* session._gsv_pending_total
    sky,         \* the sentences behind session.last_gsv_snr_mean
    step,        \* the read loop: "read", "get", "set", "expire", "xadd", "ended"
    up,          \* the upsert under way
    doc,         \* the shadow of a device: field |-> sentence that set it
    timed,       \* devices whose key has a TTL
    rows,        \* history of a device
    newest,      \* the last sentence given to upsert for each field
    torn,        \* devices with an upsert that failed, was cut off, or began before the set of another
    unrecorded   \* devices whose newest position will have no row

vars == <<redis, now, script, pos, heard, pending, total, sky, step, up,
          doc, timed, rows, newest, torn, unrecorded>>

inputVars == <<script, pos, heard, pending, total, sky>>
storeVars == <<doc, timed, rows>>

NoFields == [f \in {} |-> 0]
Field == [GGA |-> "pos", GSA |-> "dop", GSV |-> "sky"]
Stamp == [from : Session, line : Nat]
Idle == [field |-> "none"]
UpsertSteps == {"get", "set", "expire", "xadd"}

IsDoc(x) == DOMAIN x \subseteq {"pos", "dop", "sky"} /\ \A f \in DOMAIN x : x[f] \in Stamp

TypeOK ==
    /\ redis \in BOOLEAN /\ now \in 0..MaxTime
    /\ \A s \in Session :
          /\ script[s] \in Scripts
          /\ pos[s] \in 0..Len(script[s]) /\ heard[s] \subseteq 1..pos[s]
          /\ pending[s] \in Seq(heard[s]) /\ sky[s] \in Seq(heard[s])
          /\ total[s] \in Nat
          /\ step[s] \in {"read", "ended"} \cup UpsertSteps
          /\ step[s] \in UpsertSteps => /\ redis
                                        /\ up[s].stamp \in Stamp /\ up[s].ts \in 0..now
                                        /\ IsDoc(up[s].cur)
    /\ \A d \in Device : /\ IsDoc(doc[d]) /\ IsDoc(newest[d])
                         /\ \A i \in 1..Len(rows[d]) : rows[d][i].stamp \in Stamp
                         /\ ~redis => Len(rows[d]) <= MaxHistory
    /\ timed \subseteq Device /\ torn \subseteq Device /\ unrecorded \subseteq Device

Init ==
    /\ redis \in BOOLEAN /\ now = 0
    /\ script \in [Session -> Scripts]
    /\ pos = [s \in Session |-> 0]
    /\ heard = [s \in Session |-> {}]
    /\ pending = [s \in Session |-> <<>>]
    /\ total = [s \in Session |-> 0]
    /\ sky = [s \in Session |-> <<>>]
    /\ step = [s \in Session |-> "read"]
    /\ up = [s \in Session |-> Idle]
    /\ doc = [d \in Device |-> NoFields]
    /\ timed = {}
    /\ rows = [d \in Device |-> <<>>]
    /\ newest = [d \in Device |-> NoFields]
    /\ torn = {} /\ unrecorded = {}

-----------------------------------------------------------------------------
(* The shadow store *)

Put(fields, f, v) == [g \in DOMAIN fields \cup {f} |-> IF g = f THEN v ELSE fields[g]]

\* The document that was read, with the fields of this sentence on top.
Merged(cur, f, v) == Put(cur, f, v)

Upserting(d) == {s \in Session : DeviceOf[s] = d /\ step[s] \in UpsertSteps}
BeforeSet(d) == {s \in Upserting(d) : step[s] \in {"get", "set"}}

Row(v, ts) == [stamp |-> v, ts |-> ts]
Newest_Untrimmed(h) == h
Newest(h) == IF Len(h) > MaxHistory THEN Tail(h) ELSE h

\* A new position is going to have a row.
Unrecorded(d, f) == IF f = "pos" THEN unrecorded \ {d} ELSE unrecorded

UpsertInMemory(s, f, v) ==
    LET d == DeviceOf[s]
    IN  /\ ~redis
        /\ doc' = [doc EXCEPT ![d] = Merged(@, f, v)]
        /\ rows' = IF f = "pos" THEN [rows EXCEPT ![d] = Newest(Append(@, Row(v, now)))]
                   ELSE rows
        /\ newest' = [newest EXCEPT ![d] = Put(@, f, v)]
        /\ unrecorded' = Unrecorded(d, f)
        /\ UNCHANGED <<timed, step, up, torn>>

\* ts_ms is taken first; the get is under way.
UpsertBegins(s, f, v) ==
    LET d == DeviceOf[s]
    IN  /\ redis
        /\ step' = [step EXCEPT ![s] = "get"]
        /\ up' = [up EXCEPT ![s] = [field |-> f, stamp |-> v, ts |-> now, cur |-> NoFields]]
        /\ newest' = [newest EXCEPT ![d] = Put(@, f, v)]
        /\ unrecorded' = Unrecorded(d, f)
        /\ torn' = IF BeforeSet(d) # {} THEN torn \cup {d} ELSE torn
        /\ UNCHANGED storeVars

\* The loop goes on; after a position, a geofence in block mode ends it.
UpsertEnds(s, blocked) ==
    /\ blocked => up[s].field = "pos"
    /\ step' = [step EXCEPT ![s] = IF blocked THEN "ended" ELSE "read"]
    /\ up' = [up EXCEPT ![s] = Idle]

ShadowGet(s) ==
    /\ step[s] = "get"
    /\ up' = [up EXCEPT ![s].cur = Merged(doc[DeviceOf[s]], up[s].field, up[s].stamp)]
    /\ step' = [step EXCEPT ![s] = "set"]
    /\ UNCHANGED <<redis, now, inputVars, storeVars, newest, torn, unrecorded>>

ShadowSet(s) ==
    /\ step[s] = "set"
    /\ doc' = [doc EXCEPT ![DeviceOf[s]] = up[s].cur]
    /\ timed' = timed \ {DeviceOf[s]}
    /\ step' = [step EXCEPT ![s] = "expire"]
    /\ UNCHANGED <<redis, now, inputVars, rows, up, newest, torn, unrecorded>>

Timed_OnlyNew(d) == IF rows[d] = <<>> THEN timed \cup {d} ELSE timed
Timed(d) == timed \cup {d}

ShadowExpire(s, blocked) ==
    /\ step[s] = "expire"
    /\ timed' = Timed(DeviceOf[s])
    /\ IF up[s].field = "pos"
       THEN ~blocked /\ step' = [step EXCEPT ![s] = "xadd"] /\ UNCHANGED up
       ELSE UpsertEnds(s, blocked)
    /\ UNCHANGED <<redis, now, inputVars, doc, rows, newest, torn, unrecorded>>

\* The upsert under way is of the newest position; it ends without a row.
NewestPosition(s) ==
    LET d == DeviceOf[s]
    IN  up[s].field = "pos" /\ "pos" \in DOMAIN newest[d] /\ up[s].stamp = newest[d].pos
Missed(s) == IF NewestPosition(s) THEN unrecorded \cup {DeviceOf[s]} ELSE unrecorded

\* The id of the row is the time taken first, not that of the XADD.
RowTime_AtAdd(s) == now
RowTime(s) == up[s].ts

\* Redis refuses an id that is not above the last one, and that is swallowed.
Accepts(h, ts) == h = <<>> \/ Last(h).ts < ts
SameTime(h, ts) == h # <<>> /\ Last(h).ts = ts

ShadowXadd(s, blocked) ==
    LET d == DeviceOf[s]
    IN  /\ step[s] = "xadd"
        /\ rows' = IF Accepts(rows[d], RowTime(s))
                   THEN [rows EXCEPT ![d] = Append(@, Row(up[s].stamp, RowTime(s)))] ELSE rows
        /\ unrecorded' = IF SameTime(rows[d], up[s].ts) THEN Missed(s) ELSE unrecorded
        /\ UpsertEnds(s, blocked)
        /\ UNCHANGED <<redis, now, inputVars, doc, timed, newest, torn>>

\* An exception of Redis ends the upsert and is swallowed by the read loop.
RedisFails(s, blocked) ==
    /\ step[s] \in UpsertSteps
    /\ torn' = IF step[s] = "xadd" THEN torn ELSE torn \cup {DeviceOf[s]}
    /\ unrecorded' = Missed(s)
    /\ UpsertEnds(s, blocked)
    /\ UNCHANGED <<redis, now, inputVars, storeVars, newest>>

\* A day without an update.
KeyExpires(d) ==
    /\ d \in timed /\ Upserting(d) = {}
    /\ doc' = [doc EXCEPT ![d] = NoFields]
    /\ newest' = [newest EXCEPT ![d] = NoFields]
    /\ timed' = timed \ {d}
    /\ UNCHANGED <<redis, now, inputVars, step, up, rows, torn, unrecorded>>

-----------------------------------------------------------------------------
(* The read loop *)

Given(s) == script[s][pos[s] + 1]
ThisLine(s) == [from |-> s, line |-> pos[s] + 1]
Sending(s) == step[s] = "read" /\ pos[s] < Len(script[s])

Upsert(s, f) ==
    UpsertInMemory(s, f, ThisLine(s)) \/ UpsertBegins(s, f, ThisLine(s))
NoUpsert == UNCHANGED <<storeVars, step, up, newest, torn, unrecorded>>

\* A sentence that is lost or does not parse, and one that goes no further than
\* the session (RMC, VTG, ZDA).
SkipLine(s) ==
    /\ Sending(s)
    /\ pos' = [pos EXCEPT ![s] = @ + 1]
    /\ heard' = [heard EXCEPT ![s] = IF Given(s).kind = "other" THEN @ \cup {pos[s] + 1} ELSE @]
    /\ UNCHANGED <<redis, now, script, pending, total, sky>>
    /\ NoUpsert

\* GGA and GSA.  In memory nothing separates the upsert from the geofence.
HearReport(s) ==
    /\ Sending(s) /\ Given(s).kind \in {"GGA", "GSA"}
    /\ pos' = [pos EXCEPT ![s] = @ + 1]
    /\ heard' = [heard EXCEPT ![s] = @ \cup {pos[s] + 1}]
    /\ Upsert(s, Field[Given(s).kind])
    /\ UNCHANGED <<redis, now, script, pending, total, sky>>

\* The first sentence, or a new total, begins a group; the last one publishes
\* what was gathered.  Nothing checks that the numbers follow each other.
Begins_ByTotal(s, g) == total[s] # g.total
Begins(s, g) == g.num = 1 \/ total[s] # g.total

HearSky(s) ==
    LET g == Given(s)
        gathered == Append(IF Begins(s, g) THEN <<>> ELSE pending[s], pos[s] + 1)
    IN  /\ Sending(s) /\ g.kind = "GSV"
        /\ pos' = [pos EXCEPT ![s] = @ + 1]
        /\ heard' = [heard EXCEPT ![s] = @ \cup {pos[s] + 1}]
        /\ total' = [total EXCEPT ![s] = g.total]
        /\ pending' = [pending EXCEPT ![s] = gathered]
        /\ IF g.num = g.total
           THEN sky' = [sky EXCEPT ![s] = gathered] /\ Upsert(s, "sky")
           ELSE UNCHANGED sky /\ NoUpsert
        /\ UNCHANGED <<redis, now, script>>

\* The rover hangs up, a geofence blocks it, or its handler cancels the task
\* wherever it waits.  A command Redis has not answered may have been executed:
\* that is the step before.
ReadLoopEnds(s) ==
    /\ step[s] # "ended"
    /\ torn' = IF step[s] \in {"get", "set", "expire"} THEN torn \cup {DeviceOf[s]} ELSE torn
    /\ unrecorded' = Missed(s)
    /\ step' = [step EXCEPT ![s] = "ended"]
    /\ up' = [up EXCEPT ![s] = Idle]
    /\ UNCHANGED <<redis, now, inputVars, storeVars, newest>>

Tick ==
    /\ now < MaxTime
    /\ now' = now + 1
    /\ UNCHANGED <<redis, inputVars, step, up, storeVars, newest, torn, unrecorded>>

Next ==
    \/ Tick
    \/ \E d \in Device : KeyExpires(d)
    \/ \E s \in Session :
          \/ SkipLine(s) \/ HearReport(s) \/ HearSky(s) \/ ReadLoopEnds(s)
          \/ ShadowGet(s) \/ ShadowSet(s)
          \/ \E blocked \in BOOLEAN : \/ ShadowExpire(s, blocked) \/ ShadowXadd(s, blocked)
                                      \/ RedisFails(s, blocked)

Spec == Init /\ [][Next]_vars

-----------------------------------------------------------------------------
(* Properties *)

\* Between upserts a device's shadow holds the last thing said of every field,
\* whichever session said it.  Only an upsert that failed, was interrupted or
\* began before the set of another may lose a field (docs/PROMO_TR.md:18) or leave
\* the key in Redis without the TTL that every set drops.
ShadowSettled ==
    \A d \in Device \ torn : Upserting(d) = {} =>
        /\ doc[d] = newest[d]
        /\ redis /\ DOMAIN doc[d] # {} => d \in timed

\* Between upserts a device's history ends with the position its shadow holds,
\* although the rows of its sessions overtake each other: the late one is refused.
\* Only a newest position whose upsert failed or was interrupted, or which shares
\* its millisecond with a row, is missing.
HistoryFollows ==
    \A d \in Device \ (torn \cup unrecorded) :
        Upserting(d) = {} /\ "pos" \in DOMAIN doc[d] =>
            rows[d] # <<>> /\ Last(rows[d]).stamp = doc[d].pos

\* A sky view whose sentences were sent in order and all arrived is computed from
\* exactly them, even after a group that lost some of its own.
GroupOf(s, last) == (last - script[s][last].total + 1)..last
SentInOrder(s, last) ==
    LET n == script[s][last].total
    IN  \A i \in 1..n : script[s][last - n + i] = [kind |-> "GSV", total |-> n, num |-> i]
SkyExact ==
    \A s \in Session : sky[s] # <<>> =>
        LET last == Last(sky[s])
        IN  GroupOf(s, last) \subseteq heard[s] /\ SentInOrder(s, last) =>
                sky[s] = [i \in 1..script[s][last].total |-> last - script[s][last].total + i]

=============================================================================
