--------------------------- MODULE RoverDelivery ----------------------------
(***************************************************************************)
(* The way of RTCM data from the hub of one mountpoint to its rovers:      *)
(* MountpointHub.on_source_data offers each chunk to every session's queue *)
(* through the epoch gate of its tier, and _rover_send_loop empties the    *)
(* queue through the tier's token bucket.                                  *)
(*                                                                         *)
(* The queue is the channel of ByteChannel, which ByteQueue implements.    *)
(* Time is a tick; the bucket is refilled at each tick, which gives what   *)
(* TokenBucket computes from elapsed time whenever it is asked.            *)
(***************************************************************************)
EXTENDS Integers, Sequences, FiniteSets, SequencesExt

CONSTANTS
    Rover,
    QueueMax,    \* bytes a rover's queue takes
    Period,      \* ticks between epochs of a rover, 0: no gate
    Rate,        \* bytes per tick of a rover, 0: no bucket
    Lens,        \* lengths of the chunks on_source_data is called with
    MaxChunks,   \* bound: chunks of the run
    MaxClock     \* bound: ticks that are told apart

ASSUME TierAssumption ==
    /\ IsFiniteSet(Rover)
    /\ QueueMax \in [Rover -> Nat \ {0}]
    /\ Period \in [Rover -> Nat]
    /\ Rate \in [Rover -> Nat]
    /\ Lens \subseteq Nat \ {0}
    /\ MaxChunks \in Nat /\ MaxClock \in Nat

VARIABLES
    attached,    \* a source is attached to the hub
    chunks,      \* chunks the hub was given so far
    clock,       \* ticks so far, up to MaxClock
    session,     \* "out", "in" hub._rovers, "gone"
    queue,       \* session.queue: its chunks
    closed,      \* session.queue is closed
    age,         \* ticks since ep_last_ts, up to Period
    tokens,      \* bucket.tokens
    loop,        \* where the send loop stands
    hand,        \* the chunk get() returned and the bucket withholds, as a sequence
    wire,        \* what was written to the rover, in order, and when
    sent,        \* session.sent_bytes
    dropped,     \* session.dropped_bytes
    hubTx,       \* hub._tx_bytes_total
    hubDropped   \* hub._dropped_bytes_total

vars == <<attached, chunks, clock, session, queue, closed, age, tokens,
          loop, hand, wire, sent, dropped, hubTx, hubDropped>>

queueVars == <<queue, closed, age>>
loopVars  == <<tokens, loop, hand, wire>>
statVars  == <<sent, dropped, hubTx, hubDropped>>

\* A chunk remembers when the hub was given it.
Chunk == [id : 1..MaxChunks, len : Lens, at : 0..MaxClock]
Written == [id : 1..MaxChunks, len : Lens, at : 0..MaxClock, out : 0..MaxClock]

Bytes(s) == FoldSeq(LAMBDA c, sum : c.len + sum, 0, s)

Least(a, b) == IF a <= b THEN a ELSE b

\* TokenBucket(rate, max(2 * rate, 1)).
Capacity_OneTick(r) == Rate[r]
Capacity(r) == 2 * Rate[r]

TypeOK ==
    /\ attached \in BOOLEAN
    /\ chunks \in 0..MaxChunks
    /\ clock \in 0..MaxClock
    /\ session \in [Rover -> {"out", "in", "gone"}]
    /\ \A r \in Rover : /\ queue[r] \in Seq(Chunk)
                        /\ wire[r] \in Seq(Written)
                        /\ hand[r] \in {<<>>} \cup {<<c>> : c \in Chunk}
                        /\ age[r] \in 0..Period[r]
                        /\ tokens[r] \in 0..Capacity(r)
    /\ closed \in [Rover -> BOOLEAN]
    /\ loop \in [Rover -> {"get", "sleep", "drain", "ended"}]
    /\ sent \in [Rover -> Nat] /\ dropped \in [Rover -> Nat]
    /\ hubTx \in Nat /\ hubDropped \in Nat

Init ==
    /\ attached = FALSE /\ chunks = 0 /\ clock = 0
    /\ session = [r \in Rover |-> "out"]
    /\ queue = [r \in Rover |-> <<>>]
    /\ closed = [r \in Rover |-> FALSE]
    /\ age = [r \in Rover |-> Period[r]]
    /\ tokens = [r \in Rover |-> Capacity(r)]
    /\ loop = [r \in Rover |-> "get"]
    /\ hand = [r \in Rover |-> <<>>]
    /\ wire = [r \in Rover |-> <<>>]
    /\ sent = [r \in Rover |-> 0]
    /\ dropped = [r \in Rover |-> 0]
    /\ hubTx = 0 /\ hubDropped = 0

-----------------------------------------------------------------------------
(* The hub *)

AttachSource ==
    /\ ~attached
    /\ attached' = TRUE
    /\ UNCHANGED <<chunks, clock, session, queueVars, loopVars, statVars>>

DetachSource ==
    /\ attached
    /\ attached' = FALSE
    /\ closed' = [r \in Rover |-> closed[r] \/ session[r] = "in"]
    /\ UNCHANGED <<chunks, clock, session, queue, age, loopVars, statVars>>

\* A session is made with a full bucket and no epoch yet.
AddRover(r) ==
    /\ session[r] = "out"
    /\ session' = [session EXCEPT ![r] = "in"]
    /\ UNCHANGED <<attached, chunks, clock, queueVars, loopVars, statVars>>

GateOpen_Ignored(r) == TRUE
GateOpen(r) == age[r] >= Period[r]

Full(r, c) == closed[r] \/ Bytes(queue[r]) + c.len > QueueMax[r]

Offered(r) == session[r] = "in" /\ GateOpen(r)

\* The hub's own counter moves with the sessions', chunk by chunk.
HubCounts_Once(c, lost) == hubDropped' = hubDropped + (IF lost = {} THEN 0 ELSE c.len)
HubCounts(c, lost) == hubDropped' = hubDropped + Cardinality(lost) * c.len

\* on_source_data: no await between the first rover and the last.  The epoch is
\* spent when the chunk is offered, even if the queue then refuses it.
OnSourceData(len) ==
    /\ attached /\ chunks < MaxChunks
    /\ LET c    == [id |-> chunks + 1, len |-> len, at |-> clock]
           lost == {r \in Rover : Offered(r) /\ Full(r, c)}
       IN  /\ queue' = [r \in Rover |-> IF Offered(r) /\ r \notin lost
                                        THEN Append(queue[r], c) ELSE queue[r]]
           /\ dropped' = [r \in Rover |-> IF r \in lost THEN dropped[r] + len ELSE dropped[r]]
           /\ HubCounts(c, lost)
    /\ age' = [r \in Rover |-> IF Offered(r) THEN 0 ELSE age[r]]
    /\ chunks' = chunks + 1
    /\ UNCHANGED <<attached, clock, session, closed, loopVars, sent, hubTx>>

\* An administrator's kick.
CloseQueue(r) ==
    /\ session[r] = "in" /\ ~closed[r]
    /\ closed' = [closed EXCEPT ![r] = TRUE]
    /\ UNCHANGED <<attached, chunks, clock, session, queue, age, loopVars, statVars>>

-----------------------------------------------------------------------------
(* The send loop of a rover *)

Affords(r, c) == Rate[r] = 0 \/ tokens[r] >= c.len

Spend_Free(r, c) == tokens' = tokens
Spend(r, c) == tokens' = IF Rate[r] = 0 THEN tokens ELSE [tokens EXCEPT ![r] = @ - c.len]

\* consume() said yes: nothing is awaited until the chunk is on the wire.
Write(r, c) ==
    /\ Affords(r, c)
    /\ Spend(r, c)
    /\ wire' = [wire EXCEPT ![r] =
                   Append(@, [id |-> c.id, len |-> c.len, at |-> c.at, out |-> clock])]
    /\ loop' = [loop EXCEPT ![r] = "drain"]

Running(r) == session[r] = "in"

\* popleft()
Remaining_Peeked(q) == q
Remaining(q) == Tail(q)

Take(r) ==
    /\ Running(r) /\ loop[r] = "get" /\ queue[r] # <<>>
    /\ queue' = [queue EXCEPT ![r] = Remaining(@)]
    /\ \/ Write(r, Head(queue[r])) /\ UNCHANGED hand
       \/ /\ ~Affords(r, Head(queue[r]))
          /\ hand' = [hand EXCEPT ![r] = <<Head(queue[r])>>]
          /\ loop' = [loop EXCEPT ![r] = "sleep"]
          /\ UNCHANGED <<tokens, wire>>
    /\ UNCHANGED <<attached, chunks, clock, session, closed, age, statVars>>

\* The sleep of time_to_available is over and consume() now succeeds.
Wakes(r) ==
    /\ Running(r) /\ loop[r] = "sleep"
    /\ Write(r, Head(hand[r]))
    /\ hand' = [hand EXCEPT ![r] = <<>>]
    /\ UNCHANGED <<attached, chunks, clock, session, queueVars, statVars>>

Drained(r) ==
    /\ Running(r) /\ loop[r] = "drain"
    /\ sent' = [sent EXCEPT ![r] = @ + Last(wire[r]).len]
    /\ hubTx' = hubTx + Last(wire[r]).len
    /\ loop' = [loop EXCEPT ![r] = "get"]
    /\ UNCHANGED <<attached, chunks, clock, session, queueVars, tokens, hand, wire,
                   dropped, hubDropped>>

\* drain() raises on a lost or closed connection; get() returns None.
SendLoopEnds(r) ==
    /\ Running(r)
    /\ \/ loop[r] = "drain"
       \/ loop[r] = "get" /\ queue[r] = <<>> /\ closed[r]
    /\ loop' = [loop EXCEPT ![r] = "ended"]
    /\ UNCHANGED <<attached, chunks, clock, session, queueVars, tokens, hand, wire,
                   statVars>>

\* The read loop may end at any time; the send loop is then cancelled wherever
\* it awaits.  The handler closes the queue and takes the session out; what only
\* the session held is forgotten with it.
RemoveRover(r) ==
    /\ Running(r)
    /\ session' = [session EXCEPT ![r] = "gone"]
    /\ closed' = [closed EXCEPT ![r] = TRUE]
    /\ queue' = [queue EXCEPT ![r] = <<>>]
    /\ hand' = [hand EXCEPT ![r] = <<>>]
    /\ wire' = [wire EXCEPT ![r] = <<>>]
    /\ age' = [age EXCEPT ![r] = 0]
    /\ tokens' = [tokens EXCEPT ![r] = 0]
    /\ loop' = [loop EXCEPT ![r] = "ended"]
    /\ UNCHANGED <<attached, chunks, clock, statVars>>

-----------------------------------------------------------------------------
Refill_Uncapped(r) == tokens[r] + Rate[r]
Refill(r) == Least(Capacity(r), tokens[r] + Rate[r])

\* Time reaches what still runs; a bucket that is full and a gate that is open
\* stay so.
Tick ==
    /\ clock' = Least(MaxClock, clock + 1)
    /\ tokens' = [r \in Rover |-> IF Running(r) THEN Refill(r) ELSE tokens[r]]
    /\ age' = [r \in Rover |-> IF Running(r) THEN Least(Period[r], age[r] + 1) ELSE age[r]]
    /\ UNCHANGED <<attached, chunks, session, queue, closed, loop, hand, wire, statVars>>

RoverStep(r) == Take(r) \/ Wakes(r) \/ Drained(r) \/ SendLoopEnds(r)

Next ==
    \/ AttachSource \/ DetachSource
    \/ \E len \in Lens : OnSourceData(len)
    \/ \E r \in Rover : AddRover(r) \/ CloseQueue(r) \/ RoverStep(r) \/ RemoveRover(r)
    \/ Tick

\* Time passes, and a send loop whose sleep is over runs.
Spec == Init /\ [][Next]_vars /\ WF_vars(Tick) /\ \A r \in Rover : WF_vars(Wakes(r))

-----------------------------------------------------------------------------
(* Properties *)

\* What a rover is sent, holds in its bucket and still queues are chunks of the
\* source in the source's order, none twice.
InOrder ==
    \A r \in Rover : LET all == wire[r] \o hand[r] \o queue[r]
                     IN  \A i \in 1..Len(all) - 1 : all[i].id < all[i + 1].id

\* A rover's chunks lie at least an epoch period apart, however late they are
\* sent and whatever was dropped between them.
EpochsApart ==
    \A r \in Rover : LET all == wire[r] \o hand[r] \o queue[r]
                     IN  \A i \in 1..Len(all) - 1 :
                            all[i + 1].at < MaxClock => all[i + 1].at - all[i].at >= Period[r]

\* The tier's rate: between any two writes of a session, in a burst after a
\* pause too, no more is written than a full bucket and what was refilled.
RateBounded ==
    \A r \in Rover : LET w == wire[r]
                     IN  \A j \in 1..Len(w) : \A i \in 1..j :
                            Rate[r] > 0 /\ w[j].out < MaxClock =>
                                Bytes(SubSeq(w, i, j))
                                    <= Capacity(r) + Rate[r] * (w[j].out - w[i].out)

\* The sessions' statistics and the hub's tell the same story: every byte
\* counted as sent was written and drained, and the hub's totals are the sums
\* over all sessions, also those that are gone.
StatisticsAgree ==
    /\ \A r \in Rover : /\ loop[r] \in {"get", "sleep"} => sent[r] = Bytes(wire[r])
                        /\ loop[r] = "drain" => sent[r] = Bytes(Front(wire[r]))
    /\ hubTx = FoldSet(LAMBDA r, sum : sent[r] + sum, 0, Rover)
    /\ hubDropped = FoldSet(LAMBDA r, sum : dropped[r] + sum, 0, Rover)

\* A chunk held back by the rate limit is written in the end, unless the session
\* is closed first.
SleepEnds == \A r \in Rover : (loop[r] = "sleep") ~> (loop[r] # "sleep" \/ closed[r])
=============================================================================
