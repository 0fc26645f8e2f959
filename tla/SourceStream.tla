--------------------------- MODULE SourceStream -----------------------------
(***************************************************************************)
(* The uplink of one mountpoint: the read loop of _handle_source feeds the *)
(* parser with what the socket gives, counts what comes out in the hub and *)
(* hands it to the relay and to the rovers.  The hub's lock is never held  *)
(* across an await, so a chunk is handled in one step.  The relay outlives *)
(* the connections; each connection has a parser of its own.               *)
(***************************************************************************)
EXTENDS RtcmParser, IoTRelay, FiniteSets, FiniteSetsExt, TLC

CONSTANTS
    Inputs,      \* what a source may send, as sequences of bytes
    MaxTypes,    \* hub._rtcm_max_types
    MaxSources   \* bound: connections of the run

ASSUME StreamAssumption ==
    /\ Inputs \subseteq Seq(Byte)
    /\ MaxTypes \in Nat \ {0}
    /\ MaxSources \in Nat

VARIABLES
    source,      \* a source is connected
    sources,     \* connections so far
    input,       \* what this source sends
    pos,         \* bytes of it that were read
    buffer,      \* parser._buf
    errors,      \* candidates this parser refused
    emitted,     \* frames of all connections
    begun,       \* frames emitted before this connection
    frames,      \* hub._rtcm_frames_total
    crcErrors,   \* hub._rtcm_crc_errors_total
    counts,      \* hub._rtcm_msg_counts
    rxBytes      \* hub._rx_bytes

parserVars == <<source, sources, input, pos, buffer, errors, begun>>
hubVars == <<emitted, frames, crcErrors, counts, rxBytes>>
vars == <<parserVars, hubVars, relayVars>>

MessageTypes == 0..4095

\* The parser waits for at most the longest frame the length field can name.
TypeOK ==
    /\ source \in BOOLEAN /\ sources \in 0..MaxSources
    /\ input \in Seq(Byte) /\ pos \in 0..Len(input)
    /\ buffer \in Seq(Byte) /\ Len(buffer) < HeaderBytes + 1023 + CrcBytes
    /\ errors \in Nat /\ crcErrors \in Nat
    /\ emitted \in Seq(Seq(Byte)) /\ begun \in 0..Len(emitted)
    /\ frames \in Nat /\ rxBytes \in Nat
    /\ DOMAIN counts \subseteq MessageTypes
    /\ \A t \in DOMAIN counts : counts[t] \in Nat \ {0}
    /\ RelayTypeOK

Init ==
    /\ source = FALSE /\ sources = 0
    /\ input = <<>> /\ pos = 0 /\ buffer = <<>> /\ errors = 0
    /\ emitted = <<>> /\ begun = 0
    /\ frames = 0 /\ crcErrors = 0 /\ rxBytes = 0
    /\ counts = << >>
    /\ RelayInit

Connect(bytes) ==
    /\ ~source /\ sources < MaxSources
    /\ source' = TRUE /\ sources' = sources + 1
    /\ input' = bytes /\ pos' = 0
    /\ buffer' = <<>> /\ errors' = 0
    /\ begun' = Len(emitted)
    /\ UNCHANGED <<hubVars, relayVars>>

\* record_rtcm_frame: types beyond the table's size share the entry of type 0.
Incremented(table, entry) ==
    [t \in DOMAIN table \cup {entry} |->
        IF t # entry THEN table[t] ELSE IF t \in DOMAIN table THEN table[t] + 1 ELSE 1]
Counted_Unbounded(table, t) == Incremented(table, t)
Counted(table, t) ==
    LET roomy == t \in DOMAIN table \/ Cardinality(DOMAIN table) < MaxTypes
    IN  Incremented(table, IF roomy THEN t ELSE 0)

Bytes(fs) == FoldSeq(LAMBDA f, sum : Len(f) + sum, 0, fs)

Kept_Nothing(scan) == <<>>
Kept(scan) == scan.rest

\* One read of the socket.  The frame numbers are those of the hub's counter.
ReadChunk(n) ==
    /\ source /\ pos + n <= Len(input)
    /\ LET scan == Scan(buffer \o SubSeq(input, pos + 1, pos + n))
           new  == Len(scan.frames)
       IN  /\ buffer' = Kept(scan)
           /\ errors' = errors + scan.errors
           /\ crcErrors' = crcErrors + scan.errors
           /\ emitted' = emitted \o scan.frames
           /\ frames' = frames + new
           /\ counts' = FoldLeft(LAMBDA table, f : Counted(table, MessageType(f)),
                                 counts, scan.frames)
           /\ rxBytes' = rxBytes + Bytes(scan.frames)
           /\ queue' = Offer(queue, [i \in 1..new |-> frames + i])
    /\ pos' = pos + n
    /\ UNCHANGED <<source, sources, input, begun, task, hand, fanned, subscribers, box, peerVars>>

\* The end of the input, the idle timeout or an error; what the parser still
\* held is gone with it.
Disconnect ==
    /\ source
    /\ source' = FALSE
    /\ buffer' = <<>> /\ input' = <<>> /\ pos' = 0 /\ errors' = 0
    /\ begun' = Len(emitted)
    /\ UNCHANGED <<sources, hubVars, relayVars>>

Next ==
    \/ \E bytes \in Inputs : Connect(bytes)
    \/ \E n \in 1..Len(input) : ReadChunk(n)
    \/ Disconnect
    \/ RelayNext /\ UNCHANGED <<parserVars, hubVars>>

Spec == Init /\ [][Next]_vars /\ RelayFairness

-----------------------------------------------------------------------------
(* Properties *)

Received == SubSeq(input, 1, pos)

\* However the socket cuts the stream, the parser has found, refused and kept
\* exactly what one feed of all the bytes would give.
ChunkingIrrelevant ==
    LET scan == Scan(Received)
    IN  /\ SubSeq(emitted, begun + 1, Len(emitted)) = scan.frames
        /\ errors = scan.errors
        /\ buffer = scan.rest

\* Where the good frames of s begin that lie in no earlier one, up to gone.
Starts(s, gone) ==
    LET start[i \in 1..gone] ==
            /\ GoodAt(s, i)
            /\ \A j \in 1..(i - 1) : start[j] => j + FrameLength(SubSeq(s, j, Len(s))) <= i
    IN  {i \in 1..gone : start[i]}

\* No frame is lost to noise, to a false preamble or to a cut: of what the
\* parser has let go, the frames it emitted are all the good ones in their
\* order, except those that lie inside an earlier one.
NothingLost ==
    LET starts == Starts(Received, pos - Len(buffer))
        found  == SubSeq(emitted, begun + 1, Len(emitted))
    IN  /\ Len(found) = Cardinality(starts)
        /\ \A i \in starts :
              found[Cardinality({j \in starts : j <= i})] = HeadFrame(SubSeq(Received, i, pos))

\* The hub's statistics tell the same story as the frames it was given, however
\* many message types there are.
CountsAgree ==
    /\ frames = Len(emitted)
    /\ FoldSet(LAMBDA t, sum : counts[t] + sum, 0, DOMAIN counts) = frames
    /\ Cardinality(DOMAIN counts) <= MaxTypes + 1
    /\ rxBytes = Bytes(emitted)

\* A frame the relay accepted reaches the subscribers of the day, unless the
\* relay is closed first.
FramesFlow ==
    \A n \in 1..4 : Contains(queue, n) ~> (Contains(fanned, n) \/ task = "ended")

=============================================================================
