----------------------------- MODULE IoTRelay -------------------------------
(***************************************************************************)
(* The relay of one mountpoint.  The hub puts frames into a bounded queue  *)
(* and loses the newest when it is full; _run takes one, waits for the     *)
(* MQTT broker as long as that takes, then gives it to the queue of every  *)
(* web subscriber, where the oldest makes room.  A web socket notices that *)
(* its peer is gone when a send fails; an event stream is cancelled.       *)
(*                                                                         *)
(* A frame is the number the hub counted it under.  The broker is external:*)
(* a publish ends, well or badly, and the relay goes on either way.        *)
(***************************************************************************)
EXTENDS Integers, Sequences, SequencesExt

CONSTANTS
    Client,
    QueueMax,    \* frames the relay's queue takes
    BoxMax       \* frames a subscriber's queue takes

ASSUME RelayAssumption ==
    /\ QueueMax \in Nat \ {0} /\ BoxMax \in Nat \ {0}

VARIABLES
    task,        \* relay._task: "unborn", "running", "ended"
    queue,       \* relay.queue
    hand,        \* the frame being published, as a sequence
    fanned,      \* frames given to the subscribers so far
    subscribers, \* relay._subscribers
    stream,      \* the clients that asked for the event stream
    client,      \* "out", "opening", "reading", "sending", "left"
    peer,        \* the peer is still there
    box,         \* the client's queue
    sending,     \* the frame the handler is sending, as a sequence
    last,        \* the last frame that reached the peer, 0: none
    joined       \* frames fanned out before the client subscribed

relayVars == <<task, queue, hand, fanned, subscribers, stream, client, peer,
               box, sending, last, joined>>
loopVars == <<task, queue, hand, fanned>>
peerVars == <<stream, client, peer, sending, last, joined>>

Shortest(a, b) == IF a <= b THEN a ELSE b

RelayTypeOK ==
    /\ task \in {"unborn", "running", "ended"}
    /\ queue \in Seq(Nat) /\ Len(queue) <= QueueMax
    /\ hand \in Seq(Nat) /\ Len(hand) <= 1
    /\ hand # <<>> => task = "running"
    /\ fanned \in Seq(Nat)
    /\ subscribers \subseteq Client /\ stream \subseteq Client
    /\ client \in [Client -> {"out", "opening", "reading", "sending", "left"}]
    /\ peer \in [Client -> BOOLEAN]
    /\ \A c \in Client : /\ box[c] \in Seq(Nat) /\ Len(box[c]) <= BoxMax
                         /\ sending[c] \in Seq(Nat) /\ Len(sending[c]) <= 1
                         /\ sending[c] # <<>> <=> client[c] = "sending"
    /\ last \in [Client -> Nat] /\ joined \in [Client -> Nat]

RelayInit ==
    /\ task = "unborn"
    /\ queue = <<>> /\ hand = <<>> /\ fanned = <<>>
    /\ subscribers = {} /\ stream = {}
    /\ client = [c \in Client |-> "out"]
    /\ peer = [c \in Client |-> TRUE]
    /\ box = [c \in Client |-> <<>>]
    /\ sending = [c \in Client |-> <<>>]
    /\ last = [c \in Client |-> 0]
    /\ joined = [c \in Client |-> 0]

\* publish_rtcm_frame for each of the frames fs: what does not fit is dropped.
Offer_Unbounded(q, fs) == q \o fs
Offer(q, fs) == LET all == q \o fs IN SubSeq(all, 1, Shortest(QueueMax, Len(all)))

-----------------------------------------------------------------------------
(* The loop *)

\* The task that get_or_create_hub leaves to start the loop comes to run.
StartRelay ==
    /\ task = "unborn"
    /\ task' = "running"
    /\ UNCHANGED <<queue, hand, fanned, subscribers, box, peerVars>>

TakeFrame ==
    /\ task = "running" /\ hand = <<>> /\ queue # <<>>
    /\ hand' = <<Head(queue)>>
    /\ queue' = Tail(queue)
    /\ UNCHANGED <<task, fanned, subscribers, box, peerVars>>

\* A full box loses its oldest frame.
Delivered_KeepsOld(b, n) == IF Len(b) = BoxMax THEN b ELSE Append(b, n)
Delivered(b, n) == Append(IF Len(b) = BoxMax THEN Tail(b) ELSE b, n)

FanOut_Skipped ==
    /\ hand # <<>>
    /\ hand' = <<>>
    /\ UNCHANGED <<task, queue, fanned, subscribers, box, peerVars>>

\* The publish is over; no await from the first subscriber to the last.
FanOut ==
    /\ hand # <<>>
    /\ box' = [c \in Client |-> IF c \in subscribers THEN Delivered(box[c], hand[1]) ELSE box[c]]
    /\ fanned' = fanned \o hand
    /\ hand' = <<>>
    /\ UNCHANGED <<task, queue, subscribers, peerVars>>

\* relay.close: the frame in hand is lost, the subscribers are told nothing.
CloseRelay ==
    /\ task # "ended"
    /\ task' = "ended"
    /\ hand' = <<>>
    /\ UNCHANGED <<queue, fanned, subscribers, box, peerVars>>

-----------------------------------------------------------------------------
(* A subscriber *)

Subscribe(c) ==
    /\ client[c] = "out"
    /\ subscribers' = subscribers \cup {c}
    /\ joined' = [joined EXCEPT ![c] = Len(fanned)]
    /\ UNCHANGED <<loopVars, box, peer, sending, last>>

\* ws_stream reads its queue at once.
OpenSocket(c) ==
    /\ Subscribe(c)
    /\ client' = [client EXCEPT ![c] = "reading"]
    /\ UNCHANGED stream

\* sse_stream subscribes; its generator starts with the body of the answer.
AskStream(c) ==
    /\ Subscribe(c)
    /\ client' = [client EXCEPT ![c] = "opening"]
    /\ stream' = stream \cup {c}

OpenStream(c) ==
    /\ client[c] = "opening" /\ peer[c]
    /\ client' = [client EXCEPT ![c] = "reading"]
    /\ UNCHANGED <<loopVars, subscribers, stream, box, peer, sending, last, joined>>

ReadBox(c) ==
    /\ client[c] = "reading" /\ box[c] # <<>>
    /\ c \in stream => peer[c]
    /\ sending' = [sending EXCEPT ![c] = <<Head(box[c])>>]
    /\ box' = [box EXCEPT ![c] = Tail(@)]
    /\ client' = [client EXCEPT ![c] = "sending"]
    /\ UNCHANGED <<loopVars, subscribers, stream, peer, last, joined>>

SendEnds(c) ==
    /\ client[c] = "sending" /\ peer[c]
    /\ last' = [last EXCEPT ![c] = sending[c][1]]
    /\ sending' = [sending EXCEPT ![c] = <<>>]
    /\ client' = [client EXCEPT ![c] = "reading"]
    /\ UNCHANGED <<loopVars, subscribers, stream, box, peer, joined>>

PeerLeaves(c) ==
    /\ client[c] \in {"opening", "reading", "sending"} /\ peer[c]
    /\ peer' = [peer EXCEPT ![c] = FALSE]
    /\ UNCHANGED <<loopVars, subscribers, stream, box, client, sending, last, joined>>

\* The finally of ws_stream and of gen.
Unsubscribed_Never(c) == subscribers
Unsubscribed(c) == subscribers \ {c}

\* send_bytes raises for a web socket; an event stream is cancelled wherever
\* its generator waits, and its finally runs.
HandlerEnds(c) ==
    /\ ~peer[c]
    /\ \/ client[c] = "sending"
       \/ client[c] = "reading" /\ c \in stream
    /\ client' = [client EXCEPT ![c] = "left"]
    /\ subscribers' = Unsubscribed(c)
    /\ sending' = [sending EXCEPT ![c] = <<>>]
    /\ box' = [box EXCEPT ![c] = <<>>]
    /\ UNCHANGED <<loopVars, stream, peer, last, joined>>

\* A generator that never started has no finally to run.
StreamAborted(c) ==
    /\ client[c] = "opening" /\ ~peer[c]
    /\ client' = [client EXCEPT ![c] = "left"]
    /\ UNCHANGED <<loopVars, subscribers, stream, box, peer, sending, last, joined>>

RelayNext ==
    \/ StartRelay \/ TakeFrame \/ FanOut \/ CloseRelay
    \/ \E c \in Client :
          \/ OpenSocket(c) \/ AskStream(c) \/ OpenStream(c) \/ ReadBox(c) \/ SendEnds(c)
          \/ PeerLeaves(c) \/ HandlerEnds(c) \/ StreamAborted(c)

\* The event loop runs what is ready, and the MQTT client gives up in time.
RelayFairness ==
    /\ WF_relayVars(StartRelay) /\ WF_relayVars(TakeFrame) /\ WF_relayVars(FanOut)
    /\ \A c \in Client : /\ WF_relayVars(OpenStream(c))
                         /\ WF_relayVars(ReadBox(c))
                         /\ WF_relayVars(HandlerEnds(c))
                         /\ WF_relayVars(StreamAborted(c))

-----------------------------------------------------------------------------
(* Properties *)

\* A subscriber's queue holds the newest frames given out since it came, and
\* what it was sent before is older: it skips ahead, never back.
NewestKept ==
    \A c \in subscribers :
       LET seen == SubSeq(fanned, joined[c] + 1, Len(fanned))
           held == sending[c] \o box[c]
       IN  /\ Len(box[c]) <= Len(seen)
           /\ box[c] = SubSeq(seen, Len(seen) - Len(box[c]) + 1, Len(seen))
           /\ \A i \in 1..Len(held) : held[i] > last[c]
           /\ \A i \in 2..Len(held) : held[i - 1] < held[i]

\* A queue stays subscribed without a handler only if the peer of an event
\* stream left before its generator started.
OrphansAreStreams ==
    \A c \in subscribers : client[c] = "left" => c \in stream /\ last[c] = 0

\* A subscriber that left with a frame still waiting for it is dropped.
GoneAreDropped ==
    \A c \in Client : (client[c] \in {"reading", "sending"} /\ ~peer[c] /\ box[c] # <<>>)
                          ~> c \notin subscribers

=============================================================================
