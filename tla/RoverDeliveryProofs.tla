------------------------ MODULE RoverDeliveryProofs -------------------------
(***************************************************************************)
(* Proofs about RoverDelivery, for any rovers, tiers, chunks and bounds.   *)
(***************************************************************************)
EXTENDS RoverDelivery, FiniteSetTheorems, WellFoundedInduction, TLAPS

-----------------------------------------------------------------------------
(* Types *)

TypeInv ==
    /\ attached \in BOOLEAN /\ chunks \in 0..MaxChunks /\ clock \in 0..MaxClock
    /\ session \in [Rover -> {"out", "in", "gone"}]
    /\ queue \in [Rover -> Seq(Chunk)]
    /\ wire \in [Rover -> Seq(Written)]
    /\ hand \in [Rover -> Seq(Chunk)]
    /\ closed \in [Rover -> BOOLEAN]
    /\ loop \in [Rover -> {"get", "sleep", "drain", "ended"}]
    /\ age \in [Rover -> Nat] /\ \A r \in Rover : age[r] <= Period[r]
    /\ tokens \in [Rover -> Nat] /\ \A r \in Rover : tokens[r] <= Capacity(r)
    /\ sent \in [Rover -> Nat] /\ dropped \in [Rover -> Nat]
    /\ hubTx \in Nat /\ hubDropped \in Nat

\* Where the send loop stands says what it holds; a session that is not in the
\* hub holds nothing.
LoopInv ==
    \A r \in Rover :
       /\ loop[r] = "sleep" <=> hand[r] # <<>>
       /\ hand[r] # <<>> => hand[r] = <<Head(hand[r])>>
       /\ loop[r] = "drain" => wire[r] # <<>>
       /\ session[r] # "in" => queue[r] = <<>> /\ hand[r] = <<>> /\ wire[r] = <<>>
       /\ session[r] = "out" => loop[r] = "get" /\ sent[r] = 0

Sound == TypeInv /\ LoopInv

LEMMA NatProduct == \A m, n \in Nat : m * n \in Nat
  BY SMT

LEMMA LostCounted ==
    ASSUME TypeInv, NEW len \in Nat, NEW S \in SUBSET Rover
    PROVE  IsFiniteSet(S) /\ Cardinality(S) * len \in Nat
<1>1. IsFiniteSet(S)
  BY TierAssumption, FS_Subset
<1>2. Cardinality(S) \in Nat
  BY <1>1, FS_CardinalityType
<1> QED BY <1>1, <1>2, NatProduct

\* What write() puts on the wire.
Stamped(c) == [id |-> c.id, len |-> c.len, at |-> c.at, out |-> clock]

\* The chunk that goes on the wire, or back to the loop's hand, leaves its place.
Wrote(r, c) ==
    /\ Affords(r, c) /\ Running(r) /\ c \in Chunk /\ Stamped(c) \in Written
    /\ wire' = [wire EXCEPT ![r] = Append(@, Stamped(c))]
    /\ tokens' = IF Rate[r] = 0 THEN tokens ELSE [tokens EXCEPT ![r] = @ - c.len]
    /\ loop' = [loop EXCEPT ![r] = "drain"]

Kept(r, c) ==
    /\ hand' = [hand EXCEPT ![r] = <<c>>]
    /\ queue' = [queue EXCEPT ![r] = Tail(@)]
    /\ loop' = [loop EXCEPT ![r] = "sleep"]
    /\ wire' = wire /\ tokens' = tokens

LEMMA StampedType ==
    ASSUME TypeInv, NEW c \in Chunk
    PROVE  Stamped(c) \in Written
  BY DEF TypeInv, Stamped, Chunk, Written

LEMMA TakeKinds ==
    ASSUME Sound, NEW r \in Rover, Take(r)
    PROVE  LET c == Head(queue[r])
           IN  /\ c \in Chunk /\ queue[r] # <<>> /\ hand[r] = <<>> /\ Running(r)
               /\ \/ Kept(r, c)
                  \/ /\ Wrote(r, c) /\ hand' = hand
                     /\ queue' = [queue EXCEPT ![r] = Tail(@)]
<1> DEFINE c == Head(queue[r])
<1>1. queue[r] \in Seq(Chunk) /\ queue[r] # <<>> /\ loop[r] = "get" /\ Running(r)
  BY DEF Take, Sound, TypeInv
<1>2. c \in Chunk
  BY <1>1
<1>3. hand[r] = <<>>
  BY <1>1 DEF Sound, LoopInv
<1>4. Stamped(c) \in Written
  BY <1>2, StampedType DEF Sound
<1>5. CASE Write(r, c) /\ UNCHANGED hand
  BY <1>1, <1>2, <1>3, <1>4, <1>5 DEF Take, Write, Spend, Wrote, Stamped, Remaining
<1>6. CASE ~Affords(r, c)
  BY <1>1, <1>2, <1>3, <1>6 DEF Take, Kept, Write, Remaining
<1> QED BY <1>5, <1>6 DEF Take

LEMMA WakesKind ==
    ASSUME Sound, NEW r \in Rover, Wakes(r)
    PROVE  LET c == Head(hand[r])
           IN  /\ hand[r] = <<c>> /\ Wrote(r, c)
               /\ hand' = [hand EXCEPT ![r] = <<>>]
               /\ queue' = queue
<1> DEFINE c == Head(hand[r])
<1>1. hand[r] \in Seq(Chunk) /\ hand[r] # <<>> /\ hand[r] = <<c>>
  BY DEF Wakes, Sound, TypeInv, LoopInv
<1>2. c \in Chunk
  BY <1>1
<1>3. Stamped(c) \in Written
  BY <1>2, StampedType DEF Sound
<1> QED BY <1>1, <1>2, <1>3 DEF Wakes, Write, Spend, Wrote, Stamped, queueVars

LEMMA WroteType ==
    ASSUME Sound, NEW r \in Rover, NEW c, Wrote(r, c)
    PROVE  /\ wire' \in [Rover -> Seq(Written)] /\ wire'[r] # <<>>
           /\ loop' \in [Rover -> {"get", "sleep", "drain", "ended"}]
           /\ tokens' \in [Rover -> Nat] /\ \A q \in Rover : tokens'[q] <= Capacity(q)
<1>1. wire' \in [Rover -> Seq(Written)] /\ wire'[r] # <<>>
  BY DEF Wrote, Sound, TypeInv
<1>2. loop' \in [Rover -> {"get", "sleep", "drain", "ended"}]
  BY DEF Wrote, Sound, TypeInv
<1>3. tokens' \in [Rover -> Nat] /\ \A q \in Rover : tokens'[q] <= Capacity(q)
  <2>1. CASE Rate[r] = 0
    BY <2>1 DEF Wrote, Sound, TypeInv
  <2>2. CASE Rate[r] # 0
    <3>1. c.len \in Nat /\ tokens[r] >= c.len /\ tokens[r] \in Nat
      BY <2>2, TierAssumption DEF Wrote, Affords, Sound, TypeInv, Chunk
    <3>2. tokens[r] - c.len \in Nat /\ tokens[r] - c.len <= tokens[r]
      BY <3>1
    <3>3. Capacity(r) \in Nat /\ tokens[r] <= Capacity(r)
      BY TierAssumption DEF Capacity, Sound, TypeInv
    <3> QED BY <2>2, <3>1, <3>2, <3>3 DEF Wrote, Sound, TypeInv
  <2> QED BY <2>1, <2>2
<1> QED BY <1>1, <1>2, <1>3

LEMMA InitSound == Init => Sound
<1> SUFFICES ASSUME Init PROVE Sound
  OBVIOUS
<1>1. \A r \in Rover : Capacity(r) \in Nat /\ Period[r] \in Nat
  BY TierAssumption DEF Capacity
<1>2. TypeInv
  <2>1. <<>> \in Seq(Chunk) /\ <<>> \in Seq(Written)
    OBVIOUS
  <2>2. queue \in [Rover -> Seq(Chunk)] /\ hand \in [Rover -> Seq(Chunk)] /\ wire \in [Rover -> Seq(Written)]
    BY <2>1 DEF Init
  <2>3. 0 \in 0..MaxChunks /\ 0 \in 0..MaxClock
    BY TierAssumption
  <2>4. age \in [Rover -> Nat] /\ \A r \in Rover : age[r] <= Period[r]
    BY <1>1 DEF Init
  <2>5. tokens \in [Rover -> Nat] /\ \A r \in Rover : tokens[r] <= Capacity(r)
    BY <1>1 DEF Init
  <2> QED BY <2>2, <2>3, <2>4, <2>5 DEF Init, TypeInv
<1>3. LoopInv
  BY DEF Init, LoopInv
<1> QED BY <1>2, <1>3 DEF Sound

LEMMA NextSound == Sound /\ [Next]_vars => Sound'
<1> SUFFICES ASSUME Sound, [Next]_vars PROVE Sound'
  OBVIOUS
<1>0. TypeInv /\ LoopInv /\ \A r \in Rover : Capacity(r) \in Nat /\ Period[r] \in Nat /\ Rate[r] \in Nat
  BY TierAssumption DEF Sound, Capacity
<1> USE DEF queueVars, loopVars, statVars
<1>1. CASE UNCHANGED vars
  BY <1>0, <1>1 DEF vars, Sound, TypeInv, LoopInv, Capacity
<1>2. CASE AttachSource
  BY <1>0, <1>2 DEF AttachSource, Sound, TypeInv, LoopInv, Capacity
<1>3. CASE DetachSource
  BY <1>0, <1>3 DEF DetachSource, Sound, TypeInv, LoopInv, Capacity
<1>4. ASSUME NEW len \in Lens, OnSourceData(len)
      PROVE  Sound'
  <2> DEFINE c == [id |-> chunks + 1, len |-> len, at |-> clock]
             lost == {r \in Rover : Offered(r) /\ Full(r, c)}
  <2>1. len \in Nat /\ c \in Chunk /\ chunks + 1 \in 0..MaxChunks
    BY <1>0, <1>4, TierAssumption DEF OnSourceData, Chunk, TypeInv
  <2>2. Cardinality(lost) * len \in Nat
    BY <1>0, <2>1, LostCounted
  <2>3. hubDropped' \in Nat
    BY <1>0, <1>4, <2>2 DEF OnSourceData, HubCounts, TypeInv
  <2>4. queue' \in [Rover -> Seq(Chunk)]
    BY <1>0, <1>4, <2>1 DEF OnSourceData, TypeInv
  <2>5. dropped' \in [Rover -> Nat]
    BY <1>0, <1>4, <2>1 DEF OnSourceData, TypeInv
  <2>6. age' \in [Rover -> Nat] /\ \A r \in Rover : age'[r] <= Period[r]
    BY <1>0, <1>4 DEF OnSourceData, TypeInv
  <2>7. TypeInv'
    BY <1>0, <1>4, <2>1, <2>3, <2>4, <2>5, <2>6 DEF OnSourceData, TypeInv, Capacity
  <2>8. \A r \in Rover : session[r] # "in" => queue'[r] = queue[r]
    BY <1>0, <1>4 DEF OnSourceData, Offered
  <2>9. LoopInv'
    BY <1>0, <1>4, <2>8 DEF OnSourceData, LoopInv
  <2> QED BY <2>7, <2>9 DEF Sound
<1>5. ASSUME NEW r \in Rover, AddRover(r)
      PROVE  Sound'
  <2>1. TypeInv'
    BY <1>0, <1>5 DEF AddRover, TypeInv, Capacity
  <2>2. LoopInv'
    BY <1>0, <1>5 DEF AddRover, LoopInv, TypeInv
  <2> QED BY <2>1, <2>2 DEF Sound
<1>6. ASSUME NEW r \in Rover, CloseQueue(r)
      PROVE  Sound'
  BY <1>0, <1>6 DEF CloseQueue, Sound, TypeInv, LoopInv, Capacity
<1>7. ASSUME NEW r \in Rover, Take(r)
      PROVE  Sound'
  <2> DEFINE c == Head(queue[r])
  <2>1. c \in Chunk /\ queue[r] # <<>> /\ hand[r] = <<>> /\ Running(r)
    BY <1>7, TakeKinds
  <2>2. queue' = [queue EXCEPT ![r] = Tail(@)] /\ queue' \in [Rover -> Seq(Chunk)]
    BY <1>0, <1>7, <2>1 DEF Take, Remaining, TypeInv
  <2>3. UNCHANGED <<attached, chunks, clock, session, closed, age, sent, dropped, hubTx, hubDropped>>
    BY <1>7 DEF Take
  <2>4. CASE Kept(r, c)
    <3>1. hand' \in [Rover -> Seq(Chunk)] /\ hand'[r] = <<c>> /\ hand'[r] # <<>> /\ Head(hand'[r]) = c
      BY <1>0, <2>1, <2>4 DEF Kept, TypeInv
    <3>2. TypeInv'
      BY <1>0, <2>2, <2>3, <2>4, <3>1 DEF Kept, TypeInv, Capacity
    <3>3. LoopInv'
      BY <1>0, <2>1, <2>2, <2>3, <2>4, <3>1 DEF Kept, LoopInv, TypeInv, Running
    <3> QED BY <3>2, <3>3 DEF Sound
  <2>5. CASE Wrote(r, c) /\ hand' = hand
    <3>1. TypeInv'
      BY <1>0, <2>2, <2>3, <2>5, WroteType DEF TypeInv, Capacity
    <3>2. wire'[r] # <<>>
      BY <2>5, WroteType
    <3>3. LoopInv'
      BY <1>0, <2>1, <2>2, <2>3, <2>5, <3>2 DEF Wrote, LoopInv, TypeInv, Running
    <3> QED BY <3>1, <3>3 DEF Sound
  <2> QED BY <1>7, <2>4, <2>5, TakeKinds
<1>8. ASSUME NEW r \in Rover, Wakes(r)
      PROVE  Sound'
  <2> DEFINE c == Head(hand[r])
  <2>1. hand[r] = <<c>> /\ Wrote(r, c) /\ hand' = [hand EXCEPT ![r] = <<>>] /\ queue' = queue
    BY <1>8, WakesKind
  <2>2. UNCHANGED <<attached, chunks, clock, session, closed, age, sent, dropped, hubTx, hubDropped>>
    BY <1>8 DEF Wakes
  <2>3. hand' \in [Rover -> Seq(Chunk)]
    BY <1>0, <2>1 DEF TypeInv
  <2>4. TypeInv'
    BY <1>0, <2>1, <2>2, <2>3, WroteType DEF TypeInv, Capacity
  <2>5. wire'[r] # <<>>
    BY <2>1, WroteType
  <2>6. LoopInv'
    BY <1>0, <2>1, <2>2, <2>5 DEF Wrote, LoopInv, TypeInv, Running
  <2> QED BY <2>4, <2>6 DEF Sound
<1>9. ASSUME NEW r \in Rover, Drained(r)
      PROVE  Sound'
  <2>1. Last(wire[r]) \in Written
    BY <1>0, <1>9 DEF Drained, LoopInv, TypeInv, Last
  <2>2. Last(wire[r]).len \in Nat
    BY <2>1, TierAssumption DEF Written
  <2>3. sent' \in [Rover -> Nat] /\ hubTx' \in Nat
    BY <1>0, <1>9, <2>2 DEF Drained, TypeInv
  <2>4. TypeInv'
    BY <1>0, <1>9, <2>3 DEF Drained, TypeInv, Capacity
  <2>5. LoopInv'
    BY <1>0, <1>9 DEF Drained, LoopInv, TypeInv, Running
  <2> QED BY <2>4, <2>5 DEF Sound
<1>10. ASSUME NEW r \in Rover, SendLoopEnds(r)
       PROVE  Sound'
  <2>1. TypeInv'
    BY <1>0, <1>10 DEF SendLoopEnds, TypeInv, Capacity
  <2>2. LoopInv'
    BY <1>0, <1>10 DEF SendLoopEnds, LoopInv, TypeInv, Running
  <2> QED BY <2>1, <2>2 DEF Sound
<1>11. ASSUME NEW r \in Rover, RemoveRover(r)
       PROVE  Sound'
  <2>1. <<>> \in Seq(Chunk) /\ <<>> \in Seq(Written)
    OBVIOUS
  <2>3. queue' \in [Rover -> Seq(Chunk)] /\ hand' \in [Rover -> Seq(Chunk)] /\ wire' \in [Rover -> Seq(Written)]
    BY <1>0, <1>11, <2>1 DEF RemoveRover, TypeInv
  <2>4. age' \in [Rover -> Nat] /\ \A q \in Rover : age'[q] <= Period[q]
    BY <1>0, <1>11 DEF RemoveRover, TypeInv
  <2>5. tokens' \in [Rover -> Nat] /\ \A q \in Rover : tokens'[q] <= Capacity(q)
    BY <1>0, <1>11 DEF RemoveRover, TypeInv
  <2>6. TypeInv'
    BY <1>0, <1>11, <2>3, <2>4, <2>5 DEF RemoveRover, TypeInv, Capacity
  <2>2. LoopInv'
    BY <1>0, <1>11 DEF RemoveRover, LoopInv, TypeInv, Running
  <2> QED BY <2>2, <2>6 DEF Sound
<1>12. CASE Tick
  <2>1. \A r \in Rover : /\ Refill(r) \in Nat /\ Refill(r) <= Capacity(r)
                         /\ Least(Period[r], age[r] + 1) \in 0..Period[r]
    <3> TAKE r \in Rover
    <3>1. /\ Capacity(r) \in Nat /\ Rate[r] \in Nat /\ Period[r] \in Nat
          /\ tokens[r] \in Nat /\ age[r] \in Nat
      BY <1>0 DEF TypeInv
    <3> QED BY <3>1 DEF Refill, Least
  <2>2. tokens' \in [Rover -> Nat] /\ \A r \in Rover : tokens'[r] <= Capacity(r)
    BY <1>0, <1>12, <2>1 DEF Tick, TypeInv
  <2>3. age' \in [Rover -> Nat] /\ \A r \in Rover : age'[r] <= Period[r]
    BY <1>0, <1>12, <2>1 DEF Tick, TypeInv
  <2>4. clock' \in 0..MaxClock
    BY <1>0, <1>12, TierAssumption DEF Tick, Least, TypeInv
  <2>5. TypeInv'
    BY <1>0, <1>12, <2>2, <2>3, <2>4 DEF Tick, TypeInv, Capacity
  <2>6. LoopInv'
    BY <1>0, <1>12 DEF Tick, LoopInv
  <2> QED BY <2>5, <2>6 DEF Sound
<1> QED
  BY <1>1, <1>2, <1>3, <1>4, <1>5, <1>6, <1>7, <1>8, <1>9, <1>10, <1>11, <1>12 DEF Next, RoverStep

\* The hub, the queues and the send loops keep their types.
THEOREM TypeCorrect == Spec => []TypeOK
<1>1. TypeInv /\ LoopInv => TypeOK
  <2> SUFFICES ASSUME TypeInv, LoopInv PROVE TypeOK
    OBVIOUS
  <2>1. \A r \in Rover : hand[r] \in {<<>>} \cup {<<c>> : c \in Chunk}
    <3> TAKE r \in Rover
    <3>1. hand[r] \in Seq(Chunk)
      BY DEF TypeInv
    <3>2. hand[r] # <<>> => Head(hand[r]) \in Chunk
      BY <3>1
    <3> QED BY <3>2 DEF LoopInv
  <2>2. \A r \in Rover : age[r] \in 0..Period[r] /\ tokens[r] \in 0..Capacity(r)
    BY TierAssumption DEF TypeInv, Capacity
  <2> QED BY <2>1, <2>2 DEF TypeInv, TypeOK
<1>2. Sound => TypeOK
  BY <1>1 DEF Sound
<1> QED BY <1>2, InitSound, NextSound, PTL DEF Spec

-----------------------------------------------------------------------------
(* Order and epochs.  A rover's line is what it was sent, holds in its bucket *)
(* and still queues.                                                          *)

Piece == Chunk \cup Written
Line(r) == wire[r] \o hand[r] \o queue[r]

PieceAt(w, h, q, i) ==
    IF i <= Len(w) THEN w[i]
    ELSE IF i <= Len(w) + Len(h) THEN h[i - Len(w)]
    ELSE q[i - Len(w) - Len(h)]

LEMMA LineElements ==
    ASSUME NEW w \in Seq(Written), NEW h \in Seq(Chunk), NEW q \in Seq(Chunk)
    PROVE  /\ w \o h \o q \in Seq(Piece)
           /\ Len(w \o h \o q) = Len(w) + Len(h) + Len(q)
           /\ \A i \in 1..(Len(w) + Len(h) + Len(q)) : (w \o h \o q)[i] = PieceAt(w, h, q, i)
<1>1. w \in Seq(Piece) /\ h \in Seq(Piece) /\ q \in Seq(Piece)
  BY DEF Piece
<1> HIDE DEF Piece
<1>2. /\ w \o h \in Seq(Piece) /\ Len(w \o h) = Len(w) + Len(h)
      /\ \A i \in 1..(Len(w) + Len(h)) : (w \o h)[i] = IF i <= Len(w) THEN w[i] ELSE h[i - Len(w)]
  BY <1>1
<1>3. Len(w) \in Nat /\ Len(h) \in Nat /\ Len(q) \in Nat
  BY <1>1
<1> DEFINE wh == w \o h
<1>4. /\ wh \o q \in Seq(Piece) /\ Len(wh \o q) = Len(wh) + Len(q)
      /\ \A i \in 1..(Len(wh) + Len(q)) : (wh \o q)[i] = IF i <= Len(wh) THEN wh[i] ELSE q[i - Len(wh)]
  <2>1. wh \in Seq(Piece)
    BY <1>2
  <2> HIDE DEF wh
  <2> QED BY <1>1, <2>1
<1>5. ASSUME NEW i \in 1..(Len(w) + Len(h) + Len(q))
      PROVE  (wh \o q)[i] = PieceAt(w, h, q, i)
  <2>1. CASE i <= Len(w) + Len(h)
    BY <1>2, <1>3, <1>4, <2>1 DEF PieceAt
  <2>2. CASE ~ (i <= Len(w) + Len(h))
    BY <1>2, <1>3, <1>4, <2>2 DEF PieceAt
  <2> QED BY <2>1, <2>2
<1> QED BY <1>2, <1>4, <1>5

LEMMA PieceType ==
    ASSUME NEW s \in Seq(Piece), NEW i \in 1..Len(s)
    PROVE  s[i].id \in Nat /\ s[i].at \in Nat
<1>1. s[i] \in Piece
  OBVIOUS
<1> QED BY <1>1, TierAssumption DEF Piece, Chunk, Written

\* The chunks of a line and the moments they are of, whatever is known of them.
SameLine(s, t) ==
    /\ Len(s) = Len(t)
    /\ \A i \in 1..Len(t) : s[i].id = t[i].id /\ s[i].at = t[i].at

Stays(r) ==
    /\ SameLine(Line(r)', Line(r))
    /\ chunks <= chunks'
    /\ \/ clock' = clock /\ age'[r] <= age[r]
       \/ clock' = Least(MaxClock, clock + 1) /\ age'[r] <= age[r] + 1

Grows(r) ==
    \E c \in Chunk : /\ Line(r)' = Append(Line(r), c)
                     /\ c.id = chunks + 1 /\ c.at = clock
                     /\ chunks' = chunks + 1 /\ clock' = clock
                     /\ GateOpen(r) /\ age'[r] = 0

LEMMA SameParts ==
    ASSUME Sound, Sound', NEW r \in Rover,
           wire'[r] = wire[r], hand'[r] = hand[r], queue'[r] = queue[r]
    PROVE  SameLine(Line(r)', Line(r))
  BY DEF SameLine, Line

LEMMA SameMoved ==
    ASSUME NEW w \in Seq(Written), NEW h \in Seq(Chunk), NEW q \in Seq(Chunk),
           NEW w2 \in Seq(Written), NEW h2 \in Seq(Chunk), NEW q2 \in Seq(Chunk),
           Len(w2) + Len(h2) + Len(q2) = Len(w) + Len(h) + Len(q),
           \A i \in 1..(Len(w) + Len(h) + Len(q)) :
              /\ PieceAt(w2, h2, q2, i).id = PieceAt(w, h, q, i).id
              /\ PieceAt(w2, h2, q2, i).at = PieceAt(w, h, q, i).at
    PROVE  SameLine(w2 \o h2 \o q2, w \o h \o q)
<1> DEFINE s == w2 \o h2 \o q2
           t == w \o h \o q
<1>1. /\ Len(t) = Len(w) + Len(h) + Len(q)
      /\ \A i \in 1..(Len(w) + Len(h) + Len(q)) : t[i] = PieceAt(w, h, q, i)
  BY LineElements
<1>2. /\ Len(s) = Len(w2) + Len(h2) + Len(q2)
      /\ \A i \in 1..(Len(w2) + Len(h2) + Len(q2)) : s[i] = PieceAt(w2, h2, q2, i)
  BY LineElements
<1> HIDE DEF s, t
<1>3. SameLine(s, t)
  BY <1>1, <1>2 DEF SameLine
<1> QED BY <1>3 DEF s, t

LEMMA TakeSame ==
    ASSUME Sound, Sound', NEW r \in Rover, Take(r)
    PROVE  SameLine(Line(r)', Line(r))
<1> DEFINE w == wire[r]  h == hand[r]  q == queue[r]
           w2 == wire'[r]  h2 == hand'[r]  q2 == queue'[r]
           c == Head(queue[r])
<1>1. /\ w \in Seq(Written) /\ h \in Seq(Chunk) /\ q \in Seq(Chunk)
      /\ w2 \in Seq(Written) /\ h2 \in Seq(Chunk) /\ q2 \in Seq(Chunk)
  BY DEF Sound, TypeInv
<1>2. q # <<>> /\ h = <<>> /\ q2 = Tail(q) /\ c = q[1]
  <2>1. q # <<>> /\ h = <<>>
    BY TakeKinds
  <2>2. q2 = Tail(q)
    BY DEF Take, Remaining, Sound, TypeInv
  <2> QED BY <1>1, <2>1, <2>2
<1>3. Len(q2) = Len(q) - 1 /\ Len(q) \in Nat \ {0} /\ \A i \in 1..Len(q2) : q2[i] = q[i + 1]
  BY <1>1, <1>2
<1>4. CASE Kept(r, c)
  <2>1. h2 = <<c>> /\ w2 = w
    BY <1>4 DEF Kept, Sound, TypeInv
  <2>2. Len(h2) = 1 /\ h2[1] = q[1] /\ Len(h) = 0 /\ Len(w) \in Nat
    BY <1>1, <1>2, <2>1
  <2> HIDE DEF w, h, q, w2, h2, q2, c
  <2>3. \A i \in 1..(Len(w) + Len(h) + Len(q)) : PieceAt(w2, h2, q2, i) = PieceAt(w, h, q, i)
    BY <1>3, <2>1, <2>2 DEF PieceAt
  <2>5. Len(w2) + Len(h2) + Len(q2) = Len(w) + Len(h) + Len(q)
    BY <1>3, <2>1, <2>2
  <2>4. SameLine(w2 \o h2 \o q2, w \o h \o q)
    BY <1>1, <2>3, <2>5, SameMoved
  <2> QED BY <2>4 DEF Line, w, h, q, w2, h2, q2
<1>5. CASE Wrote(r, c) /\ hand' = hand
  <2>1. w2 = Append(w, Stamped(c)) /\ h2 = h /\ Stamped(c) \in Written
    BY <1>5 DEF Wrote, Sound, TypeInv
  <2>2. /\ Len(w2) = Len(w) + 1 /\ Len(h) = 0 /\ Len(w) \in Nat
        /\ w2[Len(w) + 1] = Stamped(c) /\ \A i \in 1..Len(w) : w2[i] = w[i]
    BY <1>1, <1>2, <2>1
  <2>3. Stamped(c).id = q[1].id /\ Stamped(c).at = q[1].at
    BY <1>2 DEF Stamped
  <2> HIDE DEF w, h, q, w2, h2, q2, c
  <2>4. ASSUME NEW i \in 1..(Len(w) + Len(h) + Len(q))
        PROVE  /\ PieceAt(w2, h2, q2, i).id = PieceAt(w, h, q, i).id
               /\ PieceAt(w2, h2, q2, i).at = PieceAt(w, h, q, i).at
    <3>1. CASE i <= Len(w)
      BY <1>3, <2>1, <2>2, <3>1 DEF PieceAt
    <3>2. CASE i = Len(w) + 1
      BY <1>3, <2>1, <2>2, <2>3, <3>2 DEF PieceAt
    <3>3. CASE i > Len(w) + 1
      BY <1>3, <2>1, <2>2, <3>3 DEF PieceAt
    <3> QED BY <2>2, <3>1, <3>2, <3>3
  <2>6. Len(w2) + Len(h2) + Len(q2) = Len(w) + Len(h) + Len(q)
    BY <1>3, <2>1, <2>2
  <2>5. SameLine(w2 \o h2 \o q2, w \o h \o q)
    BY <1>1, <2>4, <2>6, SameMoved
  <2> QED BY <2>5 DEF Line, w, h, q, w2, h2, q2
<1> QED BY <1>4, <1>5, TakeKinds

LEMMA WakesSame ==
    ASSUME Sound, Sound', NEW r \in Rover, Wakes(r)
    PROVE  SameLine(Line(r)', Line(r))
<1> DEFINE w == wire[r]  h == hand[r]  q == queue[r]
           w2 == wire'[r]  h2 == hand'[r]  q2 == queue'[r]
           c == Head(hand[r])
<1>1. /\ w \in Seq(Written) /\ h \in Seq(Chunk) /\ q \in Seq(Chunk)
      /\ w2 \in Seq(Written) /\ h2 \in Seq(Chunk) /\ q2 \in Seq(Chunk)
  BY DEF Sound, TypeInv
<1>2. /\ h = <<c>> /\ h2 = <<>> /\ q2 = q
      /\ w2 = Append(w, Stamped(c)) /\ Stamped(c) \in Written
  <2>1. Wrote(r, c) /\ h = <<c>> /\ q2 = q /\ hand' = [hand EXCEPT ![r] = <<>>]
    BY WakesKind
  <2>2. h2 = <<>>
    BY <2>1 DEF Sound, TypeInv
  <2>3. w2 = Append(w, Stamped(c)) /\ Stamped(c) \in Written
    BY <2>1 DEF Wrote, Sound, TypeInv
  <2> QED BY <2>1, <2>2, <2>3
<1>4. Stamped(c).id = h[1].id /\ Stamped(c).at = h[1].at
  BY <1>2 DEF Stamped
<1> DEFINE x == Stamped(c)
<1> HIDE DEF w, h, q, w2, h2, q2, c, x
<1>8. x \in Written /\ w2 = Append(w, x)
  BY <1>2 DEF x
<1>9. Len(h) = 1 /\ Len(h2) = 0 /\ Len(w) \in Nat /\ Len(q) \in Nat
  BY <1>1, <1>2
<1>10. Len(w2) = Len(w) + 1 /\ w2[Len(w) + 1] = x /\ \A i \in 1..Len(w) : w2[i] = w[i]
  BY <1>1, <1>8
<1>3. /\ Len(w2) = Len(w) + 1 /\ Len(h) = 1 /\ Len(h2) = 0 /\ Len(w) \in Nat /\ Len(q) \in Nat
      /\ w2[Len(w) + 1] = Stamped(c) /\ \A i \in 1..Len(w) : w2[i] = w[i]
  BY <1>9, <1>10 DEF x
<1>5. ASSUME NEW i \in 1..(Len(w) + Len(h) + Len(q))
      PROVE  /\ PieceAt(w2, h2, q2, i).id = PieceAt(w, h, q, i).id
             /\ PieceAt(w2, h2, q2, i).at = PieceAt(w, h, q, i).at
  <2>1. CASE i <= Len(w)
    BY <1>3, <2>1 DEF PieceAt
  <2>2. CASE i = Len(w) + 1
    BY <1>3, <1>4, <2>2 DEF PieceAt
  <2>3. CASE i > Len(w) + 1
    BY <1>2, <1>3, <2>3 DEF PieceAt
  <2> QED BY <1>3, <2>1, <2>2, <2>3
<1>7. Len(w2) + Len(h2) + Len(q2) = Len(w) + Len(h) + Len(q)
  BY <1>2, <1>3
<1>6. SameLine(w2 \o h2 \o q2, w \o h \o q)
  BY <1>1, <1>5, <1>7, SameMoved
<1> QED BY <1>6 DEF Line, w, h, q, w2, h2, q2

LEMMA TickTimes ==
    ASSUME Sound, Tick, NEW r \in Rover
    PROVE  clock' = Least(MaxClock, clock + 1) /\ age'[r] <= age[r] + 1
<1>1. age[r] \in Nat /\ Period[r] \in Nat
  BY TierAssumption DEF Sound, TypeInv
<1>2. age'[r] \in {Least(Period[r], age[r] + 1), age[r]}
  BY DEF Tick, Sound, TypeInv
<1> QED BY <1>1, <1>2 DEF Tick, Least

LEMMA SameTimes ==
    ASSUME Sound, NEW r \in Rover, SameLine(Line(r)', Line(r)),
           UNCHANGED <<chunks, clock, age>>
    PROVE  Stays(r)
  BY TierAssumption DEF Stays, Sound, TypeInv

\* A chunk either joins the line of a rover or leaves it as it is.
LEMMA OfferKinds ==
    ASSUME Sound, Sound', NEW r \in Rover, NEW len \in Lens, OnSourceData(len)
    PROVE  Stays(r) \/ Grows(r)
<1> DEFINE c == [id |-> chunks + 1, len |-> len, at |-> clock]
           lost == {p \in Rover : Offered(p) /\ Full(p, c)}
<1>1. /\ wire' = wire /\ hand' = hand /\ clock' = clock /\ chunks' = chunks + 1
      /\ queue' = [p \in Rover |-> IF Offered(p) /\ p \notin lost
                                   THEN Append(queue[p], c) ELSE queue[p]]
      /\ age' = [p \in Rover |-> IF Offered(p) THEN 0 ELSE age[p]]
  BY DEF OnSourceData, loopVars
<1>2. c \in Chunk /\ chunks \in Nat /\ chunks <= chunks' /\ age[r] \in Nat
  BY <1>1, TierAssumption DEF Chunk, Sound, TypeInv, OnSourceData
<1>3. age'[r] <= age[r] /\ (Offered(r) => age'[r] = 0 /\ GateOpen(r))
  BY <1>1, <1>2 DEF Offered
<1> HIDE DEF c
<1>4. CASE queue'[r] = queue[r]
  BY <1>1, <1>2, <1>3, <1>4, SameParts DEF Stays
<1>5. CASE Offered(r) /\ queue'[r] = Append(queue[r], c)
  <2>1. wire[r] \in Seq(Piece) /\ hand[r] \in Seq(Piece) /\ queue[r] \in Seq(Piece) /\ c \in Piece
    BY <1>2 DEF Sound, TypeInv, Piece
  <2>2. ASSUME NEW w \in Seq(Piece), NEW h \in Seq(Piece), NEW q \in Seq(Piece), NEW x \in Piece
        PROVE  w \o h \o Append(q, x) = Append(w \o h \o q, x)
    <3> HIDE DEF Piece
    <3> DEFINE v == w \o h
    <3>1. v \in Seq(Piece)
      OBVIOUS
    <3> HIDE DEF v
    <3>2. v \o Append(q, x) = Append(v \o q, x)
      BY <3>1
    <3> QED BY <3>2 DEF v
  <2>5. wire[r] \o hand[r] \o Append(queue[r], c) = Append(Line(r), c)
    BY <2>1, <2>2 DEF Line
  <2>6. Line(r)' = wire[r] \o hand[r] \o Append(queue[r], c)
    BY <1>1, <1>5 DEF Line
  <2>3. Line(r)' = Append(Line(r), c)
    BY <2>5, <2>6
  <2>4. c.id = chunks + 1 /\ c.at = clock
    BY DEF c
  <2> QED BY <1>1, <1>2, <1>3, <1>5, <2>3, <2>4 DEF Grows
<1> QED BY <1>1, <1>4, <1>5

\* What any step does to the line of a rover.
LEMMA LineKinds ==
    ASSUME Sound, Sound', [Next]_vars, NEW r \in Rover
    PROVE  Stays(r) \/ Grows(r) \/ Line(r)' = <<>>
<1> DEFINE Still == wire'[r] = wire[r] /\ hand'[r] = hand[r] /\ queue'[r] = queue[r]
<1>1. Still /\ UNCHANGED <<chunks, clock, age>> => Stays(r)
  BY SameParts, SameTimes
<1>2. CASE \/ UNCHANGED vars \/ AttachSource \/ DetachSource
           \/ \E p \in Rover : AddRover(p) \/ CloseQueue(p) \/ Drained(p) \/ SendLoopEnds(p)
  <2>1. UNCHANGED <<wire, hand, queue, chunks, clock, age>>
    BY <1>2 DEF vars, AttachSource, DetachSource, AddRover, CloseQueue, Drained, SendLoopEnds,
                queueVars, loopVars
  <2> QED BY <1>1, <2>1
<1>3. CASE \E len \in Lens : OnSourceData(len)
  BY <1>3, OfferKinds
<1>4. ASSUME NEW p \in Rover, Take(p)
      PROVE  Stays(r)
  <2>1. UNCHANGED <<chunks, clock, age>>
    BY <1>4 DEF Take
  <2>2. CASE p = r
    BY <1>4, <2>1, <2>2, TakeSame, SameTimes
  <2>3. CASE p # r
    <3>1. queue'[r] = queue[r]
      BY <1>4, <2>3 DEF Take, Sound, TypeInv
    <3>2. Kept(p, Head(queue[p])) \/ (Wrote(p, Head(queue[p])) /\ hand' = hand)
      BY <1>4, TakeKinds
    <3>3. wire'[r] = wire[r] /\ hand'[r] = hand[r]
      BY <2>3, <3>2 DEF Kept, Wrote, Sound, TypeInv
    <3> QED BY <1>1, <2>1, <3>1, <3>3
  <2> QED BY <2>2, <2>3
<1>5. ASSUME NEW p \in Rover, Wakes(p)
      PROVE  Stays(r)
  <2>1. UNCHANGED <<chunks, clock, age>>
    BY <1>5 DEF Wakes, queueVars
  <2>2. CASE p = r
    BY <1>5, <2>1, <2>2, WakesSame, SameTimes
  <2>3. CASE p # r
    <3>1. Wrote(p, Head(hand[p])) /\ hand' = [hand EXCEPT ![p] = <<>>] /\ queue' = queue
      BY <1>5, WakesKind
    <3>2. wire'[r] = wire[r] /\ hand'[r] = hand[r]
      BY <2>3, <3>1 DEF Wrote, Sound, TypeInv
    <3> QED BY <1>1, <2>1, <3>1, <3>2
  <2> QED BY <2>2, <2>3
<1>6. ASSUME NEW p \in Rover, RemoveRover(p)
      PROVE  Stays(r) \/ Line(r)' = <<>>
  <2>1. CASE p = r
    <3>1. wire'[r] = <<>> /\ hand'[r] = <<>> /\ queue'[r] = <<>>
      BY <1>6, <2>1 DEF RemoveRover, Sound, TypeInv
    <3> QED BY <3>1 DEF Line
  <2>2. CASE p # r
    <3>1. Still /\ UNCHANGED <<chunks, clock>> /\ age'[r] = age[r]
      BY <1>6, <2>2 DEF RemoveRover, Sound, TypeInv
    <3>2. SameLine(Line(r)', Line(r))
      BY <3>1, SameParts
    <3>3. chunks \in Nat /\ age[r] \in Nat
      BY TierAssumption DEF Sound, TypeInv
    <3> QED BY <3>1, <3>2, <3>3 DEF Stays
  <2> QED BY <2>1, <2>2
<1>7. CASE Tick
  <2>1. Still /\ chunks' = chunks /\ chunks \in Nat
    BY <1>7, TierAssumption DEF Tick, Sound, TypeInv
  <2> QED BY <1>7, <2>1, SameParts, TickTimes DEF Stays
<1> QED BY <1>2, <1>3, <1>4, <1>5, <1>6, <1>7 DEF Next, RoverStep

-----------------------------------------------------------------------------
\* Every chunk of a line was numbered and stamped by now, and the newest, at
\* least as long ago as the gate of its rover has been shut.
Known(s, n, now, a) ==
    \A i \in 1..Len(s) : /\ s[i].id <= n /\ s[i].at <= now
                         /\ now < MaxClock => now - s[i].at >= a

Rising(s) == \A i \in 1..Len(s) - 1 : s[i].id < s[i + 1].id

Apart(s, p) == \A i \in 1..Len(s) - 1 : s[i + 1].at < MaxClock => s[i + 1].at - s[i].at >= p

LineGood(s, n, now, a, p) == Known(s, n, now, a) /\ Rising(s) /\ Apart(s, p)

LineInv == \A r \in Rover : LineGood(Line(r), chunks, clock, age[r], Period[r])

LEMMA GoodStays ==
    ASSUME NEW s \in Seq(Piece), NEW t \in Seq(Piece), SameLine(s, t),
           NEW n \in Nat, NEW n2 \in Nat, n <= n2,
           NEW now \in 0..MaxClock, NEW now2, NEW a \in Nat, NEW a2 \in Nat, NEW p \in Nat,
           \/ now2 = now /\ a2 <= a
           \/ now2 = Least(MaxClock, now + 1) /\ a2 <= a + 1,
           LineGood(t, n, now, a, p)
    PROVE  LineGood(s, n2, now2, a2, p)
<1>1. MaxClock \in Nat /\ now \in Nat /\ now <= MaxClock
  BY TierAssumption
<1>2. Len(s) = Len(t) /\ \A i \in 1..Len(t) : s[i].id = t[i].id /\ s[i].at = t[i].at
  BY DEF SameLine
<1>3. \A i \in 1..Len(t) : t[i].id \in Nat /\ t[i].at \in Nat
  BY PieceType
<1>4. Len(t) \in Nat
  OBVIOUS
<1>5. Known(s, n2, now2, a2)
  <2> SUFFICES ASSUME NEW i \in 1..Len(s)
               PROVE  /\ s[i].id <= n2 /\ s[i].at <= now2
                      /\ now2 < MaxClock => now2 - s[i].at >= a2
    BY DEF Known
  <2> DEFINE id == s[i].id  at == s[i].at
  <2>1. id \in Nat /\ at \in Nat /\ id <= n /\ at <= now /\ (now < MaxClock => now - at >= a)
    BY <1>2, <1>3 DEF LineGood, Known
  <2> HIDE DEF id, at
  <2>2. now2 = now \/ (now2 = now + 1 /\ now < MaxClock /\ a2 <= a + 1) \/ (now2 = MaxClock /\ now = MaxClock)
    BY <1>1 DEF Least
  <2>3. now2 \in Nat /\ now <= now2
    BY <1>1, <2>2
  <2>4. id <= n2 /\ at <= now2
    BY <1>1, <2>1, <2>3
  <2>5. now2 < MaxClock => now2 - at >= a2
    BY <1>1, <2>1, <2>2 DEF Least
  <2> QED BY <2>4, <2>5 DEF id, at
<1>8. ASSUME NEW i \in 1..Len(s) - 1
      PROVE  i \in 1..Len(t) - 1 /\ i \in 1..Len(t) /\ i + 1 \in 1..Len(t)
  BY <1>2, <1>4
<1>6. Rising(s)
  BY <1>2, <1>8 DEF LineGood, Rising
<1>7. Apart(s, p)
  BY <1>2, <1>8 DEF LineGood, Apart
<1> QED BY <1>5, <1>6, <1>7 DEF LineGood

LEMMA GoodGrows ==
    ASSUME NEW t \in Seq(Piece), NEW c \in Chunk,
           NEW n \in Nat, NEW now \in 0..MaxClock, NEW a \in Nat, NEW p \in Nat,
           c.id = n + 1, c.at = now, a >= p,
           LineGood(t, n, now, a, p)
    PROVE  LineGood(Append(t, c), n + 1, now, 0, p)
<1> DEFINE s == Append(t, c)
<1>1. MaxClock \in Nat /\ now \in Nat /\ c \in Piece
  BY TierAssumption DEF Piece
<1>2. /\ Len(t) \in Nat /\ Len(s) = Len(t) + 1 /\ s[Len(t) + 1] = c
      /\ \A i \in 1..Len(t) : s[i] = t[i]
  BY <1>1
<1> HIDE DEF s
<1>3. \A i \in 1..Len(t) : t[i].id \in Nat /\ t[i].at \in Nat
  BY PieceType
<1>4. Known(s, n + 1, now, 0)
  <2> SUFFICES ASSUME NEW i \in 1..Len(s)
               PROVE  /\ s[i].id <= n + 1 /\ s[i].at <= now
                      /\ now < MaxClock => now - s[i].at >= 0
    BY DEF Known
  <2>1. CASE i = Len(t) + 1
    BY <1>1, <1>2, <2>1
  <2>2. CASE i \in 1..Len(t)
    BY <1>1, <1>2, <1>3, <2>2 DEF LineGood, Known
  <2> QED BY <1>2, <2>1, <2>2
<1>5. Rising(s) /\ Apart(s, p)
  <2> SUFFICES ASSUME NEW i \in 1..Len(s) - 1
               PROVE  /\ s[i].id < s[i + 1].id
                      /\ s[i + 1].at < MaxClock => s[i + 1].at - s[i].at >= p
    BY DEF Rising, Apart
  <2>1. CASE i = Len(t)
    BY <1>1, <1>2, <1>3, <2>1 DEF LineGood, Known
  <2>2. CASE i \in 1..Len(t) - 1
    BY <1>2, <2>2 DEF LineGood, Rising, Apart
  <2> QED BY <1>2, <2>1, <2>2
<1> QED BY <1>4, <1>5 DEF LineGood, s

LEMMA GoodEmpty == \A n, now, a, p : LineGood(<<>>, n, now, a, p)
  BY DEF LineGood, Known, Rising, Apart

LEMMA LineType ==
    ASSUME TypeInv, NEW r \in Rover
    PROVE  Line(r) \in Seq(Piece)
<1>1. wire[r] \in Seq(Written) /\ hand[r] \in Seq(Chunk) /\ queue[r] \in Seq(Chunk)
  BY DEF TypeInv
<1> QED BY <1>1, LineElements DEF Line

LEMMA NextLine == Sound /\ Sound' /\ LineInv /\ [Next]_vars => LineInv'
<1> SUFFICES ASSUME Sound, Sound', LineInv, [Next]_vars, NEW r \in Rover
             PROVE  LineGood(Line(r)', chunks', clock', age'[r], Period[r])
  BY DEF LineInv
<1>1. /\ chunks \in Nat /\ chunks' \in Nat /\ clock \in 0..MaxClock
      /\ age[r] \in Nat /\ age'[r] \in Nat /\ Period[r] \in Nat
  BY TierAssumption DEF Sound, TypeInv
<1>2. Line(r) \in Seq(Piece) /\ Line(r)' \in Seq(Piece)
  <2>1. Line(r) \in Seq(Piece)
    BY LineType DEF Sound
  <2>2. wire'[r] \in Seq(Written) /\ hand'[r] \in Seq(Chunk) /\ queue'[r] \in Seq(Chunk)
    BY DEF Sound, TypeInv
  <2> QED BY <2>1, <2>2, LineElements DEF Line
<1>3. LineGood(Line(r), chunks, clock, age[r], Period[r])
  BY DEF LineInv
<1>4. CASE Stays(r)
  BY <1>1, <1>2, <1>3, <1>4, GoodStays DEF Stays
<1>5. CASE Grows(r)
  BY <1>1, <1>2, <1>3, <1>5, GoodGrows DEF Grows, GateOpen
<1>6. CASE Line(r)' = <<>>
  BY <1>6, GoodEmpty
<1> QED BY <1>4, <1>5, <1>6, LineKinds

LEMMA InitLine == Init => LineInv
<1> SUFFICES ASSUME Init, NEW r \in Rover
             PROVE  LineGood(Line(r), chunks, clock, age[r], Period[r])
  BY DEF LineInv
<1>1. Line(r) = <<>>
  BY DEF Init, Line
<1> QED BY <1>1, GoodEmpty

\* On the wire, in the bucket and in the queue the chunks keep the order the
\* source sent them in, and none is there twice.
THEOREM SentInOrder == Spec => []InOrder
<1>1. LineInv => InOrder
  BY DEF LineInv, LineGood, Rising, InOrder, Line
<1> QED BY <1>1, InitSound, NextSound, InitLine, NextLine, PTL DEF Spec

\* The epoch gate holds for what a rover is sent, whatever its queue refused.
THEOREM GateKept == Spec => []EpochsApart
<1>1. LineInv => EpochsApart
  BY DEF LineInv, LineGood, Apart, EpochsApart, Line
<1> QED BY <1>1, InitSound, NextSound, InitLine, NextLine, PTL DEF Spec

-----------------------------------------------------------------------------
(* Sums, as the folds of the model compute them *)

\* There is no induction over data, but a set of numbers has a least member, and
\* so what fails for some finite set fails for one of which it holds of all that
\* are smaller by an element.
LEMMA LeastOf ==
    ASSUME NEW S \in SUBSET Nat, S # {}
    PROVE  \E n \in S : \A m \in S : n <= m
<1> DEFINE R == OpToRel(<, Nat)
<1>1. \A x, y \in Nat : <<x, y>> \in R <=> x < y
  BY DEF OpToRel
<1>2. IsWellFoundedOn(R, Nat)
  BY NatLessThanWellFounded
<1> HIDE DEF R
<1>5. \E x \in S : \A y \in S : ~ (<<y, x>> \in R)
  BY <1>2, WFMin
<1>3. PICK x \in S : \A y \in S : ~ (<<y, x>> \in R)
  BY <1>5
<1>4. ASSUME NEW m \in S PROVE x <= m
  <2>1. x \in Nat /\ m \in Nat /\ ~ (<<m, x>> \in R)
    BY <1>3
  <2>2. ~ (m < x)
    BY <1>1, <2>1
  <2> QED BY <2>1, <2>2
<1> QED BY <1>4

LEMMA LeastSubset ==
    ASSUME NEW S, IsFiniteSet(S), NEW B \in SUBSET SUBSET S, B # {}
    PROVE  \E s \in B : \A x \in s : s \ {x} \notin B
<1> DEFINE N == {Cardinality(s) : s \in B}
<1>1. \A s \in SUBSET S : IsFiniteSet(s) /\ Cardinality(s) \in Nat
  BY FS_Subset, FS_CardinalityType
<1>2. N \in SUBSET Nat /\ N # {}
  BY <1>1
<1>3. PICK n \in N : \A m \in N : n <= m
  BY <1>2, LeastOf
<1>4. PICK s \in B : n = Cardinality(s)
  BY <1>3
<1>5. ASSUME NEW x \in s, s \ {x} \in B
      PROVE  FALSE
  <2>1. IsFiniteSet(s) /\ Cardinality(s) \in Nat
    BY <1>1, <1>4
  <2>2. Cardinality(s \ {x}) = Cardinality(s) - 1
    BY <1>5, <2>1, FS_RemoveElement
  <2>3. Cardinality(s \ {x}) \in N
    BY <1>5
  <2> HIDE DEF N
  <2> QED BY <1>3, <1>4, <2>1, <2>2, <2>3
<1> QED BY <1>4, <1>5

\* How a fold of + over the members of a set adds them up.
Chosen(s) == CHOOSE x \in s : TRUE

Adds(f, S, it) ==
    it = [s \in SUBSET S |-> IF s = {} THEN 0 ELSE f[Chosen(s)] + it[s \ {Chosen(s)}]]

LEMMA ChosenIn == \A s : s # {} => Chosen(s) \in s
  BY Zenon DEF Chosen

LEMMA AddsAt ==
    ASSUME NEW f, NEW S, NEW it, Adds(f, S, it)
    PROVE  \A s \in SUBSET S :
              it[s] = IF s = {} THEN 0 ELSE f[Chosen(s)] + it[s \ {Chosen(s)}]
  BY Zenon DEF Adds

LEMMA AddsNat ==
    ASSUME NEW S, IsFiniteSet(S), NEW f, \A x \in S : f[x] \in Nat, NEW it, Adds(f, S, it)
    PROVE  \A s \in SUBSET S : it[s] \in Nat
<1> DEFINE B == {s \in SUBSET S : it[s] \notin Nat}
<1>1. SUFFICES ASSUME B # {} PROVE FALSE
  OBVIOUS
<1>2. PICK s \in B : \A x \in s : s \ {x} \notin B
  BY <1>1, LeastSubset
<1>7. s \in SUBSET S /\ it[s] = IF s = {} THEN 0 ELSE f[Chosen(s)] + it[s \ {Chosen(s)}]
  BY <1>2, AddsAt
<1>3. s # {}
  BY <1>7
<1>4. Chosen(s) \in s /\ Chosen(s) \in S
  BY <1>3, ChosenIn
<1>5. it[s \ {Chosen(s)}] \in Nat /\ f[Chosen(s)] \in Nat
  BY <1>2, <1>4
<1>6. it[s] = f[Chosen(s)] + it[s \ {Chosen(s)}]
  BY <1>3, <1>7
<1> QED BY <1>5, <1>6

LEMMA AddsExists ==
    ASSUME NEW S, IsFiniteSet(S), NEW f, \A x \in S : f[x] \in Nat
    PROVE  \E it : Adds(f, S, it)
<1> DEFINE Onward(g) == [s \in SUBSET S |-> IF s = {} THEN 0 ELSE f[Chosen(s)] + g[s \ {Chosen(s)}]]
           Upto(g, n) == \A s \in SUBSET S : Cardinality(s) <= n => g[s] = Onward(g)[s]
           B == {n \in Nat : ~ \E g : g = [s \in SUBSET S |-> g[s]] /\ Upto(g, n)}
<1>1. \A s \in SUBSET S : IsFiniteSet(s) /\ Cardinality(s) \in Nat
  BY FS_Subset, FS_CardinalityType
<1>2. B = {}
  <2> SUFFICES ASSUME B # {} PROVE FALSE
    OBVIOUS
  <2>1. PICK n \in B : \A m \in B : n <= m
    <3>1. B \in SUBSET Nat
      OBVIOUS
    <3> HIDE DEF B
    <3> QED BY <3>1, LeastOf
  <2>2. n # 0
    <3> DEFINE g == [s \in SUBSET S |-> 0]
    <3>1. \A s \in SUBSET S : Cardinality(s) <= 0 => s = {}
      BY <1>1, FS_EmptySet
    <3>2. Upto(g, 0)
      BY <3>1
    <3>3. g = [s \in SUBSET S |-> g[s]]
      OBVIOUS
    <3> QED BY <3>2, <3>3
  <2>3. n - 1 \in Nat /\ n - 1 \notin B
    <3>1. n \in Nat
      OBVIOUS
    <3> HIDE DEF B
    <3> QED BY <2>1, <2>2, <3>1
  <2>4. PICK g : g = [s \in SUBSET S |-> g[s]] /\ Upto(g, n - 1)
    BY <2>3
  <2> DEFINE h == Onward(g)
  <2>5. h = [s \in SUBSET S |-> h[s]]
    OBVIOUS
  <2>6. ASSUME NEW s \in SUBSET S, Cardinality(s) <= n
        PROVE  h[s] = Onward(h)[s]
    <3>1. CASE s = {}
      BY <3>1
    <3>2. CASE s # {}
      <4> DEFINE t == s \ {Chosen(s)}
      <4>1. Chosen(s) \in s /\ t \in SUBSET S
        BY <3>2, ChosenIn
      <4>2. Cardinality(t) = Cardinality(s) - 1
        BY <1>1, <4>1, FS_RemoveElement
      <4>3. Cardinality(t) <= n - 1
        BY <1>1, <2>1, <2>6, <4>2
      <4>4. g[t] = h[t]
        BY <2>4, <4>1, <4>3
      <4>5. h[s] = f[Chosen(s)] + g[t] /\ Onward(h)[s] = f[Chosen(s)] + h[t]
        BY <3>2
      <4> QED BY <4>4, <4>5
    <3> QED BY <3>1, <3>2
  <2>7. Upto(h, n)
    BY <2>6
  <2>8. n \notin B
    <3> HIDE DEF Onward, Upto, h
    <3> QED BY <2>5, <2>7
  <2> QED BY <2>1, <2>8
<1>3. Cardinality(S) \in Nat /\ \A s \in SUBSET S : Cardinality(s) <= Cardinality(S)
  BY FS_Subset, FS_CardinalityType
<1>4. PICK g : g = [s \in SUBSET S |-> g[s]] /\ Upto(g, Cardinality(S))
  BY <1>2, <1>3
<1>5. \A s \in SUBSET S : g[s] = Onward(g)[s]
  BY <1>3, <1>4
<1>6. g = Onward(g)
  BY <1>4, <1>5
<1> QED BY <1>6 DEF Adds

LEMMA OneMore == \A m, k \in Nat : (m + 1) * k = m * k + k /\ m * k \in Nat /\ 0 * k = 0
  BY SMT

Shifted(F, G, s, D, k) == G[s] = F[s] + Cardinality(D \cap s) * k

Differ(f, g, T, D, k) == \A x \in T : g[x] = f[x] + (IF x \in D THEN k ELSE 0)

\* Two sums whose terms differ by k at the places in D.
LEMMA AddsShift ==
    ASSUME NEW S, IsFiniteSet(S), NEW T \in SUBSET S,
           NEW f, \A x \in S : f[x] \in Nat, NEW F, Adds(f, S, F),
           NEW g, NEW G, Adds(g, T, G),
           NEW D \in SUBSET S, NEW k \in Nat,
           Differ(f, g, T, D, k),
           NEW s0 \in SUBSET T
    PROVE  Shifted(F, G, s0, D, k)
<1>0. \A s \in SUBSET T : G[s] = IF s = {} THEN 0 ELSE g[Chosen(s)] + G[s \ {Chosen(s)}]
  <2>1. Adds(g, T, G)
    OBVIOUS
  <2> QED BY Zenon, <2>1 DEF Adds
<1>13. \A s \in SUBSET S : F[s] = IF s = {} THEN 0 ELSE f[Chosen(s)] + F[s \ {Chosen(s)}]
  <2>1. Adds(f, S, F)
    OBVIOUS
  <2> QED BY Zenon, <2>1 DEF Adds
<1> DEFINE Right(s) == G[s] = F[s] + Cardinality(D \cap s) * k
           B == {s \in SUBSET T : ~ Right(s)}
<1>1. SUFFICES ASSUME B # {} PROVE FALSE
  BY DEF Shifted
<1>2. IsFiniteSet(T) /\ B \in SUBSET SUBSET T
  BY FS_Subset
<1>3. PICK s \in B : \A x \in s : s \ {x} \notin B
  <2> HIDE DEF B
  <2> QED BY <1>1, <1>2, LeastSubset
<1>4. s \in SUBSET T /\ s \in SUBSET S /\ ~ Right(s)
  BY <1>3
<1>5. s # {}
  <2> SUFFICES ASSUME s = {} PROVE FALSE
    OBVIOUS
  <2>1. F[s] = 0 /\ G[s] = 0
    BY <1>0, <1>4, <1>13
  <2>2. D \cap s = {}
    OBVIOUS
  <2>3. Cardinality(D \cap s) * k = 0
    BY <2>2, FS_EmptySet, OneMore
  <2> QED BY <1>4, <2>1, <2>3
<1> DEFINE x == Chosen(s)
           t == s \ {x}
<1>6. x \in s /\ x \in S /\ x \in T /\ t \in SUBSET T /\ t \in SUBSET S
  BY <1>4, <1>5, ChosenIn
<1>7. Right(t)
  BY <1>3, <1>6
<1>8. F[s] = f[x] + F[t] /\ G[s] = g[x] + G[t]
  <2>1. F[s] = IF s = {} THEN 0 ELSE f[Chosen(s)] + F[s \ {Chosen(s)}]
    BY <1>4, <1>13
  <2>2. G[s] = IF s = {} THEN 0 ELSE g[Chosen(s)] + G[s \ {Chosen(s)}]
    BY <1>0, <1>4
  <2> HIDE DEF Right, B
  <2> QED BY <1>5, <2>1, <2>2
<1>9. f[x] \in Nat /\ F[t] \in Nat /\ g[x] = f[x] + (IF x \in D THEN k ELSE 0)
  BY <1>6, AddsNat DEF Differ
<1>10. IsFiniteSet(D \cap t) /\ Cardinality(D \cap t) \in Nat
  BY <1>6, FS_Subset, FS_CardinalityType
<1>11. CASE x \in D
  <2>1. D \cap s = (D \cap t) \cup {x} /\ x \notin D \cap t
    BY <1>6, <1>11
  <2>2. Cardinality(D \cap s) = Cardinality(D \cap t) + 1
    BY <1>10, <2>1, FS_AddElement
  <2> DEFINE m == Cardinality(D \cap t)
  <2>3. Cardinality(D \cap s) * k = m * k + k /\ m * k \in Nat
    BY <1>10, <2>2, OneMore
  <2> DEFINE p == m * k
             fx == f[x]  ft == F[t]  gx == g[x]  gt == G[t]
  <2>4. G[s] = gx + gt /\ F[s] = fx + ft /\ gx = fx + k /\ gt = ft + p /\ fx \in Nat /\ ft \in Nat /\ p \in Nat
    BY <1>7, <1>8, <1>9, <1>11, <2>3
  <2>5. Cardinality(D \cap s) * k = p + k
    BY <2>3
  <2> HIDE DEF p, fx, ft, gx, gt
  <2>6. gx + gt = (fx + ft) + (p + k)
    BY <2>4
  <2> QED BY <1>4, <2>4, <2>5, <2>6
<1>12. CASE x \notin D
  <2>1. D \cap s = D \cap t
    BY <1>12
  <2> DEFINE p == Cardinality(D \cap t) * k
             fx == f[x]  ft == F[t]  gx == g[x]  gt == G[t]
  <2>2. p \in Nat
    BY <1>10, OneMore
  <2>3. G[s] = gx + gt /\ F[s] = fx + ft /\ gx = fx /\ gt = ft + p /\ fx \in Nat /\ ft \in Nat
    BY <1>7, <1>8, <1>9, <1>12
  <2>4. Cardinality(D \cap s) * k = p
    BY <2>1
  <2> HIDE DEF p, fx, ft, gx, gt
  <2>5. gx + gt = (fx + ft) + p
    BY <2>2, <2>3
  <2> QED BY <1>4, <2>3, <2>4, <2>5
<1> QED BY <1>11, <1>12

Agree(F, G, T) == G[T] = F[T]

LEMMA AddsSame ==
    ASSUME NEW S, IsFiniteSet(S), NEW T \in SUBSET S,
           NEW f, \A x \in S : f[x] \in Nat, NEW F, Adds(f, S, F),
           NEW g, NEW G, Adds(g, T, G), Differ(f, g, T, {}, 0)
    PROVE  Agree(F, G, T)
<1> DEFINE D == {}
           k == 0
<1>1. D \in SUBSET S /\ k \in Nat /\ T \in SUBSET T /\ D \cap T = {}
  OBVIOUS
<1>2. Differ(f, g, T, D, k)
  OBVIOUS
<1>3. Cardinality(D \cap T) * k = 0
  BY <1>1, FS_EmptySet, OneMore
<1>4. F[T] \in Nat
  BY AddsNat
<1> HIDE DEF D, k
<1>5. Shifted(F, G, T, D, k)
  BY <1>1, <1>2, AddsShift
<1> QED BY <1>3, <1>4, <1>5 DEF Shifted, Agree

\* The sum does not depend on the member it takes first.
LEMMA AddsSplit ==
    ASSUME NEW S, IsFiniteSet(S), NEW f, \A x \in S : f[x] \in Nat, NEW F, Adds(f, S, F)
    PROVE  \A s \in SUBSET S : \A y \in s : F[s] = f[y] + F[s \ {y}]
<1> DEFINE B == {s \in SUBSET S : \E y \in s : F[s] # f[y] + F[s \ {y}]}
<1>1. SUFFICES ASSUME B # {} PROVE FALSE
  OBVIOUS
<1>2. PICK s \in B : \A x \in s : s \ {x} \notin B
  BY <1>1, LeastSubset
<1>3. PICK y \in s : F[s] # f[y] + F[s \ {y}]
  BY <1>2
<1> DEFINE x == Chosen(s)
           u == (s \ {x}) \ {y}
<1>4. x \in s /\ x \in S /\ y \in S /\ s \in SUBSET S /\ u \in SUBSET S
  BY <1>2, <1>3, ChosenIn
<1>5. F[s] = f[x] + F[s \ {x}]
  BY <1>3, <1>4, AddsAt
<1>6. x # y
  BY <1>3, <1>5
<1>7. F[s \ {x}] = f[y] + F[u]
  <2>1. y \in s \ {x} /\ s \ {x} \in SUBSET S /\ s \ {x} \notin B
    BY <1>2, <1>4, <1>6
  <2> QED BY <2>1
<1>8. F[s \ {y}] = f[x] + F[u]
  <2>1. x \in s \ {y} /\ s \ {y} \in SUBSET S /\ s \ {y} \notin B /\ (s \ {y}) \ {x} = u
    BY <1>2, <1>3, <1>4, <1>6
  <2> QED BY <2>1
<1>9. f[x] \in Nat /\ f[y] \in Nat /\ F[u] \in Nat
  BY <1>4, AddsNat
<1> DEFINE fx == f[x]  fy == f[y]  fu == F[u]
<1>10. F[s] = fx + (fy + fu) /\ F[s \ {y}] = fx + fu /\ fx \in Nat /\ fy \in Nat /\ fu \in Nat
  BY <1>5, <1>7, <1>8, <1>9
<1>11. F[s] # fy + F[s \ {y}]
  BY <1>3
<1> HIDE DEF fx, fy, fu
<1> QED BY <1>10, <1>11
\* What Bytes adds up, by place.
Lengths(s) == [i \in 1..Len(s) |-> s[i].len]

Measured(s) == \A i \in 1..Len(s) : s[i].len \in Nat

BytesEq(s, it) ==
    it = [p \in SUBSET DOMAIN s |-> IF p = {} THEN 0 ELSE s[Chosen(p)].len + it[p \ {Chosen(p)}]]

LEMMA BytesAdds ==
    ASSUME NEW X, NEW s \in Seq(X), Measured(s)
    PROVE  \E F : Adds(Lengths(s), 1..Len(s), F) /\ Bytes(s) = F[1..Len(s)]
<1>1. DOMAIN s = 1..Len(s) /\ Len(s) \in Nat
  OBVIOUS
<1>2. ASSUME NEW it, BytesEq(s, it) \/ Adds(Lengths(s), 1..Len(s), it)
      PROVE  BytesEq(s, it) /\ Adds(Lengths(s), 1..Len(s), it)
  <2> DEFINE E(p) == IF p = {} THEN 0 ELSE s[Chosen(p)].len + it[p \ {Chosen(p)}]
             G(p) == IF p = {} THEN 0 ELSE Lengths(s)[Chosen(p)] + it[p \ {Chosen(p)}]
  <2>1. ASSUME NEW p \in SUBSET DOMAIN s
        PROVE  E(p) = G(p)
    <3>1. CASE p = {}
      BY <3>1
    <3>2. CASE p # {}
      <4>1. Chosen(p) \in 1..Len(s)
        BY <1>1, <3>2, ChosenIn
      <4>2. Lengths(s)[Chosen(p)] = s[Chosen(p)].len
        BY <4>1 DEF Lengths
      <4> QED BY <4>2
    <3> QED BY <3>1, <3>2
  <2>2. BytesEq(s, it) <=> it = [p \in SUBSET DOMAIN s |-> E(p)]
    BY DEF BytesEq
  <2>3. Adds(Lengths(s), 1..Len(s), it) <=> it = [p \in SUBSET DOMAIN s |-> G(p)]
    BY <1>1 DEF Adds
  <2>4. [p \in SUBSET DOMAIN s |-> E(p)] = [p \in SUBSET DOMAIN s |-> G(p)]
    <3> HIDE DEF E, G
    <3> QED BY <2>1
  <2> HIDE DEF E, G
  <2> QED BY <1>2, <2>2, <2>3, <2>4
<1>3. \E it : Adds(Lengths(s), 1..Len(s), it)
  <2>1. IsFiniteSet(1..Len(s))
    BY <1>1, FS_Interval
  <2>2. \A x \in 1..Len(s) : Lengths(s)[x] \in Nat
    BY DEF Lengths, Measured
  <2> QED BY <2>1, <2>2, AddsExists
<1>4. \E it : BytesEq(s, it)
  BY <1>2, <1>3
<1>5. BytesEq(s, CHOOSE it : BytesEq(s, it))
  BY Zenon, <1>4
<1>6. Bytes(s) = (CHOOSE it : BytesEq(s, it))[DOMAIN s]
  BY Zenon DEF Bytes, FoldSeq, FoldFunction, FoldFunctionOnSet, MapThenFoldSet, BytesEq, Chosen
<1> DEFINE it == CHOOSE it : BytesEq(s, it)
<1>7. BytesEq(s, it) /\ Bytes(s) = it[1..Len(s)]
  BY <1>1, <1>5, <1>6
<1> HIDE DEF it
<1>8. Adds(Lengths(s), 1..Len(s), it)
  BY <1>2, <1>7
<1> QED BY <1>7, <1>8

LEMMA BytesEmpty == Bytes(<<>>) = 0
<1>1. <<>> \in Seq({}) /\ Measured(<<>>) /\ 1..Len(<<>>) = {}
  BY DEF Measured
<1>2. PICK F : Adds(Lengths(<<>>), {}, F) /\ Bytes(<<>>) = F[{}]
  BY <1>1, BytesAdds
<1> QED BY <1>2, AddsAt

LEMMA BytesNat ==
    ASSUME NEW X, NEW s \in Seq(X), Measured(s)
    PROVE  Bytes(s) \in Nat
<1>1. PICK F : Adds(Lengths(s), 1..Len(s), F) /\ Bytes(s) = F[1..Len(s)]
  BY BytesAdds
<1>2. IsFiniteSet(1..Len(s))
  BY FS_Interval
<1>3. \A x \in 1..Len(s) : Lengths(s)[x] \in Nat
  BY DEF Lengths, Measured
<1> QED BY <1>1, <1>2, <1>3, AddsNat

LEMMA BytesAppend ==
    ASSUME NEW X, NEW s \in Seq(X), Measured(s), NEW c \in X, c.len \in Nat
    PROVE  /\ Bytes(Append(s, c)) = Bytes(s) + c.len
           /\ Bytes(s) \in Nat /\ Measured(Append(s, c))
<1> DEFINE t == Append(s, c)
           n == Len(s)
           P == 1..n
           Q == 1..(n + 1)
           f == Lengths(t)
           g == Lengths(s)
<1>1. n \in Nat /\ t \in Seq(X) /\ Len(t) = n + 1 /\ t[n + 1] = c /\ \A i \in 1..n : t[i] = s[i]
  OBVIOUS
<1>2. P \in SUBSET Q /\ Q \ {n + 1} = P /\ n + 1 \in Q
  BY <1>1
<1>3. IsFiniteSet(P) /\ IsFiniteSet(Q)
  BY <1>1, FS_Interval
<1>4. Measured(t)
  <2> SUFFICES ASSUME NEW i \in 1..Len(t) PROVE t[i].len \in Nat
    BY DEF Measured
  <2> HIDE DEF t
  <2>1. CASE i = n + 1
    BY <1>1, <2>1
  <2>2. CASE i \in 1..n
    BY <1>1, <2>2 DEF Measured
  <2> QED BY <1>1, <2>1, <2>2
<1>5. f[n + 1] = c.len /\ (\A x \in Q : f[x] \in Nat) /\ \A x \in P : g[x] = f[x]
  <2> HIDE DEF t
  <2>1. \A x \in Q : f[x] = t[x].len
    BY <1>1 DEF Lengths
  <2>2. \A x \in P : g[x] = s[x].len
    BY <1>1 DEF Lengths
  <2> QED BY <1>1, <1>2, <1>4, <2>1, <2>2 DEF Measured
<1>6. PICK G : Adds(g, P, G) /\ Bytes(s) = G[P]
  BY BytesAdds
<1>7. PICK F : Adds(f, Q, F) /\ Bytes(t) = F[Q]
  BY <1>1, <1>4, BytesAdds
<1> HIDE DEF f, g, t, P, Q
<1>8. F[Q] = f[n + 1] + F[P]
  <2>1. Q \in SUBSET Q
    OBVIOUS
  <2>3. ASSUME NEW y \in Q PROVE F[Q] = f[y] + F[Q \ {y}]
    <3>1. IsFiniteSet(Q) /\ (\A x \in Q : f[x] \in Nat) /\ Adds(f, Q, F)
      BY <1>3, <1>5, <1>7
    <3> QED BY <2>1, <3>1, AddsSplit
  <2>2. F[Q] = f[n + 1] + F[Q \ {n + 1}]
    BY <1>2, <2>3
  <2> QED BY <1>2, <2>2
<1>9. G[P] = F[P]
  <2>1. /\ IsFiniteSet(Q) /\ P \in SUBSET Q /\ (\A x \in Q : f[x] \in Nat)
        /\ Adds(f, Q, F) /\ Adds(g, P, G)
    BY <1>2, <1>3, <1>5, <1>6, <1>7
  <2>2. Differ(f, g, P, {}, 0)
    BY <1>2, <1>5 DEF Differ
  <2>3. Agree(F, G, P)
    BY <2>1, <2>2, AddsSame
  <2> QED BY <2>3 DEF Agree
<1>10. Bytes(s) \in Nat
  BY BytesNat
<1> QED BY <1>4, <1>5, <1>6, <1>7, <1>8, <1>9, <1>10 DEF t

\* The sum of f over S.
SumIs(f, S, v) == \E F : Adds(f, S, F) /\ v = F[S]

LEMMA SumExists ==
    ASSUME NEW S, IsFiniteSet(S), NEW f \in [S -> Nat]
    PROVE  SumIs(f, S, FoldSet(LAMBDA r, sum : f[r] + sum, 0, S))
<1>1. \A x \in S : f[x] \in Nat
  OBVIOUS
<1>2. \E it : Adds(f, S, it)
  BY <1>1, AddsExists
<1> DEFINE F == CHOOSE it : Adds(f, S, it)
<1>3. Adds(f, S, F)
  BY Zenon, <1>2
<1>4. FoldSet(LAMBDA r, sum : f[r] + sum, 0, S) = F[S]
  BY Zenon DEF FoldSet, MapThenFoldSet, Adds, Chosen
<1> HIDE DEF F
<1>5. SumIs(f, S, F[S])
  BY <1>3 DEF SumIs
<1> QED BY Zenon, <1>4, <1>5

LEMMA SumZero ==
    ASSUME NEW S, IsFiniteSet(S), NEW f \in [S -> Nat], \A x \in S : f[x] = 0, NEW v, SumIs(f, S, v)
    PROVE  v = 0
<1> DEFINE Z == [s \in SUBSET S |-> 0]
<1>1. PICK F : Adds(f, S, F) /\ v = F[S]
  BY DEF SumIs
<1>2. Adds(f, S, Z)
  <2> DEFINE E(s) == IF s = {} THEN 0 ELSE f[Chosen(s)] + Z[s \ {Chosen(s)}]
  <2>1. ASSUME NEW s \in SUBSET S PROVE E(s) = 0
    <3>1. CASE s # {}
      <4>1. Chosen(s) \in S /\ s \ {Chosen(s)} \in SUBSET S
        BY <3>1, ChosenIn
      <4>2. f[Chosen(s)] = 0 /\ Z[s \ {Chosen(s)}] = 0
        BY <4>1
      <4> QED BY <4>2
    <3> QED BY <3>1
  <2>2. Z = [s \in SUBSET S |-> E(s)]
    <3> HIDE DEF E
    <3> QED BY <2>1
  <2> HIDE DEF Z
  <2> QED BY <2>2 DEF Adds
<1>3. Z[S] = 0 /\ S \in SUBSET S /\ \A x \in S : f[x] \in Nat
  OBVIOUS
<1> HIDE DEF Z
<1>4. Differ(f, f, S, {}, 0)
  BY <1>3 DEF Differ
<1>5. Agree(F, Z, S)
  BY <1>1, <1>2, <1>3, <1>4, AddsSame
<1> QED BY <1>1, <1>3, <1>5 DEF Agree

\* Moving every member of D by k moves the sum by k for each.
LEMMA SumMoves ==
    ASSUME NEW S, IsFiniteSet(S), NEW f \in [S -> Nat], NEW g,
           NEW D \in SUBSET S, NEW k \in Nat, Differ(f, g, S, D, k),
           NEW v, SumIs(f, S, v), NEW w, SumIs(g, S, w)
    PROVE  w = v + Cardinality(D) * k /\ v \in Nat
<1>1. PICK F : Adds(f, S, F) /\ v = F[S]
  BY DEF SumIs
<1>2. PICK G : Adds(g, S, G) /\ w = G[S]
  BY DEF SumIs
<1>3. S \in SUBSET S /\ (\A x \in S : f[x] \in Nat) /\ D \cap S = D
  OBVIOUS
<1>4. Shifted(F, G, S, D, k)
  BY <1>1, <1>2, <1>3, AddsShift
<1>5. F[S] \in Nat
  BY <1>1, <1>3, AddsNat
<1> QED BY <1>1, <1>2, <1>3, <1>4, <1>5 DEF Shifted

-----------------------------------------------------------------------------
(* The rate *)

LEMMA WrittenType == \A x \in Written : x.len \in Nat /\ x.out \in Nat
<1> SUFFICES ASSUME NEW x \in Written PROVE x.len \in Nat /\ x.out \in Nat
  OBVIOUS
<1>1. x.len \in Lens /\ x.out \in 0..MaxClock
  BY DEF Written
<1>2. x.out \in Nat
  BY <1>1
<1>3. Lens \subseteq Nat
  BY TierAssumption
<1> QED BY <1>1, <1>2, <1>3

LEMMA WrittenMeasured == \A s \in Seq(Written) : Measured(s)
<1> SUFFICES ASSUME NEW s \in Seq(Written), NEW i \in 1..Len(s) PROVE s[i].len \in Nat
  BY DEF Measured
<1>1. s[i] \in Written
  OBVIOUS
<1> QED BY <1>1, TierAssumption DEF Written

\* What was written from the i-th write to the last, with what is in the bucket.
Filled(w, now, room, cap, rate) ==
    \A i \in 1..Len(w) : Bytes(SubSeq(w, i, Len(w))) + room <= cap + rate * (now - w[i].out)

Metered(w, cap, rate) ==
    \A j \in 1..Len(w) : \A i \in 1..j :
       w[j].out < MaxClock => Bytes(SubSeq(w, i, j)) <= cap + rate * (w[j].out - w[i].out)

RateInv ==
    \A r \in Rover :
       Rate[r] > 0 => /\ Metered(wire[r], Capacity(r), Rate[r])
                      /\ clock < MaxClock =>
                            Filled(wire[r], clock, tokens[r], Capacity(r), Rate[r])

\* What a step does to the wire and the bucket of a rover.
Rests(r) == wire'[r] = wire[r] /\ clock' = clock /\ tokens'[r] = tokens[r]
Refills(r) == /\ wire'[r] = wire[r] /\ clock' = Least(MaxClock, clock + 1)
              /\ tokens'[r] <= tokens[r] + Rate[r]
Writes(r) ==
    \E x \in Written : /\ wire'[r] = Append(wire[r], x) /\ x.out = clock /\ clock' = clock
                       /\ Rate[r] > 0 => /\ x.len <= tokens[r]
                                         /\ tokens'[r] = tokens[r] - x.len

LEMMA WroteWrites ==
    ASSUME Sound, NEW r \in Rover, NEW c, Wrote(r, c), clock' = clock
    PROVE  Writes(r)
<1>1. Stamped(c) \in Written /\ Stamped(c).out = clock /\ Stamped(c).len = c.len
  BY DEF Wrote, Stamped
<1>2. wire'[r] = Append(wire[r], Stamped(c))
  BY DEF Wrote, Sound, TypeInv
<1>3. Rate[r] > 0 => c.len <= tokens[r] /\ tokens'[r] = tokens[r] - c.len
  <2> SUFFICES ASSUME Rate[r] > 0 PROVE c.len <= tokens[r] /\ tokens'[r] = tokens[r] - c.len
    OBVIOUS
  <2>1. Rate[r] # 0
    BY TierAssumption
  <2>2. tokens[r] >= c.len /\ c.len \in Nat /\ tokens[r] \in Nat
    BY <2>1, TierAssumption DEF Wrote, Affords, Sound, TypeInv, Chunk
  <2>3. tokens'[r] = tokens[r] - c.len
    BY <2>1 DEF Wrote, Sound, TypeInv
  <2> QED BY <2>2, <2>3
<1> QED BY <1>1, <1>2, <1>3 DEF Writes

LEMMA WireKinds ==
    ASSUME Sound, [Next]_vars, NEW r \in Rover
    PROVE  Rests(r) \/ Refills(r) \/ Writes(r) \/ wire'[r] = <<>>
<1> USE DEF loopVars
<1>1. CASE \/ UNCHANGED vars \/ AttachSource \/ DetachSource
           \/ \E len \in Lens : OnSourceData(len)
           \/ \E p \in Rover : AddRover(p) \/ CloseQueue(p) \/ Drained(p) \/ SendLoopEnds(p)
  <2>1. UNCHANGED <<wire, tokens, clock>>
    BY <1>1 DEF vars, AttachSource, DetachSource, OnSourceData, AddRover, CloseQueue, Drained,
                SendLoopEnds
  <2> QED BY <2>1 DEF Rests
<1>2. ASSUME NEW p \in Rover, NEW c, Wrote(p, c), clock' = clock
      PROVE  Rests(r) \/ Writes(r)
  <2>1. CASE p = r
    BY <1>2, <2>1, WroteWrites
  <2>2. CASE p # r
    BY <1>2, <2>2 DEF Wrote, Rests, Sound, TypeInv
  <2> QED BY <2>1, <2>2
<1>3. ASSUME NEW p \in Rover, Take(p)
      PROVE  Rests(r) \/ Writes(r)
  <2>1. Kept(p, Head(queue[p])) \/ Wrote(p, Head(queue[p]))
    BY <1>3, TakeKinds
  <2>2. clock' = clock
    BY <1>3 DEF Take
  <2>3. CASE Kept(p, Head(queue[p]))
    BY <2>2, <2>3 DEF Kept, Rests
  <2> QED BY <1>2, <2>1, <2>2, <2>3
<1>4. ASSUME NEW p \in Rover, Wakes(p)
      PROVE  Rests(r) \/ Writes(r)
  <2>1. Wrote(p, Head(hand[p]))
    BY <1>4, WakesKind
  <2>2. clock' = clock
    BY <1>4 DEF Wakes
  <2> QED BY <1>2, <2>1, <2>2
<1>5. ASSUME NEW p \in Rover, RemoveRover(p)
      PROVE  Rests(r) \/ wire'[r] = <<>>
  BY <1>5 DEF RemoveRover, Rests, Sound, TypeInv
<1>6. CASE Tick
  <2>1. tokens[r] \in Nat /\ Rate[r] \in Nat /\ Capacity(r) \in Nat
    BY TierAssumption DEF Sound, TypeInv, Capacity
  <2>2. tokens'[r] \in {Refill(r), tokens[r]} /\ wire'[r] = wire[r]
    BY <1>6 DEF Tick
  <2>3. tokens'[r] <= tokens[r] + Rate[r]
    BY <2>1, <2>2 DEF Refill, Least
  <2> QED BY <1>6, <2>2, <2>3 DEF Tick, Refills
<1> QED BY <1>1, <1>3, <1>4, <1>5, <1>6 DEF Next, RoverStep

LEMMA Multiples ==
    \A a \in Nat, b \in Int : a * b \in Int /\ a * (b + 1) = a * b + a /\ a * 0 = 0
  BY SMT

LEMMA TailOfAppend ==
    ASSUME NEW w \in Seq(Written), NEW x \in Written, NEW i \in 1..Len(w)
    PROVE  /\ SubSeq(Append(w, x), i, Len(w) + 1) = Append(SubSeq(w, i, Len(w)), x)
           /\ \A j \in 1..Len(w) : SubSeq(Append(w, x), i, j) = SubSeq(w, i, j)
           /\ \A j \in 1..Len(w) : SubSeq(w, i, j) \in Seq(Written)
  OBVIOUS

LEMMA LastOfAppend ==
    ASSUME NEW w \in Seq(Written), NEW x \in Written
    PROVE  SubSeq(Append(w, x), Len(w) + 1, Len(w) + 1) = <<x>>
<1> DEFINE v == Append(w, x)
           n == Len(w) + 1
           s == SubSeq(v, n, n)
<1>1. v \in Seq(Written) /\ Len(v) = n /\ v[n] = x /\ n \in Nat /\ n >= 1
  OBVIOUS
<1> HIDE DEF v, n
<1>2. s \in Seq(Written) /\ Len(s) = 1 /\ s[1] = v[n]
  BY <1>1
<1> HIDE DEF s
<1>3. s = <<x>>
  BY <1>1, <1>2
<1> QED BY <1>3 DEF s, v, n

LEMMA RateWrites ==
    ASSUME NEW w \in Seq(Written), NEW x \in Written, NEW cap \in Nat, NEW rate \in Nat,
           NEW room \in Nat, room <= cap, x.len <= room,
           Metered(w, cap, rate),
           x.out < MaxClock => Filled(w, x.out, room, cap, rate)
    PROVE  /\ Metered(Append(w, x), cap, rate)
           /\ x.out < MaxClock => Filled(Append(w, x), x.out, room - x.len, cap, rate)
<1> DEFINE v == Append(w, x)
           n == Len(w)
<1>1. n \in Nat /\ v \in Seq(Written) /\ Len(v) = n + 1 /\ v[n + 1] = x /\ \A i \in 1..n : v[i] = w[i]
  OBVIOUS
<1>2. x.len \in Nat /\ x.out \in Nat /\ \A i \in 1..n : w[i].out \in Nat
  <2>1. \A i \in 1..n : w[i] \in Written
    OBVIOUS
  <2> QED BY <2>1, WrittenType
<1>3. ASSUME x.out < MaxClock, NEW i \in 1..(n + 1)
      PROVE  /\ Bytes(SubSeq(v, i, n + 1)) \in Nat
             /\ Bytes(SubSeq(v, i, n + 1)) + (room - x.len) <= cap + rate * (x.out - v[i].out)
  <2>1. CASE i \in 1..n
    <3> DEFINE s == SubSeq(w, i, n)
    <3>1. SubSeq(v, i, n + 1) = Append(s, x) /\ s \in Seq(Written)
      BY <1>1, <2>1, TailOfAppend
    <3> HIDE DEF s
    <3>2. Bytes(Append(s, x)) = Bytes(s) + x.len /\ Bytes(s) \in Nat
      BY <1>2, <3>1, WrittenMeasured, BytesAppend
    <3>3. Bytes(s) + room <= cap + rate * (x.out - w[i].out)
      BY <1>3, <2>1 DEF Filled, s
    <3> DEFINE b == Bytes(s)
               p == rate * (x.out - w[i].out)
    <3>4. p \in Int
      BY <1>2, <2>1, Multiples
    <3>5. b + room <= cap + p /\ b \in Nat /\ Bytes(SubSeq(v, i, n + 1)) = b + x.len /\ v[i] = w[i]
      BY <1>1, <2>1, <3>1, <3>2, <3>3
    <3> HIDE DEF b, v, n
    <3>6. rate * (x.out - v[i].out) = p
      BY <3>5
    <3> HIDE DEF p
    <3> QED BY <1>2, <3>4, <3>5, <3>6
  <2>2. CASE i = n + 1
    <3>1. SubSeq(v, i, n + 1) = Append(<<>>, x) /\ <<>> \in Seq(Written)
      <4>1. SubSeq(v, n + 1, n + 1) = <<x>>
        BY LastOfAppend
      <4>2. <<x>> = Append(<<>>, x) /\ <<>> \in Seq(Written)
        OBVIOUS
      <4> QED BY <1>1, <2>2, <4>1, <4>2
    <3>2. Bytes(Append(<<>>, x)) = Bytes(<<>>) + x.len
      BY <1>2, <3>1, WrittenMeasured, BytesAppend
    <3>3. Bytes(SubSeq(v, i, n + 1)) = x.len
      <4> HIDE DEF v, n
      <4>1. Bytes(SubSeq(v, i, n + 1)) = 0 + x.len
        BY <3>1, <3>2, BytesEmpty
      <4> QED BY <1>2, <4>1
    <3>4. rate * (x.out - v[i].out) = 0
      <4>1. x.out - v[i].out = 0
        BY <1>1, <1>2, <2>2
      <4> QED BY <4>1, Multiples
    <3> HIDE DEF v, n
    <3> QED BY <1>2, <3>3, <3>4
  <2> QED BY <1>1, <2>1, <2>2
<1>4. x.out < MaxClock => Filled(v, x.out, room - x.len, cap, rate)
  <2> HIDE DEF v, n
  <2> QED BY <1>1, <1>3 DEF Filled
<1>5. Metered(v, cap, rate)
  <2> SUFFICES ASSUME NEW j \in 1..(n + 1), NEW i \in 1..j, v[j].out < MaxClock
               PROVE  Bytes(SubSeq(v, i, j)) <= cap + rate * (v[j].out - v[i].out)
    <3> HIDE DEF v, n
    <3> QED BY <1>1 DEF Metered
  <2>1. CASE j \in 1..n
    <3>1. i \in 1..n /\ i \in 1..j
      BY <1>1, <2>1
    <3>2. SubSeq(v, i, j) = SubSeq(w, i, j) /\ v[j] = w[j] /\ v[i] = w[i]
      BY <1>1, <2>1, <3>1, TailOfAppend
    <3> HIDE DEF v
    <3> QED BY <2>1, <3>1, <3>2 DEF Metered
  <2>2. CASE j = n + 1
    <3>1. v[j] = x /\ x.out < MaxClock /\ i \in 1..(n + 1)
      BY <1>1, <2>2
    <3> DEFINE b == Bytes(SubSeq(v, i, n + 1))
               p == rate * (x.out - v[i].out)
    <3>2. b \in Nat /\ b + (room - x.len) <= cap + p
      BY <1>3, <3>1
    <3>3. p \in Int
      <4>1. v[i].out \in Nat
        <5>1. v[i] \in Written
          BY <1>1, <3>1
        <5> QED BY <5>1, WrittenType
      <4> QED BY <1>2, <4>1, Multiples
    <3>4. Bytes(SubSeq(v, i, j)) = b /\ rate * (v[j].out - v[i].out) = p
      BY <2>2, <3>1
    <3> HIDE DEF b, p
    <3> QED BY <1>2, <3>2, <3>3, <3>4
  <2> QED BY <1>1, <2>1, <2>2
<1> QED BY <1>4, <1>5

LEMMA RateTicks ==
    ASSUME NEW w \in Seq(Written), NEW cap \in Nat, NEW rate \in Nat,
           NEW room \in Nat, NEW room2 \in Nat, room2 <= room + rate, NEW now \in Nat,
           Filled(w, now, room, cap, rate)
    PROVE  Filled(w, now + 1, room2, cap, rate)
<1> SUFFICES ASSUME NEW i \in 1..Len(w)
             PROVE  Bytes(SubSeq(w, i, Len(w))) + room2 <= cap + rate * ((now + 1) - w[i].out)
  BY Zenon DEF Filled
<1>1. w[i] \in Written /\ SubSeq(w, i, Len(w)) \in Seq(Written)
  OBVIOUS
<1>2. w[i].out \in Nat
  BY <1>1, TierAssumption DEF Written
<1> DEFINE b == Bytes(SubSeq(w, i, Len(w)))
           d == now - w[i].out
           p == rate * d
<1>3. b \in Nat
  BY <1>1, WrittenMeasured, BytesNat
<1>4. d \in Int /\ (now + 1) - w[i].out = d + 1
  BY <1>2
<1>5. p \in Int /\ rate * ((now + 1) - w[i].out) = p + rate
  <2> HIDE DEF d
  <2> QED BY <1>4, Multiples
<1>6. b + room <= cap + p
  BY DEF Filled
<1> HIDE DEF b, p, d
<1>7. b + room2 <= cap + (p + rate)
  BY <1>3, <1>5, <1>6
<1> QED BY <1>5, <1>7 DEF b

LEMMA InitRate == Init => RateInv
  BY DEF Init, RateInv, Metered, Filled

LEMMA NextRate == Sound /\ Sound' /\ RateInv /\ [Next]_vars => RateInv'
<1> SUFFICES ASSUME Sound, Sound', RateInv, [Next]_vars, NEW r \in Rover, Rate[r] > 0
             PROVE  /\ Metered(wire'[r], Capacity(r), Rate[r])
                    /\ clock' < MaxClock =>
                          Filled(wire'[r], clock', tokens'[r], Capacity(r), Rate[r])
  BY DEF RateInv, Capacity
<1> DEFINE w == wire[r]
           cap == Capacity(r)
           rate == Rate[r]
<1>7. w \in Seq(Written) /\ tokens[r] \in Nat /\ tokens[r] <= cap /\ tokens'[r] \in Nat
  BY DEF Sound, TypeInv
<1>8. cap \in Nat /\ rate \in Nat
  BY TierAssumption DEF Capacity
<1>9. clock \in Nat /\ MaxClock \in Nat /\ clock <= MaxClock
  BY TierAssumption DEF Sound, TypeInv
<1>1. /\ w \in Seq(Written) /\ cap \in Nat /\ rate \in Nat /\ clock \in Nat /\ MaxClock \in Nat
      /\ clock <= MaxClock /\ tokens[r] \in Nat /\ tokens[r] <= cap /\ tokens'[r] \in Nat
  BY <1>7, <1>8, <1>9
<1>2. Metered(w, cap, rate) /\ (clock < MaxClock => Filled(w, clock, tokens[r], cap, rate))
  BY DEF RateInv
<1>3. CASE Rests(r)
  BY <1>2, <1>3 DEF Rests
<1>4. CASE Refills(r)
  <2>1. clock' < MaxClock => clock' = clock + 1 /\ clock < MaxClock
    BY <1>1, <1>4 DEF Refills, Least
  <2>2. wire'[r] = w /\ tokens'[r] <= tokens[r] + rate
    BY <1>4 DEF Refills
  <2> HIDE DEF w, cap, rate
  <2>3. clock' < MaxClock => Filled(w, clock + 1, tokens'[r], cap, rate)
    BY <1>1, <1>2, <2>1, <2>2, RateTicks
  <2> QED BY <1>2, <2>1, <2>2, <2>3 DEF cap, rate
<1>5. CASE Writes(r)
  <2>1. PICK x \in Written : /\ wire'[r] = Append(w, x) /\ x.out = clock /\ clock' = clock
                             /\ x.len <= tokens[r] /\ tokens'[r] = tokens[r] - x.len
    BY <1>5 DEF Writes
  <2> HIDE DEF w, cap, rate
  <2>2. /\ Metered(Append(w, x), cap, rate)
        /\ x.out < MaxClock => Filled(Append(w, x), x.out, tokens[r] - x.len, cap, rate)
    BY <1>1, <1>2, <2>1, RateWrites
  <2> QED BY <2>1, <2>2 DEF cap, rate
<1>6. CASE wire'[r] = <<>>
  BY <1>6 DEF Metered, Filled
<1> QED BY <1>3, <1>4, <1>5, <1>6, WireKinds

\* No rover is written more than its tier's rate allows, over any stretch of a
\* session and in a burst after a pause too.
THEOREM RateKept == Spec => []RateBounded
<1>1. RateInv => RateBounded
  BY DEF RateInv, Metered, RateBounded
<1> QED BY <1>1, InitSound, NextSound, InitRate, NextRate, PTL DEF Spec

-----------------------------------------------------------------------------
(* The statistics *)

\* The wire without the chunk that is being drained, if one is.
Counted(r) == IF loop[r] = "drain" THEN Front(wire[r]) ELSE wire[r]

StatInv ==
    /\ \A r \in Rover : /\ loop[r] # "ended" => sent[r] = Bytes(Counted(r))
                        /\ session[r] = "gone" => loop[r] = "ended"
    /\ SumIs(sent, Rover, hubTx)
    /\ SumIs(dropped, Rover, hubDropped)

LEMMA SumUnique ==
    ASSUME NEW f \in [Rover -> Nat], NEW v, SumIs(f, Rover, v)
    PROVE  v = FoldSet(LAMBDA r, sum : f[r] + sum, 0, Rover)
<1> DEFINE w == FoldSet(LAMBDA r, sum : f[r] + sum, 0, Rover)
           D == {}
           k == 0
<1>1. IsFiniteSet(Rover)
  BY TierAssumption
<1>2. SumIs(f, Rover, w)
  BY <1>1, SumExists
<1>3. D \in SUBSET Rover /\ k \in Nat /\ Differ(f, f, Rover, D, k)
  <2>1. \A x \in Rover : f[x] \in Nat
    OBVIOUS
  <2> QED BY <2>1 DEF Differ
<1>4. Cardinality(D) * k = 0
  BY FS_EmptySet, OneMore
<1> HIDE DEF w, D, k
<1>5. w = v + Cardinality(D) * k /\ v \in Nat
  BY <1>1, <1>2, <1>3, SumMoves
<1>6. w = v + 0
  BY <1>4, <1>5
<1>7. v = w
  BY <1>5, <1>6
<1> QED BY <1>7 DEF w

LEMMA SumFollows ==
    ASSUME NEW f \in [Rover -> Nat], NEW g \in [Rover -> Nat],
           NEW D \in SUBSET Rover, NEW k \in Nat, Differ(f, g, Rover, D, k),
           NEW v, SumIs(f, Rover, v)
    PROVE  SumIs(g, Rover, v + Cardinality(D) * k)
<1> DEFINE w == FoldSet(LAMBDA r, sum : g[r] + sum, 0, Rover)
<1>1. IsFiniteSet(Rover)
  BY TierAssumption
<1>2. SumIs(g, Rover, w)
  BY <1>1, SumExists
<1> HIDE DEF w
<1>3. w = v + Cardinality(D) * k
  BY <1>1, <1>2, SumMoves
<1> QED BY <1>2, <1>3

LEMMA FrontOfAppend ==
    ASSUME NEW w \in Seq(Written), NEW x \in Written
    PROVE  Front(Append(w, x)) = w /\ Last(Append(w, x)) = x
  BY DEF Front, Last

LEMMA BytesFront ==
    ASSUME NEW w \in Seq(Written), w # <<>>
    PROVE  Bytes(w) = Bytes(Front(w)) + Last(w).len /\ Last(w).len \in Nat
<1> DEFINE f == Front(w)
           x == Last(w)
<1>1. f \in Seq(Written) /\ x \in Written /\ w = Append(f, x)
  BY DEF Front, Last
<1>2. x.len \in Nat /\ Measured(f)
  BY <1>1, WrittenType, WrittenMeasured
<1> HIDE DEF f, x
<1>3. Bytes(Append(f, x)) = Bytes(f) + x.len
  BY <1>1, <1>2, BytesAppend
<1> QED BY <1>1, <1>2, <1>3 DEF f, x

LEMMA InitStat == Init => StatInv
<1> SUFFICES ASSUME Init PROVE StatInv
  OBVIOUS
<1>1. \A r \in Rover : sent[r] = Bytes(Counted(r))
  <2>1. \A r \in Rover : Counted(r) = <<>> /\ sent[r] = 0
    BY DEF Init, Counted
  <2> QED BY <2>1, BytesEmpty
<1>2. ASSUME NEW f \in [Rover -> Nat], \A r \in Rover : f[r] = 0
      PROVE  SumIs(f, Rover, 0)
  <2> DEFINE v == FoldSet(LAMBDA r, sum : f[r] + sum, 0, Rover)
  <2>1. SumIs(f, Rover, v)
    BY TierAssumption, SumExists
  <2> HIDE DEF v
  <2>2. v = 0
    BY <1>2, <2>1, TierAssumption, SumZero
  <2> QED BY <2>1, <2>2
<1>3. SumIs(sent, Rover, hubTx) /\ SumIs(dropped, Rover, hubDropped)
  <2>1. /\ sent \in [Rover -> Nat] /\ dropped \in [Rover -> Nat]
        /\ \A r \in Rover : sent[r] = 0 /\ dropped[r] = 0
    BY DEF Init
  <2> QED BY <1>2, <2>1 DEF Init
<1> QED BY <1>1, <1>3 DEF Init, StatInv

\* What the statistics of a rover are about stays as it is, or is a chunk more
\* on the wire that is not counted yet, or nothing any more.
StatStays(r) ==
    /\ sent'[r] = sent[r]
    /\ session'[r] = "gone" => session[r] = "gone" \/ loop'[r] = "ended"
    /\ \/ loop[r] = "ended" /\ loop'[r] = "ended"
       \/ loop'[r] = "ended"
       \/ loop[r] \in {"get", "sleep"} /\ loop'[r] \in {"get", "sleep"} /\ wire'[r] = wire[r]
       \/ loop[r] = "drain" /\ loop'[r] = "drain" /\ wire'[r] = wire[r]
       \/ /\ loop[r] \in {"get", "sleep"} /\ loop'[r] = "drain"
          /\ \E x \in Written : wire'[r] = Append(wire[r], x)

LEMMA StatKept ==
    ASSUME Sound, StatInv, NEW r \in Rover, StatStays(r)
    PROVE  /\ loop'[r] # "ended" => sent'[r] = Bytes(Counted(r)')
           /\ session'[r] = "gone" => loop'[r] = "ended"
<1>1. wire[r] \in Seq(Written)
  BY DEF Sound, TypeInv
<1>2. session'[r] = "gone" => loop'[r] = "ended"
  BY DEF StatStays, StatInv
<1>3. ASSUME loop'[r] # "ended"
      PROVE  Counted(r)' = Counted(r)
  <2>1. CASE \E x \in Written : wire'[r] = Append(wire[r], x) /\ loop[r] \in {"get", "sleep"} /\ loop'[r] = "drain"
    BY <1>1, <2>1, FrontOfAppend DEF Counted
  <2>2. CASE wire'[r] = wire[r] /\ (loop[r] = "drain" <=> loop'[r] = "drain")
    BY <2>2 DEF Counted
  <2> QED BY <1>3, <2>1, <2>2 DEF StatStays
<1> QED BY <1>2, <1>3 DEF StatStays, StatInv

LEMMA LoopStays ==
    ASSUME Sound, NEW r \in Rover,
           session'[r] = session[r], wire'[r] = wire[r], loop'[r] = loop[r], sent'[r] = sent[r]
    PROVE  StatStays(r)
<1>1. loop[r] \in {"get", "sleep", "drain", "ended"}
  BY DEF Sound, TypeInv
<1> QED BY <1>1 DEF StatStays

LEMMA NextStat == Sound /\ Sound' /\ StatInv /\ [Next]_vars => StatInv'
<1> SUFFICES ASSUME Sound, Sound', StatInv, [Next]_vars PROVE StatInv'
  OBVIOUS
<1> USE DEF queueVars, loopVars, statVars
<1> DEFINE Sums == SumIs(sent', Rover, hubTx') /\ SumIs(dropped', Rover, hubDropped')
<1>1. (\A r \in Rover : StatStays(r)) /\ Sums => StatInv'
  BY StatKept DEF StatInv
<1>2. UNCHANGED statVars => Sums
  BY DEF StatInv
<1>3. CASE \/ UNCHANGED vars \/ AttachSource \/ DetachSource \/ Tick
           \/ \E p \in Rover : CloseQueue(p)
  <2>1. UNCHANGED <<session, wire, loop, sent, dropped, hubTx, hubDropped>>
    BY <1>3 DEF vars, AttachSource, DetachSource, Tick, CloseQueue
  <2> QED BY <1>1, <1>2, <2>1, LoopStays
<1>4. ASSUME NEW len \in Lens, OnSourceData(len)
      PROVE  StatInv'
  <2> DEFINE c == [id |-> chunks + 1, len |-> len, at |-> clock]
             lost == {r \in Rover : Offered(r) /\ Full(r, c)}
  <2>1. UNCHANGED <<session, wire, loop, sent, hubTx>> /\ len \in Nat /\ c.len = len
    BY <1>4, TierAssumption DEF OnSourceData
  <2>2. /\ dropped' = [r \in Rover |-> IF r \in lost THEN dropped[r] + len ELSE dropped[r]]
        /\ hubDropped' = hubDropped + Cardinality(lost) * len
        /\ lost \in SUBSET Rover
    BY <1>4 DEF OnSourceData, HubCounts
  <2> HIDE DEF lost
  <2>3. dropped \in [Rover -> Nat] /\ dropped' \in [Rover -> Nat]
    BY DEF Sound, TypeInv
  <2>4. Differ(dropped, dropped', Rover, lost, len)
    BY <2>2, <2>3 DEF Differ
  <2>5. SumIs(dropped', Rover, hubDropped + Cardinality(lost) * len)
    BY <2>1, <2>2, <2>3, <2>4, SumFollows DEF StatInv
  <2>6. Sums
    BY <2>1, <2>2, <2>5 DEF StatInv
  <2> QED BY <1>1, <2>1, <2>6, LoopStays
<1>5. ASSUME NEW p \in Rover, AddRover(p)
      PROVE  StatInv'
  <2>1. UNCHANGED <<wire, loop, sent, dropped, hubTx, hubDropped>>
    BY <1>5 DEF AddRover
  <2>2. \A r \in Rover : session'[r] = "gone" => session[r] = "gone"
    BY <1>5 DEF AddRover, Sound, TypeInv
  <2>3. \A r \in Rover : loop[r] \in {"get", "sleep", "drain", "ended"}
    BY DEF Sound, TypeInv
  <2>4. \A r \in Rover : StatStays(r)
    BY <2>1, <2>2, <2>3 DEF StatStays
  <2> QED BY <1>1, <1>2, <2>1, <2>4
<1>6. ASSUME NEW p \in Rover, Take(p)
      PROVE  StatInv'
  <2>1. UNCHANGED <<session, sent, dropped, hubTx, hubDropped>> /\ loop[p] = "get"
    BY <1>6 DEF Take
  <2>2. Kept(p, Head(queue[p])) \/ Wrote(p, Head(queue[p]))
    BY <1>6, TakeKinds
  <2>3. CASE Kept(p, Head(queue[p]))
    <3>1. loop'[p] = "sleep" /\ wire' = wire /\ \A r \in Rover : r # p => loop'[r] = loop[r]
      BY <2>3 DEF Kept, Sound, TypeInv
    <3>2. StatStays(p)
      BY <2>1, <3>1 DEF StatStays
    <3> QED BY <1>1, <1>2, <2>1, <3>1, <3>2, LoopStays
  <2>4. CASE Wrote(p, Head(queue[p]))
    <3>1. /\ loop'[p] = "drain" /\ Stamped(Head(queue[p])) \in Written
          /\ wire'[p] = Append(wire[p], Stamped(Head(queue[p])))
          /\ \A r \in Rover : r # p => loop'[r] = loop[r] /\ wire'[r] = wire[r]
      BY <2>4 DEF Wrote, Sound, TypeInv
    <3>2. StatStays(p)
      BY <2>1, <3>1 DEF StatStays
    <3> QED BY <1>1, <1>2, <2>1, <3>1, <3>2, LoopStays
  <2> QED BY <2>2, <2>3, <2>4
<1>7. ASSUME NEW p \in Rover, Wakes(p)
      PROVE  StatInv'
  <2>1. UNCHANGED <<session, sent, dropped, hubTx, hubDropped>> /\ loop[p] = "sleep"
    BY <1>7 DEF Wakes
  <2>2. Wrote(p, Head(hand[p]))
    BY <1>7, WakesKind
  <2>3. /\ loop'[p] = "drain" /\ Stamped(Head(hand[p])) \in Written
        /\ wire'[p] = Append(wire[p], Stamped(Head(hand[p])))
        /\ \A r \in Rover : r # p => loop'[r] = loop[r] /\ wire'[r] = wire[r]
    BY <2>2 DEF Wrote, Sound, TypeInv
  <2>4. StatStays(p)
    BY <2>1, <2>3 DEF StatStays
  <2> QED BY <1>1, <1>2, <2>1, <2>3, <2>4, LoopStays
<1>8. ASSUME NEW p \in Rover, Drained(p)
      PROVE  StatInv'
  <2> DEFINE n == Last(wire[p]).len
  <2>1. /\ loop[p] = "drain" /\ UNCHANGED <<session, wire, dropped, hubDropped>>
        /\ sent' = [sent EXCEPT ![p] = @ + n] /\ hubTx' = hubTx + n
        /\ loop' = [loop EXCEPT ![p] = "get"]
    BY <1>8 DEF Drained
  <2>2. wire[p] \in Seq(Written) /\ wire[p] # <<>>
    BY <2>1 DEF Sound, TypeInv, LoopInv
  <2>3. Bytes(wire[p]) = Bytes(Front(wire[p])) + n /\ n \in Nat
    BY <2>2, BytesFront
  <2> HIDE DEF n
  <2>4. sent \in [Rover -> Nat] /\ sent' \in [Rover -> Nat] /\ loop \in [Rover -> {"get", "sleep", "drain", "ended"}]
    BY DEF Sound, TypeInv
  <2>5. sent'[p] = sent[p] + n /\ loop'[p] = "get"
        /\ \A r \in Rover : r # p => sent'[r] = sent[r] /\ loop'[r] = loop[r]
    BY <2>1, <2>4
  <2>6. SumIs(sent', Rover, hubTx')
    <3> DEFINE D == {p}
    <3>1. D \in SUBSET Rover /\ Cardinality(D) = 1
      BY FS_Singleton
    <3>2. Differ(sent, sent', Rover, D, n)
      BY <2>3, <2>4, <2>5 DEF Differ
    <3> HIDE DEF D
    <3>3. SumIs(sent', Rover, hubTx + Cardinality(D) * n)
      BY <2>3, <2>4, <3>1, <3>2, SumFollows DEF StatInv
    <3>4. Cardinality(D) * n = n
      BY <2>3, <3>1
    <3> QED BY <2>1, <3>3, <3>4
  <2>7. sent'[p] = Bytes(Counted(p)') /\ session'[p] # "gone"
    <3>1. sent[p] = Bytes(Front(wire[p]))
      BY <2>1 DEF StatInv, Counted
    <3>2. Counted(p)' = wire[p]
      BY <2>1, <2>5 DEF Counted
    <3>3. session[p] # "gone"
      BY <2>1 DEF StatInv
    <3> QED BY <2>1, <2>3, <2>5, <3>1, <3>2, <3>3
  <2>8. ASSUME NEW r \in Rover, r # p
        PROVE  StatStays(r)
    BY <2>1, <2>5, <2>8, LoopStays
  <2>9. ASSUME NEW r \in Rover
        PROVE  /\ loop'[r] # "ended" => sent'[r] = Bytes(Counted(r)')
               /\ session'[r] = "gone" => loop'[r] = "ended"
    BY <2>7, <2>8, StatKept
  <2> QED BY <2>1, <2>6, <2>9 DEF StatInv
<1>9. ASSUME NEW p \in Rover, SendLoopEnds(p)
      PROVE  StatInv'
  <2>1. /\ UNCHANGED <<session, wire, sent, dropped, hubTx, hubDropped>>
        /\ loop' = [loop EXCEPT ![p] = "ended"]
    BY <1>9 DEF SendLoopEnds
  <2>2. loop'[p] = "ended" /\ \A r \in Rover : r # p => loop'[r] = loop[r]
    BY <2>1 DEF Sound, TypeInv
  <2>3. StatStays(p)
    BY <2>1, <2>2 DEF StatStays
  <2> QED BY <1>1, <1>2, <2>1, <2>2, <2>3, LoopStays
<1>10. ASSUME NEW p \in Rover, RemoveRover(p)
       PROVE  StatInv'
  <2>1. UNCHANGED <<sent, dropped, hubTx, hubDropped>>
    BY <1>10 DEF RemoveRover
  <2>2. /\ loop'[p] = "ended"
        /\ \A r \in Rover : r # p => /\ loop'[r] = loop[r] /\ wire'[r] = wire[r]
                                     /\ session'[r] = session[r]
    BY <1>10 DEF RemoveRover, Sound, TypeInv
  <2>3. StatStays(p)
    BY <2>1, <2>2 DEF StatStays
  <2> QED BY <1>1, <1>2, <2>1, <2>2, <2>3, LoopStays
<1> QED
  BY <1>3, <1>4, <1>5, <1>6, <1>7, <1>8, <1>9, <1>10 DEF Next, RoverStep

\* Every byte a session counts as sent was drained, and the totals of the hub
\* are the sums over all sessions, also those that are gone.
THEOREM StatisticsKept == Spec => []StatisticsAgree
<1>1. Sound /\ StatInv => StatisticsAgree
  <2> SUFFICES ASSUME Sound, StatInv PROVE StatisticsAgree
    OBVIOUS
  <2>1. sent \in [Rover -> Nat] /\ dropped \in [Rover -> Nat]
    BY DEF Sound, TypeInv
  <2>2. hubTx = FoldSet(LAMBDA r, sum : sent[r] + sum, 0, Rover)
    BY <2>1, SumUnique DEF StatInv
  <2>3. hubDropped = FoldSet(LAMBDA r, sum : dropped[r] + sum, 0, Rover)
    BY <2>1, SumUnique DEF StatInv
  <2>4. \A r \in Rover : /\ loop[r] \in {"get", "sleep"} => sent[r] = Bytes(wire[r])
                         /\ loop[r] = "drain" => sent[r] = Bytes(Front(wire[r]))
    BY DEF StatInv, Counted
  <2> QED BY <2>2, <2>3, <2>4 DEF StatisticsAgree
<1> QED BY <1>1, InitSound, NextSound, InitStat, NextStat, PTL DEF Spec

=============================================================================
