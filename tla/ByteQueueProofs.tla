-------------------------- MODULE ByteQueueProofs ---------------------------
(***************************************************************************)
(* What holds of ByteQueue for every set of chunks and every bound.        *)
(***************************************************************************)
EXTENDS ByteQueue, TLAPS

USE SizeAssumption, MaxAssumption

\* Running totals never fall: chunks have a length.  The queue's total after a
\* get stays non-negative because of it.
Rising(total) == \A i, j \in 0..Len(buf) : i <= j => total[i] <= total[j]

Summed == \E total \in [0..Len(buf) -> 0..Max] : RunningTotal(total) /\ Rising(total)

\* The inductive invariant.
IInv == TypeOK /\ Summed /\ NoLostWakeup /\ DrainedBeforeEnd

LEMMA SummedBytes ==
    ASSUME TypeOK, Summed
    PROVE  /\ BytesAgree
           /\ bytes \in 0..Max
           /\ buf # <<>> => Size[Head(buf)] <= bytes
<1>1. PICK total \in [0..Len(buf) -> 0..Max] : RunningTotal(total) /\ Rising(total)
  BY DEF Summed
<1>2. BytesAgree
  BY <1>1 DEF BytesAgree
<1>3. Len(buf) \in Nat
  BY DEF TypeOK
<1>4. bytes \in 0..Max
  BY <1>1, <1>3 DEF RunningTotal
<1>5. ASSUME buf # <<>> PROVE Size[Head(buf)] <= bytes
  <2>1. Len(buf) \in Nat \ {0} /\ Head(buf) = buf[1] /\ buf[1] \in Chunk
    BY <1>5 DEF TypeOK
  <2>2. total[1] = total[0] + Size[buf[1]]
    BY <1>1, <2>1 DEF RunningTotal
  <2>3. total[1] <= total[Len(buf)]
    BY <1>1, <2>1 DEF Rising
  <2> QED BY <1>1, <2>1, <2>2, <2>3 DEF RunningTotal
<1> QED BY <1>2, <1>4, <1>5

LEMMA SummedPut ==
    ASSUME TypeOK, Summed, NEW c \in Chunk, Fits(c),
           buf' = Append(buf, c), bytes' = bytes + Size[c]
    PROVE  Summed'
<1>1. PICK total \in [0..Len(buf) -> 0..Max] : RunningTotal(total) /\ Rising(total)
  BY DEF Summed
<1> DEFINE n == Len(buf)
           next == [i \in 0..(n + 1) |-> IF i <= n THEN total[i] ELSE bytes + Size[c]]
<1>2. n \in Nat /\ Len(buf') = n + 1 /\ Size[c] \in Nat \ {0} /\ bytes \in Nat
  BY DEF TypeOK
<1>3. bytes + Size[c] \in 0..Max
  BY <1>2 DEF Fits
<1>4. next \in [0..Len(buf') -> 0..Max]
  BY <1>1, <1>2, <1>3
<1>5. /\ next[0] = 0
      /\ next[n + 1] = bytes'
      /\ \A i \in 1..(n + 1) : next[i] = next[i - 1] + Size[buf'[i]]
  <2>1. \A i \in 1..n : buf'[i] = buf[i]
    BY DEF TypeOK
  <2>2. buf'[n + 1] = c
    BY DEF TypeOK
  <2>3. next[0] = 0 /\ next[n + 1] = bytes'
    BY <1>1, <1>2 DEF RunningTotal
  <2>4. ASSUME NEW i \in 1..n PROVE next[i] = next[i - 1] + Size[buf'[i]]
    BY <1>1, <1>2, <2>1, <2>4 DEF RunningTotal
  <2>5. next[n + 1] = next[n] + Size[buf'[n + 1]]
    BY <1>1, <1>2, <2>2 DEF RunningTotal
  <2>6. ASSUME NEW i \in 1..(n + 1) PROVE next[i] = next[i - 1] + Size[buf'[i]]
    <3>1. i \in 1..n \/ i = n + 1
      BY <1>2
    <3>2. i = n + 1 => i - 1 = n
      BY <1>2
    <3> HIDE DEF next
    <3> QED BY <2>4, <2>5, <3>1, <3>2
  <2> HIDE DEF next
  <2> QED BY <2>3, <2>6
<1>6. \A i, j \in 0..(n + 1) : i <= j => next[i] <= next[j]
  <2>1. \A i \in 0..n : total[i] <= bytes
    BY <1>1, <1>2 DEF Rising, RunningTotal
  <2> QED BY <1>1, <1>2, <1>3, <2>1 DEF Rising
<1>7. PICK t : t = next
  OBVIOUS
<1> HIDE DEF next
<1>8. RunningTotal(t)' /\ Rising(t)'
  BY <1>2, <1>5, <1>6, <1>7 DEF RunningTotal, Rising
<1>9. t \in [0..Len(buf') -> 0..Max]
  BY <1>4, <1>7
<1> QED BY <1>8, <1>9 DEF Summed

LEMMA SummedGet ==
    ASSUME TypeOK, Summed, buf # <<>>,
           buf' = Tail(buf), bytes' = bytes - Size[Head(buf)]
    PROVE  Summed'
<1>1. PICK total \in [0..Len(buf) -> 0..Max] : RunningTotal(total) /\ Rising(total)
  BY DEF Summed
<1> DEFINE n == Len(buf)
           h == Size[Head(buf)]
           next == [i \in 0..(n - 1) |-> total[i + 1] - h]
<1>2. /\ n \in Nat \ {0} /\ Len(buf') = n - 1
      /\ Head(buf) = buf[1] /\ buf[1] \in Chunk
      /\ \A i \in 1..(n - 1) : buf'[i] = buf[i + 1]
  BY DEF TypeOK
<1>3. h \in Nat \ {0} /\ total[1] = h
  BY <1>1, <1>2 DEF RunningTotal
<1>4. \A i \in 1..n : h <= total[i] /\ total[i] \in 0..Max
  BY <1>1, <1>2, <1>3 DEF Rising
<1>5. next \in [0..Len(buf') -> 0..Max]
  BY <1>2, <1>3, <1>4
<1>6. /\ next[0] = 0
      /\ next[n - 1] = bytes'
      /\ \A i \in 1..(n - 1) : next[i] = next[i - 1] + Size[buf'[i]]
  <2>1. next[0] = 0
    BY <1>2, <1>3
  <2>2. next[n - 1] = bytes'
    BY <1>1, <1>2 DEF RunningTotal
  <2>3. ASSUME NEW i \in 1..(n - 1) PROVE next[i] = next[i - 1] + Size[buf'[i]]
    <3>1. i + 1 \in 1..n /\ i \in 1..n /\ i \in 0..(n - 1) /\ i - 1 \in 0..(n - 1)
      BY <1>2
    <3>2. total[i + 1] = total[(i + 1) - 1] + Size[buf[i + 1]]
      BY <1>1, <3>1 DEF RunningTotal
    <3>3. (i + 1) - 1 = i /\ (i - 1) + 1 = i
      BY <3>1
    <3>4. next[i] = total[i + 1] - h /\ next[i - 1] = total[i] - h
      BY <3>1, <3>3
    <3>5. buf'[i] = buf[i + 1] /\ Size[buf[i + 1]] \in Nat
      BY <1>2, <3>1 DEF TypeOK
    <3> HIDE DEF next, h
    <3> QED BY <1>3, <1>4, <3>1, <3>2, <3>3, <3>4, <3>5
  <2> HIDE DEF next
  <2> QED BY <2>1, <2>2, <2>3
<1>7. \A i, j \in 0..(n - 1) : i <= j => next[i] <= next[j]
  BY <1>1, <1>2, <1>3, <1>4 DEF Rising
<1>8. PICK t : t = next
  OBVIOUS
<1> HIDE DEF next
<1>9. RunningTotal(t)' /\ Rising(t)'
  BY <1>2, <1>6, <1>7, <1>8 DEF RunningTotal, Rising
<1>10. t \in [0..Len(buf') -> 0..Max]
  BY <1>5, <1>8
<1> QED BY <1>9, <1>10 DEF Summed

-----------------------------------------------------------------------------
(* Invariants of the specification *)

LEMMA InitIInv == Init => IInv
<1> SUFFICES ASSUME Init PROVE IInv
  OBVIOUS
<1>1. TypeOK /\ NoLostWakeup /\ DrainedBeforeEnd
  <2>1. TypeOK
    <3>1. buf \in Seq(Chunk) /\ bytes \in Nat /\ notifies \in Nat /\ getter \in GetterStates
      BY DEF Init, GetterStates
    <3>2. closed \in BOOLEAN
      BY DEF Init
    <3> QED BY <3>1, <3>2 DEF TypeOK
  <2>2. NoLostWakeup /\ DrainedBeforeEnd
    BY DEF Init, NoLostWakeup, DrainedBeforeEnd
  <2> QED BY <2>1, <2>2
<1>2. PICK t : t = [i \in 0..0 |-> 0]
  OBVIOUS
<1>3. t \in [0..Len(buf) -> 0..Max] /\ RunningTotal(t) /\ Rising(t)
  BY <1>2 DEF Init, RunningTotal, Rising
<1> QED BY <1>1, <1>3 DEF IInv, Summed

LEMMA StepIInv == IInv /\ [Next]_vars => IInv'
<1> SUFFICES ASSUME IInv, [Next]_vars PROVE IInv'
  OBVIOUS
<1> USE DEF IInv
<1>1. ASSUME NEW c \in Chunk, PutNowait(c) PROVE IInv'
  <2>1. Summed'
    BY <1>1, SummedPut DEF PutNowait
  <2>2. TypeOK'
    BY <1>1 DEF PutNowait, Notified, TypeOK
  <2>3. NoLostWakeup'
    <3>1. notifies' > 0
      BY <1>1 DEF PutNowait, Notified, TypeOK
    <3> QED BY <3>1 DEF NoLostWakeup
  <2>4. DrainedBeforeEnd'
    BY <1>1 DEF PutNowait, DrainedBeforeEnd
  <2> QED BY <2>1, <2>2, <2>3, <2>4
<1>2. ASSUME UNCHANGED <<buf, bytes>> PROVE Summed'
  BY <1>2 DEF Summed, RunningTotal, Rising
<1>3. CASE Close
  <2>1. Summed'
    BY <1>2, <1>3 DEF Close
  <2>2. TypeOK'
    BY <1>3 DEF Close, Notified, TypeOK
  <2>3. NoLostWakeup' /\ DrainedBeforeEnd'
    BY <1>3 DEF Close, Notified, TypeOK, NoLostWakeup, DrainedBeforeEnd
  <2> QED BY <2>1, <2>2, <2>3
<1>4. CASE Notify
  <2>1. Summed'
    BY <1>2, <1>4 DEF Notify
  <2>2. TypeOK'
    BY <1>4 DEF Notify, TypeOK, GetterStates
  <2>3. NoLostWakeup' /\ DrainedBeforeEnd'
    BY <1>4 DEF Notify, NoLostWakeup, DrainedBeforeEnd
  <2> QED BY <2>1, <2>2, <2>3
<1>5. CASE GetChunk
  <2>1. Summed'
    BY <1>5, SummedGet DEF GetChunk, Uncounted
  <2>2. bytes - Size[Head(buf)] \in Nat
    <3>1. Size[Head(buf)] <= bytes
      BY <1>5, SummedBytes DEF GetChunk
    <3>2. Size[Head(buf)] \in Nat
      BY <1>5 DEF GetChunk, TypeOK
    <3> QED BY <3>1, <3>2 DEF TypeOK
  <2>3. TypeOK'
    BY <1>5, <2>2 DEF GetChunk, Uncounted, TypeOK, GetterStates
  <2>4. NoLostWakeup' /\ DrainedBeforeEnd'
    BY <1>5 DEF GetChunk, Evaluates, NoLostWakeup, DrainedBeforeEnd
  <2> QED BY <2>1, <2>3, <2>4
<1>6. CASE GetEnd
  <2>1. Summed'
    BY <1>2, <1>6 DEF GetEnd
  <2>2. TypeOK' /\ NoLostWakeup' /\ DrainedBeforeEnd'
    BY <1>6 DEF GetEnd, TypeOK, GetterStates, NoLostWakeup, DrainedBeforeEnd
  <2> QED BY <2>1, <2>2
<1>7. CASE GetWaits
  <2>1. Summed'
    BY <1>2, <1>7 DEF GetWaits
  <2>2. TypeOK' /\ NoLostWakeup' /\ DrainedBeforeEnd'
    BY <1>7 DEF GetWaits, TypeOK, GetterStates, NoLostWakeup, DrainedBeforeEnd
  <2> QED BY <2>1, <2>2
<1>8. CASE Cancel
  <2>1. Summed'
    BY <1>2, <1>8 DEF Cancel
  <2>2. TypeOK' /\ NoLostWakeup' /\ DrainedBeforeEnd'
    BY <1>8 DEF Cancel, TypeOK, GetterStates, NoLostWakeup, DrainedBeforeEnd
  <2> QED BY <2>1, <2>2
<1>9. CASE UNCHANGED vars
  BY <1>2, <1>9 DEF vars, TypeOK, NoLostWakeup, DrainedBeforeEnd
<1> QED BY <1>1, <1>3, <1>4, <1>5, <1>6, <1>7, <1>8, <1>9 DEF Next, Get

LEMMA Invariance == Spec => []IInv
BY InitIInv, StepIInv, PTL DEF Spec

\* The queue keeps its type: in particular _bytes never falls below zero.
THEOREM TypeCorrect == Spec => []TypeOK
BY Invariance, PTL DEF IInv

\* _bytes is what is queued and stays within max_queue_bytes, for every set of
\* chunk lengths and every limit.
THEOREM BytesCorrect == Spec => []BytesAgree
<1>1. IInv => BytesAgree
  BY SummedBytes DEF IInv
<1> QED BY <1>1, Invariance, PTL

\* A send loop is never left asleep beside a chunk or a close.
THEOREM WakeupCorrect == Spec => []NoLostWakeup
BY Invariance, PTL DEF IInv

\* get reports the end only of a closed and empty queue, and that is final.
THEOREM DrainCorrect == Spec => []DrainedBeforeEnd
BY Invariance, PTL DEF IInv

-----------------------------------------------------------------------------
(* Refinement *)

LEMMA ChannelStep == IInv /\ [Next]_vars => [Channel!Next]_(Channel!cvars)
<1> SUFFICES ASSUME IInv, [Next]_vars PROVE Channel!Next \/ UNCHANGED Channel!cvars
  OBVIOUS
<1> USE DEF Channel!cvars, Reader
<1>1. ASSUME NEW c \in Chunk, PutNowait(c) PROVE Channel!Put(c)
  BY <1>1 DEF PutNowait, Fits, Channel!Put
<1>2. ASSUME Close PROVE Channel!Close
  BY <1>2 DEF Close, Channel!Close
<1>3. ASSUME Notify PROVE UNCHANGED Channel!cvars
  BY <1>3 DEF Notify
<1>4. ASSUME GetChunk PROVE Channel!Take
  BY <1>4 DEF GetChunk, Evaluates, Uncounted, Channel!Take
<1>5. ASSUME GetEnd PROVE Channel!End
  BY <1>5 DEF GetEnd, Evaluates, Channel!End
<1>6. ASSUME GetWaits PROVE Channel!Ask \/ UNCHANGED Channel!cvars
  <2>1. CASE getter = "idle"
    BY <1>6, <2>1 DEF GetWaits, Channel!Ask
  <2>2. CASE getter = "woken"
    BY <1>6, <2>2 DEF GetWaits
  <2> QED BY <1>6, <2>1, <2>2 DEF GetWaits, Evaluates
<1>7. ASSUME Cancel PROVE Channel!Cancel
  BY <1>7 DEF Cancel, Channel!Cancel
<1>8. ASSUME UNCHANGED vars PROVE UNCHANGED Channel!cvars
  BY <1>8 DEF vars
<1> QED BY <1>1, <1>2, <1>3, <1>4, <1>5, <1>6, <1>7, <1>8 DEF Next, Get, Channel!Next

\* Step by step the queue is the channel of ByteChannel; that it also keeps
\* the channel's fairness is checked by TLC.
THEOREM ChannelRefined == Spec => ImplementsChannelSafely
<1>1. Init => Channel!Init
  BY DEF Init, Channel!Init, Reader
<1> QED BY <1>1, ChannelStep, Invariance, PTL DEF Spec, ImplementsChannelSafely, Channel!SafetySpec
=============================================================================
