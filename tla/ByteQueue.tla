----------------------------- MODULE ByteQueue ------------------------------
(***************************************************************************)
(* ByteQueue, the bounded queue between a hub and the send loop of one     *)
(* rover.  put_nowait and close are plain functions called from any task:  *)
(* they cannot take the Condition's lock, so each leaves a task behind     *)
(* that will notify later.  get is the send loop's.                        *)
(*                                                                         *)
(* There is one getter, so notify(1) and notify_all do the same.           *)
(***************************************************************************)
EXTENDS Integers, Sequences

CONSTANTS
    Chunk,        \* what the hub enqueues
    Size,         \* its length, never 0: on_source_data returns on an empty chunk
    Max,          \* max_queue_bytes of the tier, or 262144 where that is 0
    MaxNotifies   \* bound: notification tasks not yet run

ASSUME SizeAssumption == Size \in [Chunk -> Nat \ {0}]
ASSUME MaxAssumption == Max \in Nat \ {0} /\ MaxNotifies \in Nat

VARIABLES
    buf,       \* _buf
    bytes,     \* _bytes
    closed,    \* _closed
    notifies,  \* tasks created by put_nowait and close that have not run
    getter     \* where the send loop stands in get()

vars == <<buf, bytes, closed, notifies, getter>>

\* "idle": not in get; "waiting": in the Condition's list of waiters;
\* "woken": its future is set, the task has not run; "ended": get returned None;
\* "cancelled": the handler cancelled the send task.
GetterStates == {"idle", "waiting", "woken", "ended", "cancelled"}

TypeOK ==
    /\ buf \in Seq(Chunk)
    /\ bytes \in Nat
    /\ closed \in BOOLEAN
    /\ notifies \in Nat
    /\ getter \in GetterStates

Init ==
    /\ buf = <<>>
    /\ bytes = 0
    /\ closed = FALSE
    /\ notifies = 0
    /\ getter = "idle"

-----------------------------------------------------------------------------
(* The hub's side *)

Notified_Never == notifies < MaxNotifies /\ notifies' = notifies
Notified == notifies < MaxNotifies /\ notifies' = notifies + 1

Fits(c) == Size[c] <= Max /\ bytes + Size[c] <= Max

\* Anything else raises ByteQueueFull and changes nothing.
PutNowait(c) ==
    /\ ~closed /\ Fits(c)
    /\ buf' = Append(buf, c)
    /\ bytes' = bytes + Size[c]
    /\ Notified
    /\ UNCHANGED <<closed, getter>>

\* Called by detach_source, by a kick and by the handler itself.
Close_Silent ==
    /\ closed' = TRUE
    /\ notifies < MaxNotifies
    /\ UNCHANGED <<buf, bytes, notifies, getter>>

Close ==
    /\ closed' = TRUE
    /\ Notified
    /\ UNCHANGED <<buf, bytes, getter>>

\* A task left by put_nowait or close gets the Condition and notifies.
Notify ==
    /\ notifies > 0
    /\ notifies' = notifies - 1
    /\ getter' = IF getter = "waiting" THEN "woken" ELSE getter
    /\ UNCHANGED <<buf, bytes, closed>>

-----------------------------------------------------------------------------
(* The send loop's side *)

\* get() evaluates its condition: on entry, or when the wait returned.
Evaluates == getter \in {"idle", "woken"}

Uncounted_Keeps == bytes
Uncounted_Twice == bytes - 2 * Size[Head(buf)]
Uncounted == bytes - Size[Head(buf)]

GetChunk ==
    /\ Evaluates /\ buf # <<>>
    /\ buf' = Tail(buf)
    /\ bytes' = Uncounted
    /\ getter' = "idle"
    /\ UNCHANGED <<closed, notifies>>

GetEnd_AtClose ==
    /\ Evaluates /\ closed
    /\ getter' = "ended"
    /\ UNCHANGED <<buf, bytes, closed, notifies>>

GetEnd ==
    /\ Evaluates /\ buf = <<>> /\ closed
    /\ getter' = "ended"
    /\ UNCHANGED <<buf, bytes, closed, notifies>>

GetWaits ==
    /\ Evaluates /\ buf = <<>> /\ ~closed
    /\ getter' = "waiting"
    /\ UNCHANGED <<buf, bytes, closed, notifies>>

Get == GetChunk \/ GetEnd \/ GetWaits

\* The read loop returned first: the handler cancels the send task.
Cancel ==
    /\ getter \in {"idle", "waiting", "woken"}
    /\ getter' = "cancelled"
    /\ UNCHANGED <<buf, bytes, closed, notifies>>

Next ==
    \/ \E c \in Chunk : PutNowait(c)
    \/ Close
    \/ Notify
    \/ Get
    \/ Cancel

\* The send loop's task runs on after its future was set.
WokenGets == getter = "woken" /\ Get

\* The event loop runs every task that is ready: those that notify, and a getter
\* woken up.  Nothing makes an idle getter ask again: the send loop may sleep in
\* the token bucket or wait in drain for ever.
Spec == Init /\ [][Next]_vars /\ WF_vars(Notify) /\ WF_vars(WokenGets)

-----------------------------------------------------------------------------
(* Properties *)

\* _bytes is the sum of the lengths queued, and never more than the tier
\* allows: total[i] is the length of the first i chunks.
RunningTotal(total) ==
    /\ total[0] = 0
    /\ total[Len(buf)] = bytes
    /\ \A i \in 1..Len(buf) : total[i] = total[i - 1] + Size[buf[i]]
BytesAgree == \E total \in [0..Len(buf) -> 0..Max] : RunningTotal(total)

\* No lost wake-up: a send loop asleep beside a chunk or a close has a
\* notification on its way, although notifying is left to another task.
NoLostWakeup == getter = "waiting" /\ (buf # <<>> \/ closed) => notifies > 0

\* The send loop hears of the end only after everything queued was taken, and
\* nothing can be queued behind its back afterwards.
DrainedBeforeEnd == getter = "ended" => closed /\ buf = <<>>

\* To its users the queue is the channel of ByteChannel: in order, bounded,
\* closed for good, drained before its end; and a send loop that waits in get
\* gets its chunk or hears of the end.
Reader ==
    CASE getter = "idle" -> "away"
      [] getter \in {"waiting", "woken"} -> "asking"
      [] getter \in {"ended", "cancelled"} -> "off"
Channel == INSTANCE ByteChannel WITH
    chan <- buf, load <- bytes, open <- ~closed, reader <- Reader
ImplementsChannel == Channel!Spec
ImplementsChannelSafely == Channel!SafetySpec
=============================================================================
