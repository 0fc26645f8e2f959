---------------------------- MODULE ByteChannel -----------------------------
(***************************************************************************)
(* What a rover's queue promises to the hub that feeds it and to the send  *)
(* loop that empties it: a first-in first-out channel that never holds     *)
(* more than Max bytes, takes nothing after it is closed, gives out all it *)
(* holds before it reports its end, and keeps a reader who asks waiting    *)
(* neither for what it holds nor for its end.  That a reader asks at all   *)
(* is not part of the promise: between two gets the send loop sleeps.      *)
(***************************************************************************)
EXTENDS Naturals, Sequences

CONSTANTS Chunk, Size, Max

VARIABLES
    chan,   \* the chunks in the channel
    load,   \* their bytes
    open,   \* puts are accepted
    reader  \* "away"; "asking": waits for an answer; "off": told of the end or cancelled

cvars == <<chan, load, open, reader>>

Init == chan = <<>> /\ load = 0 /\ open = TRUE /\ reader = "away"

Put(c) ==
    /\ open /\ load + Size[c] <= Max
    /\ chan' = Append(chan, c)
    /\ load' = load + Size[c]
    /\ UNCHANGED <<open, reader>>

Close == open' = FALSE /\ UNCHANGED <<chan, load, reader>>

Ask == reader = "away" /\ reader' = "asking" /\ UNCHANGED <<chan, load, open>>

\* At once, or in answer to a reader who had to wait.
Take ==
    /\ reader # "off" /\ chan # <<>>
    /\ chan' = Tail(chan)
    /\ load' = load - Size[Head(chan)]
    /\ reader' = "away"
    /\ UNCHANGED open

End ==
    /\ reader # "off" /\ chan = <<>> /\ ~open
    /\ reader' = "off"
    /\ UNCHANGED <<chan, load, open>>

Cancel == reader # "off" /\ reader' = "off" /\ UNCHANGED <<chan, load, open>>

Next == (\E c \in Chunk : Put(c)) \/ Close \/ Ask \/ Take \/ End \/ Cancel

SafetySpec == Init /\ [][Next]_cvars

Asked(answer) == reader = "asking" /\ answer

Spec == SafetySpec /\ WF_cvars(Asked(Take)) /\ WF_cvars(Asked(End))
=============================================================================
