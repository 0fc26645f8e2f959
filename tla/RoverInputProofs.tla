-------------------------- MODULE RoverInputProofs --------------------------
(***************************************************************************)
(* Proofs about RoverInput, for any sessions that share devices in any     *)
(* way, any scripts, and any bounds, with Redis and in memory.             *)
(***************************************************************************)
EXTENDS RoverInput, TLAPS

-----------------------------------------------------------------------------
(* Types *)

UpField == {"pos", "dop", "sky"}
RowType == [stamp : Stamp, ts : Nat]
StepType == {"read", "ended", "get", "set", "expire", "xadd"}

IsUpsert(u) ==
    /\ u = [field |-> u.field, stamp |-> u.stamp, ts |-> u.ts, cur |-> u.cur]
    /\ u.field \in UpField /\ u.stamp \in Stamp /\ u.ts \in Nat /\ IsDoc(u.cur)

TypeInv ==
    /\ redis \in BOOLEAN /\ now \in 0..MaxTime
    /\ script \in [Session -> Scripts]
    /\ pos \in [Session -> Nat] /\ heard \in [Session -> SUBSET Nat]
    /\ pending \in [Session -> Seq(Nat)] /\ sky \in [Session -> Seq(Nat)]
    /\ total \in [Session -> Nat]
    /\ step \in [Session -> StepType]
    /\ up = [s \in Session |-> up[s]]
    /\ doc = [d \in Device |-> doc[d]] /\ newest = [d \in Device |-> newest[d]]
    /\ rows \in [Device -> Seq(RowType)]
    /\ timed \in SUBSET Device /\ torn \in SUBSET Device /\ unrecorded \in SUBSET Device

-----------------------------------------------------------------------------
(* The read loop of a session *)

\* What the loop keeps refers to lines it heard.
Heard(s) ==
    /\ pos[s] <= Len(script[s]) /\ heard[s] \subseteq 1..pos[s]
    /\ pending[s] \in Seq(heard[s]) /\ sky[s] \in Seq(heard[s])

\* The lines from last - k + 1 to last are the first k of a group of n.
Opening(sc, last, k, n) ==
    \A i \in 1..k : sc[last - k + i] = [kind |-> "GSV", total |-> n, num |-> i]

Exactly(last, k) == [i \in 1..k |-> last - k + i]

\* As much of a group as was just heard is what is pending.
Gathered(s) ==
    \A k, n \in Nat :
       (/\ 1 <= k /\ (pos[s] - k + 1)..pos[s] \subseteq heard[s]
        /\ Opening(script[s], pos[s], k, n))
          => pending[s] = Exactly(pos[s], k) /\ total[s] = n

\* The sky was computed at a line that was heard, and from its group if all of
\* that was heard.
Shown(s) ==
    sky[s] # <<>> =>
       LET last == sky[s][Len(sky[s])]
           n    == script[s][last].total
       IN  /\ last \in 1..pos[s]
           /\ (last - n + 1)..last \subseteq heard[s] /\ Opening(script[s], last, n, n)
                 => sky[s] = Exactly(last, n)

LoopInv == \A s \in Session : Heard(s) /\ Gathered(s) /\ Shown(s)

-----------------------------------------------------------------------------
(* The shadow store *)

\* An upsert under way is about the line its session sent last.
UpOf(s) ==
    step[s] \in UpsertSteps =>
       /\ redis /\ IsUpsert(up[s]) /\ up[s].ts <= now
       /\ up[s].stamp = [from |-> s, line |-> pos[s]]

UpInv == \A s \in Session : UpOf(s)

DocOf(d) ==
    /\ IsDoc(doc[d]) /\ IsDoc(newest[d])
    /\ ~redis => Len(rows[d]) <= MaxHistory

DocInv == \A d \in Device : DocOf(d)

Early(s, d) == DeviceOf[s] = d /\ step[s] \in {"get", "set"}

\* Where nothing was torn: one upsert at most has read or will read what it is
\* going to replace, and it knows what is newest; when there is none, the shadow
\* is the newest.
Settled(d) ==
    /\ \A s, t \in Session : Early(s, d) /\ Early(t, d) => s = t
    /\ \A s \in Session : DeviceOf[s] = d =>
          /\ step[s] = "get" => newest[d] = Put(doc[d], up[s].field, up[s].stamp)
          /\ step[s] = "set" => newest[d] = up[s].cur
    /\ (\A s \in Session : ~Early(s, d)) => doc[d] = newest[d]
    /\ redis /\ DOMAIN doc[d] # {} =>
          d \in timed \/ \E s \in Session : DeviceOf[s] = d /\ step[s] = "expire"

StoreInv == \A d \in Device \ torn : Settled(d)

PosUp(s, d) == DeviceOf[s] = d /\ step[s] \in UpsertSteps /\ up[s].field = "pos"

\* The upsert under way is of the newest position of the device.
Recording(s, d) ==
    PosUp(s, d) /\ "pos" \in DOMAIN newest[d] /\ up[s].stamp = newest[d].pos

NotAfter(h, ts) == h # <<>> => h[Len(h)].ts <= ts

\* The newest position has its row, and no upsert under way can add one behind.
Ending(d) ==
    /\ rows[d] # <<>> /\ rows[d][Len(rows[d])].stamp = newest[d].pos
    /\ \A t \in Session : PosUp(t, d) => up[t].ts <= rows[d][Len(rows[d])].ts

\* While the newest position is being recorded, no row and no other upsert is
\* later than it; afterwards its row is the last, or it got none.
Follows(d) ==
    /\ NotAfter(rows[d], now)
    /\ \A s \in Session : DeviceOf[s] = d /\ step[s] = "xadd" => up[s].field = "pos"
    /\ \A s \in Session : Recording(s, d) =>
          /\ NotAfter(rows[d], up[s].ts)
          /\ \A t \in Session : PosUp(t, d) => up[t].ts <= up[s].ts
    /\ "pos" \in DOMAIN newest[d] /\ (\A s \in Session : ~Recording(s, d)) =>
          d \in unrecorded \/ Ending(d)

FollowInv == \A d \in Device : Follows(d)

-----------------------------------------------------------------------------
(* What a step is to the store, and what it is to the read loops *)

\* A session sends a line.
Sends(s) ==
    /\ s \in Session /\ Sending(s)
    /\ pos' = [pos EXCEPT ![s] = @ + 1]
    /\ UNCHANGED <<redis, now, script>>

Still ==
    /\ UNCHANGED <<storeVars, step, up, newest, torn, unrecorded, redis>>
    /\ now' \in 0..MaxTime /\ now <= now'
    /\ pos' = pos \/ \E s \in Session : Sends(s)

\* An upsert that goes no further, for whatever reason.
Stopped(s) ==
    /\ \E x \in {"read", "ended"} : step' = [step EXCEPT ![s] = x]
    /\ up' = [up EXCEPT ![s] = Idle]

CutOff(s) ==
    /\ Stopped(s)
    /\ torn' = IF step[s] \in {"get", "set", "expire"} THEN torn \cup {DeviceOf[s]} ELSE torn
    /\ unrecorded' = Missed(s)
    /\ UNCHANGED <<storeVars, newest>>

GaveTime(s) ==
    /\ step[s] = "expire"
    /\ timed' = timed \cup {DeviceOf[s]}
    /\ \/ up[s].field # "pos" /\ Stopped(s)
       \/ up[s].field = "pos" /\ step' = [step EXCEPT ![s] = "xadd"] /\ up' = up
    /\ UNCHANGED <<doc, rows, newest, torn, unrecorded>>

Recorded(s) ==
    /\ step[s] = "xadd"
    /\ LET d == DeviceOf[s]
       IN  rows' = IF Accepts(rows[d], up[s].ts)
                   THEN [rows EXCEPT ![d] = Append(@, Row(up[s].stamp, up[s].ts))] ELSE rows
    /\ unrecorded' = IF SameTime(rows[DeviceOf[s]], up[s].ts) THEN Missed(s) ELSE unrecorded
    /\ Stopped(s)
    /\ UNCHANGED <<doc, timed, newest, torn>>

StoreStep(s) ==
    \/ ShadowGet(s) \/ ShadowSet(s) \/ GaveTime(s) \/ Recorded(s) \/ CutOff(s)

LEMMA ActionsAre ==
    ASSUME [Next]_vars
    PROVE  \/ UNCHANGED vars \/ Tick \/ \E d \in Device : KeyExpires(d)
           \/ \E s \in Session : SkipLine(s) \/ HearReport(s) \/ HearSky(s)
           \/ \E s \in Session :
                 \/ ReadLoopEnds(s) \/ ShadowGet(s) \/ ShadowSet(s)
                 \/ \E blocked \in BOOLEAN : \/ ShadowExpire(s, blocked) \/ ShadowXadd(s, blocked)
                                             \/ RedisFails(s, blocked)
  BY DEF Next

LEMMA UpsertsAre ==
    ASSUME NEW s \in Session, TypeInv,
           \/ ReadLoopEnds(s) \/ ShadowGet(s) \/ ShadowSet(s)
           \/ \E blocked \in BOOLEAN : \/ ShadowExpire(s, blocked) \/ ShadowXadd(s, blocked)
                                       \/ RedisFails(s, blocked)
    PROVE  StoreStep(s) /\ UNCHANGED <<redis, now, inputVars>>
<1>1. CASE ReadLoopEnds(s)
  BY <1>1 DEF ReadLoopEnds, StoreStep, CutOff, Stopped
<1>2. CASE ShadowGet(s) \/ ShadowSet(s)
  BY <1>2 DEF ShadowGet, ShadowSet, StoreStep
<1>3. ASSUME NEW blocked \in BOOLEAN, ShadowExpire(s, blocked)
      PROVE  StoreStep(s) /\ UNCHANGED <<redis, now, inputVars>>
  <2>1. \/ up[s].field # "pos" /\ Stopped(s)
        \/ up[s].field = "pos" /\ step' = [step EXCEPT ![s] = "xadd"] /\ up' = up
    <3>1. UpsertEnds(s, blocked) => Stopped(s)
      BY DEF UpsertEnds, Stopped
    <3>2. \/ up[s].field # "pos" /\ UpsertEnds(s, blocked)
          \/ up[s].field = "pos" /\ step' = [step EXCEPT ![s] = "xadd"] /\ up' = up
      BY <1>3 DEF ShadowExpire
    <3> QED BY <3>1, <3>2
  <2>2. GaveTime(s) /\ UNCHANGED <<redis, now, inputVars>>
    BY <1>3, <2>1 DEF ShadowExpire, Timed, GaveTime
  <2> QED BY <2>2 DEF StoreStep
<1>4. ASSUME NEW blocked \in BOOLEAN, ShadowXadd(s, blocked)
      PROVE  StoreStep(s) /\ UNCHANGED <<redis, now, inputVars>>
  <2>1. Stopped(s)
    BY <1>4 DEF ShadowXadd, UpsertEnds, Stopped
  <2> QED BY <1>4, <2>1 DEF ShadowXadd, RowTime, StoreStep, Recorded
<1>5. ASSUME NEW blocked \in BOOLEAN, RedisFails(s, blocked)
      PROVE  StoreStep(s) /\ UNCHANGED <<redis, now, inputVars>>
  <2>1. Stopped(s)
    BY <1>5 DEF RedisFails, UpsertEnds, Stopped
  <2>2. CutOff(s) /\ UNCHANGED <<redis, now, inputVars>>
    BY <1>5, <2>1 DEF RedisFails, CutOff, UpsertSteps
  <2> QED BY <2>2 DEF StoreStep
<1> QED BY <1>1, <1>2, <1>3, <1>4, <1>5

\* What the session says to the store when it sends a line.
Says(s) ==
    \/ NoUpsert
    \/ \E f \in UpField : UpsertInMemory(s, f, ThisLine(s)) \/ UpsertBegins(s, f, ThisLine(s))

LEMMA LinesAre ==
    ASSUME NEW s \in Session, SkipLine(s) \/ HearReport(s) \/ HearSky(s)
    PROVE  Sends(s) /\ Says(s)
<1>1. CASE SkipLine(s)
  BY <1>1 DEF SkipLine, Sends, Says
<1>2. CASE HearReport(s)
  <2>1. Field[Given(s).kind] \in UpField
    BY <1>2 DEF HearReport, Field, UpField
  <2> QED BY <1>2, <2>1 DEF HearReport, Upsert, Sends, Says
<1>3. CASE HearSky(s)
  <2>1. "sky" \in UpField
    BY DEF UpField
  <2> QED BY <1>3, <2>1 DEF HearSky, Upsert, Sends, Says
<1> QED BY <1>1, <1>2, <1>3

\* Every step, as the store sees it.
LEMMA StoreKinds ==
    ASSUME TypeInv, [Next]_vars
    PROVE  \/ Still
           \/ \E s \in Session, f \in UpField :
                 Sends(s) /\ (UpsertInMemory(s, f, ThisLine(s)) \/ UpsertBegins(s, f, ThisLine(s)))
           \/ \E s \in Session : StoreStep(s) /\ UNCHANGED <<redis, now, pos>>
           \/ \E d \in Device : KeyExpires(d)
<1>1. CASE UNCHANGED vars \/ Tick
  <2>1. now' \in 0..MaxTime /\ now <= now'
    BY <1>1, InputAssumption DEF Tick, vars, TypeInv
  <2> QED BY <1>1, <2>1 DEF Tick, vars, inputVars, storeVars, Still
<1>2. ASSUME NEW s \in Session, SkipLine(s) \/ HearReport(s) \/ HearSky(s)
      PROVE  \/ Still
             \/ \E f \in UpField :
                  Sends(s) /\ (UpsertInMemory(s, f, ThisLine(s)) \/ UpsertBegins(s, f, ThisLine(s)))
  <2>1. Sends(s) /\ Says(s)
    BY <1>2, LinesAre
  <2>2. CASE NoUpsert
    <3>1. now' \in 0..MaxTime /\ now <= now'
      BY <2>1, InputAssumption DEF Sends, TypeInv
    <3>2. UNCHANGED <<storeVars, step, up, newest, torn, unrecorded, redis>>
      BY <2>1, <2>2 DEF NoUpsert, Sends, storeVars
    <3> QED BY <2>1, <3>1, <3>2 DEF Still
  <2> QED BY <2>1, <2>2 DEF Says
<1>3. ASSUME NEW s \in Session,
             \/ ReadLoopEnds(s) \/ ShadowGet(s) \/ ShadowSet(s)
             \/ \E blocked \in BOOLEAN : \/ ShadowExpire(s, blocked) \/ ShadowXadd(s, blocked)
                                         \/ RedisFails(s, blocked)
      PROVE  StoreStep(s) /\ UNCHANGED <<redis, now, pos>>
  BY <1>3, UpsertsAre DEF inputVars
<1> QED BY <1>1, <1>2, <1>3, ActionsAre

\* Every step, as the read loops see it.
LEMMA LoopKinds ==
    ASSUME TypeInv, [Next]_vars
    PROVE  \/ UNCHANGED inputVars
           \/ \E s \in Session : SkipLine(s) \/ HearReport(s) \/ HearSky(s)
<1>1. CASE UNCHANGED vars \/ Tick \/ \E d \in Device : KeyExpires(d)
  BY <1>1 DEF vars, inputVars, Tick, KeyExpires
<1>2. CASE \E s \in Session :
              \/ ReadLoopEnds(s) \/ ShadowGet(s) \/ ShadowSet(s)
              \/ \E blocked \in BOOLEAN : \/ ShadowExpire(s, blocked) \/ ShadowXadd(s, blocked)
                                          \/ RedisFails(s, blocked)
  BY <1>2, UpsertsAre
<1> QED BY <1>1, <1>2, ActionsAre

-----------------------------------------------------------------------------
(* The invariants hold at first *)

LEMMA NothingHeard == <<>> \in Seq(Nat) /\ <<>> \in Seq(RowType) /\ <<>> \in Seq({}) /\ Len(<<>>) = 0
  OBVIOUS

LEMMA InitTypes == Init => TypeInv
<1> SUFFICES ASSUME Init PROVE TypeInv
  OBVIOUS
<1>1. /\ redis \in BOOLEAN /\ now \in 0..MaxTime
      /\ script \in [Session -> Scripts]
      /\ pos \in [Session -> Nat] /\ heard \in [Session -> SUBSET Nat]
      /\ total \in [Session -> Nat]
      /\ step \in [Session -> StepType]
      /\ timed \in SUBSET Device /\ torn \in SUBSET Device /\ unrecorded \in SUBSET Device
  BY InputAssumption DEF Init, StepType
<1>2. /\ pending \in [Session -> Seq(Nat)] /\ sky \in [Session -> Seq(Nat)]
      /\ rows \in [Device -> Seq(RowType)]
  BY NothingHeard DEF Init
<1>3. /\ up = [s \in Session |-> up[s]]
      /\ doc = [d \in Device |-> doc[d]] /\ newest = [d \in Device |-> newest[d]]
  BY DEF Init
<1> QED BY <1>1, <1>2, <1>3 DEF TypeInv

LEMMA InitLoops == Init => LoopInv
<1> SUFFICES ASSUME Init, NEW s \in Session PROVE Heard(s) /\ Gathered(s) /\ Shown(s)
  BY DEF LoopInv
<1>1. pos[s] = 0 /\ heard[s] = {} /\ pending[s] = <<>> /\ sky[s] = <<>> /\ script[s] \in Seq(Sentence)
  BY InputAssumption DEF Init
<1>2. Len(script[s]) \in Nat
  BY <1>1
<1>3. Heard(s)
  BY <1>1, <1>2, NothingHeard DEF Heard
<1>4. Shown(s)
  BY <1>1 DEF Shown
<1>5. Gathered(s)
  <2> SUFFICES ASSUME NEW k \in Nat, 1 <= k, (pos[s] - k + 1)..pos[s] \subseteq heard[s] PROVE FALSE
    BY DEF Gathered
  <2>1. 0 \in (0 - k + 1)..0
    OBVIOUS
  <2> QED BY <1>1, <2>1
<1> QED BY <1>3, <1>4, <1>5

LEMMA InitStore == Init => UpInv /\ DocInv /\ StoreInv /\ FollowInv
<1> SUFFICES ASSUME Init PROVE UpInv /\ DocInv /\ StoreInv /\ FollowInv
  OBVIOUS
<1>1. UpInv
  BY DEF Init, UpInv, UpOf, UpsertSteps
<1>2. DocInv
  BY InputAssumption, NothingHeard DEF Init, DocInv, DocOf, IsDoc, NoFields
<1>3. ASSUME NEW d \in Device PROVE Follows(d)
  <2>1. rows[d] = <<>> /\ "pos" \notin DOMAIN newest[d] /\ \A s \in Session : step[s] = "read"
    BY <1>3 DEF Init, NoFields
  <2> QED BY <2>1 DEF Follows, NotAfter, Recording
<1>4. ASSUME NEW d \in Device PROVE Settled(d)
  <2>1. DOMAIN doc[d] = {} /\ doc[d] = newest[d]
    BY DEF Init, NoFields
  <2>2. \A s \in Session : step[s] = "read"
    BY DEF Init
  <2> QED BY <2>1, <2>2 DEF Settled, Early
<1> QED BY <1>1, <1>2, <1>3, <1>4 DEF StoreInv, FollowInv

-----------------------------------------------------------------------------
(* Types are kept *)

LEMMA PutIsDoc ==
    ASSUME NEW x, IsDoc(x), NEW f \in UpField, NEW v \in Stamp
    PROVE  IsDoc(Put(x, f, v))
  BY DEF IsDoc, Put, UpField

LEMMA LineIsStamp == ASSUME TypeInv, NEW s \in Session PROVE ThisLine(s) \in Stamp
  BY DEF TypeInv, ThisLine, Stamp

LEMMA GatheredType ==
    ASSUME NEW q \in Seq(Nat), NEW n \in Nat
    PROVE  Append(q, n) \in Seq(Nat) /\ Append(<<>>, n) \in Seq(Nat)
  OBVIOUS

LEMMA NewestRows ==
    ASSUME NEW h \in Seq(RowType), NEW r \in RowType
    PROVE  Append(h, r) \in Seq(RowType) /\ Newest(Append(h, r)) \in Seq(RowType)
<1> HIDE DEF RowType
<1>0. Append(h, r) \in Seq(RowType) /\ Len(Append(h, r)) = Len(h) + 1 /\ Len(h) \in Nat
  OBVIOUS
<1>1. Append(h, r) \in Seq(RowType) /\ Append(h, r) # <<>>
  BY <1>0
<1>2. Tail(Append(h, r)) \in Seq(RowType)
  BY <1>1
<1> QED BY <1>1, <1>2 DEF Newest

\* The read loops' part.
LoopType ==
    /\ script \in [Session -> Scripts]
    /\ pos \in [Session -> Nat] /\ heard \in [Session -> SUBSET Nat]
    /\ pending \in [Session -> Seq(Nat)] /\ sky \in [Session -> Seq(Nat)]
    /\ total \in [Session -> Nat]

LEMMA GivenType ==
    ASSUME TypeInv, NEW s \in Session, Sending(s)
    PROVE  /\ script[s] \in Seq(Sentence) /\ Len(script[s]) \in Nat /\ pos[s] \in Nat
           /\ pos[s] + 1 <= Len(script[s]) /\ pos[s] + 1 \in 1..Len(script[s])
           /\ Given(s) \in Sentence
<1>1. script[s] \in Seq(Sentence) /\ pos[s] \in Nat /\ pos[s] < Len(script[s])
  BY InputAssumption DEF TypeInv, Sending
<1>2. pos[s] + 1 \in 1..Len(script[s])
  BY <1>1
<1>3. Given(s) \in Sentence
  BY <1>1, <1>2 DEF Given
<1> QED BY <1>1, <1>2, <1>3

LEMMA LoopTypeNext == ASSUME TypeInv, [Next]_vars PROVE LoopType'
<1>1. CASE UNCHANGED inputVars
  BY <1>1 DEF inputVars, TypeInv, LoopType
<1>2. ASSUME NEW s \in Session, SkipLine(s) \/ HearReport(s)
      PROVE  LoopType'
  <2>1. \/ heard' = [heard EXCEPT ![s] = @ \cup {pos[s] + 1}]
        \/ heard' = heard
    <3>1. CASE Given(s).kind = "other" \/ HearReport(s)
      BY <1>2, <3>1 DEF SkipLine, HearReport
    <3>2. CASE SkipLine(s) /\ Given(s).kind # "other"
      BY <3>2 DEF SkipLine, TypeInv
    <3> QED BY <1>2, <3>1, <3>2
  <2>2. pos' = [pos EXCEPT ![s] = @ + 1] /\ UNCHANGED <<script, pending, total, sky>>
    BY <1>2 DEF SkipLine, HearReport
  <2>3. pos' \in [Session -> Nat] /\ pos[s] + 1 \in Nat
    BY <2>2 DEF TypeInv
  <2>4. heard' \in [Session -> SUBSET Nat]
    <3>1. heard \in [Session -> SUBSET Nat]
      BY DEF TypeInv
    <3>2. heard[s] \cup {pos[s] + 1} \in SUBSET Nat
      BY <2>3, <3>1
    <3> QED BY <2>1, <3>1, <3>2
  <2> QED BY <2>2, <2>3, <2>4 DEF TypeInv, LoopType
<1>3. ASSUME NEW s \in Session, HearSky(s)
      PROVE  LoopType'
  <2> DEFINE g == Given(s)
             gathered == Append(IF Begins(s, g) THEN <<>> ELSE pending[s], pos[s] + 1)
  <2>1. g \in Sentence /\ pos[s] + 1 \in Nat /\ pending[s] \in Seq(Nat)
    BY <1>3, GivenType DEF HearSky, TypeInv
  <2>2. gathered \in Seq(Nat)
    BY <2>1, GatheredType
  <2>3. g.total \in Nat
    BY <2>1 DEF Sentence
  <2>4. /\ pos' = [pos EXCEPT ![s] = @ + 1] /\ heard' = [heard EXCEPT ![s] = @ \cup {pos[s] + 1}]
        /\ total' = [total EXCEPT ![s] = g.total] /\ pending' = [pending EXCEPT ![s] = gathered]
        /\ sky' = [sky EXCEPT ![s] = gathered] \/ sky' = sky
        /\ script' = script
    BY <1>3 DEF HearSky
  <2> HIDE DEF g, gathered
  <2> QED BY <2>1, <2>2, <2>3, <2>4 DEF TypeInv, LoopType
<1> QED BY <1>1, <1>2, <1>3, LoopKinds

\* The store's part.
StoreType ==
    /\ redis \in BOOLEAN /\ now \in 0..MaxTime
    /\ step \in [Session -> StepType]
    /\ up = [s \in Session |-> up[s]]
    /\ doc = [d \in Device |-> doc[d]] /\ newest = [d \in Device |-> newest[d]]
    /\ rows \in [Device -> Seq(RowType)]
    /\ timed \in SUBSET Device /\ torn \in SUBSET Device /\ unrecorded \in SUBSET Device

LEMMA DeviceIs == \A s \in Session : DeviceOf[s] \in Device
  BY InputAssumption

LEMMA NowIsNat == TypeInv => now \in Nat
  BY InputAssumption DEF TypeInv

LEMMA RowIs == \A v \in Stamp, ts \in Nat : Row(v, ts) \in RowType
  BY DEF Row, RowType

LEMMA StoppedType ==
    ASSUME TypeInv, NEW s \in Session, Stopped(s)
    PROVE  step' \in [Session -> StepType] /\ up' = [t \in Session |-> up'[t]]
<1>1. step \in [Session -> StepType] /\ up = [t \in Session |-> up[t]]
  BY DEF TypeInv
<1>2. PICK x \in {"read", "ended"} : step' = [step EXCEPT ![s] = x]
  BY DEF Stopped
<1>3. up' = [up EXCEPT ![s] = Idle]
  BY DEF Stopped
<1>4. x \in StepType
  BY DEF StepType
<1> QED BY <1>1, <1>2, <1>3, <1>4

LEMMA StoreTypeNext == ASSUME TypeInv, UpInv, [Next]_vars PROVE StoreType'
<1>0. StoreType
  BY DEF TypeInv, StoreType
<1>1. CASE Still
  BY <1>0, <1>1 DEF Still, storeVars, StoreType
<1>2. ASSUME NEW s \in Session, NEW f \in UpField, Sends(s), UpsertInMemory(s, f, ThisLine(s))
      PROVE  StoreType'
  <2> DEFINE d == DeviceOf[s]
             v == ThisLine(s)
             r == Newest(Append(rows[d], Row(v, now)))
  <2>1. /\ UNCHANGED <<redis, now, timed, step, up, torn>>
        /\ unrecorded' \subseteq unrecorded
        /\ doc' = [doc EXCEPT ![d] = Merged(@, f, v)]
        /\ newest' = [newest EXCEPT ![d] = Put(@, f, v)]
        /\ rows' = [rows EXCEPT ![d] = r] \/ rows' = rows
    BY <1>2 DEF UpsertInMemory, Unrecorded, Sends
  <2>2. d \in Device /\ v \in Stamp
    BY DeviceIs, LineIsStamp
  <2>3. r \in Seq(RowType)
    BY <1>0, <2>2, RowIs, NowIsNat, NewestRows DEF StoreType
  <2> HIDE DEF d, v, r
  <2>4. rows' \in [Device -> Seq(RowType)]
    BY <1>0, <2>1, <2>2, <2>3 DEF StoreType
  <2>5. doc' = [e \in Device |-> doc'[e]] /\ newest' = [e \in Device |-> newest'[e]]
    BY <1>0, <2>1, <2>2 DEF StoreType
  <2> QED BY <1>0, <2>1, <2>4, <2>5 DEF StoreType
<1>3. ASSUME NEW s \in Session, NEW f \in UpField, Sends(s), UpsertBegins(s, f, ThisLine(s))
      PROVE  StoreType'
  <2> DEFINE d == DeviceOf[s]
             u == [field |-> f, stamp |-> ThisLine(s), ts |-> now, cur |-> NoFields]
  <2>1. /\ UNCHANGED <<redis, now, doc, rows, timed>>
        /\ step' = [step EXCEPT ![s] = "get"]
        /\ up' = [up EXCEPT ![s] = u]
        /\ newest' = [newest EXCEPT ![d] = Put(@, f, ThisLine(s))]
        /\ torn' = torn \cup {d} \/ torn' = torn
        /\ unrecorded' \subseteq unrecorded
    BY <1>3 DEF UpsertBegins, Unrecorded, Sends, storeVars
  <2>2. d \in Device /\ "get" \in StepType
    BY DeviceIs DEF StepType
  <2> HIDE DEF d, u
  <2>3. step' \in [Session -> StepType] /\ torn' \in SUBSET Device
    BY <1>0, <2>1, <2>2 DEF StoreType
  <2>4. up' = [t \in Session |-> up'[t]] /\ newest' = [e \in Device |-> newest'[e]]
    BY <1>0, <2>1, <2>2 DEF StoreType
  <2> QED BY <1>0, <2>1, <2>3, <2>4 DEF StoreType
<1>4. ASSUME NEW s \in Session, StoreStep(s), UNCHANGED <<redis, now, pos>>
      PROVE  StoreType'
  <2>0. DeviceOf[s] \in Device /\ {"set", "expire", "xadd"} \subseteq StepType
    BY DeviceIs DEF StepType
  <2>1. CASE ShadowGet(s)
    BY <1>0, <2>0, <2>1 DEF ShadowGet, storeVars, StoreType
  <2>2. CASE ShadowSet(s)
    BY <1>0, <2>0, <2>2 DEF ShadowSet, StoreType
  <2>3. CASE GaveTime(s)
    <3>1. step' \in [Session -> StepType] /\ up' = [t \in Session |-> up'[t]]
      BY <1>0, <2>0, <2>3, StoppedType DEF GaveTime, StoreType
    <3>2. timed' \in SUBSET Device /\ UNCHANGED <<redis, now, doc, rows, newest, torn, unrecorded>>
      BY <1>0, <1>4, <2>0, <2>3 DEF GaveTime, StoreType
    <3> QED BY <1>0, <3>1, <3>2 DEF StoreType
  <2>4. CASE Recorded(s)
    <3> DEFINE d == DeviceOf[s]
               r == Row(up[s].stamp, up[s].ts)
    <3>1. step' \in [Session -> StepType] /\ up' = [t \in Session |-> up'[t]]
      BY <2>4, StoppedType DEF Recorded
    <3>2. r \in RowType
      BY <2>4, RowIs DEF Recorded, UpInv, UpOf, UpsertSteps, IsUpsert
    <3>3. /\ UNCHANGED <<redis, now, doc, timed, newest, torn>>
          /\ unrecorded' \subseteq unrecorded \cup {d}
          /\ rows' = [rows EXCEPT ![d] = Append(@, r)] \/ rows' = rows
      BY <1>4, <2>4 DEF Recorded, Missed
    <3> HIDE DEF r
    <3>4. Append(rows[d], r) \in Seq(RowType)
      BY <1>0, <2>0, <3>2, NewestRows DEF StoreType
    <3>5. rows' \in [Device -> Seq(RowType)]
      BY <1>0, <2>0, <3>3, <3>4 DEF StoreType
    <3>6. unrecorded' \in SUBSET Device
      BY <1>0, <2>0, <3>3 DEF StoreType
    <3> QED BY <1>0, <3>1, <3>3, <3>5, <3>6 DEF StoreType
  <2>5. CASE CutOff(s)
    <3>1. step' \in [Session -> StepType] /\ up' = [t \in Session |-> up'[t]]
      BY <2>5, StoppedType DEF CutOff
    <3>2. /\ torn' \in SUBSET Device /\ unrecorded' \in SUBSET Device
          /\ UNCHANGED <<redis, now, doc, rows, timed, newest>>
      BY <1>0, <1>4, <2>0, <2>5 DEF CutOff, Missed, StoreType, storeVars
    <3> QED BY <1>0, <3>1, <3>2 DEF StoreType
  <2> QED BY <1>4, <2>1, <2>2, <2>3, <2>4, <2>5 DEF StoreStep
<1>5. ASSUME NEW d \in Device, KeyExpires(d)
      PROVE  StoreType'
  BY <1>0, <1>5 DEF KeyExpires, StoreType
<1> QED BY <1>1, <1>2, <1>3, <1>4, <1>5, StoreKinds

LEMMA TypesNext == ASSUME TypeInv, UpInv, [Next]_vars PROVE TypeInv'
  BY LoopTypeNext, StoreTypeNext DEF LoopType, StoreType, TypeInv

-----------------------------------------------------------------------------
(* The sky: what was gathered when a group ends is the group *)

GatheredIn(sc, p, h, q, m) ==
    \A k, n \in Nat :
       (1 <= k /\ (p - k + 1)..p \subseteq h /\ Opening(sc, p, k, n)) => q = Exactly(p, k) /\ m = n

ShownIn(sc, p, h, q) ==
    q # <<>> =>
       LET last == q[Len(q)]
           n    == sc[last].total
       IN  /\ last \in 1..p
           /\ (last - n + 1)..last \subseteq h /\ Opening(sc, last, n, n) => q = Exactly(last, n)

LEMMA GatheredIs == \A s : Gathered(s) <=> GatheredIn(script[s], pos[s], heard[s], pending[s], total[s])
  BY DEF Gathered, GatheredIn

LEMMA ShownIs == \A s : Shown(s) <=> ShownIn(script[s], pos[s], heard[s], sky[s])
  BY DEF Shown, ShownIn

LEMMA LastOfOpening ==
    ASSUME NEW sc, NEW p \in Nat, NEW k \in Nat, 1 <= k, NEW n \in Nat, Opening(sc, p, k, n)
    PROVE  sc[p] = [kind |-> "GSV", total |-> n, num |-> k]
<1>1. k \in 1..k /\ p - k + k = p
  OBVIOUS
<1>2. sc[p - k + k] = [kind |-> "GSV", total |-> n, num |-> k]
  BY <1>1 DEF Opening
<1> QED BY <1>1, <1>2

LEMMA ShorterOpening ==
    ASSUME NEW sc, NEW p \in Nat, NEW k \in Nat, 1 < k, NEW n \in Nat, Opening(sc, p + 1, k, n)
    PROVE  Opening(sc, p, k - 1, n)
<1> SUFFICES ASSUME NEW i \in 1..(k - 1)
             PROVE  sc[p - (k - 1) + i] = [kind |-> "GSV", total |-> n, num |-> i]
  BY DEF Opening
<1>1. i \in 1..k /\ p - (k - 1) + i = p + 1 - k + i
  OBVIOUS
<1>2. sc[p + 1 - k + i] = [kind |-> "GSV", total |-> n, num |-> i]
  BY <1>1 DEF Opening
<1> QED BY <1>1, <1>2

LEMMA OneMoreExactly ==
    ASSUME NEW p \in Nat, NEW k \in Nat, 1 < k
    PROVE  Append(Exactly(p, k - 1), p + 1) = Exactly(p + 1, k)
<1> DEFINE j == k - 1
           a == Exactly(p, j)
           b == Exactly(p + 1, k)
           c == Append(a, p + 1)
<1>1. j \in Nat /\ k = j + 1
  OBVIOUS
<1> HIDE DEF j
<1>2. a \in Seq(Int) /\ Len(a) = j /\ \A i \in 1..j : a[i] = p - j + i
  BY <1>1 DEF Exactly
<1>3. b \in Seq(Int) /\ Len(b) = k /\ \A i \in 1..k : b[i] = p + 1 - k + i
  BY DEF Exactly
<1> HIDE DEF a, b
<1>4. c \in Seq(Int) /\ Len(c) = j + 1 /\ \A i \in 1..(j + 1) : c[i] = IF i <= j THEN a[i] ELSE p + 1
  BY <1>1, <1>2
<1>5. ASSUME NEW i \in 1..k PROVE c[i] = b[i]
  BY <1>1, <1>2, <1>3, <1>4
<1> HIDE DEF c
<1>6. c = b
  BY <1>1, <1>3, <1>4, <1>5
<1> QED BY <1>6 DEF c, a, b, j

LEMMA FirstExactly == \A p \in Nat : Append(<<>>, p) = Exactly(p, 1)
<1> SUFFICES ASSUME NEW p \in Nat PROVE Append(<<>>, p) = Exactly(p, 1)
  OBVIOUS
<1> DEFINE a == Append(<<>>, p)
           b == Exactly(p, 1)
<1>1. a \in Seq(Nat) /\ Len(a) = 1 /\ a[1] = p
  OBVIOUS
<1>2. b \in Seq(Int) /\ Len(b) = 1 /\ b[1] = p
  BY DEF Exactly
<1> HIDE DEF a, b
<1>3. a \in Seq(Int) /\ \A i \in 1..1 : a[i] = b[i]
  BY <1>1, <1>2
<1>4. a = b
  BY <1>1, <1>2, <1>3
<1> QED BY <1>4 DEF a, b

\* One more line of the sky.
LEMMA GatherMore ==
    ASSUME NEW sc, NEW p \in Nat, NEW h \in SUBSET Nat, NEW q, NEW m,
           GatheredIn(sc, p, h, q, m), NEW begins \in BOOLEAN,
           begins <=> (sc[p + 1].num = 1 \/ m # sc[p + 1].total)
    PROVE  GatheredIn(sc, p + 1, h \cup {p + 1}, Append(IF begins THEN <<>> ELSE q, p + 1), sc[p + 1].total)
<1> SUFFICES ASSUME NEW k \in Nat, NEW n \in Nat, 1 <= k,
                    (p + 1 - k + 1)..(p + 1) \subseteq h \cup {p + 1}, Opening(sc, p + 1, k, n)
             PROVE  /\ Append(IF begins THEN <<>> ELSE q, p + 1) = Exactly(p + 1, k)
                    /\ sc[p + 1].total = n
  BY DEF GatheredIn
<1>1. p + 1 \in Nat
  OBVIOUS
<1>2. sc[p + 1] = [kind |-> "GSV", total |-> n, num |-> k]
  BY <1>1, LastOfOpening
<1>3. sc[p + 1].total = n /\ sc[p + 1].num = k
  BY <1>2
<1>4. CASE k = 1
  <2>1. begins
    BY <1>3, <1>4
  <2> QED BY <1>1, <1>3, <1>4, <2>1, FirstExactly
<1>5. CASE 1 < k
  <2>1. k - 1 \in Nat /\ 1 <= k - 1
    BY <1>5
  <2>2. (p - (k - 1) + 1)..p \subseteq h
    <3> SUFFICES ASSUME NEW x \in (p - (k - 1) + 1)..p PROVE x \in h
      OBVIOUS
    <3>1. x \in (p + 1 - k + 1)..(p + 1) /\ x # p + 1
      BY <1>5
    <3> QED BY <3>1
  <2>3. Opening(sc, p, k - 1, n)
    BY <1>5, ShorterOpening
  <2>4. q = Exactly(p, k - 1) /\ m = n
    BY <2>1, <2>2, <2>3 DEF GatheredIn
  <2>5. ~begins
    BY <1>3, <1>5, <2>4
  <2> QED BY <1>3, <1>5, <2>4, <2>5, OneMoreExactly
<1> QED BY <1>4, <1>5

\* A line that is not of the sky, or that was lost.
LEMMA GatherNone ==
    ASSUME NEW sc, NEW p \in Nat, NEW h, NEW q, NEW m, p + 1 \notin h \/ sc[p + 1].kind # "GSV"
    PROVE  GatheredIn(sc, p + 1, h, q, m)
<1> SUFFICES ASSUME NEW k \in Nat, NEW n \in Nat, 1 <= k,
                    (p + 1 - k + 1)..(p + 1) \subseteq h, Opening(sc, p + 1, k, n)
             PROVE  FALSE
  BY DEF GatheredIn
<1>1. p + 1 \in Nat /\ p + 1 \in (p + 1 - k + 1)..(p + 1)
  OBVIOUS
<1>2. sc[p + 1] = [kind |-> "GSV", total |-> n, num |-> k]
  BY <1>1, LastOfOpening
<1> QED BY <1>1, <1>2

LEMMA ShownStill ==
    ASSUME NEW sc, NEW p \in Nat, NEW h, NEW g, g \subseteq h \cup {p + 1}, NEW q \in Seq(Nat), ShownIn(sc, p, h, q),
           \A i \in 1..p : sc[i].total \in Nat
    PROVE  ShownIn(sc, p + 1, g, q)
<1> SUFFICES ASSUME q # <<>> PROVE ShownIn(sc, p + 1, g, q)
  BY DEF ShownIn
<1> DEFINE last == q[Len(q)]
           n == sc[last].total
<1>1. /\ last \in 1..p
      /\ (last - n + 1)..last \subseteq h /\ Opening(sc, last, n, n) => q = Exactly(last, n)
  BY DEF ShownIn
<1>2. last \in Nat /\ n \in Nat /\ last \in 1..(p + 1)
  BY <1>1
<1> HIDE DEF last, n
<1>3. (last - n + 1)..last \subseteq g => (last - n + 1)..last \subseteq h
  <2> SUFFICES ASSUME (last - n + 1)..last \subseteq g, NEW x \in (last - n + 1)..last PROVE x \in h
    OBVIOUS
  <2>1. x # p + 1 /\ x \in g
    BY <1>1, <1>2
  <2> QED BY <2>1
<1> QED BY <1>1, <1>2, <1>3 DEF ShownIn, last, n

LEMMA ShownNow ==
    ASSUME NEW sc, NEW p \in Nat, NEW h, NEW q \in Seq(Nat), NEW a \in Seq(Nat), a = Append(q, p + 1),
           NEW n \in Nat, 1 <= n, sc[p + 1].total = n, GatheredIn(sc, p + 1, h, a, n)
    PROVE  ShownIn(sc, p + 1, h, a)
<1>1. a # <<>> /\ a[Len(a)] = p + 1
  OBVIOUS
<1>2. (p + 1 - n + 1)..(p + 1) \subseteq h /\ Opening(sc, p + 1, n, n) => a = Exactly(p + 1, n)
  BY DEF GatheredIn
<1>3. p + 1 \in 1..(p + 1)
  OBVIOUS
<1> QED BY <1>1, <1>2, <1>3 DEF ShownIn

LEMMA SeqWider ==
    ASSUME NEW A, NEW B, A \subseteq B, NEW q \in Seq(A)
    PROVE  q \in Seq(B)
  OBVIOUS

LEMMA SeqLonger ==
    ASSUME NEW A, NEW q \in Seq(A), NEW x \in A
    PROVE  Append(q, x) \in Seq(A) /\ Append(<<>>, x) \in Seq(A)
  OBVIOUS

LEMMA LoopInvNext == ASSUME TypeInv, LoopInv, [Next]_vars PROVE LoopInv'
<1>0. /\ pos \in [Session -> Nat] /\ heard \in [Session -> SUBSET Nat]
      /\ pending \in [Session -> Seq(Nat)] /\ sky \in [Session -> Seq(Nat)]
      /\ total \in [Session -> Nat] /\ script \in [Session -> Scripts]
  BY DEF TypeInv
<1>1. CASE UNCHANGED inputVars
  BY <1>1 DEF inputVars, LoopInv, Heard, Gathered, Shown
<1>2. ASSUME NEW s \in Session, SkipLine(s) \/ HearReport(s) \/ HearSky(s)
      PROVE  LoopInv'
  <2> DEFINE p == pos[s]
             h == heard[s]
             sc == script[s]
             g == Given(s)
             H == h \cup {p + 1}
             gathered == Append(IF Begins(s, g) THEN <<>> ELSE pending[s], p + 1)
  <2>1. Sending(s) /\ pos' = [pos EXCEPT ![s] = p + 1] /\ script' = script
    BY <1>2, LinesAre DEF Sends
  <2>2. /\ sc \in Seq(Sentence) /\ Len(sc) \in Nat /\ p \in Nat /\ p + 1 <= Len(sc)
        /\ g \in Sentence /\ g = sc[p + 1] /\ \A i \in 1..p : sc[i].total \in Nat
    <3>1. sc \in Seq(Sentence) /\ Len(sc) \in Nat /\ p \in Nat /\ p + 1 <= Len(sc) /\ g \in Sentence
      BY <2>1, GivenType
    <3>2. g = sc[p + 1]
      BY DEF Given
    <3> HIDE DEF g, sc, p
    <3>3. ASSUME NEW i \in 1..p PROVE sc[i].total \in Nat
      <4>1. i \in 1..Len(sc)
        BY <3>1
      <4>2. sc[i] \in Sentence
        BY <3>1, <4>1
      <4> QED BY <4>2 DEF Sentence
    <3> QED BY <3>1, <3>2, <3>3
  <2>3. Heard(s) /\ Gathered(s) /\ Shown(s)
    BY DEF LoopInv
  <2>4. p <= Len(sc) /\ h \subseteq 1..p /\ pending[s] \in Seq(h) /\ sky[s] \in Seq(h)
    BY <2>3 DEF Heard
  <2>5. GatheredIn(sc, p, h, pending[s], total[s]) /\ ShownIn(sc, p, h, sky[s])
    BY <2>3, GatheredIs, ShownIs
  <2>6. h \in SUBSET Nat /\ H \subseteq 1..(p + 1) /\ p + 1 \in H /\ h \subseteq H /\ p + 1 \notin h
    BY <2>2, <2>4
  <2>7. pending[s] \in Seq(Nat) /\ sky[s] \in Seq(Nat) /\ pending[s] \in Seq(H) /\ sky[s] \in Seq(H)
    BY <1>0, <2>4, <2>6, SeqWider
  <2>8. ASSUME NEW t \in Session, t # s PROVE (Heard(t) /\ Gathered(t) /\ Shown(t))'
    <3>1. /\ pos'[t] = pos[t] /\ heard'[t] = heard[t] /\ pending'[t] = pending[t] /\ sky'[t] = sky[t]
          /\ total'[t] = total[t] /\ script'[t] = script[t]
      BY <1>0, <1>2, <2>1, <2>8 DEF SkipLine, HearReport, HearSky
    <3>2. Heard(t) /\ Gathered(t) /\ Shown(t)
      BY DEF LoopInv
    <3> QED BY <3>1, <3>2 DEF Heard, Gathered, Shown
  <2>9. pos'[s] = p + 1 /\ script'[s] = sc
    BY <1>0, <2>1
  <2>10. ASSUME NEW G, NEW q, NEW m, NEW k, G \subseteq 1..(p + 1), q \in Seq(G), k \in Seq(G),
                heard'[s] = G, pending'[s] = q, total'[s] = m, sky'[s] = k,
                GatheredIn(sc, p + 1, G, q, m), ShownIn(sc, p + 1, G, k)
         PROVE  (Heard(s) /\ Gathered(s) /\ Shown(s))'
    <3> HIDE DEF p, sc
    <3>1. Heard(s)'
      BY <2>2, <2>9, <2>10 DEF Heard
    <3>2. Gathered(s)'
      BY <2>9, <2>10 DEF Gathered, GatheredIn
    <3>3. Shown(s)'
      BY <2>9, <2>10 DEF Shown, ShownIn
    <3> QED BY <3>1, <3>2, <3>3
  <2>11. CASE SkipLine(s) \/ HearReport(s)
    <3>1. /\ pending'[s] = pending[s] /\ total'[s] = total[s] /\ sky'[s] = sky[s]
          /\ heard'[s] \in {h, H} /\ (heard'[s] = h \/ g.kind # "GSV")
      BY <1>0, <2>11 DEF SkipLine, HearReport
    <3> DEFINE G == heard'[s]
    <3>2. G \subseteq 1..(p + 1) /\ pending[s] \in Seq(G) /\ sky[s] \in Seq(G) /\ G \subseteq h \cup {p + 1}
      BY <2>4, <2>6, <2>7, <3>1
    <3>3. p + 1 \notin G \/ sc[p + 1].kind # "GSV"
      BY <2>2, <2>6, <3>1
    <3> HIDE DEF p, h, H, sc, g, G
    <3>4. GatheredIn(sc, p + 1, G, pending[s], total[s])
      BY <2>2, <3>3, GatherNone
    <3>5. ShownIn(sc, p + 1, G, sky[s])
      BY <2>2, <2>5, <2>7, <3>2, ShownStill
    <3>6. G = heard'[s]
      BY DEF G
    <3>7. (Heard(s) /\ Gathered(s) /\ Shown(s))'
      BY <2>10, <3>1, <3>2, <3>4, <3>5, <3>6
    <3> QED BY <2>8, <3>7 DEF LoopInv
  <2>12. CASE HearSky(s)
    <3>1. /\ heard'[s] = H /\ pending'[s] = gathered /\ total'[s] = g.total
          /\ sky'[s] = gathered \/ sky'[s] = sky[s]
      BY <1>0, <2>12 DEF HearSky
    <3> DEFINE begins == Begins(s, g)
               q == IF begins THEN <<>> ELSE pending[s]
    <3>2. begins <=> (sc[p + 1].num = 1 \/ total[s] # sc[p + 1].total)
      BY <2>2 DEF Begins
    <3>3. sc[p + 1].total = g.total /\ g.total \in Nat /\ 1 <= g.total
      BY <2>2 DEF Sentence
    <3>4. q \in Seq(Nat) /\ q \in Seq(H) /\ begins \in BOOLEAN
      <4>1. <<>> \in Seq(Nat) /\ <<>> \in Seq(H)
        OBVIOUS
      <4> QED BY <2>7, <4>1 DEF Begins
    <3>5. gathered = Append(q, p + 1)
      OBVIOUS
    <3> HIDE DEF p, h, sc, g, begins, gathered
    <3>6. GatheredIn(sc, p + 1, h \cup {p + 1}, Append(IF begins THEN <<>> ELSE pending[s], p + 1), sc[p + 1].total)
      BY <2>2, <2>5, <2>6, <3>2, <3>4, GatherMore
    <3>7. GatheredIn(sc, p + 1, H, gathered, g.total)
      BY <3>3, <3>5, <3>6
    <3> HIDE DEF H, q
    <3>8. gathered \in Seq(H) /\ gathered \in Seq(Nat)
      BY <2>2, <2>6, <3>4, <3>5, SeqLonger
    <3>9. ShownIn(sc, p + 1, H, gathered)
      BY <2>2, <3>3, <3>4, <3>5, <3>7, <3>8, ShownNow
    <3>10. ShownIn(sc, p + 1, H, sky[s])
      BY <2>2, <2>5, <2>7, ShownStill DEF H
    <3>11. (Heard(s) /\ Gathered(s) /\ Shown(s))'
      BY <2>6, <2>7, <2>10, <3>1, <3>7, <3>8, <3>9, <3>10
    <3> QED BY <2>8, <3>11 DEF LoopInv
  <2> QED BY <1>2, <2>11, <2>12
<1> QED BY <1>1, <1>2, LoopKinds

-----------------------------------------------------------------------------
(* Upserts under way, and what the documents hold *)

LEMMA UpOfSame ==
    ASSUME TypeInv, NEW t \in Session, UpOf(t),
           step'[t] = step[t], up'[t] = up[t], pos'[t] = pos[t], redis' = redis,
           now' \in Nat, now <= now'
    PROVE  UpOf(t)'
<1> SUFFICES ASSUME step[t] \in UpsertSteps PROVE up[t].ts <= now'
  BY DEF UpOf
<1>1. up[t].ts \in Nat /\ now \in Nat /\ up[t].ts <= now
  BY NowIsNat DEF UpOf, IsUpsert
<1> QED BY <1>1

LEMMA StoppedHow ==
    ASSUME TypeInv, NEW s \in Session, Stopped(s)
    PROVE  /\ step'[s] \in {"read", "ended"} /\ step'[s] \notin UpsertSteps
           /\ \A t \in Session : t # s => step'[t] = step[t] /\ up'[t] = up[t]
  BY DEF Stopped, TypeInv, UpsertSteps

LEMMA UpInvNext == ASSUME TypeInv, UpInv, DocInv, [Next]_vars PROVE UpInv'
<1>0. now \in Nat /\ step \in [Session -> StepType] /\ up = [s \in Session |-> up[s]]
      /\ pos \in [Session -> Nat] /\ \A s \in Session : UpOf(s)
  BY NowIsNat DEF TypeInv, UpInv
<1>1. CASE Still
  <2> SUFFICES ASSUME NEW t \in Session PROVE UpOf(t)'
    BY DEF UpInv
  <2>1. step'[t] = step[t] /\ up'[t] = up[t] /\ redis' = redis /\ now' \in Nat /\ now <= now'
    BY <1>1, InputAssumption DEF Still
  <2>2. CASE pos'[t] = pos[t]
    BY <1>0, <2>1, <2>2, UpOfSame
  <2>3. CASE pos'[t] # pos[t]
    <3>1. step[t] = "read"
      BY <1>0, <1>1, <2>3 DEF Still, Sends, Sending
    <3> QED BY <2>1, <3>1 DEF UpOf, UpsertSteps
  <2> QED BY <2>2, <2>3
<1>2. ASSUME NEW s \in Session, NEW f \in UpField, Sends(s), UpsertInMemory(s, f, ThisLine(s))
      PROVE  UpInv'
  <2>1. ~redis /\ step' = step
    BY <1>2 DEF UpsertInMemory
  <2> QED BY <1>0, <2>1 DEF UpOf, UpInv
<1>3. ASSUME NEW s \in Session, NEW f \in UpField, Sends(s), UpsertBegins(s, f, ThisLine(s))
      PROVE  UpInv'
  <2> DEFINE u == [field |-> f, stamp |-> ThisLine(s), ts |-> now, cur |-> NoFields]
  <2>1. /\ redis /\ redis' = redis /\ now' = now
        /\ step' = [step EXCEPT ![s] = "get"] /\ up' = [up EXCEPT ![s] = u]
        /\ pos' = [pos EXCEPT ![s] = @ + 1]
    BY <1>3 DEF UpsertBegins, Sends
  <2>2. IsUpsert(u) /\ u.ts = now /\ u.stamp = [from |-> s, line |-> pos[s] + 1]
    <3>1. ThisLine(s) \in Stamp /\ IsDoc(NoFields)
      BY LineIsStamp DEF IsDoc, NoFields
    <3> QED BY <1>0, <3>1 DEF IsUpsert, ThisLine
  <2> HIDE DEF u
  <2>3. UpOf(s)'
    BY <1>0, <2>1, <2>2 DEF UpOf
  <2>4. ASSUME NEW t \in Session, t # s PROVE UpOf(t)'
    <3>1. step'[t] = step[t] /\ up'[t] = up[t] /\ pos'[t] = pos[t]
      BY <1>0, <2>1, <2>4
    <3> QED BY <1>0, <2>1, <3>1, UpOfSame
  <2> QED BY <2>3, <2>4 DEF UpInv
<1>4. ASSUME NEW s \in Session, StoreStep(s), UNCHANGED <<redis, now, pos>>
      PROVE  UpInv'
  <2>a. redis' = redis /\ now' = now /\ now' \in Nat /\ now <= now' /\ pos' = pos
    BY <1>0, <1>4
  <2>b. ASSUME \A t \in Session : t # s => step'[t] = step[t] /\ up'[t] = up[t], UpOf(s)'
        PROVE  UpInv'
    <3>1. ASSUME NEW t \in Session, t # s PROVE UpOf(t)'
      BY <1>0, <2>a, <2>b, <3>1, UpOfSame
    <3> QED BY <2>b, <3>1 DEF UpInv
  <2>c. ASSUME Stopped(s) PROVE UpInv'
    <3>1. step'[s] \notin UpsertSteps /\ \A t \in Session : t # s => step'[t] = step[t] /\ up'[t] = up[t]
      BY <2>c, StoppedHow
    <3>2. UpOf(s)'
      BY <3>1 DEF UpOf
    <3> QED BY <2>b, <3>1, <3>2
  <2>1. CASE ShadowGet(s)
    <3> DEFINE u == up[s]
               c == Merged(doc[DeviceOf[s]], u.field, u.stamp)
    <3>1. /\ step[s] = "get" /\ step' = [step EXCEPT ![s] = "set"]
          /\ up' = [up EXCEPT ![s] = [u EXCEPT !.cur = c]]
      BY <2>1 DEF ShadowGet
    <3>2. redis /\ IsUpsert(u) /\ u.ts <= now /\ u.stamp = [from |-> s, line |-> pos[s]]
      BY <1>0, <3>1 DEF UpOf, UpsertSteps
    <3>3. u = [field |-> u.field, stamp |-> u.stamp, ts |-> u.ts, cur |-> u.cur]
          /\ u.field \in UpField /\ u.stamp \in Stamp /\ u.ts \in Nat
      BY <3>2 DEF IsUpsert
    <3>4. IsDoc(c)
      <4>1. IsDoc(doc[DeviceOf[s]])
        BY DeviceIs DEF DocInv, DocOf
      <4> QED BY <3>3, <4>1, PutIsDoc DEF Merged
    <3>5. up'[s] = [u EXCEPT !.cur = c] /\ step'[s] = "set"
          /\ \A t \in Session : t # s => step'[t] = step[t] /\ up'[t] = up[t]
      BY <1>0, <3>1
    <3> HIDE DEF u, c
    <3>6. [u EXCEPT !.cur = c] = [field |-> u.field, stamp |-> u.stamp, ts |-> u.ts, cur |-> c]
      BY <3>3
    <3>7. IsUpsert(up'[s]) /\ up'[s].ts = u.ts /\ up'[s].stamp = u.stamp
      BY <3>3, <3>4, <3>5, <3>6 DEF IsUpsert
    <3>8. UpOf(s)'
      BY <2>a, <3>2, <3>7 DEF UpOf
    <3> QED BY <2>b, <3>5, <3>8
  <2>2. ASSUME step[s] \in UpsertSteps, up' = up, NEW x \in StepType, step' = [step EXCEPT ![s] = x]
        PROVE  UpInv'
    <3>1. \A t \in Session : t # s => step'[t] = step[t] /\ up'[t] = up[t]
      BY <1>0, <2>2
    <3>2. UpOf(s)'
      BY <1>0, <2>2, <2>a DEF UpOf
    <3> QED BY <2>b, <3>1, <3>2
  <2>3. CASE ShadowSet(s)
    BY <2>2, <2>3 DEF ShadowSet, UpsertSteps, StepType
  <2>4. CASE GaveTime(s)
    BY <2>2, <2>4, <2>c DEF GaveTime, UpsertSteps, StepType
  <2>5. CASE Recorded(s) \/ CutOff(s)
    BY <2>5, <2>c DEF Recorded, CutOff
  <2> QED BY <1>4, <2>1, <2>3, <2>4, <2>5 DEF StoreStep
<1>5. ASSUME NEW d \in Device, KeyExpires(d)
      PROVE  UpInv'
  BY <1>0, <1>5, UpOfSame DEF KeyExpires, UpInv, inputVars
<1> QED BY <1>1, <1>2, <1>3, <1>4, <1>5, StoreKinds

LEMMA NewestShort ==
    ASSUME NEW h \in Seq(RowType), Len(h) <= MaxHistory, NEW r \in RowType
    PROVE  Len(Newest(Append(h, r))) <= MaxHistory
<1> HIDE DEF RowType
<1>1. MaxHistory \in Nat /\ Len(h) \in Nat
  BY InputAssumption
<1>2. Append(h, r) \in Seq(RowType) /\ Len(Append(h, r)) = Len(h) + 1
  OBVIOUS
<1>3. Append(h, r) # <<>> => Len(Tail(Append(h, r))) = Len(Append(h, r)) - 1
  BY <1>2
<1>4. Append(h, r) # <<>>
  BY <1>1, <1>2
<1> QED BY <1>1, <1>2, <1>3, <1>4 DEF Newest

LEMMA DocInvNext == ASSUME TypeInv, UpInv, DocInv, [Next]_vars PROVE DocInv'
<1>0. /\ doc = [d \in Device |-> doc[d]] /\ newest = [d \in Device |-> newest[d]]
      /\ rows \in [Device -> Seq(RowType)] /\ \A d \in Device : DocOf(d)
  BY DEF TypeInv, DocInv
<1>1. CASE Still
  BY <1>0, <1>1 DEF Still, storeVars, DocInv, DocOf
<1>2. ASSUME NEW s \in Session, NEW f \in UpField, Sends(s), UpsertInMemory(s, f, ThisLine(s))
      PROVE  DocInv'
  <2> DEFINE d == DeviceOf[s]
             v == ThisLine(s)
             r == Newest(Append(rows[d], Row(v, now)))
  <2>1. /\ redis' = redis /\ ~redis
        /\ doc' = [doc EXCEPT ![d] = Merged(@, f, v)]
        /\ newest' = [newest EXCEPT ![d] = Put(@, f, v)]
        /\ rows' = [rows EXCEPT ![d] = r] \/ rows' = rows
    BY <1>2 DEF UpsertInMemory, Sends
  <2>2. d \in Device /\ v \in Stamp /\ rows[d] \in Seq(RowType) /\ Row(v, now) \in RowType
    BY <1>0, DeviceIs, LineIsStamp, NowIsNat, RowIs
  <2>3. Len(r) <= MaxHistory
    BY <1>0, <2>1, <2>2, NewestShort DEF DocOf
  <2>4. IsDoc(Put(doc[d], f, v)) /\ IsDoc(Put(newest[d], f, v))
    BY <1>0, <2>2, PutIsDoc DEF DocOf
  <2> HIDE DEF d, v, r
  <2>5. ASSUME NEW e \in Device PROVE DocOf(e)'
    <3>1. CASE e = d
      <4>1. doc'[e] = Put(doc[d], f, v) /\ newest'[e] = Put(newest[d], f, v)
            /\ (rows'[e] = r \/ rows'[e] = rows[d])
        BY <1>0, <2>1, <2>2, <3>1 DEF Merged
      <4> QED BY <1>0, <2>1, <2>2, <2>3, <2>4, <4>1 DEF DocOf
    <3>2. CASE e # d
      <4>1. doc'[e] = doc[e] /\ newest'[e] = newest[e] /\ rows'[e] = rows[e]
        BY <1>0, <2>1, <2>2, <3>2
      <4> QED BY <1>0, <2>1, <4>1 DEF DocOf
    <3> QED BY <3>1, <3>2
  <2> QED BY <2>5 DEF DocInv
<1>3. ASSUME NEW s \in Session, NEW f \in UpField, Sends(s), UpsertBegins(s, f, ThisLine(s))
      PROVE  DocInv'
  <2> DEFINE d == DeviceOf[s]
             v == ThisLine(s)
  <2>1. /\ redis' = redis /\ doc' = doc /\ rows' = rows
        /\ newest' = [newest EXCEPT ![d] = Put(@, f, v)]
    BY <1>3 DEF UpsertBegins, Sends, storeVars
  <2>2. d \in Device /\ IsDoc(Put(newest[d], f, v))
    BY <1>0, DeviceIs, LineIsStamp, PutIsDoc DEF DocOf
  <2> HIDE DEF d, v
  <2>3. ASSUME NEW e \in Device PROVE IsDoc(newest'[e])
    BY <1>0, <2>1, <2>2 DEF DocOf
  <2> QED BY <1>0, <2>1, <2>3 DEF DocOf, DocInv
<1>4. ASSUME NEW s \in Session, StoreStep(s), UNCHANGED <<redis, now, pos>>
      PROVE  DocInv'
  <2>0. redis' = redis /\ newest' = newest
    BY <1>4 DEF StoreStep, ShadowGet, ShadowSet, GaveTime, Recorded, CutOff
  <2>1. CASE ShadowGet(s) \/ CutOff(s)
    BY <1>0, <2>0, <2>1 DEF ShadowGet, CutOff, storeVars, DocInv, DocOf
  <2>2. CASE ShadowSet(s)
    <3>1. IsDoc(up[s].cur) /\ DeviceOf[s] \in Device
      BY <2>2, DeviceIs DEF ShadowSet, UpInv, UpOf, UpsertSteps, IsUpsert
    <3>2. rows' = rows /\ doc' = [doc EXCEPT ![DeviceOf[s]] = up[s].cur]
      BY <2>2 DEF ShadowSet
    <3>3. \A e \in Device : IsDoc(doc'[e])
      BY <1>0, <3>1, <3>2 DEF DocOf
    <3> QED BY <1>0, <2>0, <3>2, <3>3 DEF DocInv, DocOf
  <2>3. CASE GaveTime(s)
    BY <1>0, <2>0, <2>3 DEF GaveTime, DocInv, DocOf
  <2>4. CASE Recorded(s)
    <3>1. redis
      BY <2>4 DEF Recorded, UpInv, UpOf, UpsertSteps
    <3> QED BY <1>0, <2>0, <2>4, <3>1 DEF Recorded, DocInv, DocOf
  <2> QED BY <1>4, <2>1, <2>2, <2>3, <2>4 DEF StoreStep
<1>5. ASSUME NEW d \in Device, KeyExpires(d)
      PROVE  DocInv'
  <2>1. /\ redis' = redis /\ rows' = rows
        /\ doc' = [doc EXCEPT ![d] = NoFields] /\ newest' = [newest EXCEPT ![d] = NoFields]
    BY <1>5 DEF KeyExpires
  <2>2. IsDoc(NoFields)
    BY DEF IsDoc, NoFields
  <2>3. \A e \in Device : IsDoc(doc'[e]) /\ IsDoc(newest'[e])
    BY <1>0, <2>1, <2>2 DEF DocOf
  <2> QED BY <1>0, <2>1, <2>3 DEF DocInv, DocOf
<1> QED BY <1>1, <1>2, <1>3, <1>4, <1>5, StoreKinds

-----------------------------------------------------------------------------
(* The shadow of a device that nothing was torn from *)

Pace == {"get", "set", "expire"}

LEMMA SettledSame ==
    ASSUME NEW e \in Device, Settled(e), redis' = redis, doc'[e] = doc[e], newest'[e] = newest[e],
           e \in timed => e \in timed',
           \A t \in Session : DeviceOf[t] = e =>
              \/ step'[t] = step[t] /\ up'[t] = up[t]
              \/ step[t] \notin Pace /\ step'[t] \notin Pace
    PROVE  Settled(e)'
<1>1. \A t \in Session : Early(t, e)' <=> Early(t, e)
  BY DEF Early, Pace
<1>2. \A t \in Session : DeviceOf[t] = e =>
         /\ step'[t] = "get" => step[t] = "get" /\ up'[t] = up[t]
         /\ step'[t] = "set" => step[t] = "set" /\ up'[t] = up[t]
         /\ step[t] = "expire" => step'[t] = "expire"
  BY DEF Pace
<1>3. \A s, t \in Session : Early(s, e)' /\ Early(t, e)' => s = t
  BY <1>1 DEF Settled
<1>4. \A s \in Session : DeviceOf[s] = e =>
         /\ step'[s] = "get" => newest'[e] = Put(doc'[e], up'[s].field, up'[s].stamp)
         /\ step'[s] = "set" => newest'[e] = up'[s].cur
  BY <1>2 DEF Settled
<1>5. (\A s \in Session : ~Early(s, e)') => doc'[e] = newest'[e]
  BY <1>1 DEF Settled
<1>6. redis' /\ DOMAIN doc'[e] # {} =>
         e \in timed' \/ \E s \in Session : DeviceOf[s] = e /\ step'[s] = "expire"
  BY <1>2 DEF Settled
<1> QED BY <1>3, <1>4, <1>5, <1>6 DEF Settled

LEMMA NoneEarly ==
    ASSUME NEW e \in Device, \A t \in Session : ~Early(t, e)', doc'[e] = newest'[e],
           redis' /\ DOMAIN doc'[e] # {} =>
              e \in timed' \/ \E s \in Session : DeviceOf[s] = e /\ step'[s] = "expire"
    PROVE  Settled(e)'
  BY DEF Settled, Early

LEMMA StoreInvNext == ASSUME TypeInv, UpInv, StoreInv, [Next]_vars PROVE StoreInv'
<1>0. /\ doc = [d \in Device |-> doc[d]] /\ newest = [d \in Device |-> newest[d]]
      /\ step \in [Session -> StepType] /\ up = [s \in Session |-> up[s]]
      /\ timed \in SUBSET Device /\ torn \in SUBSET Device /\ unrecorded \in SUBSET Device
      /\ \A d \in Device \ torn : Settled(d)
  BY DEF TypeInv, StoreInv
<1>1. CASE Still
  <2>1. /\ redis' = redis /\ step' = step /\ up' = up /\ doc' = doc /\ newest' = newest
        /\ timed' = timed /\ torn' = torn
    BY <1>1 DEF Still, storeVars
  <2> QED BY <1>0, <2>1, SettledSame DEF StoreInv
<1>2. ASSUME NEW s \in Session, NEW f \in UpField, Sends(s), UpsertInMemory(s, f, ThisLine(s))
      PROVE  StoreInv'
  <2> DEFINE d == DeviceOf[s]
             v == ThisLine(s)
  <2>1. /\ redis' = redis /\ ~redis /\ step' = step /\ torn' = torn
        /\ doc' = [doc EXCEPT ![d] = Merged(@, f, v)]
        /\ newest' = [newest EXCEPT ![d] = Put(@, f, v)]
    BY <1>2 DEF UpsertInMemory, Sends
  <2>2. ASSUME NEW e \in Device \ torn PROVE Settled(e)'
    <3>1. \A t \in Session : ~Early(t, e) /\ ~Early(t, e)'
      BY <2>1 DEF Early, UpInv, UpOf, UpsertSteps
    <3>2. doc[e] = newest[e]
      BY <1>0, <3>1 DEF Settled
    <3>3. doc'[e] = newest'[e]
      BY <1>0, <2>1, <3>2, DeviceIs DEF Merged
    <3> QED BY <2>1, <3>1, <3>3, NoneEarly
  <2> QED BY <2>1, <2>2 DEF StoreInv
<1>3. ASSUME NEW s \in Session, NEW f \in UpField, Sends(s), UpsertBegins(s, f, ThisLine(s))
      PROVE  StoreInv'
  <2> DEFINE d == DeviceOf[s]
             u == [field |-> f, stamp |-> ThisLine(s), ts |-> now, cur |-> NoFields]
  <2>1. /\ redis' = redis /\ doc' = doc /\ timed' = timed
        /\ step[s] = "read" /\ step' = [step EXCEPT ![s] = "get"] /\ up' = [up EXCEPT ![s] = u]
        /\ newest' = [newest EXCEPT ![d] = Put(@, f, ThisLine(s))]
        /\ torn' = IF BeforeSet(d) # {} THEN torn \cup {d} ELSE torn
    BY <1>3 DEF UpsertBegins, Sends, Sending, storeVars
  <2>2. d \in Device /\ u.field = f /\ u.stamp = ThisLine(s)
    BY DeviceIs
  <2>3. BeforeSet(d) = {} => \A t \in Session : ~Early(t, d)
    BY DEF BeforeSet, Upserting, Early, UpsertSteps
  <2> HIDE DEF u
  <2>4. ASSUME NEW e \in Device \ torn' PROVE Settled(e)'
    <3>0. e \in Device \ torn /\ Settled(e) /\ (e = d => BeforeSet(d) = {})
      BY <1>0, <2>1
    <3>1. CASE e # d
      <4>1. newest'[e] = newest[e] /\ \A t \in Session : DeviceOf[t] = e => step'[t] = step[t] /\ up'[t] = up[t]
        BY <1>0, <2>1, <2>2, <3>1
      <4> QED BY <2>1, <3>0, <4>1, SettledSame
    <3>2. CASE e = d
      <4>1. /\ step'[s] = "get" /\ up'[s] = u
            /\ \A t \in Session : t # s => step'[t] = step[t] /\ up'[t] = up[t]
        BY <1>0, <2>1
      <4>2. \A t \in Session : ~Early(t, d)
        BY <2>3, <3>0, <3>2
      <4>3. doc[d] = newest[d]
        BY <3>0, <3>2, <4>2 DEF Settled
      <4>4. newest'[d] = Put(doc'[d], f, ThisLine(s))
        BY <1>0, <2>1, <2>2, <4>3
      <4>5. \A t \in Session : DeviceOf[t] = d /\ step'[t] \in {"get", "set"} => t = s
        BY <4>1, <4>2 DEF Early
      <4> HIDE DEF d
      <4>6. \A t, r \in Session : Early(t, e)' /\ Early(r, e)' => t = r
        BY <3>2, <4>5 DEF Early
      <4>7. \A t \in Session : DeviceOf[t] = e =>
               /\ step'[t] = "get" => newest'[e] = Put(doc'[e], up'[t].field, up'[t].stamp)
               /\ step'[t] = "set" => newest'[e] = up'[t].cur
        BY <2>2, <3>2, <4>1, <4>4, <4>5
      <4>8. ~ \A t \in Session : ~Early(t, e)'
        BY <3>2, <4>1 DEF Early, d
      <4>9. redis' /\ DOMAIN doc'[e] # {} =>
               e \in timed' \/ \E t \in Session : DeviceOf[t] = e /\ step'[t] = "expire"
        <5>1. \A t \in Session : step[t] = "expire" => step'[t] = "expire"
          BY <2>1, <4>1
        <5> QED BY <2>1, <3>0, <5>1 DEF Settled
      <4> QED BY <4>6, <4>7, <4>8, <4>9 DEF Settled
    <3> QED BY <3>1, <3>2
  <2> QED BY <2>4 DEF StoreInv
<1>4. ASSUME NEW s \in Session, StoreStep(s), UNCHANGED <<redis, now, pos>>
      PROVE  StoreInv'
  <2> DEFINE d == DeviceOf[s]
  <2>0. d \in Device /\ redis' = redis /\ newest' = newest
    BY <1>4, DeviceIs DEF StoreStep, ShadowGet, ShadowSet, GaveTime, Recorded, CutOff
  <2>a. ASSUME Stopped(s), doc' = doc, timed' = timed, torn \subseteq torn', step[s] \in Pace => d \in torn'
        PROVE  StoreInv'
    <3>1. step'[s] \notin Pace /\ \A t \in Session : t # s => step'[t] = step[t] /\ up'[t] = up[t]
      BY <2>a, StoppedHow DEF Pace
    <3> SUFFICES ASSUME NEW e \in Device \ torn' PROVE Settled(e)'
      BY DEF StoreInv
    <3>2. Settled(e)
      BY <1>0, <2>a
    <3>3. \A t \in Session : DeviceOf[t] = e =>
             \/ step'[t] = step[t] /\ up'[t] = up[t]
             \/ step[t] \notin Pace /\ step'[t] \notin Pace
      BY <2>a, <3>1
    <3> QED BY <2>0, <2>a, <3>2, <3>3, SettledSame
  <2>1. CASE ShadowGet(s)
    <3> DEFINE c == Merged(doc[d], up[s].field, up[s].stamp)
    <3>1. /\ step[s] = "get" /\ step' = [step EXCEPT ![s] = "set"]
          /\ up' = [up EXCEPT ![s] = [up[s] EXCEPT !.cur = c]]
          /\ doc' = doc /\ timed' = timed /\ torn' = torn
      BY <2>1 DEF ShadowGet, storeVars
    <3>2. up[s] = [field |-> up[s].field, stamp |-> up[s].stamp, ts |-> up[s].ts, cur |-> up[s].cur]
      BY <3>1 DEF UpInv, UpOf, UpsertSteps, IsUpsert
    <3> HIDE DEF c
    <3>3. /\ step'[s] = "set" /\ up'[s].cur = c
          /\ \A t \in Session : t # s => step'[t] = step[t] /\ up'[t] = up[t]
      BY <1>0, <3>1, <3>2
    <3> SUFFICES ASSUME NEW e \in Device \ torn PROVE Settled(e)'
      BY <3>1 DEF StoreInv
    <3>4. Settled(e)
      BY <1>0
    <3>5. CASE e # d
      BY <2>0, <3>1, <3>3, <3>4, <3>5, SettledSame
    <3>6. CASE e = d
      <4>1. \A t \in Session : Early(t, e)' <=> Early(t, e)
        BY <3>1, <3>3 DEF Early
      <4>2. newest[e] = c
        BY <3>1, <3>4, <3>6 DEF Settled, Merged, c
      <4>3. Early(s, e)
        BY <3>1, <3>6 DEF Early
      <4>4. \A t, r \in Session : Early(t, e)' /\ Early(r, e)' => t = r
        BY <3>4, <4>1 DEF Settled
      <4>5. \A t \in Session : DeviceOf[t] = e =>
               /\ step'[t] = "get" => newest'[e] = Put(doc'[e], up'[t].field, up'[t].stamp)
               /\ step'[t] = "set" => newest'[e] = up'[t].cur
        <5>1. ASSUME NEW t \in Session, DeviceOf[t] = e, t # s
              PROVE  step'[t] \notin {"get", "set"}
          <6>1. ~Early(t, e)
            BY <3>4, <4>3, <5>1 DEF Settled
          <6> QED BY <3>3, <5>1, <6>1 DEF Early
        <5> QED BY <2>0, <3>3, <4>2, <5>1
      <4>6. redis' /\ DOMAIN doc'[e] # {} =>
               e \in timed' \/ \E t \in Session : DeviceOf[t] = e /\ step'[t] = "expire"
        <5>1. \A t \in Session : step[t] = "expire" => step'[t] = "expire"
          BY <3>1, <3>3
        <5> QED BY <2>0, <3>1, <3>4, <5>1 DEF Settled
      <4>7. ~ \A t \in Session : ~Early(t, e)'
        BY <4>1, <4>3
      <4> QED BY <4>4, <4>5, <4>6, <4>7 DEF Settled
    <3> QED BY <3>5, <3>6
  <2>2. CASE ShadowSet(s)
    <3>1. /\ step[s] = "set" /\ step' = [step EXCEPT ![s] = "expire"] /\ up' = up
          /\ doc' = [doc EXCEPT ![d] = up[s].cur] /\ timed' = timed \ {d} /\ torn' = torn
      BY <2>2 DEF ShadowSet
    <3>2. step'[s] = "expire" /\ \A t \in Session : t # s => step'[t] = step[t]
      BY <1>0, <3>1
    <3> SUFFICES ASSUME NEW e \in Device \ torn PROVE Settled(e)'
      BY <3>1 DEF StoreInv
    <3>3. Settled(e)
      BY <1>0
    <3>4. CASE e # d
      <4>1. doc'[e] = doc[e] /\ (e \in timed => e \in timed')
        BY <1>0, <2>0, <3>1, <3>4
      <4>2. \A t \in Session : DeviceOf[t] = e => step'[t] = step[t] /\ up'[t] = up[t]
        BY <3>1, <3>2, <3>4
      <4> QED BY <2>0, <3>3, <4>1, <4>2, SettledSame
    <3>5. CASE e = d
      <4>1. Early(s, e)
        BY <3>1, <3>5 DEF Early
      <4>2. \A t \in Session : ~Early(t, e)'
        <5> SUFFICES ASSUME NEW t \in Session, Early(t, e)' PROVE FALSE
          OBVIOUS
        <5>1. t # s
          BY <3>2 DEF Early
        <5>2. Early(t, e)
          BY <3>2, <5>1 DEF Early
        <5> QED BY <3>3, <4>1, <5>1, <5>2 DEF Settled
      <4>3. doc'[e] = newest'[e]
        <5>1. newest[e] = up[s].cur
          BY <3>1, <3>3, <3>5 DEF Settled
        <5> QED BY <1>0, <2>0, <3>1, <3>5, <5>1
      <4>4. DeviceOf[s] = e /\ step'[s] = "expire"
        BY <3>2, <3>5
      <4> QED BY <4>2, <4>3, <4>4, NoneEarly
    <3> QED BY <3>4, <3>5
  <2>3. CASE GaveTime(s)
    <3>1. step[s] = "expire" /\ timed' = timed \cup {d} /\ doc' = doc /\ torn' = torn
      BY <2>3 DEF GaveTime
    <3>2. step'[s] \notin Pace /\ \A t \in Session : t # s => step'[t] = step[t] /\ up'[t] = up[t]
      BY <1>0, <2>3, StoppedHow DEF GaveTime, Pace
    <3> SUFFICES ASSUME NEW e \in Device \ torn PROVE Settled(e)'
      BY <3>1 DEF StoreInv
    <3>3. Settled(e)
      BY <1>0
    <3>4. CASE e # d
      <4>1. \A t \in Session : DeviceOf[t] = e => step'[t] = step[t] /\ up'[t] = up[t]
        BY <3>2, <3>4
      <4> QED BY <2>0, <3>1, <3>3, <4>1, SettledSame
    <3>5. CASE e = d
      <4>1. \A t \in Session : DeviceOf[t] = e /\ step'[t] \in {"get", "set"}
                                  => t # s /\ step'[t] = step[t] /\ up'[t] = up[t]
        BY <3>2 DEF Pace
      <4>2. \A t \in Session : Early(t, e)' <=> Early(t, e)
        BY <3>1, <3>2 DEF Early, Pace
      <4>3. e \in timed'
        BY <3>1, <3>5
      <4>4. \A t, r \in Session : Early(t, e)' /\ Early(r, e)' => t = r
        BY <3>3, <4>2 DEF Settled
      <4>5. \A t \in Session : DeviceOf[t] = e =>
               /\ step'[t] = "get" => newest'[e] = Put(doc'[e], up'[t].field, up'[t].stamp)
               /\ step'[t] = "set" => newest'[e] = up'[t].cur
        BY <2>0, <3>1, <3>3, <4>1 DEF Settled
      <4>6. (\A t \in Session : ~Early(t, e)') => doc'[e] = newest'[e]
        BY <2>0, <3>1, <3>3, <4>2 DEF Settled
      <4> QED BY <4>3, <4>4, <4>5, <4>6 DEF Settled
    <3> QED BY <3>4, <3>5
  <2>4. CASE Recorded(s)
    BY <2>a, <2>4 DEF Recorded, Pace
  <2>5. CASE CutOff(s)
    <3>1. torn \subseteq torn' /\ (step[s] \in Pace => d \in torn')
      BY <2>5 DEF CutOff, Pace
    <3> QED BY <2>a, <2>5, <3>1 DEF CutOff, storeVars
  <2> QED BY <1>4, <2>1, <2>2, <2>3, <2>4, <2>5 DEF StoreStep
<1>5. ASSUME NEW d \in Device, KeyExpires(d)
      PROVE  StoreInv'
  <2>1. /\ redis' = redis /\ step' = step /\ up' = up /\ torn' = torn
        /\ doc' = [doc EXCEPT ![d] = NoFields] /\ newest' = [newest EXCEPT ![d] = NoFields]
        /\ timed' = timed \ {d} /\ Upserting(d) = {}
    BY <1>5 DEF KeyExpires
  <2>2. ASSUME NEW e \in Device \ torn PROVE Settled(e)'
    <3>1. CASE e # d
      <4>1. doc'[e] = doc[e] /\ newest'[e] = newest[e] /\ (e \in timed => e \in timed')
        BY <1>0, <2>1, <3>1
      <4> QED BY <1>0, <2>1, <4>1, SettledSame
    <3>2. CASE e = d
      <4>1. \A t \in Session : ~Early(t, e)'
        BY <2>1, <3>2 DEF Upserting, Early, UpsertSteps
      <4>2. doc'[e] = NoFields /\ newest'[e] = NoFields /\ DOMAIN NoFields = {}
        BY <1>0, <2>1, <3>2 DEF NoFields
      <4> QED BY <4>1, <4>2, NoneEarly
    <3> QED BY <3>1, <3>2
  <2> QED BY <2>1, <2>2 DEF StoreInv
<1> QED BY <1>1, <1>2, <1>3, <1>4, <1>5, StoreKinds

-----------------------------------------------------------------------------
(* The history *)

\* What a device's history has to follow is as it was, and an upsert of a position
\* went on as it was or ended; if it was of the newest, that got no row.
LEMMA FollowsSame ==
    ASSUME NEW d \in Device, Follows(d), rows'[d] = rows[d], NotAfter(rows[d], now'),
           "pos" \in DOMAIN newest'[d] <=> "pos" \in DOMAIN newest[d],
           "pos" \in DOMAIN newest[d] => newest'[d].pos = newest[d].pos,
           d \in unrecorded => d \in unrecorded',
           \A t \in Session : DeviceOf[t] = d =>
              \/ /\ PosUp(t, d) /\ PosUp(t, d)'
                 /\ up'[t].ts = up[t].ts /\ up'[t].stamp = up[t].stamp
              \/ /\ ~PosUp(t, d)' /\ step'[t] # "xadd"
                 /\ Recording(t, d) => d \in unrecorded'
    PROVE  Follows(d)'
<1>1. \A t \in Session : PosUp(t, d)' => PosUp(t, d) /\ up'[t].ts = up[t].ts /\ up'[t].stamp = up[t].stamp
  BY DEF PosUp
<1>2. \A t \in Session : Recording(t, d)' => Recording(t, d)
  BY <1>1 DEF Recording
<1>3. \A t \in Session : Recording(t, d) => Recording(t, d)' \/ d \in unrecorded'
  BY DEF Recording, PosUp
<1>4. \A t \in Session : DeviceOf[t] = d /\ step'[t] = "xadd" => up'[t].field = "pos"
  BY DEF PosUp
<1>5. ASSUME NEW t \in Session, Recording(t, d)'
      PROVE  /\ NotAfter(rows'[d], up'[t].ts)
             /\ \A q \in Session : PosUp(q, d)' => up'[q].ts <= up'[t].ts
  <2>1. Recording(t, d) /\ up'[t].ts = up[t].ts
    BY <1>1, <1>2, <1>5 DEF Recording
  <2> QED BY <1>1, <2>1 DEF Follows
<1>6. ASSUME "pos" \in DOMAIN newest'[d], \A t \in Session : ~Recording(t, d)', d \notin unrecorded'
      PROVE  Ending(d)'
  <2>1. Ending(d)
    BY <1>3, <1>6 DEF Follows
  <2>2. newest'[d].pos = newest[d].pos
    BY <1>6
  <2> QED BY <1>1, <2>1, <2>2 DEF Ending
<1> QED BY <1>4, <1>5, <1>6 DEF Follows

\* The last row of a history to which one was added.
LEMMA LastAdded ==
    ASSUME NEW h \in Seq(RowType), NEW r \in RowType
    PROVE  /\ Append(h, r) # <<>> /\ Append(h, r)[Len(Append(h, r))] = r
           /\ Newest(Append(h, r)) # <<>> /\ Newest(Append(h, r))[Len(Newest(Append(h, r)))] = r
<1> HIDE DEF RowType
<1> DEFINE g == Append(h, r)
           n == Len(h)
<1>1. g \in Seq(RowType) /\ n \in Nat /\ Len(g) = n + 1 /\ g[n + 1] = r
  OBVIOUS
<1>2. g # <<>>
  BY <1>1
<1>3. Len(Tail(g)) = n /\ \A i \in 1..n : Tail(g)[i] = g[i + 1]
  <2> HIDE DEF g
  <2> QED BY <1>1, <1>2
<1> HIDE DEF g
<1>4. Len(g) > MaxHistory => n \in 1..n /\ Tail(g)[n] = r /\ Tail(g) # <<>>
  <2> SUFFICES ASSUME Len(g) > MaxHistory PROVE n \in 1..n /\ Tail(g)[n] = r /\ Tail(g) # <<>>
    OBVIOUS
  <2>1. n \in 1..n
    BY <1>1, InputAssumption
  <2>2. Tail(g) # <<>>
    BY <1>3, <2>1
  <2> QED BY <1>1, <1>3, <2>1, <2>2
<1>5. Newest(g) # <<>> /\ Newest(g)[Len(Newest(g))] = r
  BY <1>1, <1>2, <1>3, <1>4 DEF Newest
<1> QED BY <1>1, <1>2, <1>5 DEF g

LEMMA LaterStill ==
    ASSUME TypeInv, NEW d \in Device, NotAfter(rows[d], now), now' \in Nat, now <= now'
    PROVE  NotAfter(rows[d], now')
<1> SUFFICES ASSUME rows[d] # <<>> PROVE rows[d][Len(rows[d])].ts <= now'
  BY DEF NotAfter
<1>1. rows[d] \in Seq(RowType) /\ now \in Nat
  BY NowIsNat DEF TypeInv
<1>2. rows[d][Len(rows[d])] \in RowType
  <2> HIDE DEF RowType
  <2>1. Len(rows[d]) \in 1..Len(rows[d])
    BY <1>1
  <2> QED BY <1>1, <2>1
<1>3. rows[d][Len(rows[d])].ts \in Nat /\ rows[d][Len(rows[d])].ts <= now
  BY <1>2 DEF RowType, NotAfter
<1> QED BY <1>1, <1>3

\* An upsert under way: its time has come, its sentence is its session's.
LEMMA PosUpIs ==
    ASSUME TypeInv, UpInv, NEW s \in Session, NEW d, PosUp(s, d)
    PROVE  /\ redis /\ up[s].ts \in Nat /\ up[s].ts <= now
           /\ up[s].stamp \in Stamp /\ up[s].stamp.from = s
<1>1. redis /\ IsUpsert(up[s]) /\ up[s].ts <= now /\ up[s].stamp = [from |-> s, line |-> pos[s]]
  BY DEF PosUp, UpInv, UpOf
<1>2. up[s].stamp.from = s
  BY <1>1
<1> QED BY <1>1, <1>2 DEF IsUpsert

\* Sessions whose upserts a step leaves alone.
LEMMA OthersSame ==
    ASSUME NEW d \in Device, Follows(d), NEW t \in Session, DeviceOf[t] = d,
           step'[t] = step[t], up'[t] = up[t]
    PROVE  \/ /\ PosUp(t, d) /\ PosUp(t, d)'
              /\ up'[t].ts = up[t].ts /\ up'[t].stamp = up[t].stamp
           \/ /\ ~PosUp(t, d)' /\ step'[t] # "xadd"
              /\ Recording(t, d) => d \in unrecorded'
<1>1. CASE PosUp(t, d)
  BY <1>1 DEF PosUp
<1>2. CASE ~PosUp(t, d)
  <2>1. step[t] # "xadd"
    BY <1>2 DEF Follows, PosUp, UpsertSteps
  <2> QED BY <1>2, <2>1 DEF PosUp, Recording
<1> QED BY <1>1, <1>2

LEMMA SaidInMemory ==
    ASSUME TypeInv, UpInv, FollowInv, NEW s \in Session, NEW f \in UpField,
           Sends(s), UpsertInMemory(s, f, ThisLine(s))
    PROVE  FollowInv'
<1> DEFINE d == DeviceOf[s]
           v == ThisLine(s)
           r == Row(v, now)
<1>0. /\ newest = [e \in Device |-> newest[e]] /\ rows \in [Device -> Seq(RowType)] /\ now \in Nat
      /\ \A e \in Device : Follows(e)
  BY NowIsNat DEF TypeInv, FollowInv
<1>1. /\ ~redis /\ step' = step /\ up' = up /\ now' = now
      /\ newest' = [newest EXCEPT ![d] = Put(@, f, v)]
      /\ unrecorded' = IF f = "pos" THEN unrecorded \ {d} ELSE unrecorded
      /\ rows' = IF f = "pos" THEN [rows EXCEPT ![d] = Newest(Append(@, r))] ELSE rows
  BY DEF UpsertInMemory, Sends, Unrecorded
<1>2. d \in Device /\ r \in RowType /\ r.ts = now /\ r.stamp = v
  BY <1>0, DeviceIs, LineIsStamp, RowIs DEF Row
<1>3. \A t \in Session, e \in Device : ~PosUp(t, e) /\ ~PosUp(t, e)'
  BY <1>1, PosUpIs DEF PosUp
<1> HIDE DEF d, v, r
<1>4. ASSUME NEW e \in Device, e # d \/ f # "pos" PROVE Follows(e)'
  <2>1. rows'[e] = rows[e] /\ (e \in unrecorded => e \in unrecorded')
    BY <1>0, <1>1, <1>2, <1>4
  <2>2. /\ "pos" \in DOMAIN newest'[e] <=> "pos" \in DOMAIN newest[e]
        /\ "pos" \in DOMAIN newest[e] => newest'[e].pos = newest[e].pos
    BY <1>0, <1>1, <1>2, <1>4 DEF Put
  <2>3. NotAfter(rows[e], now')
    BY <1>0, <1>1 DEF Follows
  <2>4. \A t \in Session : DeviceOf[t] = e => step'[t] # "xadd" /\ ~Recording(t, e)
    BY <1>0, <1>1, <1>3 DEF Follows, PosUp, UpsertSteps, Recording
  <2> QED BY <1>0, <1>3, <2>1, <2>2, <2>3, <2>4, FollowsSame
<1>5. CASE f = "pos"
  <2>1. rows'[d] = Newest(Append(rows[d], r)) /\ newest'[d] = Put(newest[d], f, v)
    BY <1>0, <1>1, <1>2, <1>5
  <2>2. rows[d] \in Seq(RowType)
    BY <1>0, <1>2
  <2>3. rows'[d] # <<>> /\ rows'[d][Len(rows'[d])] = r
    BY <1>2, <2>1, <2>2, LastAdded
  <2>4. newest'[d].pos = v
    BY <1>5, <2>1 DEF Put
  <2>5. Ending(d)' /\ NotAfter(rows'[d], now')
    BY <1>0, <1>1, <1>2, <1>3, <2>3, <2>4 DEF Ending, NotAfter
  <2>6. \A t \in Session : DeviceOf[t] = d => step'[t] # "xadd"
    BY <1>0, <1>1, <1>2, <1>3 DEF Follows, PosUp, UpsertSteps
  <2>7. Follows(d)'
    <3>1. \A t \in Session : ~PosUp(t, d)' /\ ~Recording(t, d)'
      BY <1>2, <1>3 DEF Recording
    <3> QED BY <2>5, <2>6, <3>1 DEF Follows
  <2> QED BY <1>4, <2>7 DEF FollowInv
<1> QED BY <1>4, <1>5 DEF FollowInv

LEMMA PositionBegins ==
    ASSUME TypeInv, UpInv, FollowInv, NEW s \in Session, NEW f \in UpField,
           Sends(s), UpsertBegins(s, f, ThisLine(s))
    PROVE  FollowInv'
<1> DEFINE d == DeviceOf[s]
           v == ThisLine(s)
           u == [field |-> f, stamp |-> v, ts |-> now, cur |-> NoFields]
<1>0. /\ newest = [e \in Device |-> newest[e]] /\ now \in Nat
      /\ step \in [Session -> StepType] /\ up = [t \in Session |-> up[t]]
      /\ \A e \in Device : Follows(e)
  BY NowIsNat DEF TypeInv, FollowInv
<1>1. /\ step[s] = "read" /\ now' = now /\ rows' = rows
      /\ step' = [step EXCEPT ![s] = "get"] /\ up' = [up EXCEPT ![s] = u]
      /\ newest' = [newest EXCEPT ![d] = Put(@, f, v)]
      /\ unrecorded' = IF f = "pos" THEN unrecorded \ {d} ELSE unrecorded
  BY DEF UpsertBegins, Sends, Sending, Unrecorded, storeVars
<1>2. d \in Device /\ u.field = f /\ u.stamp = v /\ u.ts = now /\ v.from = s
  BY DeviceIs DEF ThisLine
<1>3. /\ step'[s] = "get" /\ up'[s] = u
      /\ \A t \in Session : t # s => step'[t] = step[t] /\ up'[t] = up[t]
  BY <1>0, <1>1
<1>4. \A e : ~PosUp(s, e)
  BY <1>1 DEF PosUp, UpsertSteps
<1>5. \A e : PosUp(s, e)' => e = d /\ f = "pos"
  BY <1>2, <1>3 DEF PosUp
<1> HIDE DEF d, v, u
<1>6. ASSUME NEW e \in Device, e # d \/ f # "pos" PROVE Follows(e)'
  <2>1. rows'[e] = rows[e] /\ (e \in unrecorded => e \in unrecorded')
    BY <1>1, <1>6
  <2>2. /\ "pos" \in DOMAIN newest'[e] <=> "pos" \in DOMAIN newest[e]
        /\ "pos" \in DOMAIN newest[e] => newest'[e].pos = newest[e].pos
    BY <1>0, <1>1, <1>2, <1>6 DEF Put
  <2>3. NotAfter(rows[e], now')
    BY <1>0, <1>1 DEF Follows
  <2>4. ASSUME NEW t \in Session, DeviceOf[t] = e
        PROVE  \/ /\ PosUp(t, e) /\ PosUp(t, e)'
                  /\ up'[t].ts = up[t].ts /\ up'[t].stamp = up[t].stamp
               \/ /\ ~PosUp(t, e)' /\ step'[t] # "xadd"
                  /\ Recording(t, e) => e \in unrecorded'
    <3>1. CASE t = s
      BY <1>3, <1>4, <1>5, <1>6, <3>1 DEF Recording
    <3>2. CASE t # s
      BY <1>0, <1>3, <2>4, <3>2, OthersSame
    <3> QED BY <3>1, <3>2
  <2> QED BY <1>0, <2>1, <2>2, <2>3, <2>4, FollowsSame
<1>7. CASE f = "pos"
  <2>1. rows'[d] = rows[d] /\ newest'[d] = Put(newest[d], f, v)
    BY <1>0, <1>1, <1>2, <1>7
  <2>2. "pos" \in DOMAIN newest'[d] /\ newest'[d].pos = v
    BY <1>7, <2>1 DEF Put
  <2>3. d = DeviceOf[s]
    BY DEF d
  <2>4. Recording(s, d)'
    BY <1>2, <1>3, <1>7, <2>2, <2>3 DEF Recording, PosUp, UpsertSteps
  <2>5. ASSUME NEW t \in Session, PosUp(t, d)'
        PROVE  /\ t # s => up[t].ts <= now /\ up'[t] = up[t] /\ up[t].stamp.from = t
               /\ up'[t].ts <= now
    <3>1. CASE t = s
      BY <1>0, <1>2, <1>3, <3>1
    <3>2. CASE t # s
      <4>1. PosUp(t, d) /\ up'[t] = up[t]
        BY <1>3, <2>5, <3>2 DEF PosUp
      <4> QED BY <4>1, PosUpIs
    <3> QED BY <3>1, <3>2
  <2>6. ASSUME NEW t \in Session, Recording(t, d)' PROVE t = s
    <3>1. PosUp(t, d)' /\ up'[t].stamp = v
      BY <2>2, <2>6 DEF Recording
    <3> QED BY <1>2, <2>5, <3>1
  <2>7. up'[s].ts = now /\ NotAfter(rows'[d], now') /\ NotAfter(rows'[d], up'[s].ts)
    BY <1>0, <1>1, <1>2, <1>3, <2>1 DEF Follows
  <2>8. \A t \in Session : DeviceOf[t] = d /\ step'[t] = "xadd" => up'[t].field = "pos"
    BY <1>0, <1>2, <1>3 DEF Follows
  <2>9. Follows(d)'
    BY <2>4, <2>5, <2>6, <2>7, <2>8 DEF Follows
  <2> QED BY <1>6, <2>9 DEF FollowInv
<1> QED BY <1>6, <1>7 DEF FollowInv

\* A row that Redis takes is later than the last.
LEMMA PositionRecorded ==
    ASSUME TypeInv, UpInv, NEW s \in Session, Recorded(s), now' = now,
           NEW d \in Device, d = DeviceOf[s], Follows(d)
    PROVE  Follows(d)'
<1> DEFINE h == rows[d]
           r == Row(up[s].stamp, up[s].ts)
<1>1. PosUp(s, d) /\ step[s] = "xadd"
  BY DEF Recorded, Follows, PosUp, UpsertSteps
<1>2. /\ up[s].ts \in Nat /\ up[s].ts <= now /\ up[s].stamp \in Stamp
      /\ h \in Seq(RowType) /\ rows \in [Device -> Seq(RowType)]
      /\ r \in RowType /\ r.ts = up[s].ts /\ r.stamp = up[s].stamp /\ now \in Nat
  <2>1. up[s].ts \in Nat /\ up[s].ts <= now /\ up[s].stamp \in Stamp
    BY <1>1, PosUpIs
  <2> QED BY <2>1, RowIs, NowIsNat DEF TypeInv, Row
<1>3. h # <<>> => h[Len(h)].ts \in Nat
  <2> SUFFICES ASSUME h # <<>> PROVE h[Len(h)].ts \in Nat
    OBVIOUS
  <2>1. h[Len(h)] \in RowType
    <3> HIDE DEF RowType
    <3>1. Len(h) \in 1..Len(h)
      BY <1>2
    <3> QED BY <1>2, <3>1
  <2> QED BY <2>1 DEF RowType
<1>4. /\ step'[s] \notin UpsertSteps
      /\ \A t \in Session : t # s => step'[t] = step[t] /\ up'[t] = up[t]
  BY StoppedHow DEF Recorded
<1>5. newest' = newest /\ (d \in unrecorded => d \in unrecorded')
  BY DEF Recorded, Missed
<1>6. CASE ~Accepts(h, up[s].ts)
  <2>1. h # <<>> /\ up[s].ts <= h[Len(h)].ts
    BY <1>2, <1>3, <1>6 DEF Accepts, Last
  <2>2. Recording(s, d) => d \in unrecorded'
    <3> SUFFICES ASSUME Recording(s, d) PROVE d \in unrecorded'
      OBVIOUS
    <3>1. h[Len(h)].ts <= up[s].ts
      BY <2>1 DEF Follows, NotAfter
    <3>2. SameTime(h, up[s].ts)
      BY <1>2, <1>3, <2>1, <3>1 DEF SameTime, Last
    <3>3. NewestPosition(s)
      BY DEF Recording, PosUp, NewestPosition
    <3> QED BY <3>2, <3>3 DEF Recorded, Missed
  <2>3. rows'[d] = rows[d]
    BY <1>6 DEF Recorded
  <2>4. NotAfter(rows[d], now')
    BY DEF Follows
  <2>5. ASSUME NEW t \in Session, DeviceOf[t] = d
        PROVE  \/ /\ PosUp(t, d) /\ PosUp(t, d)'
                  /\ up'[t].ts = up[t].ts /\ up'[t].stamp = up[t].stamp
               \/ /\ ~PosUp(t, d)' /\ step'[t] # "xadd"
                  /\ Recording(t, d) => d \in unrecorded'
    <3>1. CASE t = s
      BY <1>4, <2>2, <3>1 DEF PosUp, UpsertSteps
    <3>2. CASE t # s
      BY <1>4, <2>5, <3>2, OthersSame
    <3> QED BY <3>1, <3>2
  <2> QED BY <1>5, <2>3, <2>4, <2>5, FollowsSame
<1>7. CASE Accepts(h, up[s].ts)
  <2> DEFINE g == Append(h, r)
  <2>1. rows'[d] = g
    BY <1>2, <1>7 DEF Recorded
  <2>2. g # <<>> /\ g[Len(g)] = r
    BY <1>2, LastAdded
  <2>3. h # <<>> => h[Len(h)].ts < up[s].ts
    BY <1>7 DEF Accepts, Last
  <2> HIDE DEF g, h, r
  <2>4. \A t \in Session : PosUp(t, d)' => t # s /\ PosUp(t, d) /\ up'[t] = up[t]
    BY <1>4 DEF PosUp
  <2>5. \A t \in Session : Recording(t, d)' => t # s /\ Recording(t, d) /\ up'[t] = up[t]
    BY <1>5, <2>4 DEF Recording
  <2>6. NotAfter(rows'[d], now')
    BY <1>2, <2>1, <2>2 DEF NotAfter
  <2>7. \A t \in Session : DeviceOf[t] = d /\ step'[t] = "xadd" => up'[t].field = "pos"
    BY <1>4 DEF Follows, UpsertSteps
  <2>8. ASSUME NEW t \in Session, Recording(t, d)'
        PROVE  /\ NotAfter(rows'[d], up'[t].ts)
               /\ \A q \in Session : PosUp(q, d)' => up'[q].ts <= up'[t].ts
    <3>1. up[s].ts <= up[t].ts /\ up'[t] = up[t]
      BY <1>1, <2>5, <2>8 DEF Follows
    <3>2. NotAfter(rows'[d], up'[t].ts)
      BY <1>2, <2>1, <2>2, <3>1 DEF NotAfter
    <3> QED BY <2>4, <2>5, <2>8, <3>1, <3>2 DEF Follows
  <2>9. ASSUME "pos" \in DOMAIN newest'[d], \A t \in Session : ~Recording(t, d)', d \notin unrecorded'
        PROVE  Ending(d)'
    <3>1. CASE Recording(s, d)
      <4>1. up[s].stamp = newest'[d].pos
        BY <1>5, <3>1 DEF Recording
      <4>2. \A t \in Session : PosUp(t, d)' => up'[t].ts <= up[s].ts
        BY <2>4, <3>1 DEF Follows
      <4> QED BY <1>2, <2>1, <2>2, <4>1, <4>2 DEF Ending
    <3>2. CASE ~Recording(s, d)
      <4>1. \A t \in Session : ~Recording(t, d)
        <5>1. \A t \in Session : t # s /\ Recording(t, d) => Recording(t, d)'
          BY <1>4, <1>5 DEF Recording, PosUp
        <5> QED BY <2>9, <3>2, <5>1
      <4>2. h # <<>> /\ up[s].ts <= h[Len(h)].ts
        BY <1>1, <1>5, <2>9, <4>1 DEF Follows, Ending, h
      <4> QED BY <1>2, <1>3, <2>3, <4>2
    <3> QED BY <3>1, <3>2
  <2> QED BY <2>6, <2>7, <2>8, <2>9 DEF Follows
<1> QED BY <1>6, <1>7

LEMMA FollowInvNext == ASSUME TypeInv, UpInv, FollowInv, [Next]_vars PROVE FollowInv'
<1>0. /\ newest = [e \in Device |-> newest[e]] /\ now \in Nat
      /\ rows \in [Device -> Seq(RowType)]
      /\ step \in [Session -> StepType] /\ up = [t \in Session |-> up[t]]
      /\ \A e \in Device : Follows(e)
  BY NowIsNat DEF TypeInv, FollowInv
<1>1. CASE Still
  <2>1. /\ rows' = rows /\ newest' = newest /\ step' = step /\ up' = up /\ unrecorded' = unrecorded
        /\ now' \in Nat /\ now <= now'
    BY <1>1, InputAssumption DEF Still, storeVars
  <2>2. ASSUME NEW e \in Device PROVE Follows(e)'
    <3>1. NotAfter(rows[e], now')
      BY <1>0, <2>1, LaterStill DEF Follows
    <3> QED BY <1>0, <2>1, <3>1, OthersSame, FollowsSame
  <2> QED BY <2>2 DEF FollowInv
<1>2. ASSUME NEW s \in Session, NEW f \in UpField, Sends(s), UpsertInMemory(s, f, ThisLine(s))
      PROVE  FollowInv'
  BY <1>2, SaidInMemory
<1>3. ASSUME NEW s \in Session, NEW f \in UpField, Sends(s), UpsertBegins(s, f, ThisLine(s))
      PROVE  FollowInv'
  BY <1>3, PositionBegins
<1>4. ASSUME NEW s \in Session, StoreStep(s), UNCHANGED <<redis, now, pos>>
      PROVE  FollowInv'
  <2> DEFINE d == DeviceOf[s]
  <2>0. d \in Device /\ now' = now
    BY <1>4, DeviceIs
  <2>1. newest' = newest /\ \A e : e \in unrecorded => e \in unrecorded'
    BY <1>4 DEF StoreStep, ShadowGet, ShadowSet, GaveTime, Recorded, CutOff, Missed
  <2>2. \A t \in Session : t # s => step'[t] = step[t] /\ up'[t] = up[t]
    <3>1. CASE Stopped(s)
      BY <3>1, StoppedHow
    <3>2. CASE ~Stopped(s)
      BY <1>0, <1>4, <3>2 DEF StoreStep, ShadowGet, ShadowSet, GaveTime, Recorded, CutOff
    <3> QED BY <3>1, <3>2
  <2>3. ASSUME NEW e \in Device, rows'[e] = rows[e],
               e = d =>
                  \/ /\ PosUp(s, d) /\ PosUp(s, d)'
                     /\ up'[s].ts = up[s].ts /\ up'[s].stamp = up[s].stamp
                  \/ /\ ~PosUp(s, d)' /\ step'[s] # "xadd"
                     /\ Recording(s, d) => d \in unrecorded'
        PROVE  Follows(e)'
    <3>1. NotAfter(rows[e], now')
      BY <1>0, <2>0 DEF Follows
    <3>2. ASSUME NEW t \in Session, DeviceOf[t] = e
          PROVE  \/ /\ PosUp(t, e) /\ PosUp(t, e)'
                    /\ up'[t].ts = up[t].ts /\ up'[t].stamp = up[t].stamp
                 \/ /\ ~PosUp(t, e)' /\ step'[t] # "xadd"
                    /\ Recording(t, e) => e \in unrecorded'
      <4>1. CASE t = s
        BY <2>3, <3>2, <4>1
      <4>2. CASE t # s
        BY <1>0, <2>2, <3>2, <4>2, OthersSame
      <4> QED BY <4>1, <4>2
    <3> QED BY <1>0, <2>1, <2>3, <3>1, <3>2, FollowsSame
  <2>4. CASE Recorded(s)
    <3>1. Follows(d)'
      BY <1>0, <2>0, <2>4, PositionRecorded
    <3>2. \A e \in Device : e # d => rows'[e] = rows[e]
      BY <1>0, <2>0, <2>4 DEF Recorded
    <3> QED BY <2>3, <3>1, <3>2 DEF FollowInv
  <2>5. CASE ShadowGet(s)
    <3>1. rows' = rows /\ step[s] = "get" /\ step'[s] = "set"
      BY <1>0, <2>5 DEF ShadowGet, storeVars
    <3>2. up[s].ts = up'[s].ts /\ up[s].stamp = up'[s].stamp /\ up[s].field = up'[s].field
      <4>1. IsUpsert(up[s])
        BY <3>1 DEF UpInv, UpOf, UpsertSteps
      <4>2. up'[s] = [up[s] EXCEPT !.cur = Merged(doc[d], up[s].field, up[s].stamp)]
        BY <1>0, <2>5 DEF ShadowGet
      <4> QED BY <4>1, <4>2 DEF IsUpsert
    <3> QED BY <2>3, <3>1, <3>2 DEF FollowInv, PosUp, UpsertSteps, Recording
  <2>6. CASE ShadowSet(s)
    <3>1. rows' = rows /\ step[s] = "set" /\ step'[s] = "expire" /\ up' = up
      BY <1>0, <2>6 DEF ShadowSet
    <3> QED BY <2>3, <3>1 DEF FollowInv, PosUp, UpsertSteps, Recording
  <2>7. CASE GaveTime(s)
    <3>1. rows' = rows /\ step[s] = "expire"
      BY <2>7 DEF GaveTime
    <3>2. CASE up[s].field # "pos"
      <4>1. step'[s] \notin UpsertSteps
        BY <2>7, <3>2, StoppedHow DEF GaveTime
      <4> QED BY <2>3, <3>1, <3>2, <4>1 DEF FollowInv, PosUp, UpsertSteps, Recording
    <3>3. CASE up[s].field = "pos"
      <4>1. step'[s] = "xadd" /\ up' = up
        BY <1>0, <2>7, <3>3 DEF GaveTime
      <4> QED BY <2>3, <3>1, <3>3, <4>1 DEF FollowInv, PosUp, UpsertSteps
    <3> QED BY <3>2, <3>3
  <2>8. CASE CutOff(s)
    <3>1. rows' = rows /\ step'[s] \notin UpsertSteps
      BY <2>8, StoppedHow DEF CutOff, storeVars
    <3>2. Recording(s, d) => d \in unrecorded'
      BY <2>8 DEF Recording, PosUp, CutOff, Missed, NewestPosition
    <3> QED BY <2>3, <3>1, <3>2 DEF FollowInv, PosUp, UpsertSteps
  <2> QED BY <1>4, <2>4, <2>5, <2>6, <2>7, <2>8 DEF StoreStep
<1>5. ASSUME NEW d \in Device, KeyExpires(d)
      PROVE  FollowInv'
  <2>1. /\ newest' = [newest EXCEPT ![d] = NoFields] /\ Upserting(d) = {}
        /\ UNCHANGED <<now, step, up, rows, unrecorded>>
    BY <1>5 DEF KeyExpires
  <2>2. ASSUME NEW e \in Device PROVE Follows(e)'
    <3>1. CASE e = d
      <4>1. \A t \in Session : ~PosUp(t, d)'
        BY <2>1 DEF PosUp, Upserting
      <4>2. "pos" \notin DOMAIN newest'[d]
        BY <1>0, <2>1 DEF NoFields
      <4> QED BY <1>0, <2>1, <3>1, <4>1, <4>2 DEF Follows, Recording
    <3>2. CASE e # d
      <4>1. newest'[e] = newest[e]
        BY <1>0, <2>1, <3>2
      <4>2. NotAfter(rows[e], now')
        BY <1>0, <2>1 DEF Follows
      <4> QED BY <1>0, <2>1, <4>1, <4>2, OthersSame, FollowsSame
    <3> QED BY <3>1, <3>2
  <2> QED BY <2>2 DEF FollowInv
<1> QED BY <1>1, <1>2, <1>3, <1>4, <1>5, StoreKinds

-----------------------------------------------------------------------------
(* The theorems *)

IInv == TypeInv /\ LoopInv /\ UpInv /\ DocInv /\ StoreInv /\ FollowInv

LEMMA InitIInv == Init => IInv
  BY InitTypes, InitLoops, InitStore DEF IInv

LEMMA StepIInv == IInv /\ [Next]_vars => IInv'
  BY TypesNext, LoopInvNext, UpInvNext, DocInvNext, StoreInvNext, FollowInvNext DEF IInv

LEMMA Invariance == Spec => []IInv
  BY InitIInv, StepIInv, PTL DEF Spec

\* Every variable has its type: what a session gathered are lines it heard, an
\* upsert under way is of one sentence and one time that has come, a history in
\* memory has at most MaxHistory rows (_rover_read_loop, DeviceShadowStore).
THEOREM TypeCorrect == Spec => []TypeOK
<1>1. IInv => TypeOK
  <2> SUFFICES ASSUME IInv PROVE TypeOK
    OBVIOUS
  <2>1. ASSUME NEW s \in Session
        PROVE  /\ script[s] \in Scripts
               /\ pos[s] \in 0..Len(script[s]) /\ heard[s] \subseteq 1..pos[s]
               /\ pending[s] \in Seq(heard[s]) /\ sky[s] \in Seq(heard[s])
               /\ total[s] \in Nat
               /\ step[s] \in {"read", "ended"} \cup UpsertSteps
    <3>1. script[s] \in Seq(Sentence) /\ pos[s] \in Nat /\ Heard(s) /\ total[s] \in Nat /\ script[s] \in Scripts
      BY InputAssumption DEF IInv, TypeInv, LoopInv
    <3>2. pos[s] \in 0..Len(script[s])
      BY <3>1 DEF Heard
    <3>3. step[s] \in {"read", "ended"} \cup UpsertSteps
      BY DEF IInv, TypeInv, StepType, UpsertSteps
    <3> QED BY <3>1, <3>2, <3>3 DEF Heard
  <2>2. ASSUME NEW s \in Session, step[s] \in UpsertSteps
        PROVE  redis /\ up[s].stamp \in Stamp /\ up[s].ts \in 0..now /\ IsDoc(up[s].cur)
    <3>1. redis /\ IsUpsert(up[s]) /\ up[s].ts <= now
      BY <2>2 DEF IInv, UpInv, UpOf
    <3>2. up[s].stamp \in Stamp /\ up[s].ts \in Nat /\ IsDoc(up[s].cur)
      BY <3>1 DEF IsUpsert
    <3>3. now \in Nat
      BY NowIsNat DEF IInv
    <3> QED BY <3>1, <3>2, <3>3
  <2>3. ASSUME NEW d \in Device
        PROVE  /\ IsDoc(doc[d]) /\ IsDoc(newest[d])
               /\ \A i \in 1..Len(rows[d]) : rows[d][i].stamp \in Stamp
               /\ ~redis => Len(rows[d]) <= MaxHistory
    <3>1. DocOf(d) /\ rows[d] \in Seq(RowType)
      BY DEF IInv, DocInv, TypeInv
    <3>2. \A i \in 1..Len(rows[d]) : rows[d][i] \in RowType
      <4> HIDE DEF RowType
      <4> QED BY <3>1
    <3> QED BY <3>1, <3>2 DEF DocOf, RowType
  <2>4. redis \in BOOLEAN /\ now \in 0..MaxTime /\ timed \subseteq Device /\ torn \subseteq Device
        /\ unrecorded \subseteq Device
    BY DEF IInv, TypeInv
  <2> QED BY <2>1, <2>2, <2>3, <2>4 DEF TypeOK
<1> QED BY <1>1, Invariance, PTL

\* Between upserts a shadow from which nothing was torn holds the last thing said
\* of every field, and its key has a TTL (DeviceShadowStore.upsert: get, merge,
\* set, expire, each an await of its own).
THEOREM ShadowIsNewest == Spec => []ShadowSettled
<1>1. IInv => ShadowSettled
  <2> SUFFICES ASSUME IInv, NEW d \in Device \ torn, Upserting(d) = {}
               PROVE  doc[d] = newest[d] /\ (redis /\ DOMAIN doc[d] # {} => d \in timed)
    BY DEF ShadowSettled
  <2>1. Settled(d)
    BY DEF IInv, StoreInv
  <2>2. \A s \in Session : ~Early(s, d) /\ ~(DeviceOf[s] = d /\ step[s] = "expire")
    BY DEF Upserting, UpsertSteps, Early
  <2> QED BY <2>1, <2>2 DEF Settled
<1> QED BY <1>1, Invariance, PTL

\* Between upserts a device's history ends with the position of its shadow, in
\* whichever order the rows of its sessions arrive (upsert takes ts_ms before its
\* awaits and gives it to XADD as the id; in memory both are one step).
THEOREM HistoryFollowsShadow == Spec => []HistoryFollows
<1>1. IInv => HistoryFollows
  <2> SUFFICES ASSUME IInv, NEW d \in Device \ (torn \cup unrecorded),
                      Upserting(d) = {}, "pos" \in DOMAIN doc[d]
               PROVE  rows[d] # <<>> /\ Last(rows[d]).stamp = doc[d].pos
    BY DEF HistoryFollows
  <2>1. Settled(d) /\ Follows(d)
    BY DEF IInv, StoreInv, FollowInv
  <2>2. \A s \in Session : ~Early(s, d) /\ ~Recording(s, d)
    BY DEF Upserting, UpsertSteps, Early, Recording, PosUp
  <2>3. doc[d] = newest[d]
    BY <2>1, <2>2 DEF Settled
  <2> QED BY <2>1, <2>2, <2>3 DEF Follows, Ending, Last
<1> QED BY <1>1, Invariance, PTL

\* A sky view whose sentences were sent in order and all arrived is computed from
\* exactly them, whatever was lost before (the GSV branch of _rover_read_loop).
THEOREM SkyIsExact == Spec => []SkyExact
<1>1. IInv => SkyExact
  <2> SUFFICES ASSUME IInv, NEW s \in Session, sky[s] # <<>>
               PROVE  LET last == Last(sky[s])
                      IN  GroupOf(s, last) \subseteq heard[s] /\ SentInOrder(s, last) =>
                             sky[s] = [i \in 1..script[s][last].total |-> last - script[s][last].total + i]
    BY DEF SkyExact
  <2>1. Shown(s)
    BY DEF IInv, LoopInv
  <2> QED BY <2>1 DEF Shown, Last, GroupOf, SentInOrder, Opening, Exactly
<1> QED BY <1>1, Invariance, PTL
=============================================================================
