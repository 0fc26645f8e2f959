------------------------- MODULE AdminTokensProofs --------------------------
(***************************************************************************)
(* Proofs about AdminTokens, for any requests, life of a token and bounds  *)
(* of the run.                                                             *)
(*                                                                         *)
(* The inductive invariant says, of every token whose revocation was not   *)
(* lost on one of the known ways: a write under way will record it to its  *)
(* end and nobody has spent it yet; a record reaches to its end; and who   *)
(* spent it has recorded it.                                               *)
(***************************************************************************)
EXTENDS AdminTokens, FiniteSetTheorems, TLAPS

Writing(r, t) == req[r] # Idle /\ req[r].step = "write" /\ req[r].token = t

ReqType ==
    \A r \in Request :
       \/ req[r] = Idle
       \/ /\ req[r] \in [step : {"lookup", "write"}, kind : Kind, token : Tokens, ttl : 0..Life]
          /\ req[r].step = "write" => redis

TypeInv ==
    /\ redis \in BOOLEAN
    /\ now \in 0..MaxTime
    /\ exps \in Seq(Nat)
    /\ \A t \in Tokens : exps[t] <= now + Life
    /\ uses \in Seq(0..2) /\ Len(uses) = Len(exps)
    /\ DOMAIN store \subseteq Tokens /\ \A t \in DOMAIN store : store[t] \in Nat
    /\ loose \subseteq Tokens
    /\ DOMAIN req = Request
    /\ ReqType

\* Every request under way has room for the token it may mint.
Reserved == Len(exps) + Cardinality(Busy) <= MaxTokens

WritesReachTheEnd ==
    \A r \in Request, t \in Tokens \ loose : Writing(r, t) =>
        /\ now + req[r].ttl >= exps[t]
        /\ uses[t] = 0
        /\ \A q \in Request : Writing(q, t) => q = r

RecordsReachTheEnd == \A t \in DOMAIN store \ loose : store[t] >= exps[t]

SpentAreRecorded ==
    \A t \in Tokens \ loose : uses[t] # 0 => uses[t] = 1 /\ t \in DOMAIN store

IInv == TypeInv /\ WritesReachTheEnd /\ RecordsReachTheEnd /\ SpentAreRecorded

-----------------------------------------------------------------------------
(* Minting *)

\* A step adds at most one token, fresh and unspent, and leaves the others' ends.
Grows ==
    /\ exps' \in Seq(Nat) /\ Len(exps') \in {Len(exps), Len(exps) + 1}
    /\ uses' \in Seq(0..2) /\ Len(uses') = Len(exps')
    /\ \A t \in Tokens : exps'[t] = exps[t]
    /\ \A t \in Tokens' : t \in Tokens \/ (exps'[t] <= now + Life /\ uses'[t] = 0)

\* Only token t is spent, and at most once more.
Spends(t) ==
    /\ \A u \in Tokens \ {t} : uses'[u] = uses[u]
    /\ uses'[t] = Once(uses[t])

LEMMA SpendGrows ==
    ASSUME TypeInv, NEW r \in Request, req[r] # Idle, Spend(r)
    PROVE  Grows /\ Spends(req[r].token) /\ req[r].token \in Tokens
<1> DEFINE t == req[r].token
           spent == [uses EXCEPT ![t] = Once(@)]
<1>1. t \in Tokens
  BY DEF TypeInv, ReqType
<1>2. Once(uses[t]) \in 0..2
  BY <1>1 DEF TypeInv, Once, Tokens
<1>3. /\ spent \in Seq(0..2) /\ Len(spent) = Len(uses)
      /\ spent[t] = Once(uses[t])
      /\ \A u \in Tokens \ {t} : spent[u] = uses[u]
  BY <1>1, <1>2 DEF TypeInv, Tokens
<1>4. now + Life \in Nat
  BY TokenAssumption DEF TypeInv
<1>5. CASE req[r].kind = "refresh"
  <2> HIDE DEF spent
  <2>1. exps' = Append(exps, now + Life) /\ uses' = Append(spent, 0)
    BY <1>5 DEF Spend, spent
  <2> QED BY <1>1, <1>3, <1>4, <2>1 DEF Grows, Spends, TypeInv, Tokens
<1>6. CASE req[r].kind # "refresh"
  <2> HIDE DEF spent
  <2>1. exps' = exps /\ uses' = spent
    BY <1>6 DEF Spend, spent
  <2> QED BY <1>1, <1>3, <2>1 DEF Grows, Spends, TypeInv, Tokens
<1> QED BY <1>1, <1>5, <1>6

LEMMA LoginGrows ==
    ASSUME TypeInv, Login
    PROVE  Grows /\ \A t \in Tokens : uses'[t] = uses[t]
<1>1. now + Life \in Nat
  BY TokenAssumption DEF TypeInv
<1> QED BY <1>1 DEF Login, Grows, TypeInv, Tokens

LEMMA StandsGrows == ASSUME TypeInv, UNCHANGED <<exps, uses>> PROVE Grows
BY DEF Grows, TypeInv, Tokens

-----------------------------------------------------------------------------
(* The type of every variable *)

\* A request ends, or goes on with a token that is still there.
LEMMA DoneType ==
    ASSUME TypeInv, NEW r \in Request, Done(r), Tokens \subseteq Tokens', redis' = redis
    PROVE  DOMAIN req' = Request /\ ReqType'
<1>1. \A q \in Request : req'[q] = IF q = r THEN Idle ELSE req[q]
  BY DEF Done, TypeInv
<1>2. DOMAIN req' = Request
  BY DEF Done, TypeInv
<1> QED BY <1>1, <1>2 DEF TypeInv, ReqType, Idle

LEMMA RecordType ==
    ASSUME TypeInv, NEW t \in Tokens, NEW until \in Nat, store' = Record(t, until)
    PROVE  /\ DOMAIN store' = DOMAIN store \cup {t}
           /\ DOMAIN store' \subseteq Tokens
           /\ \A u \in DOMAIN store' : store'[u] \in Nat
           /\ store'[t] = until
           /\ \A u \in DOMAIN store \ {t} : store'[u] = store[u]
BY DEF TypeInv, Record

LEMMA TypeStep == ASSUME TypeInv, [Next]_vars PROVE TypeInv'
<1> USE DEF TypeInv
<1>0. Grows => Tokens \subseteq Tokens' /\ \A t \in Tokens' : exps'[t] <= now + Life
  BY DEF Grows, Tokens
<1>1. CASE UNCHANGED vars
  BY <1>1 DEF vars, ReqType, Tokens
<1>2. CASE Tick
  BY <1>2, TokenAssumption DEF Tick, ReqType, Tokens
<1>3. CASE Login
  <2>1. Grows
    BY <1>3, LoginGrows
  <2>2. ReqType'
    BY <1>0, <1>3, <2>1 DEF Login, ReqType
  <2> QED BY <1>0, <1>3, <2>1, <2>2 DEF Login, Grows
<1>4. CASE Restart
  <2>1. req' = [r \in Request |-> Idle] /\ ReqType'
    BY <1>4 DEF Restart, ReqType
  <2>2. /\ DOMAIN store' \subseteq Tokens /\ \A t \in DOMAIN store' : store'[t] \in Nat
        /\ loose' \subseteq Tokens
    BY <1>4 DEF Restart
  <2> QED BY <1>4, <2>1, <2>2 DEF Restart, Tokens
<1>5. ASSUME NEW t \in Tokens, NEW exp \in 1..(MaxTime + Life), RevokeById(t, exp)
      PROVE  TypeInv'
  <2>1. exp \in Nat /\ store' = Record(t, exp)
    BY <1>5, TokenAssumption DEF RevokeById
  <2>2. /\ DOMAIN store' \subseteq Tokens
        /\ \A u \in DOMAIN store' : store'[u] \in Nat
    BY <2>1, RecordType
  <2> QED BY <1>5, <2>2 DEF RevokeById, ReqType, Tokens
<1>6. ASSUME NEW r \in Request, NEW kind \in Kind, NEW t \in Tokens, Present(r, kind, t)
      PROVE  TypeInv'
  <2>1. 0 \in 0..Life
    BY TokenAssumption
  <2>2. ReqType' /\ DOMAIN req' = Request
    BY <1>6, <2>1 DEF Present, ReqType, Tokens, Idle
  <2> QED BY <1>6, <2>2 DEF Present, Tokens
<1>7. ASSUME NEW r \in Request, req[r] # Idle PROVE
      (Refused(r) \/ AcceptedLate(r) \/ AcceptedInMemory(r) \/ LookupFails(r) \/ Written(r) \/ WriteFails(r))
         => TypeInv'
  <2> DEFINE t == req[r].token
  <2> t \in Tokens /\ req[r].ttl \in Nat
    BY <1>7, TokenAssumption DEF ReqType
  <2>1. CASE Refused(r) \/ LookupFails(r)
    <3>1. ReqType' /\ DOMAIN req' = Request
      BY <2>1, DoneType DEF Refused, LookupFails, Tokens
    <3> QED BY <2>1, <3>1 DEF Refused, LookupFails, Tokens
  <2>2. CASE AcceptedLate(r)
    <3>1. Grows
      BY <1>7, <2>2, SpendGrows DEF AcceptedLate
    <3>2. ReqType' /\ DOMAIN req' = Request
      BY <1>0, <2>2, <3>1, DoneType DEF AcceptedLate
    <3> QED BY <1>0, <2>2, <3>1, <3>2 DEF AcceptedLate, Grows
  <2>3. CASE AcceptedInMemory(r)
    <3>1. Grows
      BY <1>7, <2>3, SpendGrows DEF AcceptedInMemory
    <3>2. ReqType' /\ DOMAIN req' = Request
      BY <1>0, <2>3, <3>1, DoneType DEF AcceptedInMemory
    <3>3. /\ DOMAIN store' \subseteq Tokens
          /\ \A u \in DOMAIN store' : store'[u] \in Nat
      <4>1. exps[t] \in Nat /\ store' = Record(t, exps[t])
        BY <2>3 DEF AcceptedInMemory, Tokens
      <4> QED BY <4>1, RecordType
    <3> QED BY <1>0, <2>3, <3>1, <3>2, <3>3 DEF AcceptedInMemory, Grows
  <2>4. CASE Written(r)
    <3>1. Grows
      BY <1>7, <2>4, SpendGrows DEF Written
    <3>2. ReqType' /\ DOMAIN req' = Request
      BY <1>0, <2>4, <3>1, DoneType DEF Written
    <3>3. /\ DOMAIN store' \subseteq Tokens
          /\ \A u \in DOMAIN store' : store'[u] \in Nat
      <4>1. now + req[r].ttl \in Nat /\ store' = Record(t, now + req[r].ttl)
        BY <2>4 DEF Written
      <4> QED BY <4>1, RecordType
    <3> QED BY <1>0, <2>4, <3>1, <3>2, <3>3 DEF Written, Grows
  <2>5. CASE WriteFails(r)
    <3>1. Grows
      BY <1>7, <2>5, SpendGrows, StandsGrows DEF WriteFails
    <3>2. ReqType' /\ DOMAIN req' = Request
      BY <1>0, <2>5, <3>1, DoneType DEF WriteFails
    <3> QED BY <1>0, <2>5, <3>1, <3>2 DEF WriteFails, Grows
  <2> QED BY <2>1, <2>2, <2>3, <2>4, <2>5
<1>8. ASSUME NEW r \in Request, req[r] # Idle, AcceptedByRedis(r) PROVE TypeInv'
  <2> DEFINE t == req[r].token
  <2>1. t \in Tokens /\ exps[t] \in Nat /\ exps[t] <= now + Life /\ exps[t] > now
    BY <1>8 DEF ReqType, AcceptedByRedis, Tokens
  <2>2. Ttl(t) \in 0..Life
    BY <2>1, TokenAssumption DEF Ttl
  <2>3. req' = [req EXCEPT ![r] = [req[r] EXCEPT !.step = "write", !.ttl = Ttl(t)]]
    BY <1>8 DEF AcceptedByRedis
  <2>4. req'[r] \in [step : {"lookup", "write"}, kind : Kind, token : Tokens, ttl : 0..Life]
    BY <1>8, <2>2, <2>3 DEF ReqType
  <2>5. ReqType' /\ DOMAIN req' = Request
    BY <1>8, <2>3, <2>4 DEF ReqType, AcceptedByRedis, Tokens
  <2>6. loose' \subseteq Tokens
    BY <1>8, <2>1 DEF AcceptedByRedis
  <2> QED BY <1>8, <2>5, <2>6 DEF AcceptedByRedis, Tokens
<1> QED
  BY <1>1, <1>2, <1>3, <1>4, <1>5, <1>6, <1>7, <1>8 DEF Next

-----------------------------------------------------------------------------
(* Who spends a token records it *)

Sound == WritesReachTheEnd /\ RecordsReachTheEnd /\ SpentAreRecorded

\* The lookup answers for every spent token until it expires.
LEMMA Unspent ==
    ASSUME IInv, NEW t \in Tokens \ loose, exps[t] > now, ~Recorded(t)
    PROVE  uses[t] = 0
<1> SUFFICES ASSUME uses[t] # 0 PROVE FALSE
  OBVIOUS
<1>1. t \in DOMAIN store /\ store[t] >= exps[t]
  BY DEF IInv, SpentAreRecorded, RecordsReachTheEnd
<1> QED BY <1>1 DEF Recorded, IInv, TypeInv, Tokens

\* A request that is over leaves the other writes as they were.
LEMMA WritersLeft ==
    ASSUME TypeInv, NEW r \in Request, Done(r), NEW q \in Request, NEW t, Writing(q, t)'
    PROVE  Writing(q, t) /\ q # r /\ req'[q] = req[q] /\ t \in Tokens
BY DEF TypeInv, ReqType, Done, Writing, Idle

\* When a request ends, every other token is as it was; so what is left to show
\* of the step is that the token u it dealt with is in order.
LEMMA SoundButOne ==
    ASSUME IInv, Grows, NEW r \in Request, Done(r), NEW t \in Tokens, Spends(t),
           now' = now, loose \subseteq loose',
           \A u \in DOMAIN store' \ {t} : u \in DOMAIN store /\ store'[u] = store[u],
           DOMAIN store \subseteq DOMAIN store', DOMAIN store' \subseteq Tokens,
           t \in loose' \/ /\ t \in DOMAIN store' /\ store'[t] >= exps[t] /\ uses'[t] = 1
                           /\ \A q \in Request : Writing(q, t) => q = r
    PROVE  Sound'
<1>0. TypeInv /\ WritesReachTheEnd /\ RecordsReachTheEnd /\ SpentAreRecorded
  BY DEF IInv
<1>1. \A u \in Tokens' : u \in Tokens \/ uses'[u] = 0
  BY DEF Grows
<1>2. \A u \in Tokens : exps'[u] = exps[u]
  BY DEF Grows
<1>3. \A u \in Tokens \ {t} : uses'[u] = uses[u]
  BY DEF Spends
<1>4. WritesReachTheEnd'
  <2> SUFFICES ASSUME NEW q \in Request, NEW u \in Tokens' \ loose', Writing(q, u)'
               PROVE  /\ now' + req'[q].ttl >= exps'[u] /\ uses'[u] = 0
                      /\ \A p \in Request : Writing(p, u)' => p = q
    BY DEF WritesReachTheEnd
  <2>1. Writing(q, u) /\ q # r /\ req'[q] = req[q] /\ u \in Tokens
    BY <1>0, WritersLeft
  <2>2. u # t /\ u \notin loose
    BY <2>1
  <2>3. /\ now + req[q].ttl >= exps[u] /\ uses[u] = 0
        /\ \A p \in Request : Writing(p, u) => p = q
    BY <1>0, <2>1, <2>2 DEF WritesReachTheEnd
  <2>4. \A p \in Request : Writing(p, u)' => Writing(p, u)
    BY <1>0, WritersLeft
  <2> QED BY <1>2, <1>3, <2>1, <2>2, <2>3, <2>4
<1>5. RecordsReachTheEnd'
  BY <1>0, <1>2 DEF RecordsReachTheEnd
<1>6. SpentAreRecorded'
  BY <1>0, <1>1, <1>3 DEF SpentAreRecorded
<1> QED BY <1>4, <1>5, <1>6 DEF Sound

\* A request that ends without spending.
LEMMA SoundWhenDone ==
    ASSUME IInv, NEW r \in Request, Done(r), UNCHANGED <<now, exps, uses, store, loose>>
    PROVE  Sound'
<1>0. TypeInv /\ WritesReachTheEnd /\ RecordsReachTheEnd /\ SpentAreRecorded
  BY DEF IInv
<1>1. \A q \in Request, t \in Tokens : Writing(q, t)' => Writing(q, t) /\ req'[q] = req[q]
  BY <1>0, WritersLeft
<1>2. WritesReachTheEnd'
  BY <1>0, <1>1 DEF WritesReachTheEnd, Tokens
<1> QED BY <1>0, <1>2 DEF Sound, RecordsReachTheEnd, SpentAreRecorded, Tokens

LEMMA SoundStep == ASSUME IInv, [Next]_vars PROVE Sound'
<1>0. TypeInv /\ WritesReachTheEnd /\ RecordsReachTheEnd /\ SpentAreRecorded
  BY DEF IInv
<1>1. CASE UNCHANGED vars
  BY <1>0, <1>1 DEF vars, Sound, WritesReachTheEnd, Writing, RecordsReachTheEnd, SpentAreRecorded, Tokens
<1>2. CASE Tick
  <2>1. \A r \in Request : req[r] # Idle => req[r].ttl \in Nat
    BY <1>0, TokenAssumption DEF TypeInv, ReqType
  <2>2. WritesReachTheEnd'
    BY <1>0, <1>2, <2>1 DEF Tick, WritesReachTheEnd, Writing, Tokens, TypeInv
  <2> QED BY <1>0, <1>2, <2>2 DEF Tick, Sound, RecordsReachTheEnd, SpentAreRecorded, Tokens
<1>3. CASE Login
  <2>1. Grows /\ \A t \in Tokens : uses'[t] = uses[t]
    BY <1>0, <1>3, LoginGrows
  <2>2. \A q \in Request : \A t : Writing(q, t)' => Writing(q, t) /\ req'[q] = req[q] /\ t \in Tokens
    BY <1>0, <1>3 DEF Login, Writing, TypeInv, ReqType
  <2>3. \A t \in Tokens' : t \in Tokens \/ uses'[t] = 0
    BY <2>1 DEF Grows
  <2>4. \A t \in Tokens : exps'[t] = exps[t]
    BY <2>1 DEF Grows
  <2>5. now' = now /\ loose' = loose /\ store' = store /\ DOMAIN store \subseteq Tokens
    BY <1>0, <1>3 DEF Login, TypeInv
  <2>6. WritesReachTheEnd'
    BY <1>0, <1>3, <2>1, <2>2, <2>4, <2>5 DEF WritesReachTheEnd
  <2>7. RecordsReachTheEnd' /\ SpentAreRecorded'
    BY <1>0, <2>1, <2>3, <2>4, <2>5 DEF RecordsReachTheEnd, SpentAreRecorded
  <2> QED BY <2>6, <2>7 DEF Sound
<1>4. CASE Restart
  <2>1. WritesReachTheEnd'
    BY <1>4 DEF Restart, WritesReachTheEnd, Writing
  <2>2. RecordsReachTheEnd' /\ SpentAreRecorded'
    BY <1>0, <1>4 DEF Restart, RecordsReachTheEnd, SpentAreRecorded, Tokens
  <2> QED BY <2>1, <2>2 DEF Sound
<1>5. ASSUME NEW t \in Tokens, NEW exp \in 1..(MaxTime + Life), RevokeById(t, exp)
      PROVE  Sound'
  <2>1. /\ store' = Record(t, exp) /\ exp \in Nat
        /\ UNCHANGED <<now, exps, uses, req>>
        /\ loose \subseteq loose' /\ (t \in loose' \/ exp >= exps[t])
    BY <1>0, <1>5, TokenAssumption DEF RevokeById, TypeInv, Tokens
  <2>2. /\ DOMAIN store' = DOMAIN store \cup {t} /\ store'[t] = exp
        /\ \A u \in DOMAIN store \ {t} : store'[u] = store[u]
    BY <1>0, <2>1, RecordType
  <2>3. WritesReachTheEnd'
    BY <1>0, <2>1 DEF WritesReachTheEnd, Writing, Tokens
  <2>4. RecordsReachTheEnd' /\ SpentAreRecorded'
    BY <1>0, <2>1, <2>2 DEF RecordsReachTheEnd, SpentAreRecorded, Tokens
  <2> QED BY <2>3, <2>4 DEF Sound
<1>6. ASSUME NEW r \in Request, NEW kind \in Kind, NEW t \in Tokens, Present(r, kind, t)
      PROVE  Sound'
  <2>1. /\ UNCHANGED <<now, exps, uses, store, loose>>
        /\ \A q \in Request, u \in Tokens : Writing(q, u)' => Writing(q, u) /\ req'[q] = req[q]
    BY <1>0, <1>6 DEF Present, Writing, TypeInv
  <2>2. WritesReachTheEnd'
    BY <1>0, <2>1 DEF WritesReachTheEnd, Tokens
  <2> QED BY <1>0, <2>1, <2>2 DEF Sound, RecordsReachTheEnd, SpentAreRecorded, Tokens
<1>7. ASSUME NEW r \in Request, req[r] # Idle, Refused(r) \/ LookupFails(r) PROVE Sound'
  BY <1>7, SoundWhenDone DEF Refused, LookupFails
<1>8. ASSUME NEW r \in Request, req[r] # Idle, AcceptedLate(r) PROVE Sound'
  <2> DEFINE t == req[r].token
  <2>1. Grows /\ Spends(t) /\ t \in Tokens
    BY <1>0, <1>8, SpendGrows DEF AcceptedLate
  <2> HIDE DEF t
  <2>2. Done(r) /\ now' = now /\ store' = store /\ loose' = loose \cup {t}
    BY <1>8 DEF AcceptedLate, t
  <2> QED BY <1>0, <2>1, <2>2, SoundButOne DEF TypeInv
<1>9. ASSUME NEW r \in Request, req[r] # Idle, AcceptedInMemory(r) PROVE Sound'
  <2> DEFINE t == req[r].token
  <2>1. Grows /\ Spends(t) /\ t \in Tokens
    BY <1>0, <1>9, SpendGrows DEF AcceptedInMemory
  <2>2. t \in loose \/ uses[t] = 0
    BY <1>9, <2>1, Unspent DEF AcceptedInMemory
  <2>3. \A q \in Request : ~Writing(q, t)
    BY <1>0, <1>9 DEF AcceptedInMemory, Writing, TypeInv, ReqType
  <2> HIDE DEF t
  <2>4. /\ Done(r) /\ now' = now /\ loose' = loose
        /\ store' = Record(t, exps[t]) /\ exps[t] \in Nat
    BY <1>0, <1>9, <2>1 DEF AcceptedInMemory, TypeInv, Tokens, t
  <2>5. /\ DOMAIN store' = DOMAIN store \cup {t} /\ store'[t] = exps[t]
        /\ \A u \in DOMAIN store \ {t} : store'[u] = store[u]
        /\ DOMAIN store' \subseteq Tokens
    BY <1>0, <2>1, <2>4, RecordType
  <2>6. uses[t] = 0 => uses'[t] = 1
    BY <2>1 DEF Spends, Once
  <2> QED BY <1>0, <2>1, <2>2, <2>3, <2>4, <2>5, <2>6, SoundButOne
<1>10. ASSUME NEW r \in Request, req[r] # Idle, Written(r) PROVE Sound'
  <2> DEFINE t == req[r].token
             until == now + req[r].ttl
  <2>1. Grows /\ Spends(t) /\ t \in Tokens
    BY <1>0, <1>10, SpendGrows DEF Written
  <2>2. until \in Nat
    BY <1>0, <1>10, TokenAssumption DEF TypeInv, ReqType
  <2>3. t \in loose \/ (/\ until >= exps[t] /\ uses[t] = 0
                        /\ \A q \in Request : Writing(q, t) => q = r)
    BY <1>0, <1>10, <2>1 DEF Written, WritesReachTheEnd, Writing
  <2>4. /\ Done(r) /\ now' = now /\ loose' = loose /\ store' = Record(t, until)
    BY <1>10 DEF Written
  <2> HIDE DEF t, until
  <2>5. /\ DOMAIN store' = DOMAIN store \cup {t} /\ store'[t] = until
        /\ \A u \in DOMAIN store \ {t} : store'[u] = store[u]
        /\ DOMAIN store' \subseteq Tokens
    BY <1>0, <2>1, <2>2, <2>4, RecordType
  <2>6. uses[t] = 0 => uses'[t] = 1
    BY <2>1 DEF Spends, Once
  <2> QED BY <1>0, <2>1, <2>3, <2>4, <2>5, <2>6, SoundButOne
<1>11. ASSUME NEW r \in Request, req[r] # Idle, WriteFails(r) PROVE Sound'
  <2> DEFINE t == req[r].token
  <2>1. CASE req[r].kind = "refresh"
    <3>1. Grows /\ Spends(t) /\ t \in Tokens
      BY <1>0, <1>11, <2>1, SpendGrows DEF WriteFails
    <3> HIDE DEF t
    <3>2. Done(r) /\ now' = now /\ store' = store /\ loose' = loose \cup {t}
      BY <1>11, <2>1 DEF WriteFails, t
    <3> QED BY <1>0, <3>1, <3>2, SoundButOne DEF TypeInv
  <2>2. CASE req[r].kind # "refresh"
    BY <1>11, <2>2, SoundWhenDone DEF WriteFails
  <2> QED BY <2>1, <2>2
<1>12. ASSUME NEW r \in Request, req[r] # Idle, AcceptedByRedis(r) PROVE Sound'
  <2> DEFINE t == req[r].token
  <2>1. t \in Tokens /\ exps[t] \in Nat /\ exps[t] > now /\ now \in Nat
    BY <1>0, <1>12 DEF TypeInv, ReqType, AcceptedByRedis, Tokens
  <2>2. t \in loose \/ uses[t] = 0
    BY <1>12, <2>1, Unspent DEF AcceptedByRedis
  <2>3. t \in loose' \/ \A q \in Request : Writing(q, t) => q = r
    BY <1>12 DEF AcceptedByRedis, Overtaken, Writing
  <2>4. /\ now' = now /\ exps' = exps /\ uses' = uses /\ store' = store
        /\ loose \subseteq loose'
        /\ req' = [req EXCEPT ![r] = [req[r] EXCEPT !.step = "write", !.ttl = Ttl(t)]]
    BY <1>12 DEF AcceptedByRedis
  <2>5. req'[r].ttl = exps[t] - now /\ req'[r].token = t
    BY <1>0, <1>12, <2>4 DEF Ttl, TypeInv, ReqType
  <2>6. \A q \in Request \ {r} : req'[q] = req[q]
    BY <2>4
  <2>7. \A q \in Request : \A u : Writing(q, u)' => IF q = r THEN u = t ELSE Writing(q, u)
    BY <2>5, <2>6 DEF Writing
  <2> HIDE DEF t
  <2>8. WritesReachTheEnd'
    <3> SUFFICES ASSUME NEW q \in Request, NEW u \in Tokens \ loose', Writing(q, u)'
                 PROVE  /\ now + req'[q].ttl >= exps[u] /\ uses[u] = 0
                        /\ \A p \in Request : Writing(p, u)' => p = q
      BY <2>4 DEF WritesReachTheEnd, Tokens
    <3>1. u \notin loose
      BY <2>4
    <3>2. CASE q = r
      BY <2>1, <2>2, <2>3, <2>5, <2>7, <3>1, <3>2
    <3>3. CASE q # r
      <4>1. Writing(q, u) /\ req'[q] = req[q] /\ u # t
        BY <2>3, <2>6, <2>7, <3>3
      <4> QED BY <1>0, <2>7, <3>1, <3>3, <4>1 DEF WritesReachTheEnd
    <3> QED BY <3>2, <3>3
  <2> QED BY <1>0, <2>4, <2>8 DEF Sound, RecordsReachTheEnd, SpentAreRecorded, Tokens
<1> QED
  BY <1>1, <1>2, <1>3, <1>4, <1>5, <1>6, <1>7, <1>8, <1>9, <1>10, <1>11, <1>12 DEF Next

-----------------------------------------------------------------------------
(* Room for what may be minted *)

LEMMA BusyFinite == IsFiniteSet(Busy) /\ Cardinality(Busy) \in Nat
<1>1. Busy \in SUBSET Request
  BY DEF Busy
<1>2. IsFiniteSet(Busy)
  BY <1>1, FS_Subset, TokenAssumption
<1> QED BY <1>2, FS_CardinalityType

\* The token that a request mints takes the room its end gives back.
LEMMA DoneReserved ==
    ASSUME TypeInv, Reserved, NEW r \in Request, req[r] # Idle, Done(r), Grows
    PROVE  Reserved'
<1>1. Busy' = Busy \ {r} /\ r \in Busy
  BY DEF Busy, Done, TypeInv
<1>2. Cardinality(Busy') = Cardinality(Busy) - 1
  BY <1>1, BusyFinite, FS_RemoveElement
<1>3. Len(exps) \in Nat /\ Len(exps') <= Len(exps) + 1 /\ Len(exps') \in Nat
  BY DEF TypeInv, Grows
<1> QED BY <1>2, <1>3, BusyFinite, TokenAssumption DEF Reserved

LEMMA ReservedStep == ASSUME TypeInv, Reserved, [Next]_vars PROVE Reserved'
<1>1. CASE UNCHANGED <<exps, req>>
  BY <1>1 DEF Reserved, Busy
<1>2. CASE Login
  <2>1. Busy' = Busy /\ Len(exps') = Len(exps) + 1
    BY <1>2 DEF Login, Busy, TypeInv
  <2> QED BY <1>2, <2>1, BusyFinite, TokenAssumption DEF Login, Reserved, TypeInv
<1>3. CASE Restart
  <2>1. Busy' = {} /\ exps' = exps
    BY <1>3 DEF Restart, Busy
  <2> QED BY <2>1, FS_EmptySet, BusyFinite, TokenAssumption DEF Reserved, TypeInv
<1>4. ASSUME NEW r \in Request, NEW kind \in Kind, NEW t \in Tokens, Present(r, kind, t)
      PROVE  Reserved'
  <2>1. Busy' = Busy \cup {r} /\ r \notin Busy /\ exps' = exps
    BY <1>4 DEF Present, Busy, TypeInv, Idle
  <2>2. Cardinality(Busy') = Cardinality(Busy) + 1
    BY <2>1, BusyFinite, FS_AddElement
  <2> QED BY <1>4, <2>1, <2>2, BusyFinite, TokenAssumption DEF Present, Reserved, TypeInv
<1>5. ASSUME NEW r \in Request, req[r] # Idle,
             \/ Refused(r) \/ LookupFails(r) \/ AcceptedLate(r) \/ AcceptedInMemory(r)
             \/ Written(r) \/ WriteFails(r)
      PROVE  Reserved'
  <2>1. Done(r)
    BY <1>5 DEF Refused, LookupFails, AcceptedLate, AcceptedInMemory, Written, WriteFails
  <2>2. Spend(r) \/ UNCHANGED <<exps, uses>>
    BY <1>5 DEF Refused, LookupFails, AcceptedLate, AcceptedInMemory, Written, WriteFails
  <2> QED BY <1>5, <2>1, <2>2, SpendGrows, StandsGrows, DoneReserved
<1>6. ASSUME NEW r \in Request, req[r] # Idle, AcceptedByRedis(r) PROVE Reserved'
  <2>1. req' = [req EXCEPT ![r] = [req[r] EXCEPT !.step = "write", !.ttl = Ttl(req[r].token)]]
    BY <1>6 DEF AcceptedByRedis
  <2>2. req'[r] # Idle
    BY <1>6, <2>1 DEF TypeInv, ReqType, Idle
  <2>3. Busy' = Busy /\ exps' = exps
    BY <1>6, <2>1, <2>2 DEF Busy, TypeInv, AcceptedByRedis
  <2> QED BY <2>3 DEF Reserved
<1>7. CASE Tick \/ \E t \in Tokens, exp \in 1..(MaxTime + Life) : RevokeById(t, exp)
  BY <1>1, <1>7 DEF Tick, RevokeById
<1>8. CASE UNCHANGED vars
  BY <1>1, <1>8 DEF vars
<1> QED
  BY <1>2, <1>3, <1>4, <1>5, <1>6, <1>7, <1>8 DEF Next

-----------------------------------------------------------------------------
(* Theorems *)

LEMMA InitIInv == Init => IInv /\ Reserved
<1> SUFFICES ASSUME Init PROVE IInv /\ Reserved
  OBVIOUS
<1> USE DEF Init, Tokens
<1>1. TypeInv
  BY TokenAssumption DEF TypeInv, ReqType
<1>2. WritesReachTheEnd /\ RecordsReachTheEnd /\ SpentAreRecorded
  BY DEF WritesReachTheEnd, Writing, RecordsReachTheEnd, SpentAreRecorded
<1>3. Busy = {}
  BY DEF Busy
<1> QED BY <1>1, <1>2, <1>3, FS_EmptySet, TokenAssumption DEF IInv, Reserved

LEMMA Invariance == Spec => [](IInv /\ Reserved)
<1>1. IInv /\ Reserved /\ [Next]_vars => IInv' /\ Reserved'
  <2> SUFFICES ASSUME IInv, Reserved, [Next]_vars PROVE IInv' /\ Reserved'
    OBVIOUS
  <2>1. TypeInv' /\ Reserved'
    BY TypeStep, ReservedStep DEF IInv
  <2>2. Sound'
    BY SoundStep
  <2> QED BY <2>1, <2>2 DEF IInv, Sound
<1> QED BY <1>1, InitIInv, PTL DEF Spec

\* Every variable of the token life cycle keeps its type, within the bounds.
THEOREM TypeCorrect == Spec => []TypeOK
<1>1. IInv /\ Reserved => TypeOK
  <2> SUFFICES ASSUME IInv, Reserved PROVE TypeOK
    OBVIOUS
  <2>1. Len(exps) <= MaxTokens
    BY BusyFinite, TokenAssumption DEF Reserved, IInv, TypeInv
  <2>2. DOMAIN uses = Tokens /\ \A t \in Tokens : uses[t] \in 0..2
    BY DEF IInv, TypeInv, Tokens
  <2> QED BY <2>1, <2>2 DEF TypeOK, IInv, TypeInv, ReqType
<1> QED BY <1>1, Invariance, PTL

\* A refresh token is exchanged, or revoked by itself, at most once, unless its
\* revocation was lost on one of the ways that loose collects.
THEOREM SpentOnceCorrect == Spec => []SpentOnce
<1>1. IInv => SpentOnce
  <2> SUFFICES ASSUME IInv, NEW t \in Tokens, uses[t] > 1 PROVE t \in loose
    BY DEF SpentOnce
  <2> QED BY DEF IInv, SpentAreRecorded
<1> QED BY <1>1, Invariance, PTL

\* No step of the store or of time makes a revoked token good again before its
\* end, but for a restart without Redis and an exp given by hand.
THEOREM RevocationCorrect == Spec => RevocationHolds
<1>1. IInv /\ Reserved /\ IInv' /\ [Next]_vars =>
        [\A t \in Tokens : Recorded(t) /\ ~Recorded(t)' => now' >= exps[t] \/ t \in loose']_vars
  <2> SUFFICES ASSUME IInv, IInv', Next, NEW t \in Tokens, Recorded(t), ~Recorded(t)', t \notin loose'
               PROVE  now' >= exps[t]
    OBVIOUS
  <2>1. now \in Nat /\ now' \in Nat /\ exps[t] \in Nat
    BY DEF IInv, TypeInv, Tokens
  <2>2. t \in DOMAIN store' /\ exps'[t] = exps[t] /\ t \in Tokens'
    <3>1. t \in DOMAIN store
      BY DEF Recorded
    <3>2. CASE Restart
      BY <3>1, <3>2 DEF Restart, Tokens
    <3>3. CASE Tick \/ Login
      BY <3>1, <3>3 DEF Tick, Login, IInv, TypeInv, Tokens
    <3>4. CASE \E u \in Tokens, exp \in 1..(MaxTime + Life) : RevokeById(u, exp)
      BY <3>1, <3>4 DEF RevokeById, Record, Tokens
    <3>5. CASE \E r \in Request, kind \in Kind, u \in Tokens : Present(r, kind, u)
      BY <3>1, <3>5 DEF Present, Tokens
    <3>6. ASSUME NEW r \in Request, req[r] # Idle,
                 \/ Refused(r) \/ AcceptedLate(r) \/ AcceptedInMemory(r) \/ AcceptedByRedis(r)
                 \/ Written(r) \/ LookupFails(r) \/ WriteFails(r)
          PROVE  t \in DOMAIN store' /\ exps'[t] = exps[t] /\ t \in Tokens'
      <4>1. Spend(r) \/ UNCHANGED <<exps, uses>>
        BY <3>6 DEF Refused, LookupFails, AcceptedLate, AcceptedInMemory, AcceptedByRedis, Written, WriteFails
      <4>2. Grows
        BY <3>6, <4>1, SpendGrows, StandsGrows DEF IInv
      <4>3. DOMAIN store \subseteq DOMAIN store'
        BY <3>6 DEF Refused, LookupFails, AcceptedLate, AcceptedInMemory, AcceptedByRedis, Written,
                    WriteFails, Record
      <4> QED BY <3>1, <4>2, <4>3 DEF Grows, Tokens, IInv, TypeInv
    <3> QED BY <3>2, <3>3, <3>4, <3>5, <3>6 DEF Next
  <2>3. store'[t] >= exps[t] /\ store'[t] \in Nat
    BY <2>2 DEF IInv, TypeInv, RecordsReachTheEnd
  <2>4. now' >= store'[t]
    BY <2>1, <2>2, <2>3 DEF Recorded
  <2> QED BY <2>1, <2>3, <2>4
<1> QED BY <1>1, Invariance, PTL DEF Spec, RevocationHolds
=============================================================================
