---------------------------- MODULE AdminTokens -----------------------------
(***************************************************************************)
(* Refresh tokens of the REST administration: login mints one, a refresh   *)
(* exchanges it for another and revokes it, an administrator revokes it by *)
(* itself or by its id.  Revocations are kept in Redis, with awaits between *)
(* the lookup and the write, or in the memory of the process.  The access  *)
(* token that goes with each one takes the same decode and is not told      *)
(* apart.                                                                  *)
(*                                                                         *)
(* Time is a tick; JwtManager reads the clock anew for the expiry, the     *)
(* lookup and the write, so a tick may fall between them.                  *)
(***************************************************************************)
EXTENDS Integers, Sequences, FiniteSets, FiniteSetsExt

CONSTANTS
    Request,
    Life,        \* refresh_exp_s
    MaxTokens,   \* bound: tokens of the run
    MaxTime      \* bound: ticks of the run

ASSUME TokenAssumption ==
    /\ IsFiniteSet(Request)
    /\ Life \in Nat \ {0}
    /\ MaxTokens \in Nat /\ MaxTime \in Nat

VARIABLES
    redis,       \* a redis_url is configured
    now,
    exps,        \* exp of each token, in the order they were minted
    uses,        \* how often each was exchanged, or revoked by itself; 2: more than once
    store,       \* what is recorded as revoked: token |-> when the record lapses
    req,         \* where a request stands, its kind, token and TTL
    loose        \* tokens whose revocation was skipped, lost or overtaken

vars == <<redis, now, exps, uses, store, req, loose>>

Idle == [step |-> "idle"]
Kind == {"refresh", "revoke"}
Tokens == 1..Len(exps)

TypeOK ==
    /\ redis \in BOOLEAN
    /\ now \in 0..MaxTime
    /\ exps \in Seq(Nat) /\ Len(exps) <= MaxTokens
    /\ DOMAIN uses = Tokens /\ \A t \in Tokens : uses[t] \in 0..2
    /\ DOMAIN store \subseteq Tokens /\ \A t \in DOMAIN store : store[t] \in Nat
    /\ loose \subseteq Tokens
    /\ \A r \in Request :
          \/ req[r] = Idle
          \/ /\ req[r].step \in {"lookup", "write"} /\ req[r].kind \in Kind
             /\ req[r].token \in Tokens /\ req[r].ttl \in 0..Life

Init ==
    /\ redis \in BOOLEAN
    /\ now = 0
    /\ exps = <<>> /\ uses = <<>>
    /\ store = [t \in {} |-> 0]
    /\ req = [r \in Request |-> Idle]
    /\ loose = {}

-----------------------------------------------------------------------------

Tick ==
    /\ now < MaxTime
    /\ now' = now + 1
    /\ UNCHANGED <<redis, exps, uses, store, req, loose>>

Busy == {r \in Request : req[r] # Idle}

Recorded_Ignored(t) == FALSE
Recorded(t) == t \in DOMAIN store /\ now < store[t]

Record(t, until) == [u \in DOMAIN store \cup {t} |-> IF u = t THEN until ELSE store[u]]

Done(r) == req' = [req EXCEPT ![r] = Idle]

Login ==
    /\ Len(exps) + Cardinality(Busy) < MaxTokens
    /\ exps' = Append(exps, now + Life)
    /\ uses' = Append(uses, 0)
    /\ UNCHANGED <<redis, now, store, req, loose>>

\* jwt.decode accepts the token.  Without Redis nothing awaits on the way, and
\* a request is served before the next one is read.
Present(r, kind, t) ==
    /\ req[r] = Idle
    /\ Len(exps) + Cardinality(Busy) < MaxTokens
    /\ ~redis => Busy = {}
    /\ now < exps[t]
    /\ req' = [req EXCEPT ![r] = [step |-> "lookup", kind |-> kind, token |-> t, ttl |-> 0]]
    /\ UNCHANGED <<redis, now, exps, uses, store, loose>>

Once(n) == IF n < 2 THEN n + 1 ELSE n

\* The exchange, or the answer to the administrator.
Spend(r) ==
    LET t == req[r].token
    IN  IF req[r].kind = "refresh"
        THEN /\ exps' = Append(exps, now + Life)
             /\ uses' = Append([uses EXCEPT ![t] = Once(@)], 0)
        ELSE /\ uses' = [uses EXCEPT ![t] = Once(@)]
             /\ UNCHANGED exps

Refused(r) ==
    /\ req[r].step = "lookup" /\ Recorded(req[r].token)
    /\ Done(r)
    /\ UNCHANGED <<redis, now, exps, uses, store, loose>>

\* revoke_jti returns at once if the token has expired since it was decoded.
AcceptedLate(r) ==
    LET t == req[r].token
    IN  /\ req[r].step = "lookup" /\ ~Recorded(t)
        /\ exps[t] <= now
        /\ Spend(r) /\ Done(r)
        /\ loose' = loose \cup {t}
        /\ UNCHANGED <<redis, now, store>>

AcceptedInMemory(r) ==
    LET t == req[r].token
    IN  /\ ~redis
        /\ req[r].step = "lookup" /\ ~Recorded(t)
        /\ exps[t] > now
        /\ store' = Record(t, exps[t])
        /\ Spend(r) /\ Done(r)
        /\ UNCHANGED <<redis, now, loose>>

Overtaken(r) ==
    \E q \in Request \ {r} : /\ req[q] # Idle /\ req[q].step = "write"
                             /\ req[q].token = req[r].token

Ttl_Truncated(t) == exps[t] - now - 1
Ttl(t) == exps[t] - now

\* The lookup has answered; the write is on its way with the TTL of this moment.
AcceptedByRedis(r) ==
    LET t == req[r].token
    IN  /\ redis
        /\ req[r].step = "lookup" /\ ~Recorded(t)
        /\ exps[t] > now
        /\ req' = [req EXCEPT ![r].step = "write", ![r].ttl = Ttl(t)]
        /\ loose' = IF Overtaken(r) THEN loose \cup {t} ELSE loose
        /\ UNCHANGED <<redis, now, exps, uses, store>>

Written(r) ==
    /\ req[r].step = "write"
    /\ store' = Record(req[r].token, now + req[r].ttl)
    /\ Spend(r) /\ Done(r)
    /\ UNCHANGED <<redis, now, loose>>

\* A failed lookup ends the request without an answer.  A failed write does the
\* same to a revocation, but a refresh goes on to mint.
LookupFails(r) ==
    /\ redis /\ req[r].step = "lookup"
    /\ Done(r)
    /\ UNCHANGED <<redis, now, exps, uses, store, loose>>

WriteFails(r) ==
    /\ req[r].step = "write"
    /\ Done(r)
    /\ IF req[r].kind = "refresh"
       THEN Spend(r) /\ loose' = loose \cup {req[r].token}
       ELSE UNCHANGED <<exps, uses, loose>>
    /\ UNCHANGED <<redis, now, store>>

\* Revocation by jti and exp: the caller's exp is believed, and it replaces the
\* record that may be there.  One that is over is answered "ok" and does nothing.
RevokeById(t, exp) ==
    /\ ~redis => Busy = {}
    /\ exp > now
    /\ store' = Record(t, exp)
    /\ loose' = IF exp < exps[t] THEN loose \cup {t} ELSE loose
    /\ UNCHANGED <<redis, now, exps, uses, req>>

Restart ==
    /\ req' = [r \in Request |-> Idle]
    /\ IF redis THEN UNCHANGED <<store, loose>>
       ELSE store' = [t \in {} |-> 0] /\ loose' = loose \cup DOMAIN store
    /\ UNCHANGED <<redis, now, exps, uses>>

Next ==
    \/ Tick \/ Login \/ Restart
    \/ \E t \in Tokens, exp \in 1..(MaxTime + Life) : RevokeById(t, exp)
    \/ \E r \in Request :
          \/ \E kind \in Kind, t \in Tokens : Present(r, kind, t)
          \/ req[r] # Idle /\ (\/ Refused(r) \/ AcceptedLate(r) \/ AcceptedInMemory(r)
                               \/ AcceptedByRedis(r) \/ Written(r)
                               \/ LookupFails(r) \/ WriteFails(r))

Spec == Init /\ [][Next]_vars

-----------------------------------------------------------------------------
(* Properties *)

\* A refresh token is good for one exchange or one revocation.  A second one
\* needs two requests between lookup and write at once, a lost write or list, a
\* record with the wrong end, or a lookup after the end of the token's life.
SpentOnce == \A t \in Tokens : uses[t] > 1 => t \in loose

\* What is recorded as revoked stays so until the token has expired: neither
\* the TTL of the write nor a later record lets it come back, save an exp given
\* by hand and the restart of a process that keeps the list in memory.
RevocationHolds ==
    [][ \A t \in Tokens : Recorded(t) /\ ~Recorded(t)' => now' >= exps[t] \/ t \in loose' ]_vars

=============================================================================
