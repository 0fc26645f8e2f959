------------------------ MODULE CasterSessionsProofs ------------------------
(***************************************************************************)
(* What holds of CasterSessions for every set of connections, addresses,   *)
(* mountpoints and configurations.                                         *)
(***************************************************************************)
EXTENDS CasterSessions, FiniteSetTheorems, TLAPS

\* TCP gives two open connections different peer addresses.
AddressesDistinct ==
    \A c, d \in Conn : Open(c) /\ Open(d) /\ c # d => AddrOf[c] # AddrOf[d]

\* The inductive invariant.  LiveAreAttached needs AddressesDistinct (a detach
\* clears the slot of its address), OneSourcePerMountpoint needs
\* LiveAreAttached, and CountersAgree needs OnlyAbortsLeak (a fresh connection
\* is in no hub, a leaving one in exactly its own).
IInv == TypeOK /\ CountersAgree /\ OnlyAbortsLeak /\ LiveAreAttached /\ AddressesDistinct

USE ConnAssumption, AddrAssumption, MountpointAssumption, ConfigAssumption

-----------------------------------------------------------------------------
(* Type correctness *)

LEMMA TypeInit == Init => TypeOK
BY DEF Init, TypeOK, SourceStates, RoverStates

LEMMA PredType == ASSUME NEW n \in Nat PROVE Pred(n) \in Nat
BY DEF Pred

LEMMA TypeStep == TypeOK /\ LiveAreAttached /\ [Next]_vars => TypeOK'
<1> SUFFICES ASSUME TypeOK, LiveAreAttached, [Next]_vars PROVE TypeOK'
  OBVIOUS
<1> USE DEF TypeOK, SourceStates, RoverStates
<1>1. ASSUME NEW c \in Conn, Refuse(c) PROVE TypeOK'
  BY <1>1 DEF Refuse, hubVars, countVars, taskVars
<1>2. ASSUME NEW c \in Conn, NEW mp \in Mountpoint, SourceRefused(c, mp) PROVE TypeOK'
  BY <1>2 DEF SourceRefused, hubVars, countVars, taskVars
<1>3. ASSUME NEW c \in Conn, NEW mp \in Mountpoint, NEW icy \in SourceStates,
             SourceAccepted(c, mp, icy)
      PROVE  TypeOK'
  BY <1>3 DEF SourceAccepted, countVars, taskVars
<1>4. ASSUME NEW c \in Conn, SourceEnds(c) PROVE TypeOK'
  BY <1>4 DEF SourceEnds, LiveAreAttached, Open, countVars
<1>5. ASSUME NEW c \in Conn, NEW mp \in Mountpoint, RoverRefused(c, mp) PROVE TypeOK'
  BY <1>5 DEF RoverRefused, hubVars, countVars, taskVars
<1>6. ASSUME NEW c \in Conn, NEW mp \in Mountpoint, NEW icy \in RoverStates,
             RoverAccepted(c, mp, icy)
      PROVE  TypeOK'
  BY <1>6 DEF RoverAccepted, taskVars, ClientIp
<1>7. ASSUME NEW c \in Conn, NEW mp \in Mountpoint, Kick(c, mp) PROVE TypeOK'
  BY <1>7 DEF Kick, hubVars, countVars
<1>8. ASSUME NEW c \in Conn, NEW b \in BOOLEAN, ReadLoopEnds(c, b) PROVE TypeOK'
  BY <1>8 DEF ReadLoopEnds, hubVars, countVars
<1>9. ASSUME NEW c \in Conn, NEW b \in BOOLEAN, SendLoopEnds(c, b) PROVE TypeOK'
  BY <1>9 DEF SendLoopEnds, hubVars, countVars
<1>10. ASSUME NEW c \in Conn, RoverLeaves(c) PROVE TypeOK'
  <2>1. ClientIp(c) \in Ip BY DEF ClientIp
  <2>2. Pred(roverTotal) \in Nat /\ Pred(roverIpCounts[ClientIp(c)]) \in Nat
    BY <2>1, PredType
  <2> QED BY <1>10, <2>1, <2>2 DEF RoverLeaves
<1>11. ASSUME NEW c \in Conn, IcyRaises(c) PROVE TypeOK'
  BY <1>11 DEF IcyRaises, hubVars, countVars, taskVars
<1>12. ASSUME NEW new \in Configs, Reload(new) PROVE TypeOK'
  BY <1>12 DEF Reload, hubVars, countVars, taskVars
<1>13. CASE UNCHANGED vars
  BY <1>13 DEF vars
<1> QED BY <1>1, <1>2, <1>3, <1>4, <1>5, <1>6, <1>7, <1>8, <1>9, <1>10, <1>11, <1>12,
           <1>13 DEF Next, SourceStep, RoverStep

-----------------------------------------------------------------------------
(* Steps by what they do to the hubs and the handlers *)

core == <<sourceAddr, rovers, roverTotal, roverIpCounts, at>>

\* A connection is turned away; nothing else changes.
TurnedAway(c) == Fresh(c) /\ pc' = [pc EXCEPT ![c] = "closed"] /\ UNCHANGED core

\* A step of a rover's loops, of an administrator or of a reload.
Quiet == UNCHANGED <<core, pc>>

LEMMA StepKinds ==
    ASSUME [Next]_vars
    PROVE  \/ \E c \in Conn, mp \in Mountpoint, icy \in SourceStates : SourceAccepted(c, mp, icy)
           \/ \E c \in Conn : SourceEnds(c)
           \/ \E c \in Conn, mp \in Mountpoint, icy \in RoverStates : RoverAccepted(c, mp, icy)
           \/ \E c \in Conn : RoverLeaves(c)
           \/ \E c \in Conn : IcyRaises(c)
           \/ \E c \in Conn : TurnedAway(c)
           \/ Quiet
<1> USE DEF core, hubVars, countVars
<1>1. ASSUME NEW c \in Conn, Refuse(c) PROVE TurnedAway(c)
  BY <1>1 DEF Refuse, TurnedAway
<1>2. ASSUME NEW c \in Conn, NEW mp \in Mountpoint, SourceRefused(c, mp) PROVE TurnedAway(c)
  BY <1>2 DEF SourceRefused, TurnedAway
<1>3. ASSUME NEW c \in Conn, NEW mp \in Mountpoint, RoverRefused(c, mp) PROVE TurnedAway(c)
  BY <1>3 DEF RoverRefused, TurnedAway
<1>4. ASSUME NEW c \in Conn, NEW mp \in Mountpoint, Kick(c, mp) PROVE Quiet
  BY <1>4 DEF Kick, Quiet
<1>5. ASSUME NEW c \in Conn, NEW b \in BOOLEAN, ReadLoopEnds(c, b) PROVE Quiet
  BY <1>5 DEF ReadLoopEnds, Quiet
<1>6. ASSUME NEW c \in Conn, NEW b \in BOOLEAN, SendLoopEnds(c, b) PROVE Quiet
  BY <1>6 DEF SendLoopEnds, Quiet
<1>7. ASSUME NEW new \in Configs, Reload(new) PROVE Quiet
  BY <1>7 DEF Reload, Quiet
<1>8. ASSUME UNCHANGED vars PROVE Quiet
  BY <1>8 DEF vars, Quiet
<1> QED BY <1>1, <1>2, <1>3, <1>4, <1>5, <1>6, <1>7, <1>8 DEF Next, SourceStep, RoverStep

-----------------------------------------------------------------------------
(* Slots and sessions *)

LEMMA AddressesStep ==
    ASSUME TypeOK, AddressesDistinct, [Next]_vars
    PROVE  AddressesDistinct'
<1> USE DEF TypeOK, AddressesDistinct, Open, SourceStates, RoverStates
<1>1. ASSUME NEW c \in Conn, NEW mp \in Mountpoint, NEW icy \in SourceStates,
             SourceAccepted(c, mp, icy)
      PROVE  AddressesDistinct'
  BY <1>1 DEF SourceAccepted, Fresh
<1>2. ASSUME NEW c \in Conn, SourceEnds(c) PROVE AddressesDistinct'
  BY <1>2 DEF SourceEnds
<1>3. ASSUME NEW c \in Conn, NEW mp \in Mountpoint, NEW icy \in RoverStates,
             RoverAccepted(c, mp, icy)
      PROVE  AddressesDistinct'
  BY <1>3 DEF RoverAccepted, Fresh
<1>4. ASSUME NEW c \in Conn, RoverLeaves(c) PROVE AddressesDistinct'
  BY <1>4 DEF RoverLeaves
<1>5. ASSUME NEW c \in Conn, IcyRaises(c) PROVE AddressesDistinct'
  BY <1>5 DEF IcyRaises
<1>6. ASSUME NEW c \in Conn, TurnedAway(c) PROVE AddressesDistinct'
  BY <1>6 DEF TurnedAway, core
<1>7. CASE Quiet
  BY <1>7 DEF Quiet, core
<1> QED BY <1>1, <1>2, <1>3, <1>4, <1>5, <1>6, <1>7, StepKinds

LEMMA LiveStep ==
    ASSUME IInv, [Next]_vars
    PROVE  LiveAreAttached'
<1> USE DEF IInv, TypeOK, LiveAreAttached, Open, SourceStates, RoverStates
<1>1. ASSUME NEW c \in Conn, NEW mp \in Mountpoint, NEW icy \in SourceStates,
             SourceAccepted(c, mp, icy)
      PROVE  LiveAreAttached'
  \* A source that is live at mp has c's address, and c is fresh.
  <2>1. \A d \in Conn : pc[d] \in SourceStates => at[d] # mp
    BY <1>1 DEF SourceAccepted, Fresh, Busy
  <2> QED BY <1>1, <2>1 DEF SourceAccepted, Fresh, countVars, taskVars
<1>2. ASSUME NEW c \in Conn, SourceEnds(c) PROVE LiveAreAttached'
  <2>1. \A d \in Conn : pc[d] \in SourceStates /\ d # c => at[d] # at[c]
    BY <1>2 DEF SourceEnds, AddressesDistinct
  <2> QED BY <1>2, <2>1 DEF SourceEnds, countVars
<1>3. ASSUME NEW c \in Conn, NEW mp \in Mountpoint, NEW icy \in RoverStates,
             RoverAccepted(c, mp, icy)
      PROVE  LiveAreAttached'
  BY <1>3 DEF RoverAccepted, Fresh, taskVars
<1>4. ASSUME NEW c \in Conn, RoverLeaves(c) PROVE LiveAreAttached'
  BY <1>4 DEF RoverLeaves
<1>5. ASSUME NEW c \in Conn, IcyRaises(c) PROVE LiveAreAttached'
  BY <1>5 DEF IcyRaises, hubVars
<1>6. ASSUME NEW c \in Conn, TurnedAway(c) PROVE LiveAreAttached'
  BY <1>6 DEF TurnedAway, core
<1>7. CASE Quiet
  BY <1>7 DEF Quiet, core
<1> QED BY <1>1, <1>2, <1>3, <1>4, <1>5, <1>6, <1>7, StepKinds

LEMMA LeakStep ==
    ASSUME IInv, [Next]_vars
    PROVE  OnlyAbortsLeak'
<1> USE DEF IInv, TypeOK, OnlyAbortsLeak, SourceStates, RoverStates
<1>1. ASSUME NEW c \in Conn, NEW mp \in Mountpoint, NEW icy \in SourceStates,
             SourceAccepted(c, mp, icy)
      PROVE  OnlyAbortsLeak'
  BY <1>1 DEF SourceAccepted, Fresh
<1>2. ASSUME NEW c \in Conn, SourceEnds(c) PROVE OnlyAbortsLeak'
  BY <1>2 DEF SourceEnds
<1>3. ASSUME NEW c \in Conn, NEW mp \in Mountpoint, NEW icy \in RoverStates,
             RoverAccepted(c, mp, icy)
      PROVE  OnlyAbortsLeak'
  BY <1>3 DEF RoverAccepted, Fresh
<1>4. ASSUME NEW c \in Conn, RoverLeaves(c) PROVE OnlyAbortsLeak'
  BY <1>4 DEF RoverLeaves
<1>5. ASSUME NEW c \in Conn, IcyRaises(c) PROVE OnlyAbortsLeak'
  BY <1>5 DEF IcyRaises, hubVars
<1>6. ASSUME NEW c \in Conn, TurnedAway(c) PROVE OnlyAbortsLeak'
  BY <1>6 DEF TurnedAway, Fresh, core
<1>7. CASE Quiet
  BY <1>7 DEF Quiet, core
<1> QED BY <1>1, <1>2, <1>3, <1>4, <1>5, <1>6, <1>7, StepKinds

-----------------------------------------------------------------------------
(* Counters *)

LEMMA AttachedFinite ==
    /\ IsFiniteSet(Attached)
    /\ \A ip : IsFiniteSet(AttachedFrom(ip))
<1>1. Attached \in SUBSET Conn /\ \A ip : AttachedFrom(ip) \in SUBSET Conn
  BY DEF Attached, AttachedFrom
<1> QED BY <1>1, FS_Subset

\* One more session: its own counters go up by one.
LEMMA AttachOne ==
    ASSUME NEW c \in Conn, c \notin Attached, Attached' = Attached \cup {c}
    PROVE  /\ Cardinality(Attached') = Cardinality(Attached) + 1
           /\ \A ip \in Ip : Cardinality(AttachedFrom(ip)') =
                 Cardinality(AttachedFrom(ip)) + (IF ip = ClientIp(c) THEN 1 ELSE 0)
<1>1. Cardinality(Attached') = Cardinality(Attached) + 1
  BY AttachedFinite, FS_AddElement
<1>2. ASSUME NEW ip \in Ip
      PROVE  Cardinality(AttachedFrom(ip)') =
                 Cardinality(AttachedFrom(ip)) + (IF ip = ClientIp(c) THEN 1 ELSE 0)
  <2>1. Cardinality(AttachedFrom(ip)) \in Nat
    BY AttachedFinite, FS_CardinalityType
  <2>2. CASE ip = ClientIp(c)
    <3>1. AttachedFrom(ip)' = AttachedFrom(ip) \cup {c}
      BY <2>2 DEF AttachedFrom, ClientIp
    <3>2. c \notin AttachedFrom(ip)
      BY DEF AttachedFrom
    <3>3. Cardinality(AttachedFrom(ip) \cup {c}) = Cardinality(AttachedFrom(ip)) + 1
      BY <3>2, AttachedFinite, FS_AddElement
    <3> QED BY <3>1, <3>3, <2>2
  <2>3. CASE ip # ClientIp(c)
    <3>1. AttachedFrom(ip)' = AttachedFrom(ip)
      BY <2>3 DEF AttachedFrom, ClientIp
    <3> QED BY <3>1, <2>1, <2>3
  <2> QED BY <2>2, <2>3
<1> QED BY <1>1, <1>2

\* One session less: its own counters go down by one, and were above zero.
LEMMA DetachOne ==
    ASSUME NEW c \in Conn, c \in Attached, Attached' = Attached \ {c}
    PROVE  /\ Cardinality(Attached) > 0
           /\ Cardinality(Attached') = Cardinality(Attached) - 1
           /\ Cardinality(AttachedFrom(ClientIp(c))) > 0
           /\ \A ip \in Ip : Cardinality(AttachedFrom(ip)') =
                 Cardinality(AttachedFrom(ip)) - (IF ip = ClientIp(c) THEN 1 ELSE 0)
<1>0. /\ Cardinality(Attached) \in Nat
      /\ \A ip : Cardinality(AttachedFrom(ip)) \in Nat
  BY AttachedFinite, FS_CardinalityType
<1>1. Cardinality(Attached') = Cardinality(Attached) - 1
  BY AttachedFinite, FS_RemoveElement
<1>2. Cardinality(Attached) > 0
  BY <1>0, AttachedFinite, FS_EmptySet
<1>3. c \in AttachedFrom(ClientIp(c))
  BY DEF AttachedFrom
<1>4. Cardinality(AttachedFrom(ClientIp(c))) > 0
  <2>1. AttachedFrom(ClientIp(c)) # {}  BY <1>3
  <2> QED BY <2>1, <1>0, AttachedFinite, FS_EmptySet
<1>5. ASSUME NEW ip \in Ip
      PROVE  Cardinality(AttachedFrom(ip)') =
                 Cardinality(AttachedFrom(ip)) - (IF ip = ClientIp(c) THEN 1 ELSE 0)
  <2>1. CASE ip = ClientIp(c)
    <3>1. AttachedFrom(ip)' = AttachedFrom(ip) \ {c}
      BY <2>1 DEF AttachedFrom, ClientIp
    <3>2. Cardinality(AttachedFrom(ip) \ {c}) = Cardinality(AttachedFrom(ip)) - 1
      BY <1>3, <2>1, AttachedFinite, FS_RemoveElement
    <3> QED BY <3>1, <3>2, <2>1
  <2>2. CASE ip # ClientIp(c)
    <3>1. AttachedFrom(ip)' = AttachedFrom(ip)
      BY <2>2 DEF AttachedFrom, ClientIp
    <3> QED BY <3>1, <1>0, <2>2
  <2> QED BY <2>1, <2>2
<1> QED BY <1>1, <1>2, <1>4, <1>5

LEMMA CountersStep ==
    ASSUME IInv, [Next]_vars
    PROVE  CountersAgree'
<1> USE DEF IInv, TypeOK, CountersAgree
<1>1. ASSUME NEW c \in Conn, NEW mp \in Mountpoint, NEW icy \in RoverStates,
             RoverAccepted(c, mp, icy)
      PROVE  CountersAgree'
  <2>1. c \notin Attached
    BY <1>1 DEF RoverAccepted, Fresh, Attached, OnlyAbortsLeak, RoverStates
  <2>2. Attached' = Attached \cup {c}
    BY <1>1 DEF RoverAccepted, Attached
  <2>3. ClientIp(c) \in Ip
    BY DEF ClientIp
  <2>4. /\ roverTotal' = roverTotal + 1
        /\ \A ip \in Ip : roverIpCounts'[ip] =
              roverIpCounts[ip] + (IF ip = ClientIp(c) THEN 1 ELSE 0)
    BY <1>1, <2>3 DEF RoverAccepted
  <2>5. /\ Cardinality(Attached') = Cardinality(Attached) + 1
        /\ \A ip \in Ip : Cardinality(AttachedFrom(ip)') =
              Cardinality(AttachedFrom(ip)) + (IF ip = ClientIp(c) THEN 1 ELSE 0)
    BY <2>1, <2>2, AttachOne
  <2> QED BY <2>4, <2>5
<1>2. ASSUME NEW c \in Conn, RoverLeaves(c) PROVE CountersAgree'
  <2>1. at[c] \in Mountpoint /\ c \in rovers[at[c]]
    BY <1>2 DEF RoverLeaves, LiveAreAttached, Open, RoverStates
  <2>2. c \in Attached /\ Attached' = Attached \ {c}
    BY <1>2, <2>1 DEF RoverLeaves, Attached, OnlyAbortsLeak
  <2>3. ClientIp(c) \in Ip
    BY DEF ClientIp
  <2>4. roverTotal > 0 /\ roverIpCounts[ClientIp(c)] > 0
    BY <2>2, <2>3, DetachOne
  <2>5. /\ Pred(roverTotal) = roverTotal - 1
        /\ Pred(roverIpCounts[ClientIp(c)]) = roverIpCounts[ClientIp(c)] - 1
    BY <2>4 DEF Pred
  <2>6. /\ roverTotal' = roverTotal - 1
        /\ \A ip \in Ip : roverIpCounts'[ip] =
              roverIpCounts[ip] - (IF ip = ClientIp(c) THEN 1 ELSE 0)
    BY <1>2, <2>3, <2>5 DEF RoverLeaves
  <2>7. /\ Cardinality(Attached') = Cardinality(Attached) - 1
        /\ \A ip \in Ip : Cardinality(AttachedFrom(ip)') =
              Cardinality(AttachedFrom(ip)) - (IF ip = ClientIp(c) THEN 1 ELSE 0)
    BY <2>2, DetachOne
  <2> QED BY <2>6, <2>7
<1>3. ASSUME UNCHANGED <<rovers, countVars>> PROVE CountersAgree'
  BY <1>3 DEF Attached, AttachedFrom, ClientIp, countVars
<1>4. ASSUME NEW c \in Conn, NEW mp \in Mountpoint, NEW icy \in SourceStates,
             SourceAccepted(c, mp, icy)
      PROVE  CountersAgree'
  BY <1>4, <1>3 DEF SourceAccepted
<1>5. ASSUME NEW c \in Conn, SourceEnds(c) PROVE CountersAgree'
  BY <1>5, <1>3 DEF SourceEnds
<1>6. ASSUME NEW c \in Conn, IcyRaises(c) PROVE CountersAgree'
  BY <1>6, <1>3 DEF IcyRaises, hubVars
<1>7. ASSUME NEW c \in Conn, TurnedAway(c) PROVE CountersAgree'
  BY <1>7, <1>3 DEF TurnedAway, core, countVars
<1>8. CASE Quiet
  BY <1>8, <1>3 DEF Quiet, core, countVars
<1> QED BY <1>1, <1>2, <1>4, <1>5, <1>6, <1>7, <1>8, StepKinds

-----------------------------------------------------------------------------
(* Invariants of the specification *)

LEMMA Inductive ==
    /\ Init => IInv
    /\ IInv /\ [Next]_vars => IInv'
<1>1. ASSUME Init PROVE IInv
  <2>1. Attached = {} /\ \A ip : AttachedFrom(ip) = {}
    BY <1>1 DEF Init, Attached, AttachedFrom
  <2>2. CountersAgree
    BY <1>1, <2>1, FS_EmptySet DEF Init, CountersAgree
  <2>3. OnlyAbortsLeak /\ LiveAreAttached /\ AddressesDistinct
    BY <1>1 DEF Init, OnlyAbortsLeak, LiveAreAttached, AddressesDistinct, Open,
                SourceStates, RoverStates
  <2> QED BY <1>1, <2>2, <2>3, TypeInit DEF IInv
<1>2. ASSUME IInv, [Next]_vars PROVE IInv'
  BY <1>2, TypeStep, CountersStep, LeakStep, LiveStep, AddressesStep DEF IInv
<1> QED BY <1>1, <1>2

\* The state of the hubs, counters and handlers keeps its type.
THEOREM TypeCorrect == Spec => []TypeOK
<1>1. Spec => []IInv
  BY Inductive, PTL DEF Spec
<1> QED BY <1>1, PTL DEF IInv

\* _rover_total and _rover_ip_counts count exactly the sessions in the hubs,
\* whatever the number of connections, reloads, kicks and aborted handshakes.
THEOREM CountersCorrect == Spec => []CountersAgree
<1>1. Spec => []IInv
  BY Inductive, PTL DEF Spec
<1> QED BY <1>1, PTL DEF IInv

\* A session or a slot with no handler left to free it comes from an aborted
\* handshake and from nothing else.
THEOREM LeaksOnlyFromAborts == Spec => []OnlyAbortsLeak
<1>1. Spec => []IInv
  BY Inductive, PTL DEF Spec
<1> QED BY <1>1, PTL DEF IInv

\* A live source is never robbed of its slot, nor a live rover dropped from its hub.
THEOREM LiveStayAttached == Spec => []LiveAreAttached
<1>1. Spec => []IInv
  BY Inductive, PTL DEF Spec
<1> QED BY <1>1, PTL DEF IInv

-----------------------------------------------------------------------------
(* Limits *)

LEMMA RaiseBound ==
    ASSUME NEW S, NEW T, IsFiniteSet(S), T \subseteq S
    PROVE  /\ Cardinality(S) \in Nat
           /\ Cardinality(T) \in Nat
           /\ ~(Cardinality(T) > Cardinality(S))
BY FS_Subset, FS_CardinalityType

LEMMA ActiveStep ==
    ASSUME IInv, [Next]_vars, Raised(Active), cfg.maxSources > 0
    PROVE  Cardinality(Active') <= cfg.maxSources
<1> USE DEF IInv, TypeOK
<1>0. IsFiniteSet(Active)
  BY FS_Subset DEF Active
<1>1. ASSUME Active' \subseteq Active PROVE FALSE
  BY <1>0, <1>1, RaiseBound DEF Raised
<1>2. ASSUME NEW c \in Conn, NEW mp \in Mountpoint, NEW icy \in SourceStates,
             SourceAccepted(c, mp, icy)
      PROVE  Cardinality(Active') <= cfg.maxSources
  <2>1. mp \notin Active
    BY <1>1, <1>2 DEF SourceAccepted, Active
  <2>2. Active' = Active \cup {mp}
    BY <1>2 DEF SourceAccepted, Active
  <2>3. Cardinality(Active') = Cardinality(Active) + 1
    BY <1>0, <2>1, <2>2, FS_AddElement
  <2>4. ~(Cardinality(Active) >= cfg.maxSources)
    BY <1>2, <2>1 DEF SourceAccepted, TooManySources, Reached, Active
  <2>5. Cardinality(Active) \in Nat
    BY <1>0, FS_CardinalityType
  <2>6. cfg.maxSources \in Nat
    BY DEF ConfigType
  <2> QED BY <2>3, <2>4, <2>5, <2>6
<1>3. ASSUME NEW c \in Conn, SourceEnds(c) PROVE FALSE
  BY <1>1, <1>3 DEF SourceEnds, Active
<1>4. ASSUME UNCHANGED sourceAddr PROVE FALSE
  BY <1>1, <1>4 DEF Active
<1>5. ASSUME NEW c \in Conn, NEW mp \in Mountpoint, NEW icy \in RoverStates,
             RoverAccepted(c, mp, icy)
      PROVE  FALSE
  BY <1>4, <1>5 DEF RoverAccepted
<1>6. ASSUME NEW c \in Conn, RoverLeaves(c) \/ IcyRaises(c) \/ TurnedAway(c) PROVE FALSE
  BY <1>4, <1>6 DEF RoverLeaves, IcyRaises, TurnedAway, hubVars, core
<1>7. CASE Quiet
  BY <1>4, <1>7 DEF Quiet, core
<1> QED BY <1>2, <1>3, <1>5, <1>6, <1>7, StepKinds

LEMMA AttachedGrows ==
    ASSUME IInv, [Next]_vars, ~(Attached' \subseteq Attached)
    PROVE  \E c \in Conn : /\ c \notin Attached
                          /\ Attached' = Attached \cup {c}
                          /\ ~RoverLimitReached(c)
<1> USE DEF IInv, TypeOK
<1>1. ASSUME NEW c \in Conn, NEW mp \in Mountpoint, NEW icy \in RoverStates,
             RoverAccepted(c, mp, icy)
      PROVE  c \notin Attached /\ Attached' = Attached \cup {c} /\ ~RoverLimitReached(c)
  <2>1. c \notin Attached
    BY <1>1 DEF RoverAccepted, Fresh, Attached, OnlyAbortsLeak, RoverStates
  <2>2. Attached' = Attached \cup {c}
    BY <1>1 DEF RoverAccepted, Attached
  <2> QED BY <1>1, <2>1, <2>2 DEF RoverAccepted
<1>2. ASSUME UNCHANGED rovers PROVE FALSE
  BY <1>2 DEF Attached
<1>3. ASSUME NEW c \in Conn, RoverLeaves(c) PROVE FALSE
  BY <1>3 DEF RoverLeaves, Attached
<1>4. ASSUME NEW c \in Conn, NEW mp \in Mountpoint, NEW icy \in SourceStates,
             SourceAccepted(c, mp, icy)
      PROVE  FALSE
  BY <1>2, <1>4 DEF SourceAccepted
<1>5. ASSUME NEW c \in Conn, SourceEnds(c) \/ IcyRaises(c) \/ TurnedAway(c) PROVE FALSE
  BY <1>2, <1>5 DEF SourceEnds, IcyRaises, TurnedAway, hubVars, core
<1>6. CASE Quiet
  BY <1>2, <1>6 DEF Quiet, core
<1> QED BY <1>1, <1>3, <1>4, <1>5, <1>6, StepKinds

LEMMA RoversStep ==
    ASSUME IInv, [Next]_vars
    PROVE  /\ Raised(Attached) /\ cfg.maxRovers > 0 => Cardinality(Attached') <= cfg.maxRovers
           /\ \A ip \in Ip :
                 Raised(AttachedFrom(ip)) /\ cfg.maxPerIp > 0 =>
                     Cardinality(AttachedFrom(ip)') <= cfg.maxPerIp
<1> USE DEF IInv, TypeOK
<1>1. CASE Attached' \subseteq Attached
  <2>1. ~Raised(Attached)
    BY <1>1, AttachedFinite, RaiseBound DEF Raised
  <2>2. ASSUME NEW ip \in Ip PROVE ~Raised(AttachedFrom(ip))
    <3>1. AttachedFrom(ip)' \subseteq AttachedFrom(ip)
      BY <1>1 DEF AttachedFrom, ClientIp
    <3> QED BY <3>1, AttachedFinite, RaiseBound DEF Raised
  <2> QED BY <2>1, <2>2
<1>2. CASE ~(Attached' \subseteq Attached)
  <2>1. PICK c \in Conn : /\ c \notin Attached
                         /\ Attached' = Attached \cup {c}
                         /\ ~RoverLimitReached(c)
    BY <1>2, AttachedGrows
  <2>2. /\ Cardinality(Attached') = Cardinality(Attached) + 1
        /\ \A ip \in Ip : Cardinality(AttachedFrom(ip)') =
              Cardinality(AttachedFrom(ip)) + (IF ip = ClientIp(c) THEN 1 ELSE 0)
    BY <2>1, AttachOne
  <2>3. /\ Cardinality(Attached) \in Nat
        /\ \A ip : Cardinality(AttachedFrom(ip)) \in Nat
    BY AttachedFinite, FS_CardinalityType
  <2>4. cfg.maxRovers \in Nat /\ cfg.maxPerIp \in Nat
    BY DEF ConfigType
  <2>5. roverTotal = Cardinality(Attached)
    BY DEF CountersAgree
  <2>6. ClientIp(c) \in Ip
    BY DEF ClientIp
  <2>7. roverIpCounts[ClientIp(c)] = Cardinality(AttachedFrom(ClientIp(c)))
    BY <2>6 DEF CountersAgree
  <2>8. cfg.maxRovers > 0 => Cardinality(Attached) < cfg.maxRovers
    BY <2>1, <2>3, <2>4, <2>5 DEF RoverLimitReached, Reached
  <2>9. cfg.maxPerIp > 0 => Cardinality(AttachedFrom(ClientIp(c))) < cfg.maxPerIp
    BY <2>1, <2>3, <2>4, <2>7 DEF RoverLimitReached, Reached
  <2>10. ASSUME NEW ip \in Ip, Raised(AttachedFrom(ip)), cfg.maxPerIp > 0
         PROVE  Cardinality(AttachedFrom(ip)') <= cfg.maxPerIp
    <3>1. Cardinality(AttachedFrom(ip)') > Cardinality(AttachedFrom(ip))
      BY <2>10 DEF Raised
    <3>2. ip = ClientIp(c)
      BY <2>2, <2>3, <3>1
    <3> QED BY <2>2, <2>3, <2>4, <2>9, <2>10, <3>2
  <2> QED BY <2>2, <2>3, <2>4, <2>8, <2>10
<1> QED BY <1>1, <1>2

\* No admission exceeds a limit in force, however the limits are reloaded and
\* whatever sessions and slots were left behind.
THEOREM LimitsCorrect == Spec => LimitsRespected
<1>1. Spec => []IInv
  BY Inductive, PTL DEF Spec
<1>2. IInv /\ [Next]_vars =>
        [ /\ Raised(Attached) /\ cfg.maxRovers > 0 => Cardinality(Attached') <= cfg.maxRovers
          /\ \A ip \in Ip :
                Raised(AttachedFrom(ip)) /\ cfg.maxPerIp > 0 =>
                    Cardinality(AttachedFrom(ip)') <= cfg.maxPerIp
          /\ Raised(Active) /\ cfg.maxSources > 0 => Cardinality(Active') <= cfg.maxSources ]_vars
  BY RoversStep, ActiveStep
<1> QED BY <1>1, <1>2, PTL DEF Spec, LimitsRespected

-----------------------------------------------------------------------------
(* Detaching *)

\* The rovers attached when a mountpoint loses its source are all closed.
THEOREM DetachCorrect == Spec => DetachClosesRovers
<1>1. Spec => []IInv
  BY Inductive, PTL DEF Spec
<1>2. ASSUME IInv, [Next]_vars, NEW mp \in Mountpoint,
             sourceAddr[mp] # None, sourceAddr'[mp] = None
      PROVE  rovers[mp] \subseteq queueClosed' \cap writerClosing'
  <2> USE DEF IInv, TypeOK
  <2>1. ASSUME NEW c \in Conn, SourceEnds(c)
        PROVE  rovers[mp] \subseteq queueClosed' \cap writerClosing'
    <3>1. at[c] = mp
      BY <1>2, <2>1 DEF SourceEnds, LiveAreAttached, Open, SourceStates
    <3> QED BY <2>1, <3>1 DEF SourceEnds
  <2>2. ASSUME NEW c \in Conn, NEW m \in Mountpoint, NEW icy \in SourceStates,
               SourceAccepted(c, m, icy)
        PROVE  FALSE
    BY <1>2, <2>2 DEF SourceAccepted
  <2>3. ASSUME UNCHANGED sourceAddr PROVE FALSE
    BY <1>2, <2>3
  <2>4. ASSUME NEW c \in Conn, NEW m \in Mountpoint, NEW icy \in RoverStates,
               RoverAccepted(c, m, icy)
        PROVE  FALSE
    BY <2>3, <2>4 DEF RoverAccepted
  <2>5. ASSUME NEW c \in Conn, RoverLeaves(c) \/ IcyRaises(c) \/ TurnedAway(c) PROVE FALSE
    BY <2>3, <2>5 DEF RoverLeaves, IcyRaises, TurnedAway, hubVars, core
  <2>6. CASE Quiet
    BY <2>3, <2>6 DEF Quiet, core
  <2> QED BY <1>2, <2>1, <2>2, <2>4, <2>5, <2>6, StepKinds
<1>3. IInv /\ [Next]_vars =>
        [ \A mp \in Mountpoint :
            sourceAddr[mp] # None /\ sourceAddr'[mp] = None =>
                rovers[mp] \subseteq queueClosed' \cap writerClosing' ]_vars
  BY <1>2
<1> QED BY <1>1, <1>3, PTL DEF Spec, DetachClosesRovers

-----------------------------------------------------------------------------
(* The slot of a mountpoint *)

\* At most one live source feeds a mountpoint.
LEMMA OneFeeder ==
    ASSUME IInv, NEW mp \in Mountpoint, NEW c \in Conn, NEW d \in Conn,
           Feeds(c, mp, pc, at), Feeds(d, mp, pc, at)
    PROVE  c = d
BY DEF IInv, LiveAreAttached, AddressesDistinct, Feeds, Open

\* The owner of a mountpoint, from who feeds it.
LEMMA OwnerIs ==
    ASSUME NEW p, NEW a, NEW mp \in Mountpoint,
           \A c, d \in Conn : Feeds(c, mp, p, a) /\ Feeds(d, mp, p, a) => c = d
    PROVE  /\ OwnerOf(p, a)[mp] \in Conn \cup {None}
           /\ \A c \in Conn : OwnerOf(p, a)[mp] = c <=> Feeds(c, mp, p, a)
           /\ OwnerOf(p, a)[mp] = None <=> \A c \in Conn : ~Feeds(c, mp, p, a)
<1>1. CASE \E c \in Conn : Feeds(c, mp, p, a)
  <2>1. PICK c \in Conn : Feeds(c, mp, p, a)
    BY <1>1
  <2>2. OwnerOf(p, a)[mp] = CHOOSE d \in Conn : Feeds(d, mp, p, a)
    BY <1>1 DEF OwnerOf
  <2>3. (CHOOSE d \in Conn : Feeds(d, mp, p, a)) = c
    BY <2>1
  <2> QED BY <2>1, <2>2, <2>3
<1>2. CASE \A c \in Conn : ~Feeds(c, mp, p, a)
  <2>1. OwnerOf(p, a)[mp] = None
    BY <1>2 DEF OwnerOf
  <2> QED BY <1>2, <2>1
<1> QED BY <1>1, <1>2

Same(p, a, q, b, mp) == \A c \in Conn : Feeds(c, mp, q, b) <=> Feeds(c, mp, p, a)

\* An owner does not change where who feeds does not.
LEMMA OwnerKept ==
    ASSUME NEW p, NEW a, NEW q, NEW b, NEW mp \in Mountpoint,
           \A c, d \in Conn : Feeds(c, mp, p, a) /\ Feeds(d, mp, p, a) => c = d,
           Same(p, a, q, b, mp)
    PROVE  OwnerOf(q, b)[mp] = OwnerOf(p, a)[mp]
<1>1. \A c, d \in Conn : Feeds(c, mp, q, b) /\ Feeds(d, mp, q, b) => c = d
  BY DEF Same
<1>2. /\ OwnerOf(p, a)[mp] \in Conn \cup {None}
      /\ \A c \in Conn : OwnerOf(p, a)[mp] = c <=> Feeds(c, mp, p, a)
      /\ OwnerOf(p, a)[mp] = None <=> \A c \in Conn : ~Feeds(c, mp, p, a)
  BY OwnerIs
<1>3. /\ OwnerOf(q, b)[mp] \in Conn \cup {None}
      /\ \A c \in Conn : OwnerOf(q, b)[mp] = c <=> Feeds(c, mp, q, b)
      /\ OwnerOf(q, b)[mp] = None <=> \A c \in Conn : ~Feeds(c, mp, q, b)
  BY <1>1, OwnerIs
<1> QED BY <1>2, <1>3 DEF Same

LEMMA OwnerFunction ==
    ASSUME NEW p, NEW a
    PROVE  OwnerOf(p, a) = [mp \in Mountpoint |-> OwnerOf(p, a)[mp]]
BY DEF OwnerOf

\* A live source that leaves releases its mountpoint.
LEMMA ReleaseStep ==
    ASSUME IInv, NEW c \in Conn, pc[c] \in SourceStates, at' = at,
           pc' = [pc EXCEPT ![c] = "closed"] \/ pc' = [pc EXCEPT ![c] = "aborted"]
    PROVE  Slot!Release(at[c])
<1> DEFINE mp == at[c]
<1> USE DEF IInv, TypeOK, Feeds
<1>1. mp \in Mountpoint
  BY DEF LiveAreAttached, Open
<1>2. OwnerOf(pc, at)[mp] # None
  <2>1. Feeds(c, mp, pc, at)
    OBVIOUS
  <2> QED BY <1>1, <2>1, OneFeeder, OwnerIs
<1>3. \A d \in Conn : ~Feeds(d, mp, pc', at')
  <2>1. Feeds(c, mp, pc, at)
    OBVIOUS
  <2>2. ~Feeds(c, mp, pc', at')
    BY DEF SourceStates
  <2>3. ASSUME NEW d \in Conn, d # c PROVE ~Feeds(d, mp, pc', at')
    <3>1. ~Feeds(d, mp, pc, at)
      BY <1>1, <2>1, <2>3, OneFeeder
    <3> QED BY <2>3, <3>1
  <2> QED BY <2>2, <2>3
<1>4. OwnerOf(pc', at')[mp] = None
  BY <1>1, <1>3 DEF OwnerOf
<1>5. ASSUME NEW m \in Mountpoint, m # mp
      PROVE  OwnerOf(pc', at')[m] = OwnerOf(pc, at)[m]
  <2>1. Same(pc, at, pc', at', m)
    BY <1>5 DEF Same, SourceStates
  <2>2. \A x, y \in Conn : Feeds(x, m, pc, at) /\ Feeds(y, m, pc, at) => x = y
    BY OneFeeder
  <2> QED BY <2>1, <2>2, OwnerKept
<1>6. OwnerOf(pc', at') = [OwnerOf(pc, at) EXCEPT ![mp] = None]
  <2>1. OwnerOf(pc, at) = [m \in Mountpoint |-> OwnerOf(pc, at)[m]]
    BY OwnerFunction
  <2>2. OwnerOf(pc', at') = [m \in Mountpoint |-> OwnerOf(pc', at')[m]]
    BY OwnerFunction
  <2> HIDE DEF Feeds
  <2> QED BY <1>1, <1>4, <1>5, <2>1, <2>2
<1> QED BY <1>2, <1>6 DEF Slot!Release

\* An accepted source acquires a mountpoint that is free.
LEMMA AcquireStep ==
    ASSUME IInv, NEW c \in Conn, NEW mp \in Mountpoint, NEW icy \in SourceStates,
           SourceAccepted(c, mp, icy)
    PROVE  Slot!Acquire(c, mp)
<1> USE DEF IInv, TypeOK, Feeds
<1>1. pc[c] = "absent"
  BY DEF SourceAccepted, Fresh
<1>2. \A d \in Conn : ~Feeds(d, mp, pc, at)
  BY DEF SourceAccepted, Fresh, Busy, LiveAreAttached, Open
<1>3. OwnerOf(pc, at)[mp] = None
  BY <1>2 DEF OwnerOf
<1>4. ASSUME NEW m \in Mountpoint PROVE OwnerOf(pc, at)[m] # c
  <2>1. ~Feeds(c, m, pc, at)
    BY <1>1 DEF SourceStates
  <2> QED BY <2>1, OneFeeder, OwnerIs
<1>5. pc'[c] = icy /\ at'[c] = mp /\ \A d \in Conn \ {c} : pc'[d] = pc[d] /\ at'[d] = at[d]
  BY DEF SourceAccepted
<1>6. OwnerOf(pc', at')[mp] = c
  <2>1. Feeds(c, mp, pc', at') /\ \A d \in Conn : Feeds(d, mp, pc', at') => d = c
    BY <1>2, <1>5
  <2> QED BY <2>1, OwnerIs
<1>7. ASSUME NEW m \in Mountpoint, m # mp
      PROVE  OwnerOf(pc', at')[m] = OwnerOf(pc, at)[m]
  <2>1. Same(pc, at, pc', at', m)
    BY <1>1, <1>5, <1>7 DEF Same, SourceStates
  <2>2. \A x, y \in Conn : Feeds(x, m, pc, at) /\ Feeds(y, m, pc, at) => x = y
    BY OneFeeder
  <2> QED BY <2>1, <2>2, OwnerKept
<1>8. OwnerOf(pc', at') = [OwnerOf(pc, at) EXCEPT ![mp] = c]
  <2>1. OwnerOf(pc, at) = [m \in Mountpoint |-> OwnerOf(pc, at)[m]]
    BY OwnerFunction
  <2>2. OwnerOf(pc', at') = [m \in Mountpoint |-> OwnerOf(pc', at')[m]]
    BY OwnerFunction
  <2> HIDE DEF Feeds
  <2> QED BY <1>6, <1>7, <2>1, <2>2
<1> QED BY <1>3, <1>4, <1>8 DEF Slot!Acquire

\* Where nobody starts or stops feeding, no slot changes hands.
LEMMA SlotStutters ==
    ASSUME IInv, \A mp \in Mountpoint : Same(pc, at, pc', at', mp)
    PROVE  OwnerOf(pc', at') = OwnerOf(pc, at)
<1>1. ASSUME NEW m \in Mountpoint PROVE OwnerOf(pc', at')[m] = OwnerOf(pc, at)[m]
  <2>1. \A x, y \in Conn : Feeds(x, m, pc, at) /\ Feeds(y, m, pc, at) => x = y
    BY OneFeeder
  <2> QED BY <2>1, OwnerKept
<1>2. OwnerOf(pc, at) = [m \in Mountpoint |-> OwnerOf(pc, at)[m]]
  BY OwnerFunction
<1>3. OwnerOf(pc', at') = [m \in Mountpoint |-> OwnerOf(pc', at')[m]]
  BY OwnerFunction
<1> QED BY <1>1, <1>2, <1>3

LEMMA SlotStep ==
    ASSUME IInv, [Next]_vars
    PROVE  Slot!Next \/ UNCHANGED OwnerOf(pc, at)
<1> USE DEF IInv, TypeOK
<1>1. ASSUME NEW c \in Conn, NEW mp \in Mountpoint, NEW icy \in SourceStates,
             SourceAccepted(c, mp, icy)
      PROVE  Slot!Next
  BY <1>1, AcquireStep DEF Slot!Next
<1>2. ASSUME NEW c \in Conn, SourceEnds(c) PROVE Slot!Next
  <2>1. Slot!Release(at[c])
    BY <1>2, ReleaseStep DEF SourceEnds, SourceStates
  <2>2. at[c] \in Mountpoint
    BY <1>2 DEF SourceEnds, LiveAreAttached, Open, SourceStates
  <2> QED BY <2>1, <2>2 DEF Slot!Next
<1>3. ASSUME \A mp \in Mountpoint : Same(pc, at, pc', at', mp)
      PROVE  UNCHANGED OwnerOf(pc, at)
  BY <1>3, SlotStutters
<1>4. ASSUME NEW c \in Conn, IcyRaises(c) PROVE Slot!Next \/ UNCHANGED OwnerOf(pc, at)
  <2>1. CASE pc[c] = "sourceIcy"
    <3>1. Slot!Release(at[c])
      BY <1>4, <2>1, ReleaseStep DEF IcyRaises, SourceStates
    <3>2. at[c] \in Mountpoint
      BY <2>1 DEF LiveAreAttached, Open, SourceStates
    <3> QED BY <3>1, <3>2 DEF Slot!Next
  <2>2. CASE pc[c] = "roverIcy"
    BY <1>3, <1>4, <2>2 DEF IcyRaises, Same, Feeds, SourceStates
  <2> QED BY <1>4, <2>1, <2>2 DEF IcyRaises
<1>5. ASSUME NEW c \in Conn, NEW mp \in Mountpoint, NEW icy \in RoverStates,
             RoverAccepted(c, mp, icy)
      PROVE  UNCHANGED OwnerOf(pc, at)
  BY <1>3, <1>5 DEF RoverAccepted, Fresh, Same, Feeds, SourceStates, RoverStates
<1>6. ASSUME NEW c \in Conn, RoverLeaves(c) PROVE UNCHANGED OwnerOf(pc, at)
  BY <1>3, <1>6 DEF RoverLeaves, Same, Feeds, SourceStates
<1>7. ASSUME NEW c \in Conn, TurnedAway(c) PROVE UNCHANGED OwnerOf(pc, at)
  BY <1>3, <1>7 DEF TurnedAway, Fresh, core, Same, Feeds, SourceStates
<1>8. ASSUME Quiet PROVE UNCHANGED OwnerOf(pc, at)
  BY <1>3, <1>8 DEF Quiet, core, Same, Feeds
<1> QED BY <1>1, <1>2, <1>4, <1>5, <1>6, <1>7, <1>8, StepKinds

\* The caster implements the slot of SourceSlot: one live uplink per mountpoint,
\* handed on only through being free.
THEOREM SlotRefined == Spec => OneSourcePerMountpoint
<1>1. Init => Slot!Init
  BY DEF Init, Slot!Init, OwnerOf, Feeds, SourceStates
<1>2. IInv /\ [Next]_vars => [Slot!Next]_(OwnerOf(pc, at))
  BY SlotStep
<1>3. Spec => []IInv
  BY Inductive, PTL DEF Spec
<1> QED BY <1>1, <1>2, <1>3, PTL DEF Spec, OneSourcePerMountpoint, Slot!Spec
=============================================================================
