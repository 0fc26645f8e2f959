--------------------------- MODULE ShutdownProofs ---------------------------
(***************************************************************************)
(* Proofs about Shutdown, for any clients and mountpoints, and for a       *)
(* wait_closed of either kind.                                             *)
(*                                                                         *)
(* Nothing is left behind because three things hold all along: a           *)
(* mountpoint is attached only beside a source whose handler has still to  *)
(* detach it or was aborted before it could; a handler that is past its    *)
(* loop, or whose answer met a broken transport, has a closed writer; and  *)
(* main gets past a stage of run_server and close only by finishing it or  *)
(* by the error of a cancelled task.                                       *)
(***************************************************************************)
EXTENDS Shutdown, TLAPS

SlotsAreServed ==
    \A mp \in attached : \E c \in Source : At[c] = mp /\ handler[c] \in {"icy", "serving", "aborted"}

LeftAreClosed ==
    \A c \in Client : handler[c] \in {"icy", "flushing", "ended", "aborted"} => c \in closing

Gone == {"away", "ended", "aborted"}

ExitAwaited ==
    main = "exited" => \A c \in Client \ late : handler[c] \in Gone

\* What main knows at each stage.  CutBefore, once true, stays.
StagesInOrder ==
    /\ main # "serving" => watcher # "loops" /\ reloader # "loops"
    /\ main = "reloader" => watcher = "ended"
    /\ main \in CloseStates => watcher = "ended" /\ reloader = "ended"
    /\ main \in {"relays", "services"} => detached
    /\ main \in {"cleanup", "exited"} =>
          /\ detached \/ CutBefore
          /\ released \/ CutBefore \/ CutInside

IInv == TypeOK /\ SlotsAreServed /\ LeftAreClosed /\ ExitAwaited /\ StagesInOrder

-----------------------------------------------------------------------------
(* The steps, by what they do to clients and slots *)

\* No await separates a handler's departure from what it gives back.
Departs(c) ==
    /\ handler[c] = "serving" /\ main # "exited"
    /\ Leave(c)
    /\ main' = main /\ late' = late

\* A connection comes, is read, or is turned away: no slot changes.
Greets(c) ==
    /\ handler[c] \in {"away", "greeting"} /\ main # "exited"
    /\ \/ handler' = [handler EXCEPT ![c] = "greeting"] /\ closing' = closing
       \/ handler' = [handler EXCEPT ![c] = "flushing"] /\ closing' = closing \cup {c}
    /\ UNCHANGED <<attached, main>>

Requests(c) == Request(c) /\ main # "exited"

\* Nothing is given back any more.
Finishes(c) ==
    /\ main # "exited"
    /\ \/ handler[c] = "flushing" /\ handler' = [handler EXCEPT ![c] = "ended"]
       \/ handler[c] = "icy" /\ handler' = [handler EXCEPT ![c] = "aborted"]
    /\ UNCHANGED <<attached, closing, late, main>>

Keeps ==
    /\ UNCHANGED <<handler, late>>
    /\ attached' \subseteq attached /\ closing \subseteq closing'
    /\ main' = "exited" /\ main # "exited" =>
          \A c \in Client \ late : handler[c] \in Gone

\* Every step is of one of five kinds.
LEMMA StepKinds ==
    ASSUME TypeOK, [Next]_vars
    PROVE  \/ Keeps
           \/ \E c \in Client : Departs(c) \/ Greets(c) \/ Requests(c) \/ Finishes(c)
<1> USE DEF closeVars, taskVars, clientVars, hubVars
<1>1. CASE UNCHANGED vars
  BY <1>1 DEF vars, Keeps
<1>2. CASE Signal \/ Hup \/ ReloaderWakes \/ BackgroundCancelled
  BY <1>2 DEF Signal, Hup, ReloaderWakes, BackgroundCancelled, Keeps
<1>3. CASE \E changed \in BOOLEAN : WatcherWakes(changed)
  BY <1>3 DEF WatcherWakes, Keeps
<1>4. CASE \E mp \in Mountpoint : StartRelay(mp)
  BY <1>4 DEF StartRelay, Keeps
<1>5. CASE MainWakes \/ AwaitWatcher \/ AwaitReloader \/ ServerClosed \/ CloseTasks
  BY <1>5 DEF MainWakes, AwaitWatcher, AwaitReloader, After, ServerClosed, CloseTasks, Keeps
<1>6. CASE DetachHubs
  BY <1>6 DEF DetachHubs, Keeps
<1>7. CASE RelaysClosed \/ CloseServices \/ CancelStats
  BY <1>7 DEF RelaysClosed, CloseServices, CancelStats, Keeps
<1>8. CASE \E mp \in Mountpoint : CloseRelay(mp) \/ CancelRelay(mp)
  BY <1>8 DEF CloseRelay, CancelRelay, Keeps
<1>9. CASE Exit
  BY <1>9 DEF Exit, Keeps, Gone
<1>10. ASSUME NEW c \in Client, Alive,
              \/ Accept(c) \/ Request(c) \/ Refused(c) \/ IcyRaises(c)
              \/ PeerBreaks(c) \/ TransportCloses(c)
              \/ HandlerEnds(c) \/ Flushed(c) \/ CancelHandler(c)
       PROVE  Keeps \/ Departs(c) \/ Greets(c) \/ Requests(c) \/ Finishes(c)
  <2>1. CASE Accept(c) \/ Refused(c)
    BY <1>10, <2>1 DEF Alive, Accept, Refused, Reads, Greets
  <2>2. CASE PeerBreaks(c) \/ TransportCloses(c)
    BY <1>10, <2>2 DEF Alive, PeerBreaks, TransportCloses, Keeps
  <2>3. CASE HandlerEnds(c)
    BY <1>10, <2>3 DEF Alive, HandlerEnds, Departs
  <2>4. CASE Flushed(c)
    BY <1>10, <2>4 DEF Alive, Flushed, Finishes
  <2>5. CASE CancelHandler(c)
    BY <1>10, <2>5 DEF Alive, CancelHandler, Departs, Greets, Finishes
  <2>6. CASE Request(c)
    BY <1>10, <2>6 DEF Alive, Requests
  <2>7. CASE IcyRaises(c)
    BY <1>10, <2>7 DEF Alive, IcyRaises, Finishes
  <2> QED BY <1>10, <2>1, <2>2, <2>3, <2>4, <2>5, <2>6, <2>7
<1> QED
  BY <1>1, <1>2, <1>3, <1>4, <1>5, <1>6, <1>7, <1>8, <1>9, <1>10 DEF Next, MainStep

-----------------------------------------------------------------------------
(* The inductive invariant *)

LEMMA InitIInv == Init => IInv
<1> SUFFICES ASSUME Init PROVE IInv
  OBVIOUS
<1> USE DEF Init
<1>1. TypeOK
  <2>1. relay \in [Mountpoint -> RelayStates]
    BY DEF RelayStates
  <2>2. handler \in [Client -> HandlerStates]
    BY DEF HandlerStates
  <2>3. stalled \subseteq Client
    BY DEF Client
  <2> QED BY <2>1, <2>2, <2>3 DEF TypeOK, BackgroundStates
<1>2. SlotsAreServed /\ LeftAreClosed /\ ExitAwaited /\ StagesInOrder
  BY DEF SlotsAreServed, LeftAreClosed, ExitAwaited, StagesInOrder, CloseStates
<1> QED BY <1>1, <1>2 DEF IInv

\* At gives the mountpoint of every connection.
LEMMA AtType == \A c \in Client : At[c] \in Mountpoint
BY ShutdownAssumption

LEMMA TypeStep == ASSUME TypeOK, [Next]_vars PROVE TypeOK'
<1> USE DEF TypeOK, BackgroundStates, RelayStates, HandlerStates, CloseStates,
            taskVars, clientVars, hubVars, closeVars
<1>1. CASE UNCHANGED vars
  BY <1>1 DEF vars
<1>2. CASE Signal \/ Hup \/ ReloaderWakes \/ BackgroundCancelled
  <2>1. CASE Signal
    BY <2>1 DEF Signal
  <2>2. CASE Hup
    BY <2>2 DEF Hup
  <2>3. CASE ReloaderWakes
    BY <2>3 DEF ReloaderWakes
  <2>4. CASE BackgroundCancelled
    BY <2>4 DEF BackgroundCancelled
  <2> QED BY <1>2, <2>1, <2>2, <2>3, <2>4
<1>3. CASE \E changed \in BOOLEAN : WatcherWakes(changed)
  BY <1>3 DEF WatcherWakes
<1>4. CASE \E mp \in Mountpoint : StartRelay(mp)
  BY <1>4 DEF StartRelay
<1>5. CASE MainWakes \/ AwaitWatcher \/ AwaitReloader \/ ServerClosed \/ CloseTasks
  <2>1. CASE MainWakes
    BY <2>1 DEF MainWakes, Cancel
  <2>2. CASE AwaitWatcher
    BY <2>2 DEF AwaitWatcher, After
  <2>3. CASE AwaitReloader
    <3>1. main' \in {"cleanup", "wait_closed"} /\ listening' \in BOOLEAN
      BY <2>3 DEF AwaitReloader, After
    <3> QED BY <2>3, <3>1 DEF AwaitReloader
  <2>4. CASE ServerClosed
    BY <2>4 DEF ServerClosed
  <2>5. CASE CloseTasks
    BY <2>5 DEF CloseTasks
  <2> QED BY <1>5, <2>1, <2>2, <2>3, <2>4, <2>5
<1>6. CASE DetachHubs
  <2>1. UNION {InHub(mp) : mp \in Mountpoint} \subseteq Client
    BY DEF InHub, Client
  <2> QED BY <1>6, <2>1 DEF DetachHubs
<1>7. CASE RelaysClosed \/ CloseServices \/ CancelStats \/ Exit
  <2>1. CASE RelaysClosed \/ Exit
    BY <2>1 DEF RelaysClosed, Exit
  <2>2. CASE CloseServices
    BY <2>2 DEF CloseServices
  <2>3. CASE CancelStats
    BY <2>3 DEF CancelStats
  <2> QED BY <1>7, <2>1, <2>2, <2>3
<1>8. CASE \E mp \in Mountpoint : CloseRelay(mp) \/ CancelRelay(mp)
  BY <1>8 DEF CloseRelay, CancelRelay
<1>9. ASSUME NEW c \in Client, Accept(c) \/ Request(c) \/ Refused(c) PROVE TypeOK'
  <2>1. WithHub(At[c]) \in [Mountpoint -> RelayStates]
    BY AtType DEF WithHub
  <2>2. CASE Accept(c)
    BY <2>2 DEF Accept
  <2>3. CASE Request(c)
    <3>1. /\ attached' \subseteq Mountpoint /\ handler' \in [Client -> HandlerStates]
          /\ linked' \subseteq Client /\ closing' \subseteq Client
      BY <2>3, AtType DEF Request
    <3> QED BY <2>1, <2>3, <3>1 DEF Request
  <2>4. CASE Refused(c)
    BY <2>1, <2>4 DEF Refused
  <2> QED BY <1>9, <2>2, <2>3, <2>4
<1>10. ASSUME NEW c \in Client, PeerBreaks(c) \/ TransportCloses(c) \/ Flushed(c) \/ IcyRaises(c) PROVE TypeOK'
  BY <1>10 DEF PeerBreaks, TransportCloses, Flushed, IcyRaises
<1>11. ASSUME NEW c \in Client, HandlerEnds(c) \/ CancelHandler(c) PROVE TypeOK'
  <2>1. \A mp : InHub(mp) \subseteq Client
    BY DEF InHub, Client
  <2>2. ASSUME Leave(c)
        PROVE  /\ attached' \subseteq Mountpoint /\ closing' \subseteq Client
               /\ handler' \in [Client -> HandlerStates]
    BY <2>1, <2>2 DEF Leave, Detached
  <2> QED BY <1>11, <2>2 DEF HandlerEnds, CancelHandler
<1> QED
  BY <1>1, <1>2, <1>3, <1>4, <1>5, <1>6, <1>7, <1>8, <1>9, <1>10, <1>11 DEF Next, MainStep

\* A source's departure clears its own mountpoint, and an arrival takes one that
\* was free or adds no slot.
LEMMA SlotStep == ASSUME IInv, [Next]_vars PROVE SlotsAreServed'
<1> DEFINE Holding == {"icy", "serving", "aborted"}
<1> USE DEF IInv, TypeOK, SlotsAreServed
<1>1. CASE Keeps
  BY <1>1 DEF Keeps
<1>2. ASSUME NEW c \in Client, Departs(c) PROVE SlotsAreServed'
  <2>1. ASSUME NEW mp \in attached' PROVE \E d \in Source : At[d] = mp /\ handler'[d] \in Holding
    <3>1. mp \in attached
      BY <1>2, <2>1 DEF Departs, Leave, Detached
    <3>2. PICK d \in Source : At[d] = mp /\ handler[d] \in Holding
      BY <3>1
    <3>3. d # c
      BY <1>2, <2>1, <3>2 DEF Departs, Leave, Detached
    <3>4. handler'[d] = handler[d]
      BY <1>2, <3>2, <3>3 DEF Departs, Leave, Client
    <3> QED BY <3>2, <3>4
  <2> QED BY <2>1
<1>3. ASSUME NEW c \in Client, Requests(c) PROVE SlotsAreServed'
  <2>1. /\ handler' \in {[handler EXCEPT ![c] = "serving"], [handler EXCEPT ![c] = "icy"]}
        /\ handler[c] = "greeting"
    BY <1>3 DEF Requests, Request, Reads
  <2>2. attached' = IF c \in Source THEN attached \cup {At[c]} ELSE attached
    BY <1>3 DEF Requests, Request
  <2> QED BY <2>1, <2>2 DEF Client
<1>4. ASSUME NEW c \in Client, Finishes(c) \/ Greets(c) PROVE SlotsAreServed'
  <2>1. attached' = attached
    BY <1>4 DEF Finishes, Greets
  <2>2. \A d \in Client : handler[d] \in Holding => handler'[d] \in Holding
    BY <1>4 DEF Finishes, Greets
  <2> QED BY <2>1, <2>2 DEF Client
<1> QED BY <1>1, <1>2, <1>3, <1>4, StepKinds

\* Leave closes the writer that the handler then waits for.
LEMMA ClosedStep == ASSUME IInv, [Next]_vars PROVE LeftAreClosed' /\ ExitAwaited'
<1> USE DEF IInv, TypeOK, LeftAreClosed, ExitAwaited
<1>1. CASE Keeps
  BY <1>1 DEF Keeps
<1>2. ASSUME NEW c \in Client, Departs(c) PROVE LeftAreClosed' /\ ExitAwaited'
  BY <1>2 DEF Departs, Leave
<1>3. ASSUME NEW c \in Client, Requests(c) PROVE LeftAreClosed' /\ ExitAwaited'
  BY <1>3 DEF Requests, Request
<1>4. ASSUME NEW c \in Client, Greets(c) PROVE LeftAreClosed' /\ ExitAwaited'
  BY <1>4 DEF Greets
<1>5. ASSUME NEW c \in Client, Finishes(c) PROVE LeftAreClosed' /\ ExitAwaited'
  BY <1>5 DEF Finishes
<1> QED BY <1>1, <1>2, <1>3, <1>4, <1>5, StepKinds

\* What main has passed it has finished, or an error took it past the rest.
LEMMA StageStep == ASSUME IInv, [Next]_vars PROVE StagesInOrder'
<1> USE DEF IInv, TypeOK, StagesInOrder, BackgroundStates, CloseStates, CutBefore,
            taskVars, clientVars, hubVars, closeVars
<1>1. CASE UNCHANGED vars
  BY <1>1 DEF vars, CutInside
<1>2. CASE Signal \/ Hup
  BY <1>2 DEF Signal, Hup, CutInside
<1>3. CASE ReloaderWakes
  BY <1>3 DEF ReloaderWakes, CutInside
<1>4. CASE BackgroundCancelled
  BY <1>4 DEF BackgroundCancelled, CutInside
<1>5. CASE \E changed \in BOOLEAN : WatcherWakes(changed)
  BY <1>5 DEF WatcherWakes, CutInside
<1>6. CASE MainWakes
  BY <1>6 DEF MainWakes, Cancel
<1>7. CASE AwaitWatcher \/ AwaitReloader
  BY <1>7 DEF AwaitWatcher, AwaitReloader, After
<1>8. CASE ServerClosed \/ CloseTasks \/ DetachHubs \/ RelaysClosed \/ CloseServices
  BY <1>8 DEF ServerClosed, CloseTasks, DetachHubs, RelaysClosed, CloseServices
<1>9. CASE CancelStats \/ Exit
  BY <1>9 DEF CancelStats, Exit, CutInside
<1>10. ASSUME NEW mp \in Mountpoint, CloseRelay(mp) PROVE StagesInOrder'
  <2>1. main' = "cleanup" => CutInside'
    BY <1>10 DEF CloseRelay, CutInside
  <2> QED BY <1>10, <2>1 DEF CloseRelay
<1>11. ASSUME \A mp \in Mountpoint : relay[mp] = "cut" => relay'[mp] = "cut",
              UNCHANGED <<taskVars, main, closeVars>>
       PROVE  StagesInOrder'
  BY <1>11 DEF CutInside
<1>12. ASSUME NEW mp \in Mountpoint, CancelRelay(mp) \/ StartRelay(mp) PROVE StagesInOrder'
  BY <1>11, <1>12 DEF CancelRelay, StartRelay
<1>13. ASSUME NEW c \in Client, Request(c) \/ Refused(c) PROVE StagesInOrder'
  <2>1. \A mp \in Mountpoint : WithHub(At[c])[mp] = "cut" <=> relay[mp] = "cut"
    BY AtType DEF WithHub
  <2> QED BY <1>11, <1>13, <2>1 DEF Request, Refused
<1>14. ASSUME NEW c \in Client,
              \/ Accept(c) \/ IcyRaises(c) \/ PeerBreaks(c) \/ TransportCloses(c)
              \/ HandlerEnds(c) \/ Flushed(c) \/ CancelHandler(c)
       PROVE  StagesInOrder'
  BY <1>11, <1>14 DEF Accept, IcyRaises, PeerBreaks, TransportCloses, HandlerEnds, Flushed, CancelHandler
<1> QED
  BY <1>1, <1>2, <1>3, <1>4, <1>5, <1>6, <1>7, <1>8, <1>9, <1>10, <1>12, <1>13, <1>14 DEF Next, MainStep

LEMMA Invariance == Spec => []IInv
<1>1. Init => IInv
  BY InitIInv
<1>2. IInv /\ [Next]_vars => IInv'
  BY TypeStep, SlotStep, ClosedStep, StageStep DEF IInv
<1> QED BY <1>1, <1>2, PTL DEF Spec

-----------------------------------------------------------------------------
(* Theorems *)

\* Every variable of run_server, close and the clients keeps its type.
THEOREM TypeCorrect == Spec => []TypeOK
<1>1. IInv => TypeOK
  BY DEF IInv
<1> QED BY <1>1, Invariance, PTL

\* Whichever way run_server ends, and whenever a handler is cancelled: of those
\* that asyncio.run awaited only an aborted one leaves its mountpoint attached,
\* every connection is closed, and close skips what it skips for one reason.
THEOREM NothingIsLeft == Spec => []NothingLeftBehind
<1>1. IInv => NothingLeftBehind
  <2> SUFFICES ASSUME IInv, main = "exited"
               PROVE  /\ attached \subseteq
                            {At[c] : c \in {d \in Source : d \in late \/ handler[d] = "aborted"}}
                      /\ \A c \in Client \ late : handler[c] # "away" => c \in closing
                      /\ detached \/ CutBefore
                      /\ released \/ CutBefore \/ CutInside
    BY DEF NothingLeftBehind
  <2>1. ASSUME NEW mp \in attached
        PROVE  \E c \in Source : At[c] = mp /\ (c \in late \/ handler[c] = "aborted")
    <3>1. PICK c \in Source : At[c] = mp /\ handler[c] \in {"icy", "serving", "aborted"}
      BY DEF IInv, SlotsAreServed
    <3>2. c \in late \/ handler[c] \in Gone
      BY DEF IInv, ExitAwaited, Client
    <3> QED BY <3>1, <3>2 DEF Gone
  <2>2. \A c \in Client \ late : handler[c] # "away" => c \in closing
    BY DEF IInv, LeftAreClosed, ExitAwaited, Gone
  <2>3. (detached \/ CutBefore) /\ (released \/ CutBefore \/ CutInside)
    <3>1. main \in {"cleanup", "exited"}
      OBVIOUS
    <3> QED BY <3>1 DEF IInv, StagesInOrder
  <2> QED BY <2>1, <2>2, <2>3
<1> QED BY <1>1, Invariance, PTL
=============================================================================
