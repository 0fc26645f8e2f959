----------------------------- MODULE Shutdown -------------------------------
(***************************************************************************)
(* run_server from the signal to the end of the process, and               *)
(* NtripCaster.close.  run_server cancels and awaits the configuration     *)
(* watcher and the reloader under `except Exception`, which the            *)
(* CancelledError of an awaited task passes through; so does close when it *)
(* awaits a relay.  What close does not reach is left to asyncio.run,      *)
(* which cancels every task it finds and waits for those; the server that  *)
(* nobody closed goes on accepting meanwhile.                              *)
(*                                                                         *)
(* A client is a source or a rover of one mountpoint.  Its handler and its *)
(* transport end separately: a transport that is closing lives on while    *)
(* its peer does not read what was written.                                *)
(***************************************************************************)
EXTENDS Naturals, FiniteSets

CONSTANTS
    Source, Rover,    \* connections
    Mountpoint,
    At,               \* the mountpoint of a connection
    WaitsForClients   \* Server.wait_closed waits for the connections (Python >= 3.12.1)

Client == Source \cup Rover

ASSUME ShutdownAssumption ==
    /\ Source \cap Rover = {}
    /\ At \in [Client -> Mountpoint]
    /\ WaitsForClients \in BOOLEAN

VARIABLES
    stop,        \* stop_event is set
    reload,      \* reload_event is set
    watcher,     \* watch_task: "loops", "cancelling", "cancelled", "ended"
    reloader,    \* reload_task, likewise
    main,        \* where run_server, then asyncio.run, stands
    listening,   \* the server accepts connections
    detached,    \* close has detached the hubs
    released,    \* close has stopped MQTT, the two stores and the web server
    stats,       \* _stats_task and _audit_task: "loops", "ended"
    attached,    \* mountpoints whose hub has a source
    relay,       \* relay of a mountpoint, see RelayStates
    handler,     \* _handle_conn of a connection, see HandlerStates
    cancelled,   \* handlers that asyncio.run has cancelled
    late,        \* connections accepted after asyncio.run looked for tasks
    linked,      \* transports that are up
    closing,     \* writers that were closed
    stalled      \* peers that do not read

vars == <<stop, reload, watcher, reloader, main, listening, detached, released, stats, attached,
          relay, handler, cancelled, late, linked, closing, stalled>>

taskVars   == <<stop, reload, watcher, reloader>>
clientVars == <<handler, cancelled, late, linked, closing>>
hubVars    == <<attached, relay>>
closeVars  == <<detached, released>>

\* "unborn": create_task(relay.start()) has not run; "cut": awaited by close, which
\* its CancelledError ended; "late": of a hub made after asyncio.run looked for tasks.
RelayStates == {"none", "unborn", "running", "ended", "cut", "late"}

\* "greeting": the request is being read; "icy": its drain will find the transport
\* broken, a source has its slot already; "flushing": waits for its writer to
\* close; "aborted": ended at the drain, outside the try that detaches.
HandlerStates == {"away", "greeting", "icy", "serving", "flushing", "ended", "aborted"}

BackgroundStates == {"loops", "cancelling", "cancelled", "ended"}
CloseStates == {"wait_closed", "tasks", "hubs", "relays", "services"}

TypeOK ==
    /\ stop \in BOOLEAN /\ reload \in BOOLEAN
    /\ listening \in BOOLEAN /\ detached \in BOOLEAN /\ released \in BOOLEAN
    /\ watcher \in BackgroundStates /\ reloader \in BackgroundStates
    /\ main \in {"serving", "watcher", "reloader", "cleanup", "exited"} \cup CloseStates
    /\ stats \in {"loops", "ended"}
    /\ attached \subseteq Mountpoint
    /\ relay \in [Mountpoint -> RelayStates]
    /\ handler \in [Client -> HandlerStates]
    /\ cancelled \subseteq Client /\ late \subseteq Client /\ linked \subseteq Client
    /\ closing \subseteq Client /\ stalled \subseteq Client

\* The server runs; of earlier clients the hubs with their relays remain.
Init ==
    /\ stop = FALSE /\ reload = FALSE /\ listening = TRUE /\ detached = FALSE /\ released = FALSE
    /\ watcher = "loops" /\ reloader = "loops"
    /\ main = "serving" /\ stats = "loops"
    /\ attached = {} /\ relay \in [Mountpoint -> {"none", "running"}]
    /\ handler = [c \in Client |-> "away"]
    /\ cancelled = {} /\ late = {} /\ linked = {} /\ closing = {}
    /\ stalled \in SUBSET Rover

-----------------------------------------------------------------------------
(* Clients *)

\* What asyncio.run has not found it neither cancels nor awaits.
Accept(c) ==
    /\ listening /\ handler[c] = "away"
    /\ handler' = [handler EXCEPT ![c] = "greeting"]
    /\ linked' = linked \cup {c}
    /\ late' = IF main = "cleanup" THEN late \cup {c} ELSE late
    /\ UNCHANGED <<taskVars, main, listening, closeVars, stats, hubVars, cancelled, closing, stalled>>

\* The hub of a mountpoint comes with its first request, and the relay with it.
WithHub(mp) ==
    [relay EXCEPT ![mp] = IF @ # "none" THEN @ ELSE IF main = "cleanup" THEN "late" ELSE "unborn"]

\* A handler that asyncio.run has found does nothing more but end.
Reads(c) == handler[c] = "greeting" /\ (main = "cleanup" => c \in late)

\* A source takes its slot, a rover joins the hub, and both are answered.
Request(c) ==
    /\ Reads(c)
    /\ c \in Source => At[c] \notin attached
    /\ attached' = IF c \in Source THEN attached \cup {At[c]} ELSE attached
    /\ relay' = WithHub(At[c])
    /\ \/ /\ c \in linked
          /\ handler' = [handler EXCEPT ![c] = "serving"]
          /\ UNCHANGED <<linked, closing>>
       \/ /\ handler' = [handler EXCEPT ![c] = "icy"]
          /\ linked' = linked \ {c}
          /\ closing' = closing \cup {c}
    /\ UNCHANGED <<taskVars, main, listening, closeVars, stats, cancelled, late, stalled>>

\* No request in time, or one that is refused; some refusals come after the hub.
Refused(c) ==
    /\ Reads(c)
    /\ handler' = [handler EXCEPT ![c] = "flushing"]
    /\ closing' = closing \cup {c}
    /\ relay' \in {relay, WithHub(At[c])}
    /\ UNCHANGED <<taskVars, main, listening, closeVars, stats, attached, cancelled, late, linked, stalled>>

\* The drain of the answer raises before the try whose finally detaches.
IcyRaises(c) ==
    /\ handler[c] = "icy"
    /\ handler' = [handler EXCEPT ![c] = "aborted"]
    /\ UNCHANGED <<taskVars, main, listening, closeVars, stats, hubVars, cancelled, late, linked, closing, stalled>>

StartRelay(mp) ==
    /\ relay[mp] = "unborn" /\ main # "cleanup"
    /\ relay' = [relay EXCEPT ![mp] = "running"]
    /\ UNCHANGED <<taskVars, main, listening, closeVars, stats, attached, clientVars, stalled>>

PeerBreaks(c) ==
    /\ c \in linked
    /\ linked' = linked \ {c}
    /\ UNCHANGED <<taskVars, main, listening, closeVars, stats, hubVars, handler, cancelled, late, closing, stalled>>

\* The last bytes are out.
TransportCloses(c) ==
    /\ c \in linked /\ c \in closing /\ c \notin stalled
    /\ linked' = linked \ {c}
    /\ UNCHANGED <<taskVars, main, listening, closeVars, stats, hubVars, handler, cancelled, late, closing, stalled>>

\* detach_source of a hub: the slot, and the writers of its rovers.
InHub(mp) == {c \in Rover : At[c] = mp /\ handler[c] = "serving"}

Detached_Slot(c) == attached
Detached(c) == IF c \in Source THEN attached \ {At[c]} ELSE attached

\* A handler leaves its loop: a source detaches in its finally; then _handle_conn
\* closes the writer and waits for it, unless somebody closed it before.
Leave(c) ==
    /\ attached' = Detached(c)
    /\ closing' = closing \cup {c} \cup (IF c \in Source THEN InHub(At[c]) ELSE {})
    /\ handler' = [handler EXCEPT ![c] = IF c \in closing THEN "ended" ELSE "flushing"]

HandlerEnds(c) ==
    /\ handler[c] = "serving"
    /\ c \notin linked \/ c \in closing
    /\ Leave(c)
    /\ UNCHANGED <<taskVars, main, listening, closeVars, stats, relay, cancelled, late, linked, stalled>>

Flushed(c) ==
    /\ handler[c] = "flushing" /\ c \notin linked
    /\ handler' = [handler EXCEPT ![c] = "ended"]
    /\ UNCHANGED <<taskVars, main, listening, closeVars, stats, hubVars, cancelled, late, linked, closing, stalled>>

-----------------------------------------------------------------------------
(* The watcher, the reloader and the signals *)

Signal ==
    /\ ~stop
    /\ stop' = TRUE
    /\ UNCHANGED <<reload, watcher, reloader, main, listening, closeVars, stats, hubVars, clientVars, stalled>>

\* SIGHUP.
Hup ==
    /\ ~reload
    /\ reload' = TRUE
    /\ UNCHANGED <<stop, watcher, reloader, main, listening, closeVars, stats, hubVars, clientVars, stalled>>

\* The two seconds are over; the loop's condition is read after the body.
WatcherWakes(changed) ==
    /\ watcher = "loops"
    /\ reload' = (reload \/ changed)
    /\ watcher' = IF stop THEN "ended" ELSE "loops"
    /\ UNCHANGED <<stop, reloader, main, listening, closeVars, stats, hubVars, clientVars, stalled>>

ReloaderWakes ==
    /\ reloader = "loops" /\ reload
    /\ reload' = FALSE
    /\ reloader' = IF stop THEN "ended" ELSE "loops"
    /\ UNCHANGED <<stop, watcher, main, listening, closeVars, stats, hubVars, clientVars, stalled>>

BackgroundCancelled ==
    /\ \/ watcher = "cancelling" /\ watcher' = "cancelled" /\ UNCHANGED reloader
       \/ reloader = "cancelling" /\ reloader' = "cancelled" /\ UNCHANGED watcher
    /\ UNCHANGED <<stop, reload, main, listening, closeVars, stats, hubVars, clientVars, stalled>>

-----------------------------------------------------------------------------
(* run_server and close *)

\* cancel() does nothing to a task that has ended.
Cancel(task) == IF task = "loops" THEN "cancelling" ELSE task

MainWakes ==
    /\ main = "serving" /\ stop
    /\ watcher' = Cancel(watcher) /\ reloader' = Cancel(reloader)
    /\ main' = "watcher"
    /\ UNCHANGED <<stop, reload, listening, closeVars, stats, hubVars, clientVars, stalled>>

\* What awaiting a task gives: its end, or the CancelledError that ends
\* run_server.
After(task, next) == IF task = "cancelled" THEN "cleanup" ELSE next

AwaitWatcher ==
    /\ main = "watcher" /\ watcher # "cancelling"
    /\ main' = After(watcher, "reloader")
    /\ UNCHANGED <<taskVars, listening, closeVars, stats, hubVars, clientVars, stalled>>

AwaitReloader ==
    /\ main = "reloader" /\ reloader # "cancelling"
    /\ main' = After(reloader, "wait_closed")
    /\ listening' = (main' = "cleanup")
    /\ UNCHANGED <<taskVars, closeVars, stats, hubVars, clientVars, stalled>>

ServerClosed ==
    /\ main = "wait_closed"
    /\ WaitsForClients => linked = {}
    /\ main' = "tasks"
    /\ UNCHANGED <<taskVars, listening, closeVars, stats, hubVars, clientVars, stalled>>

\* The stats loop and the audit worker return on CancelledError.
CloseTasks ==
    /\ main = "tasks"
    /\ stats' = "ended"
    /\ main' = "hubs"
    /\ UNCHANGED <<taskVars, listening, closeVars, hubVars, clientVars, stalled>>

\* No await suspends between the first hub and the last.
DetachHubs ==
    /\ main = "hubs"
    /\ attached' = {}
    /\ closing' = closing \cup UNION {InHub(mp) : mp \in Mountpoint}
    /\ detached' = TRUE
    /\ main' = "relays"
    /\ UNCHANGED <<taskVars, listening, released, stats, relay, handler, cancelled, late, linked, stalled>>

\* A running relay gives close its CancelledError; one that has no task yet
\* will find itself closed.
CloseRelay(mp) ==
    /\ main = "relays"
    /\ \/ relay[mp] = "unborn" /\ relay' = [relay EXCEPT ![mp] = "ended"] /\ main' = main
       \/ relay[mp] = "running" /\ relay' = [relay EXCEPT ![mp] = "cut"] /\ main' = "cleanup"
    /\ UNCHANGED <<taskVars, listening, closeVars, stats, attached, clientVars, stalled>>

RelaysClosed ==
    /\ main = "relays" /\ \A mp \in Mountpoint : relay[mp] \in {"none", "ended"}
    /\ main' = "services"
    /\ UNCHANGED <<taskVars, listening, closeVars, stats, hubVars, clientVars, stalled>>

\* MQTT, shadow store, token store and web server: any error of theirs is caught.
CloseServices ==
    /\ main = "services"
    /\ released' = TRUE
    /\ main' = "cleanup"
    /\ UNCHANGED <<taskVars, listening, detached, stats, hubVars, clientVars, stalled>>

-----------------------------------------------------------------------------
(* asyncio.run *)

\* A handler in its finally is cancelled there too; one that comes to its
\* finally by the cancellation waits for its writer undisturbed.
CancelHandler(c) ==
    /\ main = "cleanup" /\ c \notin cancelled \cup late
    /\ cancelled' = cancelled \cup {c}
    /\ \/ handler[c] = "serving" /\ Leave(c)
       \/ /\ handler[c] = "greeting"
          /\ handler' = [handler EXCEPT ![c] = "flushing"]
          /\ closing' = closing \cup {c}
          /\ UNCHANGED attached
       \/ /\ handler[c] \in {"flushing", "icy"}
          /\ handler' = [handler EXCEPT ![c] = IF @ = "icy" THEN "aborted" ELSE "ended"]
          /\ UNCHANGED <<attached, closing>>
    /\ UNCHANGED <<taskVars, main, listening, closeVars, stats, relay, late, linked, stalled>>

CancelRelay(mp) ==
    /\ main = "cleanup" /\ relay[mp] \in {"unborn", "running"}
    /\ relay' = [relay EXCEPT ![mp] = "ended"]
    /\ UNCHANGED <<taskVars, main, listening, closeVars, stats, attached, clientVars, stalled>>

CancelStats_Swallowed ==
    /\ main = "cleanup" /\ stats = "loops"
    /\ UNCHANGED vars
CancelStats ==
    /\ main = "cleanup" /\ stats = "loops"
    /\ stats' = "ended"
    /\ UNCHANGED <<taskVars, main, listening, closeVars, hubVars, clientVars, stalled>>

Exit ==
    /\ main = "cleanup" /\ stats = "ended"
    /\ watcher \in {"cancelled", "ended"} /\ reloader \in {"cancelled", "ended"}
    /\ \A mp \in Mountpoint : relay[mp] \in {"none", "ended", "cut", "late"}
    /\ \A c \in Client \ late : handler[c] \in {"away", "ended", "aborted"}
    /\ main' = "exited"
    /\ UNCHANGED <<taskVars, listening, closeVars, stats, hubVars, clientVars, stalled>>

MainStep ==
    \/ MainWakes \/ AwaitWatcher \/ AwaitReloader \/ ServerClosed \/ CloseTasks
    \/ DetachHubs \/ RelaysClosed \/ CloseServices \/ CancelStats \/ Exit
    \/ \E mp \in Mountpoint : CloseRelay(mp) \/ CancelRelay(mp)

Alive == main # "exited"

Next ==
    /\ Alive
    /\ \/ Signal \/ Hup \/ ReloaderWakes \/ BackgroundCancelled \/ MainStep
       \/ \E changed \in BOOLEAN : WatcherWakes(changed)
       \/ \E mp \in Mountpoint : StartRelay(mp)
       \/ \E c \in Client : \/ Accept(c) \/ Request(c) \/ Refused(c) \/ IcyRaises(c)
                            \/ PeerBreaks(c) \/ TransportCloses(c)
                            \/ HandlerEnds(c) \/ Flushed(c) \/ CancelHandler(c)

(***************************************************************************)
(* The event loop runs every ready task and the transports of peers that   *)
(* read.  Nothing makes a client leave.                                    *)
(***************************************************************************)
Fairness ==
    /\ WF_vars(Alive /\ MainStep) /\ WF_vars(Alive /\ BackgroundCancelled)
    /\ \A c \in Client : /\ WF_vars(Alive /\ TransportCloses(c))
                         /\ WF_vars(Alive /\ HandlerEnds(c))
                         /\ WF_vars(Alive /\ Flushed(c))
                         /\ WF_vars(Alive /\ CancelHandler(c))

Spec == Init /\ [][Next]_vars /\ Fairness

-----------------------------------------------------------------------------
(* Properties *)

\* A cancelled task's error has ended run_server: before close, or inside it.
CutBefore == "cancelled" \in {watcher, reloader}
CutInside == \E mp \in Mountpoint : relay[mp] = "cut"

\* When the process ends, on whatever path: a mountpoint is still attached only by
\* a source that came while asyncio.run was waiting for the others, or one whose
\* handler was aborted at its ICY answer; every other connection is closed; and hubs and
\* services that close did not get to are those a cancelled task kept it from.
NothingLeftBehind ==
    main = "exited" =>
        /\ attached \subseteq {At[c] : c \in {d \in Source : d \in late \/ handler[d] = "aborted"}}
        /\ \A c \in Client \ late : handler[c] # "away" => c \in closing
        /\ detached \/ CutBefore
        /\ released \/ CutBefore \/ CutInside

\* After the signal the process ends, unless a client holds it up for ever: one
\* that stays while close waits for the connections, or one that does not read
\* what its handler flushes.
HeldUp ==
    \/ main = "wait_closed" /\ linked # {}
    \/ main = "cleanup" /\ \E c \in linked \cap stalled : handler[c] = "flushing"
ShutdownEnds == <>stop => (<>~Alive \/ <>[]HeldUp)

\* "Graceful shutdown" (README.md:104, 144): when the process ends, close has
\* detached all hubs.  The cancelled watcher ends run_server before.
HubsClosedTogether == main = "exited" => detached

=============================================================================
