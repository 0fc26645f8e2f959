# Babilcors NTRIP caster: TLA+ models, checks and proofs

Babilcors is an NTRIP caster: GNSS base stations (*sources*) push RTCM data to
named *mountpoints*, *rovers* subscribe to a mountpoint and receive that data
under the limits of their *tier*. It is one Python process on one asyncio event
loop (`src/src/caster.py`, started by `src/main.py`) with a REST administration,
a hot-reloaded JSON configuration and optional relays to MQTT and web sockets.

The modules here are translated from the source. Paths below are relative to the
repository; `PROJECT.json` maps every definition to the lines it stands for.

## 1. Inventory

| Component | State it keeps | Operations | Talks to |
|---|---|---|---|
| Connection life cycle (`caster.py` `_handle_conn`, `_handle_http`, `_handle_source`, `MountpointHub.attach/detach_source`, `add/remove_rover`, `_kick_rover`) | `hub._source_addr`, `hub._rovers`, `_rover_total`, `_rover_ip_counts`, one handler and two loops per rover | admission, ICY answer, source end, kick, detach, end of a loop, clean-up | configuration (limits), rover queue |
| Rover queue (`ByteQueue`) | deque, byte count, closed flag, a Condition and the tasks that notify it | `put_nowait`, `close`, `get`, cancellation | hub (producer), send loop (consumer) |
| Fan-out and send loop (`on_source_data`, `_rover_send_loop`, `tiers.py`) | epoch time, token bucket, statistics of session and hub | offer a chunk, take, sleep, write, drain | rover queue, relay |
| Configuration (`load_config`, `validate_config`, `reload_from_disk`, `_admin_update_config`; `main.py` watcher, reloader, SIGHUP) | the file, its time, `self.cfg`, what is derived from it, `reload_event` | REST calls, reload, outside edits | every component |
| Start and shutdown (`main.py`, `start`, `close`) | server, tasks, event | start, cancel, close in order | all |
| IoT relay and streams (`iot.py`, `api.py`) | 4096-frame queue, subscriber queues of 64 | enqueue, publish, subscribe, drop oldest | hub, MQTT, web sockets |
| Admin tokens (`jwt_auth.py`) | revocation list in memory or Redis | mint, refresh with rotation, revoke | REST |
| RTCM parser (`rtcm.py`) | byte buffer | feed, resynchronise | hub |
| Device shadow (`shadow.py`) | one document per device, history | upsert, get | rover read loop, Redis |
| NMEA and events (`nmea.py`, `diagnostics.py`) | pending GSV means, throttle times | feed a line | rover read loop |
| Audit log | file and backups | append, rotate | REST |
| Authentication, IP lists, sourcetable, geometry | none | pure functions | admission |
| Metrics, health, status | none | formatting | all |

What is hard in this program:

* **Interleavings at awaits.** A rover has a handler, a read loop and a send
  loop; a source's end, an administrator's kick and a write error reach the same
  session. Which of them notices first is up to the network.
* **Partial failure.** Several steps stand outside the `try` whose `finally`
  undoes them; an exception there leaves what was done.
* **Notification left to another task.** `ByteQueue.put_nowait` and `close` are
  plain functions and cannot hold the Condition's lock.
* **Time.** Epoch gates and token buckets, with chunks that wait.
* **A file shared with other processes.** Read, modify, replace, stat.
* **Order of the shutdown,** with tasks that are cancelled and connections that
  stay.

What makes each component correct:

* life cycle: counts equal what is attached; nothing survives its handler; one
  live uplink per mountpoint; limits hold across reloads; a lost source closes
  its rovers; what has ended leaves.
* queue: byte count is exact and bounded; no lost wake-up; drained before its end.
* delivery: order, epoch spacing, rate, statistics that add up, no endless sleep.
* configuration: what is in force was validated; derived settings follow it; an
  administrator leaves no file that `validate_config` refuses; an edit is read.
* shutdown: after a signal the process ends; on whichever path it ends, mountpoints
  are free, connections closed and services stopped, or a named way kept it from that.
* parser and hub statistics: the result does not depend on how the socket cuts the
  stream; noise and false preambles lose no frame; the counts add up.
* relay: what it accepted is given out in order and once; a slow subscriber skips
  ahead and never back; one that left is dropped.
* tokens: a refresh token is spent once; a revocation holds until the token expires.
* shadow and input: between updates a device's document holds the last thing said of
  each field, and its history ends with the position shown; a sky view mixes no two
  groups.

`PROJECT.json` lists the hazards of the code one by one, at their lines, with the
properties that would catch each going wrong.

## 2. Modules

| Module | Models | Abstract counterpart | Proofs |
|---|---|---|---|
| `SourceSlot` | what a mountpoint promises of its uplink: an exclusive slot passed on only through being free | | |
| `CasterSessions` | the life cycle of sources and rovers | implements `SourceSlot` | `CasterSessionsProofs` |
| `ByteChannel` | what a rover's queue promises: a bounded FIFO, drained before its end; a reader who asks is answered | | |
| `ByteQueue` | the deque, the count, the Condition and its notification tasks | implements `ByteChannel` | `ByteQueueProofs` |
| `RoverDelivery` | `on_source_data`, the tiers and the send loops of one hub; uses the queue as the channel `ByteChannel` describes | | `RoverDeliveryProofs` |
| `ConfigStore` | file, memory, administrators, watcher, reloader, editors | | `ConfigStoreProofs` |
| `Shutdown` | `run_server` from the signal on, `NtripCaster.close`, what `asyncio.run` does after it, and the clients meanwhile | | `ShutdownProofs` |
| `RtcmParser` | `RtcmStreamParser.feed` as operators on byte sequences; no state of its own | one feed of the whole stream (`ChunkingIrrelevant`), the good frames of a stream (`NothingLost`) | `SourceStreamProofs` |
| `IoTRelay` | the relay of one mountpoint, its MQTT publish and its web subscribers | | `SourceStreamProofs` |
| `SourceStream` | composes `RtcmParser` and `IoTRelay` with the read loop of `_handle_source` and the hub's statistics | | `SourceStreamProofs` |
| `AdminTokens` | refresh tokens: minted, exchanged, revoked, in Redis or in memory | | `AdminTokensProofs` |
| `RoverInput` | the NMEA read loop of a rover and `DeviceShadowStore.upsert` | | `RoverInputProofs` |
| `MC*` | small instances for TLC | | |

Each specification declares its sizes as CONSTANTS with named assumptions, has
one action per operation or per stretch of a handler between two awaits, and no
RECURSIVE operator. Operators named `X_Something` beside an operator `X` are
wrong versions of it: the mutants of `PROJECT.json` put one in the place of the
other and expect the named property to fail.

### Granularity

The caster is one thread, so an action may cover all code between two points
where the event loop can switch tasks. Awaiting an `asyncio.Lock` that is free
does not suspend, and every section under `hub._lock`, and `_admin_update_config`
under its lock, contains no await that suspends; these locks are therefore never
contended and their sections are single steps. The exceptions are modelled:

* `drain()` of the ICY answer suspends and raises when the write failed
  (`sourceIcy`, `roverIcy`, `IcyRaises`). On a healthy connection it does not
  suspend: the transport's buffer is empty.
* an editor is another process and interleaves with the file accesses inside
  `_admin_update_config` and `reload_from_disk` (`phase` cuts both at them).
* a task created by `put_nowait`/`close` runs at any later time (`notifies`).
* every command to Redis is an await: `AdminTokens` and `RoverInput` cut the request
  and the upsert there. Without Redis their awaits do not suspend, and the request or
  the upsert is one step.
* in `SourceStream` a chunk is one step, since `_handle_source` awaits nothing that
  suspends between one `reader.read` and the next; in `IoTRelay` the step ends at the
  publish (`hand` is the frame being published) and at the sends of the web handlers.

### State and code

`CasterSessions`: a session is named by its connection. `pc` is where the handler
stands, `at` its mountpoint, `sourceAddr` and `rovers` are the hubs,
`roverTotal`/`roverIpCounts` the admission counters, `queueClosed`,
`writerClosing`, `readEnded`, `sendEnded` what the loops of a rover have met. A
connection is made once; two connections may have the same peer address one after
the other, because a port is reused, and `attach_source` compares addresses.

`ByteQueue`: `buf`, `bytes`, `closed` are the fields; `notifies` counts the tasks
that still have to notify; `getter` is the send loop inside `get`. The reader of
`ByteChannel` is "asking" while the send loop waits in `get`, and "away" between two
gets.

`RoverDelivery`: a chunk is its number, its length and the tick at which the hub
got it. `age` is the time since `ep_last_ts`, `tokens` the bucket, refilled at
each tick, which is what `TokenBucket` computes from elapsed time whenever it is
asked. `hand` is the chunk that `get()` returned and the bucket withholds, `wire`
what was written and when. A closed session forgets its queue; its byte counts stay in the
hub's totals.

`ConfigStore`: a document tells apart users and their tiers, tiers, mountpoints,
disabled mountpoints, geofences and their owners, and whether the security values
convert (`sound`); `Garbage` is a file that cannot be read. `newer` is what
`config_changed` asks of the file's time. `phase` is the position inside
`_admin_update_config` and `reload_from_disk`, `base` the document in hand,
`answer` the HTTP status just settled. The order in the code is kept: validate the
new document, replace the file, reload it, install `cfg` first and the derived
settings after it, ask for the file's time last. `InstallsPartly` takes an
unsound document: a conversion raises before the disabled mountpoints are set
(`caster.py:893` and before), between them and the geofences (`894`), or after both
(`896`), and the file's time is not taken. Editors replace the file and never remove it, so
`getmtime` itself does not raise. `AdminKeepsFileValid` is about what `validate_config`
refuses; it leaves "sound" out, because a call keeps the security values it read, and a
caster does not start from an unsound file.

`Shutdown`: `main` is the await at which `run_server`, inside it `close`, and then
`asyncio.run` stand. A cancelled task gives its `CancelledError` to whoever awaits it,
past `except Exception`, and `main` goes to `cleanup`. `handler` and `linked` are kept
apart, because a handler that waits for its writer (`flushing`) and a transport whose
peer does not read (`stalled`) end separately. A connection is `greeting` until its
request is read, and then `serving`, or turned away (`Refused`), or `icy`: it has its slot
or its place in the hub, and the drain of its answer will find the transport broken. Such a
handler ends (`IcyRaises`) or is cancelled (`CancelHandler`) outside the `try` that
detaches, and is `aborted`, with the slot still taken. A server that was not closed still
listens during the clean-up; the connections it accepts then are `late`. `detached` and
`released` say how far `close` got, and a relay is `cut` when its `CancelledError` ended
`close`. At the start hubs of earlier clients may exist, with their relays.

`RtcmParser`, `IoTRelay`, `SourceStream`: a stream is a sequence of bytes, and the
parser works on the bytes themselves, since framing is about byte boundaries. The CRC
is a constant operator. Behind the parser a frame is the number the hub counted it
under. The relay belongs to the mountpoint and outlives connections; each connection
has a parser. `fanned` is the history of what was given to subscribers, `last` and
`joined` say what a subscriber was sent and when it came: they are read by properties
only. So are `emitted` and `begun`.

`AdminTokens`: a token is its number, with its `exp`; `req` is a request between
lookup and write, `store` the revocation list, each record with its end. `loose` is a
history variable: the tokens whose revocation went one of the ways the code leaves
open (two requests between lookup and write, a failed write of a refresh, a token that
expired between decode and revocation, an `exp` given by hand, a restart without
Redis). The properties say that there is no other way; each of these disjuncts is
needed, as the runs fail without any one of them.

`RoverInput`: a sentence is its place in the script of its session, which makes the
shadow a record of *which* sentence set a field. GGA and GSA write disjoint groups of
fields but for the horizontal dilution, which is kept with neither. `torn` names the
devices whose last updates failed, were cut off, or overlapped between get and set,
where the code can lose a field or the key's TTL. `unrecorded` names those whose newest
position gets no row of history: its upsert failed or was cut off, or Redis already has a
row of the same millisecond.

## 3. Runs

| Run | Checks | What it shows |
|---|---|---|
| `sessions` | TypeOK, CountersAgree, OnlyAbortsLeak, LiveAreAttached, LimitsRespected, DetachClosesRovers, OneSourcePerMountpoint, EndedRoversLeave | Under every order of admissions, ends, kicks, detaches, aborts and reloads the admission counters equal the attached sessions in total and per IP, nothing is left behind except by an aborted ICY answer, no admission passes a limit in force, a mountpoint's uplink is an exclusive slot, a detach closes all its rovers, and an ended rover leaves. |
| `ghosts` (violation) | NoGhosts | An exception in the ICY answer leaves the slot taken, or the session counted, with nobody to free it. |
| `bytequeue` | TypeOK, BytesAgree, NoLostWakeup, DrainedBeforeEnd, ImplementsChannel | Notifying from a separate task loses no wake-up: a sleeping getter beside data or a close has a notification coming. The queue implements the abstract channel; a send loop that waits in `get` gets its chunk or hears of the end. |
| `delivery` | TypeOK, EpochsApart, RateBounded, InOrder, StatisticsAgree, SleepEnds | Two rovers of different tiers on one hub, over time: chunks stay a period apart even if they wait or others are dropped, the tier's rate holds between any two writes of a session, each rover gets an ordered selection without repeats, the totals of the hub are the sums over all sessions, past ones included, and a withheld chunk is written in the end (chunks no longer than the bucket). |
| `starved` (violation) | SleepEnds | The same property with a chunk longer than the bucket: the loop sleeps for ever. |
| `config` | TypeOK, InForceIsValid, SettingsInStep, AdminKeepsFileValid, NewerIsRead | Administrators, watcher, SIGHUP and editors together: what is in force always validated, the derived settings belong to it, no administrator's call leaves a file that `validate_config` refuses, a good newer file is read. |
| `config_stale` (violation) | EditsReachMemory | A save between reading the file and asking for its time is never loaded. |
| `stream` | TypeOK, ChunkingIrrelevant, NothingLost, CountsAgree, NewestKept, OrphansAreStreams, FramesFlow, GoneAreDropped | Noise that looks like a header, a frame inside a frame, a wrong CRC and a cut-off frame, cut anywhere: the parser finds what one feed of all bytes finds and loses no good frame; the hub's counts add up; what the relay accepted is given out; a subscriber's box holds the newest frames in order; one that left while a frame waits is dropped, and a queue without a handler is that of an event stream whose generator never started. |
| `shutdown` | NothingLeftBehind, ShutdownEnds | Whether or not `close` is reached, a process that has ended left no mountpoint attached but by a late source or one aborted at its ICY answer, and no connection open but late ones; hubs that were not detached and services that were not stopped are those a cancelled task kept `close` from; and only a client that stays, or does not read, keeps it from ending. |
| `graceful` (violation) | HubsClosedTogether | The process ends without `close`: the cancelled watcher's `CancelledError` ends `run_server` first. |
| `tokens` | SpentOnce, RevocationHolds | With time, two requests at once, failures and restarts: a refresh token is spent once and a revocation holds until the token expires, but for the ways the code leaves open. |
| `input` | TypeOK, ShadowSettled, HistoryFollows, SkyExact | Two sessions of one user write one shadow, sentences get lost, commands fail and tasks are cancelled: between upserts the shadow holds the last of every field and its TTL, the history ends with the position the shadow holds although rows overtake each other, and a GSV group that was sent in order and arrived complete is taken exactly. |

`tlc -workers 2 -config <cfg> <module>` runs one; the pairs are in `PROJECT.json`.

### Bounds, and why they are enough

* `sessions`: three connections from two addresses (two share one, in sequence),
  two mountpoints, two configurations that differ in every limit, in the disabled
  set and in the known mountpoints. Three connections are enough for two rovers
  and a source, for a rover over the limit while another leaves, for a dead slot
  with a second and a third claimant, and for the reuse of an address.
* `bytequeue`: chunks of one and two bytes, `Max` = 4, `MaxNotifies` = 3 pending
  notification tasks. The queue can be empty, partly filled, full for the long
  chunk only, and full; more pending notifications than waiters are reached.
* `delivery`: two rovers, `MaxChunks` = 3 chunks of 2 bytes. `strict` has a bucket of
  2 bytes that gains one per tick, a period of 1 tick and room for two chunks; `gated`
  has no bucket, a period of 2 ticks and room for one chunk. So a chunk is withheld,
  dropped by the gate, or dropped by the full queue, for one rover and not for the
  other. `MaxClock` = 2 ticks are told apart; the clock saturates instead of stopping
  so that liveness is not cut by the bound, and the two properties about time skip the
  saturated value. `starved`: one rover and chunks of 3 bytes.
* `config`: one user who may name two tiers, one mountpoint, one geofence, one
  administrator and one geofence editor, four contents an outside editor saves
  (good, invalid, good with a value that fails to convert, unreadable).

* `stream`: four inputs with one or two good frames each, a hub with room for one message type
  (two types and type 0 occur), two connections one after the other, a relay queue and
  a subscriber box of two frames, one web client of either kind. The frames of the second
  connection overflow the queue of a relay that is behind, or the box of a client that
  is; a read may take any number of bytes, so every cut occurs. Up to four frames are
  counted, all of them followed by `FramesFlow`.
* `shutdown`, `graceful`: one source and one rover on one mountpoint, and a second
  mountpoint of which at most the hub and the relay of an earlier client are left, so that
  `close` can be cut at either relay; the rover reads or does not. `WaitsForClients` = TRUE
  is `Server.wait_closed` of Python 3.12.1 and later; the theorems hold for both values and
  any number of clients.
* `tokens`: two interchangeable requests (symmetry), three tokens that live two ticks,
  four ticks. Enough for an exchange of an exchanged token, for both requests to meet
  between lookup and write, and for records to lapse before and after their token.
* `input`: two sessions of one user, each with one of three scripts (position,
  precision, position; two sky views of two sentences; a short sky view before a longer
  one), one row of history in memory, two milliseconds.

`MaxNotifies`, `MaxChunks`, `MaxClock`, `MaxSources`, `MaxTokens` and `MaxTime` are the
only bounds that stand in the specifications. Each is a guard of the action that
counts (`PutNowait` and `Close`, `OnSourceData`, `Connect`, `Login` and `Present`,
`Tick` of `AdminTokens` and of `RoverInput`), but for `MaxClock`, where the clock of
`RoverDelivery` stays. Deadlock is not checked where the system really may stop: a process
that has ended, connections and scripts that are used up, time that has run out
(`stream`, `shutdown`, `graceful`, `tokens`, `input`).

### Fairness

asyncio runs every task that is ready, in the order in which they became ready.
This is the only source of fairness:

* `CasterSessions`: the suspended drain resumes; a read loop sees the end of a
  closing connection (`StreamReader` returns EOF, or the 60 s of `read_line`
  expire); the handler continues once one of its loops returned. There is no
  fairness on peers, sources, kicks, or on a send loop, which may be asleep.
* `ByteQueue`: a scheduled notification runs, and a woken getter continues
  (`WokenGets`). Nothing makes an idle send loop call `get` again: it may sleep in the
  token bucket, for ever even (`starved`), or wait in `drain`. The liveness of `ByteChannel`
  is accordingly that of a reader who asks.
* `RoverDelivery`: time passes, and a sleep that is over is followed by `consume`.
  No fairness on taking chunks: a drain may wait for a slow peer.
* `ConfigStore`: a call that has begun continues; the watcher and the reloader have
  strong fairness, because other requests interrupt them again and again (`phase` is
  only sometimes `idle`) but the ready queue is first-in first-out, so they get
  their turn between two requests.
* `SourceStream`: the relay's loop and the web handlers go on when they are ready, and
  a publish ends, because the MQTT client gives up after its timeout. No fairness on
  sources, on connections, on peers that take what is sent (`SendEnds`), or on `close`.
* `Shutdown`: ready tasks run, and the transports of peers that read are flushed.
  Nothing makes a client leave, a peer read, or a signal come.
* `AdminTokens` and `RoverInput` state no fairness and no liveness.

## 4. What is proved

Every safety property of the passing runs is a theorem, for every value of the
constants that satisfies the named assumptions (finite sets of connections, mountpoints
and rovers, addresses that are functions of connections, positive chunk lengths and
positive queue bounds, a start file that validates, sources and rovers that are
different connections, tokens with a positive life, a hub with room for one message
type, inputs that are sequences of bytes). Nothing is assumed of the CRC, of the
inputs' content, or of the scripts of rovers.

* `CasterSessionsProofs`: `TypeCorrect`, `CountersCorrect`, `LeaksOnlyFromAborts`,
  `LiveStayAttached`, `LimitsCorrect`, `DetachCorrect`, and `SlotRefined`: the life
  cycle implements `SourceSlot`. The inductive invariant adds `AddressesDistinct`
  (two open connections differ in their peer address, which TCP guarantees and the
  guard `Fresh` states). It is needed because a detach clears whatever the slot
  holds: only because the address belongs to no other open connection does the
  detach clear the detaching source's own slot. The counters need
  `OnlyAbortsLeak`: a fresh connection is in no hub, a leaving one in exactly its
  own, so each of the two changes a cardinality by one. `StepKinds` sorts the
  actions into seven kinds by their effect on hubs and handlers; every later lemma
  goes over the kinds instead of the actions.
* `ByteQueueProofs`: `TypeCorrect`, `BytesCorrect`, `WakeupCorrect`, `DrainCorrect`,
  and `ChannelRefined`: every step of the queue is a step or a stutter of
  `ByteChannel`. The byte count is a sum, stated without recursion as the existence
  of a function of running totals; the invariant adds that the totals never fall,
  from which the count after a get is not negative.
* `ConfigStoreProofs`: `TypeCorrect`, `ForceCorrect`, `SettingsCorrect`,
  `AdminCorrect`. The inductive invariant adds `InHandIsValid`: the document about to
  become the file or the configuration has been validated, which is what a save by
  an editor in between cannot disturb. `UpdatedType` shows that an updater makes a
  document of a document.

* `ShutdownProofs`: `TypeCorrect` and `NothingIsLeft`, for any clients and mountpoints
  and for both behaviours of `wait_closed`. The inductive invariant adds that a
  mountpoint is attached only by a source that is being answered, is serving, or was
  aborted (`SlotsAreServed`), that a handler past its request has a closed writer unless
  it is serving (`LeftAreClosed`), that the process exits only when every handler it
  waited for has ended (`ExitAwaited`), and that `run_server` gets past a stage only by
  finishing it or by the error of a cancelled task (`StagesInOrder`): without the last,
  nothing relates a hub or a service left open to the task that is to blame.
  `StepKinds` again sorts the actions by what they do to clients.
* `AdminTokensProofs`: `TypeCorrect`, `SpentOnceCorrect` and `RevocationCorrect`, for any
  number of requests, tokens and ticks. A second use must be impossible although the
  first use and the record are separate: the invariant adds that a pending write still
  carries the time its token had left (`WritesReachTheEnd`), that every record lasts as
  long as its token unless the token is loose (`RecordsReachTheEnd`), that a token
  that was spent and is not loose is recorded (`SpentAreRecorded`). Type correctness
  needs in addition that every request in flight has room for the token it may mint
  (`Reserved`, a statement about cardinalities that keeps the bound `MaxTokens`).

* `RoverDeliveryProofs`: `TypeCorrect`, `SentInOrder`, `GateKept`, `RateKept` and
  `StatisticsKept`. Order and epochs are about what was written, but a chunk is stamped
  when it is offered and may wait: `LineInv` therefore speaks of a rover's whole *line*
  (what it was sent, what its bucket withholds, what it still queues), which grows at one
  end only, is rising and a period apart, and whose newest chunk is at least as old as
  the gate has been shut. For the rate, `RateInv` counts from any write to the present: the bytes
  since then *plus the tokens left* are at most the capacity plus what was refilled, which
  a write keeps because it moves its bytes from one summand to the other. `StatInv` holds
  the sums: a session has counted what is on its wire, but for the chunk that is being drained.
  `LineKinds` and its like sort the steps by what they do to one rover.
* `SourceStreamProofs`, about the parser: `CutsDoNotMatter` and `GoodFramesTaken`, for any
  stream and any cuts. `ScanSplit` is the reason for the first: scanning two pieces joined
  gives what scanning the first gives, followed by what scanning its rest joined with the
  second gives. The second compares the parser with the set of places where good frames
  begin that lie in no earlier one (`Greedy`), and shows that the frames of a scan are
  those of that set, in order (`Told`): a frame taken, or a byte passed over, moves such
  a set by its length.
* `SourceStreamProofs`, about relay and hub: `SlowSkipAhead`, `OrphansNeverStarted`,
  `CountsAddUp`, `TypeCorrect`. `RelayInv` says that what was given out, what is being
  published and what waits are rising, each before the next, and numbered by frames the hub
  has counted; and that the last frame a subscriber was sent is older than all it may still
  get. Only with the second part is a full box that drops its oldest known to skip forward.
  `HubInv` keeps the total over the table of message types equal to the number
  of frames; its lemmas say what the fold over a table does when one entry grows.
* `RoverInputProofs`: `TypeCorrect`, `ShadowIsNewest`, `HistoryFollowsShadow`, `SkyIsExact`,
  with Redis and in memory. `Settled` is what makes the shadow right between updates: of a
  device that nothing was torn from, at most one upsert stands between its get and its
  set, and what it will put is what is newest. For the history,
  `FollowInv` is about the newest position of a device: while an upsert is recording it, no
  row and no other upsert of a position carries a later time, so its row cannot be refused
  but for the same millisecond; once it is recorded, no upsert under way is later than its row,
  so that none is added behind it. `SkyExact` is about groups that were sent in order; `Gathered` is its
  invariant: as much of such a group as was just heard is what is pending, whatever an earlier
  incomplete group left.

Two forms recur in these proofs. The library's induction theorems take an operator as a
parameter, which the provers cannot instantiate; where a fact is about every stream
or every finite set, it is stated of the *set* of counterexamples, and the shortest stream
(or smallest number) in it is refuted (`ShortestSeq`). So the recursive function `Scan`
and the folds of the statistics are within reach. And where an invariant applies to many
sequences, one operator names it (`LineGood`, `Numbered`, `Before`) and lemmas say
when it carries over, so that the step proofs need not open it.

`tlapm <module>` checks a proof module; the backends are Z3 and Zenon for the
steps and LS4 for the temporal conclusions.

## 5. What is only model-checked

* Liveness: `EndedRoversLeave`, `SleepEnds`, `NewerIsRead`, `FramesFlow`,
  `GoneAreDropped`, `ShutdownEnds`, and the fairness part of `ImplementsChannel`. The
  prover does not treat fairness or ENABLED; of the refinement of `ByteChannel` the
  safety part is proved.
* Of the safety properties of the passing runs, none is left to TLC alone. What the runs
  add to the proofs is evidence that the theorems are not empty: concrete streams,
  checksums and scripts with which every action is taken and every property can be broken
  by a mutant.
* The statements the code does not keep (section 6): a counterexample is enough.

## 6. Findings

1. **A failed ICY answer leaves a ghost** (`ghosts`). `_send_icy_ok` is awaited after
   the slot or the session was taken and outside the `try` that gives it back
   (`caster.py:1686`, `1633`). If its drain raises, the slot stays held by a dead
   address and every reconnect is refused as busy, although `docs/PROTOCOL.md:57` tells
   sources to reconnect; or a dead rover counts against the limits. `OnlyAbortsLeak`
   shows that this is the only way to leak, and two rescues are visible in the model:
   a connection that happens to reuse the dead peer address takes the slot over, and a
   detach closes the dead session without removing it.
2. **A chunk longer than the bucket stops its rover** (`starved`). The bucket holds twice
   the rate (`caster.py:1596`); a longer chunk is never affordable and the loop at
   `caster.py:1995` sleeps for ever. Chunks reach about 5 kB, so tiers below about
   2.5 kB/s are exposed.
3. **The hubs are not closed together** (`graceful`). `run_server` cancels the watcher and
   awaits it under `except Exception` (`main.py:62-67`). `CancelledError` is a
   `BaseException`, so it ends `run_server` there, and `NtripCaster.close` with its detach of
   all hubs runs only if both tasks happened to end by themselves between the signal
   and the cancellation, although `README.md:104` and `README.md:144` promise it. The
   run `shutdown` shows what takes its place: `asyncio.run` cancels the handlers, which
   detach and close what they own, but for a source at its ICY answer (finding 1). The
   same holds inside `close` when it awaits a running relay (`iot.py` `close`,
   `caster.py:843`): MQTT, the stores and the web server are then not stopped.
4. **A save can be lost between read and stat** (`config_stale`). `reload_from_disk`
   remembers the file's time after reading its content (`caster.py:883`, `897`).

A smaller disagreement is visible in `ConfigStore` (`answer`) and checked by no run:
`_admin_update_config` turns every `ValueError` into `(False, message)`, so creating what
exists is answered 400 and deleting what is missing 204, where
`docs/PROTOCOL.md:46-47` says 409 and 404.

## 7. Not modelled, and why

* Authentication, IP lists, sourcetable text, geofence geometry: pure functions on
  strings, hashes and floating-point numbers. Where another module calls them their
  outcome is a choice (accepted or refused, inside or outside).
* Metrics, health, status answers and logging: formatting of state kept elsewhere.
* The parsing of NMEA sentences and the alert heuristics of `diagnostics.py`: numeric
  formulas over one sentence. The throttling of events is planned.
* `crc24q` and the bodies of RTCM messages: bit arithmetic over long strings, beyond
  TLC. The checksum is a constant operator of `RtcmParser`.
* The audit log: a rotation by renames with no concurrency, each failure swallowed
  (planned).
* Access tokens, roles and signatures: the same decode as for refresh tokens, without
  state.
* Start-up, and the web server's task: calls in sequence to external libraries.
* The reads of the shadow (get, list, history), which change nothing, and `xtrim`, an
  approximate bound that Redis keeps.
* HTTP and Loki audit sinks, MQTT client internals, Redis, Docker files and soak
  scripts: outside the caster's own logic.
* Inside modelled parts: the numeric fields of a tier, passwords, sourcetable metadata
  and read-only calls (`ConfigStore`); the text of requests (`CasterSessions`); the
  time a write spends in the transport (`RoverDelivery` has a drain of any length).

## 8. Plan

In order of importance.

1. **A composition** of `CasterSessions` with the queue and the delivery of one rover, so
   that the departure of a rover that sleeps in its bucket is a consequence and not a
   nondeterministic end of the send loop.
2. **AuditLog** (rotation with failing renames) and the throttling of events.

The number of runs and properties is kept small, so that all of them are checked on every
change: a new module takes the place of a shallower property.
