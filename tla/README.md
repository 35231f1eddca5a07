# Verification of the Location Tracker

TLA+ models of the location tracker in `src/`: Go services that take GPS events
from drivers, keep them in Cassandra and Redis and push them to riders, and the
React components of its web site. TLC checks the models on small instances;
TLAPS proves their safety properties for every value of the constants, and that the
write path and the worker implement abstract specifications of what they promise
(section 5). Paths below are relative to `src/server` unless they start with
`components/` or name a root document (`README.md`, `INTERVIEW.md`).

## 1. The system

```
 driver --POST--> API --async kafka.Writer--> gps.updates --> worker --> Cassandra
                   |                                            |  \--> gps.updates.dlq
                   +--INCR/EXPIRE--> Redis <--SET/GEOADD/XADD---+
 rider <--WebSocket-- API <----GET / XREAD BLOCK---- Redis
```

| Component | State | Operations | What makes it hard | What must hold | Module |
|---|---|---|---|---|---|
| Worker `worker/main.go`, `dlq.go`, `metrics.go` | reader position and commits, a goroutine per message, counters | read, decode, insert with retry, dead letter, SET/GEOADD/XADD, shutdown | goroutines overtake each other; commits do not wait for them; crash, restart, rebalance, redelivery; every store may fail; `cancel()` before the goroutines end | no message is lost without a trace, Redis only serves what Cassandra has, counters add up, everything is settled in the end | `Worker`, `Delivery` |
| Rate limiter `api/ratelimit.go` | one Redis counter with a TTL per bucket | INCR+EXPIRE, verdict, fail open | replicas share it; expiry; Redis loses it or its reply | the limit in every window; buckets do not touch each other | `RateLimit` |
| WebSocket push `api/ws.go`, `db/redis.go` | cursor, context, blocked XREAD per handler; a trimmed stream | snapshot, XREAD, write, disconnect | `$` is resolved late; a blocked read ignores the context; a rider that does not read blocks a write; trimming; reconnects; restarts of Redis and API | in order, once, no gaps; handlers end | `LiveStream` |
| Ingest `api/main.go` | writer queues and batches, counters | POST /location, /location/batch, shutdown | the 202 precedes Kafka; batches repeated or dropped; clients retry; flush at shutdown | a 202 is accounted for; per-driver order; retries are one row | `Ingest`, `Intake` |
| Place search `components/ui/place-autocomplete.tsx` | the text (or the page keeps it), debounce timer, searches in flight, what is shown | type, select, new options or delay, answer, abort, unmount | answers out of order, aborts racing answers | nothing stale is shown, features never under an error, the box comes to rest | `PlaceSearch` |
| Read API `api/main.go`, `db/redis.go`, `db/cassandra.go` | none of its own | nearby, latest, history | two-step reads racing with writes and expiry; overlapping routes | a stale driver is not returned, a live one not missed | `Nearby` |
| Map and overlays `components/ui/map.tsx` | map instance, style, timeout, sources, layers | mount, load, theme change, update, unmount | styles load asynchronously under React's effects; a timeout stands for "ready" | nothing added twice, left behind or left highlighted, what is drawn is what was asked, ready again after a change | `MapStyle` |
| Map, controls, marker, popups `components/ui/map.tsx` | camera, movement, compass, locate button, marker and its popup and tooltip, popup, detected theme | move, zoom, locate, expand a cluster, drag, click, hover, page updates | page and user change the same viewport, marker and popup; effects run after events; answers arrive when their button or map is gone | page and map agree at rest, nothing stays without its owner, the theme is the detected one | `MapView` |
| Test console `scripts/test-ws.html` | the current socket | connect, callbacks | callbacks of an old socket | the badge tells the truth | not modelled |
| Auth, DLQ inspector, metrics server, protobuf code, UI kit, deployment | – | – | – | – | not modelled, see section 7 |

The components interact through Kafka (`log` in `Ingest` and `Worker`), through
the rows of Cassandra and through three Redis structures: `driver:latest:<id>`
(60 s TTL), the `drivers:geo` index (no TTL) and `driver:stream:<id>` (trimmed).

## 2. The modules

**`Worker`**. A message is named by its offset; caches, streams and dead letters
hold offsets, of a dead letter only how many there are of each. Every read starts a
goroutine: `reads[g]` is the offset of goroutine `g`, and `pc[g]` its program counter
`decode -> insert -> set -> geoadd -> xadd -> done`, or `deadletter -> done`.
Everything between two calls that leave the process is one action, so two
goroutines interleave exactly at their calls. `attempt` is the loop variable of
`insertWithRetry`. A call that fails may still have taken effect (an insert that
timed out, a dead letter sent without acknowledgement). Once `cancel()` was
called go-redis sends nothing, while the Cassandra session has no context and
goes on. `CommitQueued` is the reader's commit loop; `Exit` flushes the queued
commits and ends the process with whatever is in flight; `Crash` ends it
anywhere. `NewGeneration` is a rebalance of the consumer group, or a session that
timed out: the reader goes back to the committed offset, as it does in `Boot`, and
reads again what was not committed, while the goroutines of the first reading go on.
There is one worker. A second one (`--scale consumer=N`, INTERVIEW.md:110) that
takes the partition over in a rebalance is not a process of its own here, so that
two processes at work on one message are two goroutines of this one; what that says
of "no duplicate writes" (INTERVIEW.md:111-112) is in section 4. `returned` (how
often an offset was read), `abandoned` and `unsent` are history variables.

**`Delivery`** is what the worker promises, without goroutines, retries, offsets
or processes: messages wait in order, are taken in order (`Take`), and are then
stored, parked or lost; a lost or parked one may still be stored later, a stored
one never changes, and riders are served from stored ones only. The mapping is
`events`, `fate` and `served` at the end of `Worker`: the rows of the log, what
rows, dead letters and goroutines say of a message, and what the three Redis
structures hold. `Delivers == D!Spec` is a property of the `worker` run and a theorem.

**`RateLimit`**. The transaction is atomic in Redis and the verdict reads nothing
else, so a request is one action. `requests` is a history of them. `life` counts
the restarts of Redis, which empty it.

**`LiveStream`**. One driver's stream is the interval `first..last` of event
numbers. A connection's handler is in `snapshot`, `loop` (about to look at
`ctx.Done()` and to send XREAD), `blocked` or `write`; `cancelled` is set by the
disconnect goroutine, an action of its own. `after` is the cursor with `$`
resolved, which happens in `XReadArrives` and again when go-redis repeats the
command; `from`, where the delivery starts, moves with it, so that `NoGap` does not
count what such a repeated `$` skips. `stalled` are the connections whose rider does
not read: a write to one may land in a buffer or block for as long as that lasts
(`Stuck`), for nothing sets a deadline. A rider that vanishes without a word is one
of them until TCP gives it up (`Disconnect`). `got` is what was written to a rider
that is there.

**`Ingest`**. A try is one HTTP request; `tries[t].stage` is where its handler is.
`WriteMessages` distributes the messages over the partition queues of
kafka-go's writer, whose goroutine takes some from the front, produces them,
repeats that up to `writerAttempts` times (a failed attempt may have reached the
log) and drops them in silence. A queue and a batch are sets of messages: they are
in the order `Before`, that of the handlers' turns at `WriteMessages` (the history
`turns`) and of the points in a request. A partition is the sequence of batches
appended to it. `Shutdown`, `CloseWriter` and `Exit` are `server.Shutdown`, its
return (or its ten seconds running out) and `writer.Close()`.

**`Intake`** is what the write path promises, without handlers, queues, partitions,
repetitions or processes: requests are accepted one after the other, their valid
points wait and are then published or lost, those of one driver in the order of
acceptance, and a 202 is only sent for an accepted request. The mapping is
`accepted`, `waiting`, `published` and `gone` at the end of `Ingest`: the requests in
the order of their turns, and the points whose messages the writer alone has, the
log has, or nobody has any more. `Promises == I!Spec` is a property of the `ingest`
run and a theorem. With the mapping of the worker, what is published here is what
arrives in `Delivery`.

**`PlaceSearch`**. One JavaScript callback with the effects it triggers is one
action. `timer` is the text the pending timeout will set; `searches` holds every
fetch with its query, its options and whether it was aborted. With `isControlled`
the page keeps the text and may make nothing of `onChange`; `options` stands for
language, limit, bounding box and the others, whose change starts a new search
without the debounce. A changed `debounceMs` restarts the timeout.

**`Nearby`**. `GET /drivers/nearby` while the worker writes: `GeoRadius` reads the
index, then one `Exists` per candidate reads its key, and anything may come in
between, for a pipeline is no transaction. `pending` holds the worker's
goroutines between their SET and their GEOADD. Requests only read, so one of
them at a time shows all there is. `started`, `seen` and `steady` are history.

**`MapStyle`**. `Map` and the overlays drawn on it. `props` is what the page asks
for, `rendered` the props and state of the last render. `Commit` is a render with
the cleanups and then the effects that it runs, the overlays' before those of
`Map`, as React orders them. Of MapLibre it assumes what `map.tsx` relies on: a
style is fetched, replaces every source and layer when it arrives, and any change
to the style is followed by a `styledata` event. `TimerFires` waits for a pending
render: React renders in less than the 100 milliseconds. Styles are the URLs of
the two themes; the projection is an optional prop, `None` without one; an overlay is
one of the four kinds the file has (`kind`; `MapRoute`, `MapGeoJSON`, `MapArc` and
`MapClusterLayer` say what each draws), and interactive. Its data may be a `Url` or,
for a route, too `Short` to draw, where the kind admits it (`DataOf`); `Synced` says
which data an overlay's effect applies to a source that is there. The pointer changes
by mouse events only: that the camera or the data moves a feature away under a
pointer that rests is not modelled.
`hovered` is the `hoveredId` in the closure of an overlay's mouse handlers, `lit`
the feature state on the map.

**`MapView`**. The page's props are `page`; `rendered` is what the last render
saw and `applied` what the last render saw whose effects ran, so that an event
may come between a render and its effects. `Update` is those effects: the
viewport (`SyncViewport`), the marker, its tooltip and popup, the MapPopup.
`movement` is a hand on the map or the viewport an animation ends at; every
change of `camera` that the page did not cause is reported to it. `asks` counts
the geolocation requests of the controls there are and of earlier ones, whose
answers also move the map. `document`, `system` and `detectedTheme` are
`useResolvedTheme`. `wish` is the viewport last set, by whomever; `unseen` names
the updates that nothing reacted to, of which section 4 speaks. Style and
overlays, which only share the map instance with this, are in `MapStyle`.

`WorkerProofs`, `RateLimitProofs`, `LiveStreamProofs`, `IngestProofs`,
`PlaceSearchProofs`, `NearbyProofs`, `MapStyleProofs` and `MapViewProofs` extend
their modules with theorems, the refinements of `Worker` and `Ingest` included; the
`MC` modules give TLC its instances. Definitions named like another one plus a
defect (`DeadLetterNoReturn`, `FetchUnaborted`, ...) are plausible bugs of that
definition; `PROJECT.json` lists which property each of them breaks.

## 3. Runs that pass

| Run | Safety | Liveness | Instance |
|---|---|---|---|
| `worker` | `SourceOfTruth`, `Accounted`, `MetricsBalance`, `OneOutcome`, `Delivers` (refinement) | `Drained` | two messages of three kinds, two attempts, one interruption (stop, crash or rebalance) |
| `rate_limit` | `SlidingWindow`, `RejectedForOwnBucket` | – | two drivers, limit 2, window 2, four requests, one restart of Redis |
| `live_stream` | `InOrder`, `NoGap` | `EveryEventArrives`, `NextEventFreesHandler` | one rider that may stop reading, five events, a stream of two, two faults |
| `ingest` | `DriverOrder`, `RetryIsOneRow`, `Promises` (refinement) | `Delivered`, `Stops` | two tries, two partitions, two attempts, one restart |
| `place_search` | `QuietIsCurrent`, `OneVerdict`, `LateAnswersDiscarded` (an action property) | `ComesToRest` | four changes over two texts and two option values, controlled or not |
| `nearby` | `NoStaleDriver`, `NoneMissed` | – | two drivers, three writes, TTL 2, four ticks, one restart of Redis |
| `map_style` | `NeverAddsTwice`, `NothingLeftBehind`, `DrawnAsAsked`, `HighlightFollowsPointer`, `ProjectionKept` | `ReadyAgain` | one overlay of any of the four kinds, one feature under the pointer, two projections or none, three changes by the page, one style that fails |
| `map_view` | `PageAndMapAgree`, `NothingOrphaned`, `ThemeDetected` | – | three inputs, three viewports, two places, two themes, geolocation available |

Each run also checks its module's `TypeOK`. Every property has a comment in its
module that says which code it is about.

**Bounds.**
`MaxLog = 2` messages are enough for the hazards of the worker, which are pairwise: an
overtaking goroutine, one event dead-lettered while another is served, a commit that
passes an unfinished event. The three kinds of message take every branch of
`processMessage`. `maxRetries = 2` (3 in the code) has a first attempt that is
repeated and a last one. `MaxInterruptions = 1` is a second life of the process or a
second generation of the group, and with either redelivery. The safety of this run is
proved for all constants (section 5), so its size only matters for `Drained`.
`limitRPS = 2`, `Window = 2` and `MaxTime = 3` let a window slide over the limit.
`StreamMaxLen = 2` and `ReadCount = 2` with five events make trimming and a cut reply
happen; a rider reconnects by connecting again, and two riders share nothing but the
stream. The two faults are any of an error of Redis, a restart of Redis and a restart
of the API. `Ingest` has a request with both keys, an invalid one and a batch that
mixes drivers, an invalid point and missing keys; two tries are a retry, or two
requests of one driver at once; `MaxBoots = 1` gives the API two lives. The clock does
not advance there: a missing `recorded_at` gets a value of its own in every try, which
is all that is used of it. In `Nearby` a key expires within the run, is renewed, and
three writes reorder the GEOADDs of one driver. In `MapStyle` three changes are two
theme changes in a row and one more, or a prop changed, an overlay taken off and put
back. One overlay is enough, since overlays share nothing but the style: its first
choice of `kind` is any of the four. In `PlaceSearch` four changes are two texts, a
change of options and one more while their searches run. In `MapView` `MaxInputs = 3`
counts what user, page and browser begin, not the steps that follow (renders, effects,
frames, answers, drags go on without bound): the hazards need a page update, a
movement or drag, and one more, a removal or an update during it. Three viewports are
a zoom each way and a turned one; two places let a marker be dragged away and put
back. Places and themes are interchangeable (nothing in the module names one), so
symmetry over them is sound, and the run has no liveness property. All its properties
are proved for any number of inputs. Deadlock checking is off: every model stops when
its bounds are used up.

**Fairness.** Weak fairness of the goroutines, of the reader, of handlers and writers,
and of the end of a shutdown: Go schedules every goroutine, and gocql, go-redis and
kafka-go time their calls out. In `Worker` it is fairness of its goroutines together:
each has finitely many steps and there are finitely many of them, so that they all
come to an end; the commit loop gets none, since nothing needs a commit to happen. Two
calls have no time limit: XREAD with BLOCK 0, which is modelled as waiting for ever,
and the WebSocket writes (`api/ws.go:60` and `107`), which are fair only while their
rider reads (`~Stuck(c)`); that the rider reads on sooner or later is a premise of
`EveryEventArrives` and not of the specification. `Restart` is fair because the
compose file restarts a failed worker; starting a stopped one is not. Nobody is
assumed to send events, connect, read, leave or type. `MapView`, `Nearby` and
`RateLimit` have only safety properties and no fairness. In `PlaceSearch` and
`MapStyle` the browser renders, fires timeouts and events, and fetches settle, with an
error if need be.

## 4. Where the code and its documents disagree

Each of these runs checks one sentence of the repository and TLC finds the
counterexample; `PROJECT.json` quotes the lines.

| Run | The repository says | The code |
|---|---|---|
| `worker_commit_order` | offsets are committed after the insert | `ReadMessage` commits before it |
| `worker_latest` | order per driver, most recent position | a goroutine per message |
| `rate_limit_conforming` | TTL set on the first call | on every call: a steady client below the limit is locked out |
| `live_stream_leak` | no goroutine leak | a blocked XREAD ignores the context |

Other differences are behaviours of the models and have no run of their own.

- *Worker.* `main` waits two seconds for the goroutines, not for them to finish;
  `dlqSent` also counts dead letters that could not be sent; the dead letter of an
  undecodable message is empty (`worker/main.go:125`), so it cannot be replayed;
  `cassandraRetries` ("not final failures") also counts the last failure;
  `activeDrivers` ("distinct drivers") is incremented per event. INTERVIEW.md:111-112
  says that one consumer per partition means "no duplicate writes": after a rebalance,
  as after a crash, up to a second of offsets is read and written again. The row is the
  same, but the stream gets the event twice, and a message may be dead-lettered by one
  reading and served by the other. `OneOutcome` therefore speaks of messages read once.
- *Rate limiter.* Requests that name no driver share the bucket `unknown`.
- *WebSocket.* A rider who was away while the stream was trimmed has a gap; `$` means
  from the arrival of XREAD, so an event between the snapshot and it is not
  pushed; if that XREAD is repeated, `$` means from the arrival of the repetition.
  INTERVIEW.md:162-163 claims "a 5-second write deadline on each frame so a slow client
  can't block the handler goroutine indefinitely": no code sets one, and a rider that
  stays connected without reading blocks its handler for as long (`StopReading`).
  The pushed JSON carries no stream id, so a rider has nothing exact to pass
  as `?since=`.
- *Ingest.* A retry with the same `event_id` but without `recorded_at` is a second
  row; the writer is asynchronous, so `kafkaPublishTotal` counts events that were
  never published and `kafkaPublishErrors` misses them.
- *Search box.* An error stays on display when the query is then cleared; the spinner is
  switched off by the `finally` of an aborted search while its successor is still
  loading, so the box says "Can't find" for a moment; results are
  deduplicated by `osm_id` alone (line 212), although a feature also has an
  `osm_type`, which is not looked at.
- *Map.* The comment at `map.tsx:374` says that the projection is set again after
  mount when its prop changes; but the timeout after any change to the style, an
  overlay's included, sets that of the first render (`TimerFires`), and if the map
  was ready already no effect puts the changed one back. The overlays' own cleanup
  raises a `styledata` event, so a style that takes longer than 100 ms finds them
  drawn on the old style and removes them for good.
  Two styles on their way may arrive in the wrong order, and the older stays; asking
  for it again then changes nothing and the map never becomes ready. This is the
  condition of `ReadyAgain`. A Map mounted without a projection has no timeout that sets
  one: a prop set later is lost if another style arrives while the map is ready, and one
  that is withdrawn stays. `ProjectionKept` speaks of a Map mounted with one. A route of
  fewer than two points keeps its old line, and a drawn cluster layer whose data becomes
  a URL, or another one, keeps its old points until it is set up again
  (`map.tsx:2015-2017`, although `map.tsx:1869` offers "URL to fetch GeoJSON from").
- *Map and page.* `map.tsx:184` has the viewport "driven by this prop"; one set while
  the map moves is dropped for good, and page and map differ until the next one. A
  marker that is dragged and put back before React has rendered stays where it was
  dropped. A MapPopup closed by a click and wanted again before a render stays
  closed. The theme of the document or the system that changes while nobody observes
  (before the first effect, or while the theme prop is given), and a class that is taken
  off the document, leave the detected theme as it was. These are the members
  of `unseen`: `"viewport"`, `"marker"`, `"popup"` and `"theme"`. Without geolocation the
  locate button waits for good, the condition of `NothingOrphaned`.
- *Not in a model.* `GET /driver/{id}/history` (api/main.go:299) is routed to the
  latest-location handler; unmounting the map while a feature is hovered asks a
  removed map for its source, outside any `try`.

## 5. What is proved

TLAPS checks every proof, for every value of the constants that the modules'
assumptions allow. These are typing and distinctness, and no more than the code
justifies: counts are natural numbers, positive where the code's are
(`BoundsAssumption`, `LimitAssumption`, `StreamAssumption`, `IngestAssumption`);
inputs have the shape of the messages (`InputsAssumption`); a request has a
sequence of points, one if it is no batch (`RequestsAssumption`); the hash gives
every key a partition (`IngestAssumption`); markers like "no timer" or "no
place" are no values (`SearchAssumption`, `StreamAssumption`, `MapAssumption`,
`ViewAssumption`); there are finitely many drivers and a TTL of at least one
tick (`NearbyAssumption`); a route too short to draw and a URL are different data
(`MapAssumption`); a zoom button goes from a viewport to a viewport
(`ViewAssumption`). The bounds of the models (`MaxLog`, `MaxInputs`, ...) are
any natural numbers.

| Module | Theorem | Statement |
|---|---|---|
| `WorkerProofs` | `TypeCorrect` | `Spec => []TypeOK` |
| | `RedisServesOnlyPersisted` | `Spec => []SourceOfTruth` |
| | `EveryMessageAccounted` | `Spec => []Accounted` |
| | `CountersAddUp` | `Spec => []MetricsBalance` |
| | `ParkedOrServed` | `Spec => []OneOutcome` |
| | `WorkerDelivers` | `Spec => Delivers`, the refinement |
| `RateLimitProofs` | `LimiterTypeCorrect` | `Spec => []TypeOK` |
| | `LimitHoldsInEveryWindow` | `Spec => []SlidingWindow` |
| | `BucketsAreIsolated` | `Spec => []RejectedForOwnBucket` |
| `LiveStreamProofs` | `StreamTypeCorrect` | `Spec => []TypeOK` |
| | `RidersReceiveInOrder` | `Spec => []InOrder` |
| | `NoEventIsSkipped` | `Spec => []NoGap` |
| `IngestProofs` | `IngestTypeCorrect` | `Spec => []TypeOK` |
| | `AcceptedIsAccounted` | `Spec => []AcceptedAccounted` |
| | `DriversAreInOrder` | `Spec => []DriverOrder` |
| | `RetriesAreOneRow` | `Spec => []RetryIsOneRow` |
| | `IngestPromises` | `Spec => Promises`, the refinement |
| | `IntakeForgetsNothing` | `Promises => []Remembered`, what it means for a client |
| `PlaceSearchProofs` | `BoxTypeCorrect` | `Spec => []TypeOK` |
| | `RestingBoxIsCurrent` | `Spec => []QuietIsCurrent` |
| | `BoxHasOneVerdict` | `Spec => []OneVerdict` |
| | `LateAnswersAreDiscarded` | `Spec => LateAnswersDiscarded`, an action property |
| `NearbyProofs` | `IndexTypeCorrect` | `Spec => []TypeOK` |
| | `AnswerIsFresh` | `Spec => []NoStaleDriver` |
| | `AnswerIsComplete` | `Spec => []NoneMissed` |
| `MapStyleProofs` | `StyleTypeCorrect` | `Spec => []TypeOK` |
| | `MountedProjectionIsKept` | `Spec => []ProjectionKept` |
| | `SourcesAreAddedOnce` | `Spec => []NeverAddsTwice` |
| | `CleanupsAreComplete` | `Spec => []NothingLeftBehind` |
| | `OverlaysAreDrawnAsAsked` | `Spec => []DrawnAsAsked` |
| | `HighlightIsUnderPointer` | `Spec => []HighlightFollowsPointer` |
| `MapViewProofs` | `ViewTypeCorrect` | `Spec => []TypeOK` |
| | `PageAndMapAgreeAtRest` | `Spec => []PageAndMapAgree` |
| | `NothingIsOrphaned` | `Spec => []NothingOrphaned` |
| | `ThemeIsDetected` | `Spec => []ThemeDetected` |

*Worker.* `TypeOK` is not inductive alone: that a row is a row of the log needs that
every goroutine has a message there. `Goroutines` says so, and `TypeInv` is both.
`CacheInv` adds that a goroutine past its insert is persisted, which is what the
three Redis actions need: they run later than the insert, and rows never go.
`OutcomeInv` adds that a goroutine which is done left an outcome. `MetricsInv`
counts: a process's goroutines, one for each read, split into undecided and decided
ones, and a step moves exactly one of them while it moves one counter; the cardinality
lemmas it rests on are stated once. `OneInv` is about messages that were read not at
all (`Untouched`) or once (`OneGoroutine`): such a message has at most one goroutine,
and its `pc` tells whether the message may be dead-lettered or served by now. A crash
or a rebalance keeps it so, and a second read is what ends it.

*Refinement of `Delivery`.* `DeliveryInv` is `OutcomeInv`, by which every message the
reader has passed left an outcome, with `Traced`, by which outcomes only name messages
of the log. A fresh message is then "waiting", or "stored" if it is a copy, and never
taken out of order. Each action of the worker is a step of `Delivery` or a stutter:
`Produce` is `Arrive`, reading is `Take` (or a stutter for what an earlier life stored
or parked), an insert that took effect is `Store` (for every copy of the event at
once, since all of them are one row), a dead letter is `Park`, one that could not be
written `GiveUp`, the end of the process `Abandon`, and the Redis calls are `Serve`.

*Rate limiter.* `SlidingWindow` speaks of any two requests of a history, the step
only knows the counter. `CounterCovers` ties them: the key outlives the window of
every request it counted and, while that window lasts, still counts at least as
much. Hence in one window no count is handed out twice (`CountsGrow`), and as a
passed request got a count in `1..limitRPS` (`VerdictFits`), the passed ones of a
window inject into that interval.

*Push path.* Riders that stop reading change nothing but `stalled`. `LiveInv` says of
each connection what its handler holds at each `pc` (`HandlerInv`), that what it
delivered and is about to write ascends and ends at its cursor, and that the events
between its start and the cursor which it does not have are gone from the stream. The
last is preserved by XREAD because the reply is the stream's oldest entries after the
cursor, cut at the end, and by trimming because the stream only loses its oldest.

*Write path.* A message says which point of which try it is, and so the properties
need to know what its handler did. `IngestInv` is the types with one invariant for
each kind of thing. `TryInv`: a handler that had its turn at `WriteMessages` left a
message of every valid point somewhere, in the log, in the writer, or among the
dropped and the lost, and nothing takes one away except into the last two.
`MessageInv`: a message is what `Stamped` makes of its point, which also gives
`RetryIsOneRow`, since two messages of one point with both keys differ in nothing the
row has. `PartitionInv`: messages are in the partition of their driver; what is
produced or in the batch comes before what is queued; and what is produced comes
before what of the batch is not. The last two are what `DriverOrder` needs of a batch
that is repeated after a failed attempt may have appended it. `AcceptedAccounted` has
no run of its own: the run checks `Promises`, which says more.

*Refinement of `Intake`.* `PromiseInv` adds `TurnsInv`, by which turns are numbered
without gap or repetition, so that `accepted` is a sequence in which a new turn
appends, and `Apart`, by which what the writer still has was neither dropped nor
lost. `WriteMessages` is `Accept`, the 202 is `Tell`, the first time a batch reaches
the log is `Publish`, giving it up and the crash are `Lose`. Everything else is a
stutter: taking a batch, repeating it, dropping it after an attempt that did reach the
log, draining and closing. `BatchIsFront` shows that a batch, without what was
published already, passes over no waiting point of its drivers.

*Search box.* `SearchInv`: only the last search can be neither aborted nor over,
and it asks for the debounced query with the options of the last render
(`CurrentInv`); without one, what is shown answers just that (`ShownInv`); a
pending timeout carries the text typed last (`TypedInv`). `LateAnswersDiscarded`
follows in one step, since an answer is used only if its search was not aborted.

*Nearby.* `SteadyInv`: a driver that was near and alive ever since the request
began is among the candidates, and among the answers once it was asked for.
`NoStaleDriver` is inductive itself, given that a live key was written less than a
TTL ago.

*Overlays.* `DrawnInv` is what makes cleanups complete: a source on the map
belongs to a live overlay and has exactly the layers of the props its effects
last ran with, all of which the cleanup takes off even if the page no longer asks
for them. An overlay that is set up was not live and so finds nothing. `HoverInv`
ties the highlight to the handler's `hoveredId`, which is what its cleanup knows.
`TypeOK` also says what can be due in which phase of the map's life. `ProjectionInv`
is `ProjectionKept` without asking that React has rendered: while no timer or event
that sets it is due, the projection is the one `Map` was mounted with, if any, or the
last render whose effects ran asked for another, or for none. `PropsInv` has the kinds of
the overlays, on which their layers and the guards of their data effects (`Synced`)
depend.

*Shared map.* `ViewInv` has one conjunct for each part. `CameraInv`: the page
knows the viewport last set, and so does the camera unless a render or its effect
is still to come or `unseen` says otherwise. `MarkerInv` is about where the effects
that are due will put the marker (`MarkerAfter`), which is where the page wants
it; without effects due that is where it is. `PopupInv` does the same for the
MapPopup, `LocateInv` counts one request per waiting button, and `MapInv` says
that there is a map just while the effects that ran last had one to show.

Only model-checked: the liveness properties, `Drained`, `EveryEventArrives`,
`NextEventFreesHandler`, `Delivered` and `Stops` of the services and `ComesToRest` and
`ReadyAgain` of the components, as `ENABLED` and fairness are out of the prover's
reach. Every safety property of every run of section 3 is a theorem.

## 6. What remains

1. *Composition.* `Ingest` and `Worker` joined at the log. Each assumes of it what the
   other provides: the worker's `Produce` appends any message, and `Ingest` appends
   valid ones, perhaps twice.
2. *More of the system.* In `LiveStream`: the connection pool that blocked reads use up.
   The sequential worker of `v2-resilience-dlq`, in which `LatestNeverRegresses`
   should hold within a life, as the contrast to `Worker`. Routing as a pure function
   of the path; the test console.
3. *Proofs.* An abstract specification of the push path, in the manner of `Delivery`
   and `Intake`.

## 7. Not modelled, and why

Authentication and the DLQ inspector keep no state. The protobuf code is
generated; `Worker` models which messages decode. The HTTP metrics, gauges and
histograms are read by nobody in the system. Page, layout and UI kit are static
markup and styling. Of the map, fullscreen, paint and label options and the
callbacks that only hand an event to the page are left out, and so is the test
console, a debugging page outside the web site. The `v3` directory is a copy.
Memory and the number of goroutines are unbounded in the code and have no property
to check. Kafka,
Cassandra and Redis are modelled by what the code can see of them, and marked
external in `PROJECT.json` where no line of the repository stands for an action.
