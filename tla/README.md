# Bus Tracker: TLA+ models, checks and proofs

Bus Tracker shows the buses of Tamil Nadu on a map. A driver's phone logs in with a
one-time code, registers a bus, picks a route and shares its position during a trip; the
public finds buses between two villages, follows one over a WebSocket and asks to be
alerted near a stop. The backend is one FastAPI process (`src/backend/Dockerfile:19`) with
a database, a key-value store and a broker (Redis, or in-memory stand-ins); the app is
Flutter.

This directory holds TLA+ modules of the parts where order, failure and time matter, the
TLC configurations that check them, and TLAPS proofs. Paths below without `src/` are
relative to `src/backend/` or `src/mobile/lib/`.

## 1. Inventory

| Component | State it keeps | Operations | Talks to | What is hard | What makes it correct |
| --- | --- | --- | --- | --- | --- |
| Trip lifecycle and ingest (`app/api/trips.py`, `app/services/tracking_service.py`) | tables `trips`, `location_points`; key `bus:{id}:pos` | start, share, end | database, store, broker, rate limiter | every `await` lets another request in; row, key and broadcast are written one after another; restarts | the public sees only what the database holds; a trip ends for good; one active trip per driver; tallies |
| Live feed (`app/api/ws.py`, `app/core/pubsub.py`) | one subscription and one queue per connection | snapshot, subscribe, forward, clean up | store, broker, passenger's phone | a publish between snapshot and subscription; full queues; dead connections | a feed never steps back; the newest message survives; what is queued reaches a phone that stays connected |
| Store and rate limiter (`app/core/redis_client.py`, `app/core/rate_limit.py`) | counters, positions, expiry times | set, get, delete, incr, expire, ttl; allow, remaining | everything | two calls where one is meant; a time to live rewritten by every call | limits hold; a waiting client is served |
| Alert worker (`app/services/alert_worker.py`, `push_service.py`) | column `triggered` | tick: look up, judge, push, commit | database, store, FCM | pushes cannot be rolled back; the bus moves during a tick | no repeats without failures, no silence without a push |
| OTP login and tokens (`app/services/otp_service.py`, `app/api/auth.py`, `app/core/security.py`) | `otp_codes`, `drivers` | request, verify, refresh | rate limiter, SMS | read-modify-write of `attempts`, codes that overlap | a code logs in once; bounded guesses |
| Bus registration and verification (`app/api/driver.py`, `app/api/admin.py`) | `buses`, `routes.verified` | register, assign route, approve, reject, verify | database | check-then-insert; normalisation after the check | one bus per registration number |
| Route building (`app/services/route_service.py`, `geo.py`) | `routes`, `route_stops` | find or build | OSRM, database | an HTTP call between the look-up and the insert | one route per pair; stops in order |
| ETA (`app/services/eta_service.py`) | cached answers | compute, read | store, database | a cached answer outlives its position | what is shown in the end belongs to the route and the position |
| Route search, favourites, alerts (`app/api/public.py`, `search_service.py`) | `favorites`, `alert_subscriptions` | search, save, delete, subscribe | database | stops of a road that turns back; an unconditional "already saved" | what is found is travelled in that direction; a saved favourite is there |
| Village pipeline (`app/services/village_pipeline.py`, `scripts/ingest_*.py`) | `villages` | parse, deduplicate, upsert | files, database | merging depends on the order of sources | ingestion is idempotent |
| Schema and migrations (`migrations/`, `scripts/migrate.py`) | schema, ledger of migrations | apply | database | a failure in the middle; two runners | each migration once |
| Demo bus (`scripts/run_demo_bus.py`) | one bus, one trip | drive, end a stale trip | database, tracking service | ends a trip behind the service's back | as for trips |
| Driver's phone (`features/driver/services/location_tracker.dart`, `core/storage/app_storage.dart`, `driver_controller.dart`) | timer, trip, offline buffer | tick, start, stop, flush; load, start and end a trip | backend over HTTP, GPS | overlapping async calls; timeouts; death of the app | no fix is lost; tracking goes on; the driver sees what is tracked |
| Passenger's phone (`features/public/...`, `core/websocket/bus_ws_client.dart`) | bus on the screen, socket, timer | open, connect, reconnect, reload, search | backend over HTTP and WebSocket | answers and messages in any order | the screen converges to the truth |
| Shell and user interface (`main.py`, `config.py`, widgets, strings) | settings | wiring, layout | - | nothing of its own | - |

Interaction: the phone calls the trip endpoints; ingest writes the database, then the
position key, then the channel of the bus; WebSocket handlers read the key and the channel;
the alert worker polls the key; the rate limiter counts in the same store. All of it runs as
asyncio tasks of one process, so code between two awaits is atomic and everything else
interleaves. The demo bus runs as one more task of that process; migrations and the village
scripts are processes of their own that meet the server in the database only. The full list
of hazards, each at its line, is in `PROJECT.json`.

## 2. Modules

| Module | Models |
| --- | --- |
| `TripData` | the values shared by the next two: positions, messages, missing rows |
| `TripLedger` | the abstract promise of trip tracking |
| `TripTracking` | the request handlers of the trip endpoints, one action per stretch between two awaits; implements `TripLedger` |
| `TripTracking_proofs` | its proofs: what holds under any race, what holds of drivers who wait, and of the in-memory store |
| `WatchFeed`, `WatchFeed_proofs` | one bus and one passenger: broker, WebSocket handlers, map screen; its proofs |
| `AlertWorker`, `AlertWorker_proofs` | the alert worker, the push sender and a moving bus; its proofs |
| `LocationTracker`, `LocationTracker_proofs` | ticks, starts, stops and flushes of the driver's phone, with the little of the server they see; its proofs |
| `RateLimit` | `RateLimiter.allow` and `remaining` on one key of either store, in discrete time |
| `OtpLogin` | requests, verifications and expiry of the one-time codes of one phone number |
| `Login_proofs` | proofs about `RateLimit` and `OtpLogin` |
| `BusPlates`, `BusRegistry` | number plates; buses as drivers register and the administrator judges them |
| `RouteGeometry` | `geo.py` on a straight road that may be driven back: projection, length, point at a fraction |
| `RouteRegistry` | how routes are built, verified and found; remaining distance and next stop |
| `EtaCache` | the detail of a bus with the cached arrival time in it |
| `VillagePipeline` | extract, parse, enrich, merge, gate and upsert of one district |
| `PassengerSearch`, `PassengerSearch_proofs` | the controller behind the passenger's search screens, and its favourites; its proofs |
| `DemoBus` | the loop of the demo bus, its stale trip, and the anomaly check of ingest |
| `Road_proofs` | proofs about `RouteGeometry` and, from them, about `RouteRegistry` and `DemoBus` |
| `Migration` | the runner of migrations |
| `Database_proofs` | proofs about the tables: `BusRegistry`, `Migration` and `VillagePipeline` |
| `MC*` | instances for TLC; `MCServices` puts nine of the smaller modules into one run |

Each module has a short section "Faulty variants": the operators with which one of the
model's operators is replaced to see that a property really depends on it. The model itself
never uses them.

### TripTracking

`trips`, `recorded`, `busRoute` are the database, `live` the keys `bus:{id}:pos`, `feed` all
that was ever published, `h[w]` the task in slot `w`: where it waits and what it has read.
`StartLoad`, `StartChecked`/`StartRefused`, `StartInsert` are the three stretches of
`start_trip` (`app/api/trips.py:27-49`). `ShareLoad`, `InsertPoint`, then `SetLive` and
`PublishFix` are `share_location` and `ingest`; with the in-memory store and broker the last
two are one step, `ShowFix`, because nothing in them suspends the task. `EndLoad`,
`CommitEnd`, `DeleteLive`, `PublishEnded` (or `ShowEnded`) are `end_trip`. `TaskFails` is an
exception at an await, `Restart` a restart of the process, which also empties the in-memory
store. `ExpireLive` is the time to live of the position key. The UPDATE of SQLAlchemy names
only changed columns, so a late `ingest` writes `total_points` and not `status`.

Coordinates and the anomaly flag are left out because no step depends on them (`DemoBus` has
them); the rate limiter's answer and the refusal of coordinates are the choice `ShareRefused`.

### WatchFeed

Messages are numbers; `live`, `pending`, `newest` are what is in the store, in the task of
the reporting bus, and published last. `conn[c]` is one run of `ws_bus_stream`: read the
snapshot, send it, subscribe, forward. With the in-memory broker the handler subscribes in
the stretch that ends its send. A handler whose phone is gone lives until it next sends.
`screen` is the position on the map screen; `detail` the request that `_loadDetail` makes and
whose answer replaces the whole bus (`bus_map_screen.dart:113`). `Connect` includes the timer of
the screen and its delays (`bus_map_screen.dart:74-86`), which nothing tells apart from a slow
connection. A connection that is lost without either side noticing is not modelled. `store` says
which store and broker were chosen; it never changes.

### AlertWorker

`tick` is the tick in progress with the marks its session holds (`mark`), the cached position
(`cache`) and the subscription a push is under way for (`sub`). A position is a place; `Near[s]`
are the places within the radius of `s`. Three ghost variables record what the passenger
experiences: `away`, `told`, `heard`.

### LocationTracker

`tick[k]` is one run of `_tick`, `call[c]` one run of `loadActiveTrip`, `startTrip` or
`endTrip`, suspended where the Dart code awaits. `stop()` cancels the timer but not a tick in
flight, and every tick re-arms the timer when it ends (`location_tracker.dart:91-95`). The timeout
of a request takes nothing back (`core/api_client.dart:68-81`): whatever the server had not seen by
then may still arrive, a fix (`late`), a start (`lateStarts`) or an end (`lateEnds`), also after the
app was killed. `calm`, which never changes, says whether the driver waits: calls that overlap
break promises that hold otherwise. `gone` is a ghost: fixes that died with the app or were the
oldest of a full buffer.

An end that arrives late may end the trip that the phone took up again meanwhile. The next
`loadActiveTrip` then shows no trip while the tracker goes on (`driver_controller.dart:46-49`); the
server refuses its fixes, and it stops with the next trip. `TrackedTripIsShown` is therefore about
the trip of which the server takes positions.

### RateLimit

`count` and `left` are the key and its time to live; `h[w]` tells whether a worker stands
between `incr` and `expire`. `MemoryStore.incr` rewrites the counter with `ex=10` on each call
(`app/core/redis_client.py:94`), which `IncrTTL` stands for. `taken` and `quiet` are ghosts: the
ages of the requests let through, as long as a window, and the time since the last answer.

### OtpLogin

`otp` is the table for one number, `driver` its row in `drivers`, `otpTask[w]` a suspended request
with what it has read. `RequestCode`, `LookUpDriver`, `AddDriver`, `Send` are `request_code`: the
code is committed before the driver exists, and a failure in between leaves it unsent.
`Verify` is the loop over unconsumed codes (`app/services/otp_service.py:55-74`), `Miss` the
write of `attempts` from the value that was read, `Sweep` and `LogIn` the UPDATE of the other
codes and the commit. `guesses` and `logins` are ghosts. The endpoint looks the driver up once
more after `verify_code`; `LogIn` includes that.

### BusRegistry

`CheckPlate` compares with the plate as typed, `RegisterBus` inserts the canonical form
(`Canonical`, for `strip().upper()`) under the unique constraint. `Load` and `Judge` are an approval or a
rejection around its await; only columns that changed are written (`Written`). A rejection takes
its reason from the request, which may say `null` (`app/api/admin.py:74`): `Reasons`.

### RouteGeometry and RouteRegistry

A place is a position along a road and a distance beside it; a polyline is the positions it visits
in order, and may turn back. `Along` is `project_point_on_polyline`, `PointAt` is
`point_at_fraction`, both over `Cumulative`. Progress is a distance instead of a fraction, which
keeps everything in the integers. `build[w]` is a request of a driver: `Build`, `Fetch`,
`FetchFails`, `Insert` are `build_route` around its HTTP call: reuse of a pair, one server after the
other, the stops within the threshold sorted by progress. `Polyline` asks for the road from the end
to the start, as the code does (`app/services/route_service.py:77`). `Connects` is the predicate of
`find_routes_for_pair`, `DistanceLeft` and `NextStop` that of `compute_eta`, for which a stop less
than a thousandth of the road ahead is reached (`app/services/eta_service.py:99`): that is `Grain`,
1000 in the code.

### EtaCache

`LoadBus`, `GetLive`, `GetCached`, `SetCached` are the awaits of `bus_detail`, with the cache of
`compute_eta`; drivers change `route` and `live` in between. An arrival time is the route and
position it was computed from. `EtaFails` is the blanket `except` ("ETA is best-effort"). The map
screen asks for the detail once, when it opens, and keeps the arrival time it was given then
(`bus_map_screen.dart:59,100`). The model is of what the server answers, to whoever asks.

### VillagePipeline

The scripts are sequential, so each run is one action; what is hard is the data. `Parsed`,
`Enriched`, `WithPlaces`, `Merged`, `Blocks`, `UpsertOne` are the functions of `village_pipeline.py`
over sequences of records, written with folds. `BuildExtract` chooses any extract that OpenStreetMap
could give, one place a name; `IngestCensus` and `IngestOsmOnly(checked)` are the two scripts. The
second is given expected counts, from the whole fixture, or none
(`scripts/ingest_villages.py:180-206`); without them its gate blocks nothing, and its rows are all
in one taluk, "Unknown" (`Blank`). `result` is the script that ran last, whether it had counts, and
whether it loaded. A place lies on a line, and a centroid is a sum and a count. `ParseOne`,
`MergeOne` and `UpsertOne` are what the loops do with one record; `villageTable` is table
`villages`, `Blank` what a record does not have. `CensusAssumption` says what the parser and the
data give: a row without a block is skipped, and every row of the official list, which is not in the
repository, has its village code ("`census_code` is part of the `villages` identity",
`src/README.md:177`). A row without one would be folded with all such rows of its block. An extract
has one place a name, and the enrichment looks places up by slug: in the model these are the same,
so that the branch of `Enriched` for several matches is there and never taken. No property is about
it.

### PassengerSearch

`call[c]` is a request of `PublicController` in flight, `loading` the flags it shows, `selected`,
`villages`, `results`, `error`, `favorites` the fields the screens read; a list of villages or of
results is kept as the district it was asked for. Answers arrive in any order. `SelectDistrict`
waits for nobody: the district is chosen by hand, from storage or by the GPS, whenever that answers.
`form` tells a search of the form from one with a favourite, which opens the results screen even
if it failed; `open` counts those screens and `opened` says that home has loaded the favourites.
`waits`, which never changes, says whether the passenger removes one favourite after the other. Two
ghosts: `overtaken`, the last selection came while an answer for another district was awaited, and
`missed`, favourites whose removal the phone did not hear to its end.

### DemoBus

`Start`, `Ping`, `RunsOffTheEnd` are the loop; `Segment` and `Position` its own walk along the
polyline, which `point_at_fraction` also computes. `now` is the time of the server and `clock`
the time the fixes carry, which runs ahead. `Anomalous` is the check of `ingest`
(`app/services/tracking_service.py`).

### Migration

A run, dry or not, reads the ledger once (`ReadLedger`) and then applies file after file, each with
its line of the ledger in one transaction (`Begin`, `Commit`); `Ends` is an error, a kill or the end.
What it has read is stale as soon as another run commits. `applied` is the sequence of the files
whose statements took effect. `Release` brings a file of any name, or only of later names
(`numbered`). That a transaction takes effect as a whole is PostgreSQL's, and so is the wait of
the second of two transactions that insert one key.

### MCServices

The services beside the live position meet in no variable of their models. `MCServices` gives
each of them its small instance and lets `part` choose which one moves in a behaviour; the others
wait in an initial state. The state space is the sum of those of the parts, not their product.

## 3. Runs

| Run | Instance | Shows |
| --- | --- | --- |
| `races` | 1 bus, 2 trips, 2 fixes a trip, 2 handlers, Redis, failures | everything public is backed by the database (`LiveIsStored`, `FeedIsTrue`); tallies never too high; ended trips stay ended; `TripLedger` is implemented |
| `patient` | 2 drivers, 3 buses, failures, each driver waits for each answer | one active trip per driver, fixes in order before a terminal end message (`FeedInOrder`), an end that hides no running trip |
| `memory` | in-memory store and broker, 2 trips, failures, fairness | snapshot and stream never contradict each other; the position of an ended trip leaves the map for good |
| `two_starts` | two racing starts | **violated**: two active trips for one driver |
| `feed` | either broker, 2 messages, queues of 1, 2 handlers, fairness | the feed never goes back, the newest message survives a full queue, queued messages reach a phone that stays connected |
| `missed_end` | Redis, 2 messages, no failures, fairness | **violated**: the end of a trip falls between snapshot and subscription |
| `alerts` | 2 subscriptions with different radii, 2 failures, stale and anomalous positions | repeats only after failures, no silence without a push, a near bus is reported, an absent one re-arms |
| `phone` | calm: 2 trips, 3 fixes, buffer of 2, 2 failures; busy: overlapping calls and ticks, 1 trip, 1 fix, 1 failure; late requests of every kind; fairness | calm: no fix is lost unaccounted for, extra copies need failures, the server takes positions only of the trip shown; either way the tracker goes on asking the GPS |
| `phone_overwritten` | overlapping flush and tick | **violated**: a buffered fix is overwritten |
| `services` | nine parts, below; fairness for `eta` | below |
| `wrong_way` | 4 villages, a road drawn by OSRM, 2 builds | **violated**: the search finds stops against the direction of travel |
| `town_twice` | 2 taluks, 5 places, changing extracts | **violated**: a town gets a row in a second taluk |

The parts of `services`:

| Part | Instance | Properties |
| --- | --- | --- |
| limit | either store, limit 2, window 4, ten seconds scaled to 2, 3 workers | `LimitIsKept`: never more than twice the limit in a window with Redis, `remaining` does not lie; `PatientIsServed`: a client that waits is served again |
| otp | 2 codes of 2 attempts, 2 requests at a time | `CodesAreSound`: a code logs in once, uses up older ones, and belongs to a driver; `GuessesBounded`: wrong guesses are bounded even when the counter goes back |
| buses | one plate typed in two ways, another plate, 2 requests | `BusesAreSound`: one row a bus, a reason only if rejected, unless verdicts overlap |
| routes | 4 villages on a road that may turn back, both directions, OSRM or fallback, 2 requests | `RoutesAreSound`: one route a pair unless builds overlap, stops in order and where the polyline first passes; `SearchFollowsPolyline`: what is found is passed in that order; `ArrivalComesNearer`: the next stop lies ahead and passes over none but those reached or within the tolerance |
| villages | 6 census rows in 2 taluks, 3 places, any extract after any other, either script, with and without counts | `VillagesAreKept`: the gate opens for the census; what was checked, and what has anything in a taluk of the census, has every village, once; `RerunsKeepRows`: a rerun changes nothing, coordinates stay |
| eta | 2 routes, 2 positions, 2 requests, fairness | `ArrivalTimesFade`: of a bus that stands still, or has no trip, whoever asks is in the end told its own arrival time or none |
| search | 2 districts, 1 pair, 2 favourites, 2 requests in flight | `ScreenIsSound`: no spinner without a request, lists of the district selected unless the selection overtook an answer, a removed favourite goes |
| demo | a straight road and one that turns back, 3 trips, 14 pings | `DemoIsSound`: one active trip, walk and `point_at_fraction` agree, only the first fix of a lap is flagged |
| migrate | 3 files, 2 runs, new files at any time | `SchemaIsAPrefix`: each migration once, on top of all earlier and of no later ones, if releases are numbered upwards |

`TypesOK` is the types of all parts. `NewestIsNeverDropped` and `CalmTrailIsKept` carry the type
invariants of `WatchFeed` and `LocationTracker`, which hold the bounds of queue and buffer.

### Bounds, and why they are enough

- Two handlers, two trips: every property of `TripTracking` relates two tasks, or a task and
  the state another has left; two trips let a slow task meet the next trip of its bus. Two
  fixes a trip let updates of `total_points` be lost. `patient` has three buses so that "per
  driver" and "per bus" differ. `MaxPoints` and `TripIds` only stop requests from being sent;
  the proofs need neither bound.
- Two messages overflow a queue of one; two handlers are the old and the new connection of
  one phone. `DetailFails`, `PublishFails` and `HandlerFails` are unbounded.
- `MaxFailures` bounds failing ticks and pushes; the property counts them, so two show that
  each adds at most one. The proof is for any number.
- One worker can stand between `incr` and `expire`, the one that created the key, while two others
  count; five counted requests exceed twice the limit. The window is longer than `IncrTTL`, as for
  OTP requests (600 s and 10 s).
- Three fixes exceed a buffer of two; two trips put fixes of another trip into the buffer. With
  overlapping calls (`TripBound`, `FixBound` and `FailureBound` are by mood) the question is whether
  the timer survives, for which one trip, one fix and one failure are enough.
- Two codes are an older and a newer one; two attempts let the counter go back by one or both. The
  guesses are not cut off below what the bound of `GuessesBounded` allows: `MaxGuesses` is one more.
- Two racing requests are enough for a check followed by an insert; a third would meet a row that is
  there. Two rows of buses are one bus registered twice, or two.
- Two servers: one that fails and one that answers. A detour before all villages makes a
  road that turns back, one between them a road that runs straight; one village lies beside the road,
  within the threshold. `Grain` is 4, so that on roads this short a stop falls within the tolerance.
  `MaxRoutes` equals the bound that the property gives for builds that overlap, so there the run
  shows only builds that wait; the theorem has no such bound.
- Census rows: habitations of one village, two villages of one name and taluk, one name in
  two taluks. Places in `services`: one name twice (so that an extract may have either), and a
  curated town that is near enough to only one of the two. `town_twice` has five places. Runs of
  the scripts are unbounded, and the proofs are for any places.
- Two positions and two routes: what is cached is of this or of another.
- Two requests of the passenger's phone: an answer and the one it overtakes. One pair saved, removed
  and saved again gives two favourites; `saved` is bounded, screens and requests are not.
- `MaxTime` is longer than two laps on the longer road; restarts may fall anywhere and skip time.
- Three files: one before, at and after the file two runs race for. Runs are unbounded.

### Fairness

A task of the event loop whose await returns is run: weak fairness of `TaskStep`, of each
handler's step in `WatchFeed`, of the worker's steps, of `Step` in `EtaCache`, of timers and of
`CallStep` on the phone (requests end after at most 15 seconds, `core/api_client.dart:70`). Keys
expire. In `EtaCache` only requests that were made are served: nothing obliges a passenger to ask
(`LoadBus`), since the map screen asks once. `Connect` is fair because the screen retries by a timer.
No fairness is given to drivers, failures or the movement of a bus, none to the GPS, which has no
time limit in the code, none to late requests, which may be lost, and none to a handler that would
send to a lost phone other than through the exception it then raises.

## 4. Disagreements between the code and what it says

Shown by runs:

- `two_starts`: `start_trip` checks and inserts with awaits in between, without lock or unique
  index. "An active trip is already running for this driver" (`app/api/trips.py:43`).
- `missed_end`: a passenger may never hear of the end. "Broadcast a terminal message so watchers
  switch to 'trip ended'" (`app/services/tracking_service.py:183`).
- `phone_overwritten`: a flush replaces the buffer by what it read before. "so a dead spot never
  loses the trail" (`location_tracker.dart:29-31`).
- `wrong_way`: OSRM is asked for the road from the end to the start, while the first stop is the
  start. "A route is only returned when travel is possible in the correct direction"
  (`app/services/search_service.py:61`).
- `town_twice`: the taluk of a town is the nearest centroid of what has coordinates, and a row is
  known by its taluk, so another extract gives the town a second row. "A re-run upgrades coordinates
  and town classification without duplicating rows" (`src/README.md:211-213`).

Met while modelling, and contained in the models without a run of their own:

- A fix in flight when its trip ends is still stored and broadcast (`app/api/trips.py:76`), after
  the message called terminal. `FeedInOrder` holds only for drivers who wait.
- A fix published between snapshot and subscription is never pushed, although the client says
  "then pushes every new fix" (`core/websocket/bus_ws_client.dart:11`).
- A silent bus stays "Live now" on an open screen (`bus_map_screen.dart:275`): the flag `stale` is
  computed when the message is built. `src/README.md:81` calls a position stale after
  `STALE_AFTER_SECONDS`.
- "Each approach produces exactly one notification" (`app/services/alert_worker.py:6-7`): a tick
  that fails after a push repeats it, an approach between two polls is missed, and anomalous
  positions count (line 109), "never treated as definitive" notwithstanding
  (`app/services/tracking_service.py:138`).
- "Sliding-window rate limiter" (`app/core/rate_limit.py:1`): the window is fixed, hence twice the
  limit. A worker that dies between `incr` and `expire` (lines 16-18) leaves a counter for ever
  in Redis. `MemoryStore.incr` changes every window to ten seconds.
- "Flushed on the next tick" (`location_tracker.dart:29-31`): ticks never flush, only starts do.
- "Only approved buses appear in public search, and only approved buses may be assigned a route"
  (`docs/ADMIN.md:61-62`), and a trip needs an active route: no handler asks for either.
- A code whose attempts are used up is passed over, and the next older one is tried; two slow
  guesses take `attempts` back. `GuessesBounded` says by how much.
- "Nothing is flagged anomalous" (`scripts/run_demo_bus.py`): the jump from the end of a lap to its
  start is. A ping that falls on the last metre runs off the end of the list and ends the task.
- "An OSM-only run **blocks publishing** on any taluk it under-covers" (`src/README.md:239-240`): it
  does so only if it is given expected counts, which are optional
  (`scripts/ingest_villages.py:180-206`). Without them it publishes an extract that has no village
  of the census. `VillagesAreKept` says what holds nevertheless.
- "The rejection reason is stored and shown to the driver" (`docs/ADMIN.md:62`): a rejection whose
  reason is `null` stores none (`app/api/admin.py:74`).

One more is only partly in the models, which keep the district of a result and not its pair: Retry
on the results screen, "routes between the chosen villages, with live buses"
(`route_results_screen.dart:14`), reloads the districts (line 31) and takes the error away; what is
shown then are the results there were before (`public_controller.dart:75,111-118`).

## 5. Proofs

Every theorem is for all values of the constants under the module's own assumption, which says
what the code's settings are (numbers, a non-empty fleet, a pace below the anomaly limit); the
bounds of the runs play no part. `PROJECT.json` lists the theorems with the property of a run
that each states. A theorem that needs more than the module's assumption says so in its statement.

**`TripTracking_proofs`, any race.** For any fleet, any number of handlers and trips, either store
and with or without failures: `TypeOK`, `TasksAreBacked`, `LiveIsStored`, `FeedIsTrue`,
`TallyNeverTooHigh`, `EndedForGood`, and that `TripTracking` implements `TripLedger`. The
properties about what left a task (`LiveIsStored`, `FeedIsTrue`) are not inductive: a task about to
write must be right already. The inductive invariant `IInv` adds `TasksAreBacked`, what a suspended
task carries, and that is kept because no step undoes what it relies on: rows only move from active
to ended and `recorded` only grows (`Writers`, `StepGrows`, `OthersStayBacked`). The refinement
needs `IInv` for the same reason: the position set by `SetLive` must be a fix the ledger has
recorded.

**`TripTracking_proofs`, fewer races.** `OneActiveTrip`, `FeedStaysInOrder` and `EndHidesNoTrip`
assume `OneRequestAtATime`, a driver whose phone waits for each answer; without it the run
`two_starts` refutes the first. `PatientInv` has one task per driver, and therefore a task whose
trip is still what it was when the task read it (`TasksAreCurrent`): active while it is shared or
ended, and none at all for the driver of a task that is about to insert one. `FixesAreNewer` says
that a fix on its way to the broker is newer than those of its trip that were broadcast, which is
what makes the order of the feed inductive. `SnapshotAgreesWithStream` assumes `~SharedStore`: the
in-memory store and broker do not suspend, so that no task stands between the two writes
(`NoneInBetween`).

**`WatchFeed_proofs`.** `NewestIsKept` and `FeedGoesForward`, with either broker, any queue and any
failures. A message overtakes another only if somebody holds an older one for later, so `FeedInv`
says who may hold what: store and pending broadcast are the last message or none
(`StoreIsLatest`), queues are ordered and only subscribers have any (`QueuesAreOrdered`), and what
the phone's own handler has yet to send is no older than anything any handler has sent
(`LinkIsAhead`).

**`AlertWorker_proofs`.** `TypeOK`, `RepeatsNeedFailures` and `TriggeredWasTold` for any
subscriptions, places, radii and number of failures. `told[s] <= 1 + failures` is not inductive:
nothing in it says that a tick working with an old position will not push again. `SilentWhenSpent`
does: once the pushes for `s` are spent, either the subscription is marked, or the bus is away and
the tick has not seen it inside. It rests on `SideIsKnown` (what `away` says of the live position)
and `SendsInside` (a push under way is for a bus seen inside).

**`LocationTracker_proofs`.** `TheTrackedTripIsShown`, `TheCalmTrailIsKept` and
`CopiesNeedFailures`, for any number of ticks, calls, trips and fixes and any buffer. Their
properties are about a driver whose calls do not overlap (`calm`, which is part of the properties;
`phone_overwritten` shows what is lost otherwise). `CalmInv` says why that is enough, although
starts and ends that timed out may take effect at any time: one call at a time, no tick while a
start flushes, and a phone that agrees with the server about the trip for as long as the server
has it (`TripsAgree`). No trip that is over becomes active again, so a late request can only make
the phone's trip one whose fixes are refused. `TrailInv` adds that a flush has every unstored fix of the buffer in its hands. The bound on copies
needs the most: no fix is held twice (`OnceInv`), and whatever may still store a fix once more,
held or late, is counted now (`CopyInv`), so that only a failure can add to the sum.

**`Login_proofs`.** `LimitAlwaysKept` and `PatientClientIsServed` for any limit, window and number
of workers: only the worker that created the key is about to give it a time to live
(`OneGivesTime`), what has been taken lies in two lives of the key (`TwoKeysPerWindow`), and a key
has aged for as long as nobody asked (`KeyGoesQuietly`). `CodesStaySound` for any number of codes,
attempts and requests: the logins of a code and the tasks that still hold it are together never more
than there are tasks, because nobody finds a code that was used (`LoginsAreCounted`); if requests
wait there is one at most. `GuessesRunOut` bounds wrong guesses. `verify_code` reads the counter
before an await and writes it after, so that a slow guess takes the counter back; `RaceInv` bounds
the guesses by what either of two requests may still try from the count it has seen, and for that
the theorem assumes `TwoTasks`. For requests that wait it is the cap itself (`TurnsInv`).

**`Database_proofs`.** `BusesStaySound` for any plates with a canonical form (taking it twice changes
nothing), any number of buses and of requests. Neither part of `BusesAreSound` is inductive. One
row a bus needs that stored plates are canonical (`PlatesAreCanonical`), because the constraint
compares what is stored. That a reason belongs to a rejection needs, when requests wait for one
another, that there is one task at most and that the row it has loaded is still the row
(`AtMostOneTask`, `LoadedIsCurrent`): `Written` leaves a column alone that did not change.

`SchemaStaysAPrefix` for any files and any number of racing runs. `LedgerInv` has what makes it
inductive: the ledger names what was applied (`LedgerIsApplied`), no run knows more of it than
there is, an open transaction is of the first file its run still lacks (`RunsAreTrue`), and nothing
is passed over (`NothingIsPassedOver`): what comes before a file that is applied is applied, and
what comes before a file that a run has still to come is so too, or is still to come itself. That
survives a run that read an old ledger, because such a run stops at the first line it cannot insert.

**`PassengerSearch_proofs`.** `ScreenStaysSound` for any districts, pairs, favourites and requests,
whichever overlap, fail or are late, and whoever selects a district. A flag is set with a request
and cleared with one of the same list; that the flag of a list with two requests is cleared by the
first is why the property is about a spinner without a request and not about the converse. Lists fit
the district because, unless the last selection overtook an answer for another district, every
request in flight is for the one selected (`RequestsFit`); `overtaken` is forgotten only with the
next selection, which empties both lists. For who removes one favourite after the other there is one
request about favourites at a time (`OneAtATime`), and a favourite gone from the table is shown only
while the answer is on its way or was missed (`FavoritesAreAccounted`).

**`Road_proofs`** rests on geometry, proved for every polyline, also one that turns back. From the
recursive definition of `cumulative`: lengths grow (`CumulativeGrows`), no way is shorter than the
direct one (`NoShortCuts`), points of the road are no further apart than the metres between them
(`RoadIsContinuous`), so that a point on two segments that meet in a vertex is one point. From the
loop of `project_point_on_polyline`: it finds the nearest segment, and of those the first
(`BestIsFound`), so that a projection is the first passing of the nearest point
(`AlongIsFirst`, `ProjectionIsFirstPassing`). For a road that never turns back the projection of a
point `d` metres along is `d` (`StraightProjection`). Induction is by least counterexample
(`SmallestExists`), as in `Login_proofs`.

`DemoStaysSound` for any road and any restarts. `FixIsBehind`: within a lap the last fix is one
ping behind in metres and in time, whatever an earlier task left; the loop and `point_at_fraction`
may mean different segments at a vertex and never different points (`WalkIsPointAt`).

`RoutesStaySound`, `SearchAlwaysFollows`, `ArrivalAlwaysNearer` and `RoutesTyped` for any villages,
requests, detours and overlapping builds; assumed is that villages and requests are finitely many
and lie at integers (`RouteAssumption`). None of the four is inductive. `RouteInv` adds what a row
and a build in flight are made of: a road of the pair (`RowsAreBuilt`, `BuildsAreSound`), stops with
the progress of their projection, the ends apart; and it counts rows and builds of a pair together
(`FewOfEachPair`), since a build finds no row only before its first await. That `ByProgress`, a
choice, has something to choose, is `OrderExists`, again by least counterexample.
`ArrivalAlwaysNearer` is for any `Grain`: a stop once within the tolerance stays within it as the
bus drives on, so that the next stop is never an earlier one. The search compares two numbers; that
the comparison says something about the road is `FirstPassingsDecide`: if the first passing of one
village is before that of another, some passing is, and if no passing of the second is before one of
the first, that order is the only one.

**`Database_proofs`, the villages.** `VillagesStayKept`, `RerunsAlwaysKeepRows` and `VillagesTyped`
for any census file under `CensusAssumption`, any places, curated towns, distance and order of the
scripts, with and without expected counts. The pipeline is three loops over sequences, written as
folds. `FoldExists` gives the function a fold chooses, `ParseWalk`, `MergeWalk` and `UpsertWalk` the
tables it goes through one after the other, and `StepByStep` (least counterexample) what is kept
from each to the next:

- the reading of the file has every village once (`IsReading`, `ParsedIs`), and what enrichment and
  towns do to it leaves villages first, and joins only names that the file does not have
  (`EnrichedIs`, `Joins`, `CensusRecsAre`);
- the merge loses, invents and doubles nothing, provided records of one name have codes that differ
  (`Keyed`): `Collects` is what the dict holds after `k` records, under keys of two or of three
  parts, and `MergedIs` that its values are the records in another order (`Shuffles`);
- the upsert leaves every row in its place, with its name and with coordinates if it had some, keeps
  rows apart, and ends with a row for every record (`UpsertAll`); of a record that the table holds it
  makes nothing (`UpsertIdles`).

A merge that has every village clears the gate, by an injection from the villages of a block into
its records (`CensusClearsTheGate`), and the places alone never do if there is a census at all
(`TownsAloneDoNot`). None of the properties is inductive: `VillageInv` adds that what has a code is
a village of the file, so that a row found by its code has the right name (`FromCensus`,
`VillagesByCode`), that coordinates are those of a place of that name (`AtPlaces`), and, after an
ingest of the census, that the table holds what the next one would merge. What an unchecked ingest
publishes lies in no taluk of the census, which is why it neither completes a table nor spoils one:
a table has every village after an ingest that was given counts and has loaded, and for good once it
has anything in a taluk of the census. `VillagesTyped` is `VillageTypeOK`, a part of `TypesOK`. That
a town is in one taluk only is no theorem: `town_twice` refutes it.

**Only model-checked.** All liveness, which is out of the prover's reach, like ENABLED:
`EndedTripLeavesMap`, `QueuedIsSent`, `NearBusIsReported`, `AwayBusRearms`, `KeepsTracking`,
`ArrivalTimesFade`. Of the invariants `TypesOK`, the types of the parts of `services`: those of
`RouteRegistry` and `VillagePipeline` are `RoutesTyped` and `VillagesTyped`, those of `RateLimit`,
`OtpLogin` and `BusRegistry` are part of the inductive invariants above, and of `PassengerSearch`
what its proof needs (`CallsAreTyped`).

## 6. Not modelled

- Tokens and their refresh: signed, and no state of the server; the phone keeps one and asks nothing
  else of it.
- The sphere and its floating point in `geo.py`, the median speed behind an arrival time.
- The seeding of districts and of the demo rows: find-or-create by one process, without a rival.
- The wording of names in the pipeline, and fields that only describe a village.
- `loadBuses` and `registerBus` of the driver's app, its foreground service and settings.
- Route geometry, trail and camera of the map screen; shell, settings, widgets: no behaviour
  of their own.
- A connection lost without either side noticing, and the reconnection that then never comes.
- The arrival time that an open map screen keeps: it is the one of the moment it opened, however
  the bus goes on. No line of the documentation says otherwise.
- An answer for a district that was deselected meanwhile is shown under the new one, until the next
  answer: the model does so, and `ScreenIsSound` exempts it (`overtaken`). Which letters a list of
  villages was asked for, and which pair a list of results, is not kept; an older answer may replace
  a newer one.
- Timestamps of fixes: a buffered fix that is older than the live one is not told apart, because no
  code compares them; the length of the tracker's interval.

## 7. Plan

Done: trip tracking and its refinement, the feed, the alert worker, the phones, and the services
around them; proofs of every safety property that a run checks, but for the types of `EtaCache`.

Left:

1. `EtaCache`: how old a shown arrival time may be, which needs a clock; its one property is liveness.
2. The corners of Section 4 that have no run of their own; for Retry, the pair of a result.
3. The age of a fix, and of the arrival time on an open screen: a model in which the server and the
   map tell old from new.
